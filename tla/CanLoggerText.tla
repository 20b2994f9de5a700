---------------------------- MODULE CanLoggerText ----------------------------
(***************************************************************************)
(* What the logger prints and what its client shows: Printf cuts a message *)
(* to its buffer, Print sends it in frames filled up with null bytes, and  *)
(* tools/can_logger.py shows what it has gathered at each null byte.  A    *)
(* character is the number of the message it belongs to, and no frame is   *)
(* lost here: CanSend says when one is.                                    *)
(***************************************************************************)
EXTENDS Integers, Sequences, FiniteSets, SequencesExt

CONSTANTS
  FrameSize,    \* 8
  MaxLength,    \* characters of a message: LOG_BUF_SIZE - 1
  Messages      \* bound: calls of Printf that print

ASSUME TextAssumption ==
  FrameSize \in Nat \ {0} /\ MaxLength \in Nat \ {0} /\ Messages \in Nat

VARIABLES
  logging,      \* set and cleared by control frames at any time
  printed,      \* length of each message printed
  rest,         \* msg: what Print has not yet sent
  buf, shown    \* the client: bytes gathered, texts shown

textVars == <<logging, printed, rest, buf, shown>>

Null == 0
Lower(a, b) == IF a < b THEN a ELSE b

TextInit == logging = FALSE /\ printed = <<>> /\ rest = <<>> /\ buf = <<>> /\ shown = <<>>

-----------------------------------------------------------------------------
ControlFrame ==
  /\ logging' \in BOOLEAN
  /\ UNCHANGED <<printed, rest, buf, shown>>

Text(length) == [i \in 1 .. length |-> Len(printed) + 1]

Printf(length) ==
  /\ logging /\ rest = <<>> /\ Len(printed) < Messages
  /\ rest' = Text(Lower(length, MaxLength))
  /\ printed' = Append(printed, Lower(length, MaxLength))
  /\ UNCHANGED <<logging, buf, shown>>

(* The client reads a frame byte by byte.                                  *)
Byte(client, b) ==
  IF b # Null THEN [client EXCEPT !.buf = Append(@, b)]
  ELSE [buf |-> <<>>,
        shown |-> IF client.buf = <<>> THEN client.shown ELSE Append(client.shown, client.buf)]
Received(frame) ==
  LET after[k \in 0 .. FrameSize] ==
        IF k = 0 THEN [buf |-> buf, shown |-> shown] ELSE Byte(after[k - 1], frame[k])
  IN  after[FrameSize]

(* One round of Print's loop: it looks at the text, not at logging.        *)
TextFrame == [i \in 1 .. FrameSize |-> IF i \in DOMAIN rest THEN rest[i] ELSE Null]
SendFrameWhileEnabled ==                                        \* mutant
  /\ rest # <<>>
  /\ rest' = IF logging THEN SubSeq(rest, FrameSize + 1, Len(rest)) ELSE <<>>
  /\ LET client == Received(TextFrame)
     IN  buf' = client.buf /\ shown' = client.shown
  /\ UNCHANGED <<logging, printed>>
SendFrame ==
  /\ rest # <<>>
  /\ rest' = SubSeq(rest, FrameSize + 1, Len(rest))
  /\ LET client == Received(TextFrame)
     IN  buf' = client.buf /\ shown' = client.shown
  /\ UNCHANGED <<logging, printed>>

TextNext == ControlFrame \/ SendFrame \/ \E length \in 1 .. MaxLength + 1 : Printf(length)

TextSpec == TextInit /\ [][TextNext]_textVars

-----------------------------------------------------------------------------
TextTypeOK ==
  /\ logging \in BOOLEAN
  /\ printed \in Seq(1 .. MaxLength) /\ Len(printed) <= Messages
  /\ rest \in Seq(1 .. Messages) /\ Len(rest) <= MaxLength
  /\ buf \in Seq(1 .. Messages)
  /\ shown \in Seq(Seq(1 .. Messages))

(* A text that is shown consists of whole messages, whenever logging is    *)
(* stopped and started: stopping takes effect between messages.            *)
TextsComplete ==
  \A t \in ToSet(shown) : \A n \in ToSet(t) :
    Cardinality({i \in DOMAIN t : t[i] = n}) = printed[n]

(* "A null byte signals end-of-message to the receiver" (canlogger.h:32).  *)
OneTextEach == \A t \in ToSet(shown) : \A i \in DOMAIN t : t[i] = t[1]
=============================================================================
