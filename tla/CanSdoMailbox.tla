---------------------------- MODULE CanSdoMailbox ----------------------------
(***************************************************************************)
(* SDO requests the interrupt does not serve itself.  ProcessSDO leaves    *)
(* the frame in pendingUserSpaceSdoFrame; the main loop hands that one     *)
(* frame to SdoCommands, which answers in place, and sends it back.  The   *)
(* receive interrupt may write the frame between any two accesses of the   *)
(* main loop.                                                              *)
(***************************************************************************)
EXTENDS Integers, Sequences

CONSTANTS
  ReqKind,     \* what a client asks: <<cmd, index, subIndex>>
  MaxAsked,    \* bound: requests the client makes
  Pipelined    \* may a client ask before its last request was answered?

Index == {"serial", "commands", "other"}       \* 0x5000, 0x5002, the rest
SerialSub == 0 .. 3                            \* unique id words, id sum
Command == 0 .. 3                              \* save, load, reset, defaults
Reset == 2

ASSUME MailboxAssumption ==
  /\ ReqKind \subseteq {"read", "write"} \X Index \X (0 .. 255)
  /\ MaxAsked \in Nat
  /\ Pipelined \in BOOLEAN

VARIABLES
  pendingUserSpaceSdo, frame,   \* the slot shared by both contexts
  pc,                           \* where the main loop is
  isIndex,                      \* local: the index just compared matched
  buf,                          \* local of SendSdoReply
  asked, replies, executed      \* history: requests, replies, commands run

slot == <<pendingUserSpaceSdo, frame>>
locals == <<isIndex, buf>>
history == <<asked, replies, executed>>
vars == <<slot, pc, locals, history>>

(* The data word of the n-th request; serial numbers and the abort code.   *)
Tag(n) == <<"client", n>>
Serial(sub) == <<"serial", sub>>
InvIdx == <<"abort", 0>>
Frame(cmd, index, sub, data) ==
  [cmd |-> cmd, index |-> index, sub |-> sub, data |-> data]
Empty == Frame("read", "other", 0, InvIdx)
NoReply == Frame("none", "commands", Reset, InvIdx)

-----------------------------------------------------------------------------
AskSetsFlagForWrites(kind) ==                               \* mutant
  LET r == Frame(kind[1], kind[2], kind[3], Tag(Len(asked) + 1))
  IN
  /\ Len(asked) < MaxAsked
  /\ Pipelined \/ (Len(asked) = Len(replies) /\ pc # "free")
  /\ pendingUserSpaceSdo' = (kind[1] = "write")
  /\ frame' = r
  /\ asked' = Append(asked, r)
  /\ UNCHANGED <<pc, locals, replies, executed>>

(* ProcessSDO: the frame is stored and the main loop is told, in one       *)
(* interrupt; what was in the slot is gone.  A client that waits for its   *)
(* reply cannot be back before SendSdoReply returned: reply and request    *)
(* take their time on the bus, the rest of SendSdoReply is one assignment. *)
Ask(kind) ==
  LET r == Frame(kind[1], kind[2], kind[3], Tag(Len(asked) + 1))
  IN
  /\ Len(asked) < MaxAsked
  /\ Pipelined \/ (Len(asked) = Len(replies) /\ pc # "free")
  /\ pendingUserSpaceSdo' = TRUE
  /\ frame' = r
  /\ asked' = Append(asked, r)
  /\ UNCHANGED <<pc, locals, replies, executed>>

-----------------------------------------------------------------------------
(* The main loop.  Every access to a field of the frame is a step.         *)
At(place) == pc = place
Goto(place) == pc' = place

PollPending ==
  /\ At("poll") /\ pendingUserSpaceSdo
  /\ Goto("serialIndex")
  /\ UNCHANGED <<slot, locals, history>>

CompareSerialIndex ==
  /\ At("serialIndex")
  /\ isIndex' = (frame.index = "serial")
  /\ Goto("serialCmd")
  /\ UNCHANGED <<slot, buf, history>>

CompareSerialCmd ==
  /\ At("serialCmd")
  /\ Goto(IF isIndex /\ frame.cmd = "read" THEN "serialReply" ELSE "commandIndex")
  /\ UNCHANGED <<slot, locals, history>>

SetReadReply ==
  /\ At("serialReply")
  /\ frame' = [frame EXCEPT !.cmd = "readReply"]
  /\ Goto("serialSub")
  /\ UNCHANGED <<pendingUserSpaceSdo, locals, history>>

ServeSerial ==
  /\ At("serialSub")
  /\ frame' = IF frame.sub \in SerialSub
              THEN [frame EXCEPT !.data = Serial(frame.sub)]
              ELSE [frame EXCEPT !.cmd = "abort", !.data = InvIdx]
  /\ Goto("send")
  /\ UNCHANGED <<pendingUserSpaceSdo, locals, history>>

CompareCommandIndex ==
  /\ At("commandIndex")
  /\ isIndex' = (frame.index = "commands")
  /\ Goto("commandCmd")
  /\ UNCHANGED <<slot, buf, history>>

CompareCommandCmdNot ==                                     \* mutant
  /\ At("commandCmd")
  /\ Goto(IF isIndex THEN "commandReply" ELSE "refuse")
  /\ UNCHANGED <<slot, locals, history>>

CompareCommandCmd ==
  /\ At("commandCmd")
  /\ Goto(IF isIndex /\ frame.cmd = "write" THEN "commandReply" ELSE "refuse")
  /\ UNCHANGED <<slot, locals, history>>

SetWriteReply ==
  /\ At("commandReply")
  /\ frame' = [frame EXCEPT !.cmd = "writeReply"]
  /\ Goto("commandSub")
  /\ UNCHANGED <<pendingUserSpaceSdo, locals, history>>

(* Save and load run with interrupts disabled, defaults does not touch the *)
(* slot: each is one step here.                                            *)
RunCommand ==
  /\ At("commandSub") /\ frame.sub \in Command \ {Reset}
  /\ executed' = Append(executed, frame.sub)
  /\ Goto("send")
  /\ UNCHANGED <<slot, locals, asked, replies>>

(* SoftReset starts the program over; the client gives up waiting.         *)
SoftReset ==
  /\ At("commandSub") /\ frame.sub = Reset
  /\ executed' = Append(executed, Reset)
  /\ replies' = Append(replies, NoReply)
  /\ pendingUserSpaceSdo' = FALSE /\ frame' = Empty
  /\ isIndex' = FALSE /\ buf' = Empty
  /\ Goto("poll")
  /\ UNCHANGED asked

RefuseCommand ==
  /\ At("commandSub") /\ frame.sub \notin Command
  /\ frame' = [frame EXCEPT !.cmd = "abort", !.data = InvIdx]
  /\ Goto("send")
  /\ UNCHANGED <<pendingUserSpaceSdo, locals, history>>

Refuse ==
  /\ At("refuse")
  /\ frame' = [frame EXCEPT !.cmd = "abort", !.data = InvIdx]
  /\ Goto("send")
  /\ UNCHANGED <<pendingUserSpaceSdo, locals, history>>

(* SendSdoReply packs the frame into two words, sends, and frees the slot. *)
PackHead ==
  /\ At("send")
  /\ buf' = [frame EXCEPT !.data = InvIdx]
  /\ Goto("packData")
  /\ UNCHANGED <<slot, isIndex, history>>

PackData ==
  /\ At("packData")
  /\ buf' = [buf EXCEPT !.data = frame.data]
  /\ Goto("transmit")
  /\ UNCHANGED <<slot, isIndex, history>>

Transmit ==
  /\ At("transmit")
  /\ replies' = Append(replies, buf)
  /\ Goto("free")
  /\ UNCHANGED <<slot, locals, asked, executed>>

FreeSlot ==
  /\ At("free")
  /\ pendingUserSpaceSdo' = FALSE
  /\ Goto("poll")
  /\ UNCHANGED <<frame, locals, history>>

-----------------------------------------------------------------------------
Init ==
  /\ pendingUserSpaceSdo = FALSE /\ frame = Empty
  /\ pc = "poll" /\ isIndex = FALSE /\ buf = Empty
  /\ asked = <<>> /\ replies = <<>> /\ executed = <<>>

MainLoop ==
  \/ PollPending \/ CompareSerialIndex \/ CompareSerialCmd \/ SetReadReply
  \/ ServeSerial \/ CompareCommandIndex \/ CompareCommandCmd \/ SetWriteReply
  \/ RunCommand \/ SoftReset \/ RefuseCommand \/ Refuse
  \/ PackHead \/ PackData \/ Transmit \/ FreeSlot

Next == MainLoop \/ \E kind \in ReqKind : Ask(kind)
Spec == Init /\ [][Next]_vars

(* The main loop always comes round. *)
FairSpec == Spec /\ WF_vars(MainLoop)

-----------------------------------------------------------------------------
(* Properties. *)
Places == {"poll", "serialIndex", "serialCmd", "serialReply", "serialSub",
           "commandIndex", "commandCmd", "commandReply", "commandSub",
           "refuse", "send", "packData", "transmit", "free"}
Cmd == {"read", "write", "readReply", "writeReply", "abort", "none"}
Data == ({"client"} \X (1 .. MaxAsked)) \cup ({"serial"} \X SerialSub) \cup {InvIdx}
FrameType == [cmd : Cmd, index : Index, sub : 0 .. 255, data : Data]

TypeOK ==
  /\ pendingUserSpaceSdo \in BOOLEAN /\ frame \in FrameType
  /\ pc \in Places /\ isIndex \in BOOLEAN /\ buf \in FrameType
  /\ asked \in Seq(FrameType) /\ replies \in Seq(FrameType)
  /\ executed \in Seq(Command)

(* The reply a request deserves, and the commands it runs.                 *)
IsCommand(r) == r.index = "commands" /\ r.cmd = "write"
Runs(r) == IF IsCommand(r) /\ r.sub \in Command THEN <<r.sub>> ELSE <<>>
Answer(r) ==
  IF r.index = "serial" /\ r.cmd = "read" /\ r.sub \in SerialSub
  THEN [r EXCEPT !.cmd = "readReply", !.data = Serial(r.sub)]
  ELSE IF IsCommand(r) /\ r.sub = Reset THEN NoReply
  ELSE IF Runs(r) # <<>> THEN [r EXCEPT !.cmd = "writeReply"]
  ELSE [r EXCEPT !.cmd = "abort", !.data = InvIdx]

(* No command runs that nobody asked for, and none runs more often than it *)
(* was asked for: save, load, reset and defaults all change the inverter.  *)
OnlyRequestedCommandsRun ==
  \A c \in Command :
    Len(SelectSeq(executed, LAMBDA x : x = c))
      <= Len(SelectSeq(asked, LAMBDA r : Runs(r) = <<c>>))

(* Requests whose command has run: the reply is being sent. *)
Outstanding == Len(asked) > Len(replies)
Ran == IF Outstanding /\ pc \in {"send", "packData", "transmit"}
       THEN Len(asked) ELSE Len(replies)

(* Towards a client that waits, the mailbox is the server of SdoServer:    *)
(* each request runs its command once and gets its own reply, in order.    *)
RequestFrame == { Frame(k[1], k[2], k[3], Tag(n)) :
                    k \in ReqKind, n \in 1 .. MaxAsked }
Server == INSTANCE SdoServer WITH Request <- RequestFrame, ran <- Ran
ImplementsServer == Server!Spec

(* Every request of a client that waits is answered. *)
EveryRequestAnswered ==
  Outstanding ~> ~Outstanding
=============================================================================
