---------------------------- MODULE CanSdoStrings ----------------------------
(***************************************************************************)
(* The string transfer of the SDO server: a client writes "read 0x5001",   *)
(* the firmware prints its parameter database as JSON into the ring buffer *)
(* printBuffer, and the client drains the ring with segment requests.      *)
(*                                                                         *)
(* Two contexts run this code.  The main loop calls TriggerTimeout and     *)
(* PrintParamsJson; the CAN receive interrupt runs ProcessSDO and, through *)
(* printCallback, PrintParamsJson again on the same static variables.  The *)
(* interrupt preempts the main loop between any two accesses to shared     *)
(* state and is never preempted by it.                                     *)
(***************************************************************************)
EXTENDS Integers, Sequences

CONSTANTS
  Capacity,     \* PRINT_BUF_CAPACITY, the slots of printBuffer
  LowWater,     \* BUFFER_LOW: the producer wants at least this many free slots
  SegBytes,     \* bytesPerMessage of a segment reply
  Timeout,      \* PRINT_TIMEOUT, counted in calls of TriggerTimeout
  ChunkLen,     \* length of each chunk of text PrintParamsJson formats
  IndexSpan,    \* 2^32, the span of the two unsigned ring indices
  SubIndices,   \* sub-indices of 0x5001 the client reads; 0 is the JSON dump
  MaxRequests,  \* bound: read requests to 0x5001 the client makes
  Impatient,    \* may the client start over before its transfer ended?
  Persistent    \* may the client ask for a segment after the last one?

ASSUME RingAssumption ==
  /\ LowWater \in Nat /\ LowWater >= 2
  /\ Capacity \in Nat /\ Capacity > LowWater
  /\ IndexSpan \in Nat /\ IndexSpan > Capacity

ASSUME TransferAssumption ==
  /\ SegBytes \in Nat \ {0}
  /\ Timeout \in Nat \ {0}
  /\ ChunkLen \in Seq(Nat \ {0}) /\ ChunkLen # <<>>
  /\ SubIndices \subseteq 0 .. 255
  /\ MaxRequests \in Nat
  /\ Impatient \in BOOLEAN
  /\ Persistent \in BOOLEAN

VARIABLES
  printByteIn, printByteOut, printBuffer,  \* the ring
  printTimeout, printOverflow,
  printRequest,     \* sub-index of the request being served, -1 for none
  active, chunk,    \* statics of PrintParamsJson: stage and idx are one number
  outBuf, outLen, outPos, chunkReady,
  pc,               \* where each context is
  reg, idx, fmt,    \* locals: character, ring index, chunk being formatted
  tmo,              \* local of TriggerTimeout
  client, requests, stream,  \* the client, and the bytes it got this transfer
  log,              \* history: characters published since the last request
  raced             \* history: an interrupt hit the ring in the middle of a push

ring == <<printByteIn, printByteOut, printBuffer>>
statics == <<active, chunk, outBuf, outLen, outPos, chunkReady>>
locals == <<reg, idx, fmt, tmo>>
peer == <<client, requests, stream>>
history == <<log, raced>>
vars == <<ring, printTimeout, printOverflow, printRequest, statics, pc,
          locals, peer, history>>

Ctx == {"main", "isr"}
Garbled == 0                     \* text two contexts have formatted over
Char == (Garbled .. Len(ChunkLen)) \X Nat
Unset == <<Garbled, 0>>          \* a slot nothing was written to

(* A context may run: the main loop only when no interrupt is being served. *)
At(c, place) == pc[c] = place /\ (c = "main" => pc["isr"] = "idle")
Goto(c, place) == pc' = [pc EXCEPT ![c] = place]

(***************************************************************************)
(* The ring.  Its indices grow; the slot is the index modulo the capacity. *)
(***************************************************************************)
Slot(i) == i % Capacity
PrintBufDepth == (printByteIn - printByteOut) % IndexSpan
PrintBufFull == PrintBufDepth = Capacity
GetPrintFree == IF PrintBufDepth >= Capacity THEN 0 ELSE Capacity - PrintBufDepth
BufferLowWhenFull == GetPrintFree = 0 \/ printOverflow     \* mutant
BufferLowNever == FALSE                                     \* mutant
BufferLow == GetPrintFree < LowWater \/ printOverflow

-----------------------------------------------------------------------------
(***************************************************************************)
(* The main loop: TriggerTimeout, then PrintParamsJson while a request is  *)
(* open.  The decrement reads and writes printTimeout in two accesses.     *)
(***************************************************************************)
TriggerTimeoutRead ==
  /\ At("main", "idle")
  /\ tmo' = printTimeout
  /\ Goto("main", "tick")
  /\ UNCHANGED <<ring, printTimeout, printOverflow, printRequest, statics,
                 reg, idx, fmt, peer, history>>

TriggerTimeoutWrite ==
  /\ At("main", "tick")
  /\ printTimeout' = IF tmo > 0 THEN tmo - 1 ELSE printTimeout
  /\ Goto("main", "poll")
  /\ UNCHANGED <<ring, printOverflow, printRequest, statics, locals, peer,
                 history>>

PollPrintRequest ==
  /\ At("main", "poll")
  /\ Goto("main", IF printRequest >= 0 THEN "enter" ELSE "idle")
  /\ UNCHANGED <<ring, printTimeout, printOverflow, printRequest, statics,
                 locals, peer, history>>

-----------------------------------------------------------------------------
(***************************************************************************)
(* PrintParamsJson, in either context.                                     *)
(***************************************************************************)
Enter(c) ==
  /\ At(c, "enter")
  /\ active' = TRUE
  /\ Goto(c, IF active THEN "loop" ELSE "restart")
  /\ UNCHANGED <<ring, printTimeout, printOverflow, printRequest, chunk,
                 outBuf, outLen, outPos, chunkReady, locals, peer, history>>

Restart(c) ==
  /\ At(c, "restart")
  /\ chunk' = 1 /\ outLen' = 0 /\ outPos' = 0 /\ chunkReady' = FALSE
  /\ printOverflow' = FALSE
  /\ Goto(c, "loop")
  /\ UNCHANGED <<ring, printTimeout, printRequest, active, outBuf, locals,
                 peer, history>>

(* The statement after PrintParamsJson: next main iteration, or the reply. *)
Return(c) ==
  /\ Goto(c, "idle")
  /\ client' = IF c = "isr" THEN "reading" ELSE client

(* Room is checked, then outBuf[outPos] is fetched and handed to PutChar.  *)
CheckRoom(c) ==
  /\ At(c, "loop") /\ chunkReady /\ outPos < outLen
  /\ \/ /\ BufferLow
        /\ Return(c)
        /\ UNCHANGED reg
     \/ /\ ~BufferLow
        /\ reg' = [reg EXCEPT ![c] = <<outBuf, outPos>>]
        /\ Goto(c, "put")
        /\ UNCHANGED client
  /\ UNCHANGED <<ring, printTimeout, printOverflow, printRequest, statics,
                 idx, fmt, tmo, requests, stream, history>>

(* PutChar drops the character silently once the timeout has run out.      *)
PutChar(c) ==
  /\ At(c, "put")
  /\ IF printTimeout = 0
     THEN Goto(c, "advance") /\ UNCHANGED printTimeout
     ELSE Goto(c, "full") /\ printTimeout' = Timeout
  /\ UNCHANGED <<ring, printOverflow, printRequest, statics, locals, peer,
                 history>>

PutCharFull(c) ==
  /\ At(c, "full")
  /\ IF PrintBufFull
     THEN Goto(c, "advance") /\ printOverflow' = TRUE
     ELSE Goto(c, "read") /\ UNCHANGED printOverflow
  /\ UNCHANGED <<ring, printTimeout, printRequest, statics, locals, peer,
                 history>>

(* PrintBufEnqueue: read the index, publish the next one, store the byte.  *)
EnqueueRead(c) ==
  /\ At(c, "read")
  /\ idx' = [idx EXCEPT ![c] = printByteIn]
  /\ Goto(c, "publish")
  /\ UNCHANGED <<ring, printTimeout, printOverflow, printRequest, statics,
                 reg, fmt, tmo, peer, history>>

EnqueuePublish(c) ==
  /\ At(c, "publish")
  /\ printByteIn' = idx[c] + 1
  /\ log' = Append(log, reg[c])
  /\ Goto(c, "store")
  /\ UNCHANGED <<printByteOut, printBuffer, printTimeout, printOverflow,
                 printRequest, statics, locals, peer, raced>>

EnqueueStore(c) ==
  /\ At(c, "store")
  /\ printBuffer' = [printBuffer EXCEPT ![Slot(idx[c])] = reg[c]]
  /\ Goto(c, "advance")
  /\ UNCHANGED <<printByteIn, printByteOut, printTimeout, printOverflow,
                 printRequest, statics, locals, peer, history>>

Advance(c) ==
  /\ At(c, "advance")
  /\ outPos' = outPos + 1
  /\ Goto(c, "loop")
  /\ UNCHANGED <<ring, printTimeout, printOverflow, printRequest, active,
                 chunk, outBuf, outLen, chunkReady, locals, peer, history>>

ChunkDone(c) ==
  /\ At(c, "loop") /\ chunkReady /\ outPos >= outLen
  /\ chunkReady' = FALSE /\ outLen' = 0 /\ outPos' = 0
  /\ Goto(c, "next")
  /\ UNCHANGED <<ring, printTimeout, printOverflow, printRequest, active,
                 chunk, outBuf, locals, peer, history>>

NextChunk(c) ==
  /\ At(c, "next")
  /\ chunk' = chunk + 1
  /\ Goto(c, "loop")
  /\ UNCHANGED <<ring, printTimeout, printOverflow, printRequest, active,
                 outBuf, outLen, outPos, chunkReady, locals, peer, history>>

(* sprintf runs for long: another context may format into the same outBuf. *)
Format(c) ==
  /\ At(c, "loop") /\ ~chunkReady /\ chunk <= Len(ChunkLen)
  /\ fmt' = [fmt EXCEPT ![c] = chunk]
  /\ outBuf' = chunk
  /\ Goto(c, "formatted")
  /\ UNCHANGED <<ring, printTimeout, printOverflow, printRequest, active,
                 chunk, outLen, outPos, chunkReady, reg, idx, tmo, peer,
                 history>>

Formatted(c) ==
  /\ At(c, "formatted")
  /\ outBuf' = IF outBuf = fmt[c] THEN outBuf ELSE Garbled
  /\ outLen' = ChunkLen[fmt[c]] /\ outPos' = 0 /\ chunkReady' = TRUE
  /\ Goto(c, "loop")
  /\ UNCHANGED <<ring, printTimeout, printOverflow, printRequest, active,
                 chunk, locals, peer, history>>

(* Stage 4: the document is out; the request is closed in a second step.   *)
Finish(c) ==
  /\ At(c, "loop") /\ ~chunkReady /\ chunk > Len(ChunkLen)
  /\ active' = FALSE
  /\ Goto(c, "clear")
  /\ UNCHANGED <<ring, printTimeout, printOverflow, printRequest, chunk,
                 outBuf, outLen, outPos, chunkReady, locals, peer, history>>

RequestLeftOpen(c) ==                                       \* mutant
  /\ At(c, "clear")
  /\ Return(c)
  /\ UNCHANGED <<ring, printTimeout, printOverflow, printRequest, statics,
                 locals, requests, stream, history>>

ClearPrintRequest(c) ==
  /\ At(c, "clear")
  /\ printRequest' = -1
  /\ Return(c)
  /\ UNCHANGED <<ring, printTimeout, printOverflow, statics, locals,
                 requests, stream, history>>

PrintParamsJson(c) ==
  \/ Enter(c) \/ Restart(c) \/ CheckRoom(c) \/ PutChar(c) \/ PutCharFull(c)
  \/ EnqueueRead(c) \/ EnqueuePublish(c) \/ EnqueueStore(c) \/ Advance(c)
  \/ ChunkDone(c) \/ NextChunk(c) \/ Format(c) \/ Formatted(c)
  \/ Finish(c) \/ ClearPrintRequest(c)

-----------------------------------------------------------------------------
(***************************************************************************)
(* The CAN receive interrupt.                                              *)
(***************************************************************************)

(* The main loop holds an index it read before a request resets the ring.  *)
PushInFlight == pc["main"] \in {"publish", "store"}

(* Read of 0x5001 that leaves printByteOut where it was. *)
StringsRequestKeepsOut(sub) ==                              \* mutant
  /\ pc["isr"] = "idle"
  /\ requests < MaxRequests
  /\ client \in {"idle", "done", "starved"} \/ Impatient
  /\ requests' = requests + 1
  /\ printTimeout' = Timeout
  /\ printByteIn' = 0
  /\ printOverflow' = FALSE
  /\ printRequest' = sub
  /\ stream' = <<>> /\ log' = <<>>
  /\ raced' = PushInFlight
  /\ IF sub = 0
     THEN Goto("isr", "enter") /\ client' = "waiting"
     ELSE client' = "reading" /\ UNCHANGED pc
  /\ UNCHANGED <<printByteOut, printBuffer, statics, locals>>

(* Read of 0x5001: reset the ring and the timeout, open the request, and   *)
(* for sub-index 0 produce the first bytes from within the interrupt.      *)
StringsRequest(sub) ==
  /\ pc["isr"] = "idle"
  /\ requests < MaxRequests
  /\ client \in {"idle", "done", "starved"} \/ Impatient
  /\ requests' = requests + 1
  /\ printTimeout' = Timeout
  /\ printByteIn' = 0 /\ printByteOut' = 0
  /\ printOverflow' = FALSE
  /\ printRequest' = sub
  /\ stream' = <<>> /\ log' = <<>>
  /\ raced' = PushInFlight
  /\ IF sub = 0
     THEN Goto("isr", "enter") /\ client' = "waiting"
     ELSE client' = "reading" /\ UNCHANGED pc
  /\ UNCHANGED <<printBuffer, statics, locals>>

(* Segment request: hand over what is there; "last" when the ring is empty. *)
SegmentRequest ==
  LET n == IF PrintBufDepth < SegBytes THEN PrintBufDepth ELSE SegBytes
  IN
  /\ pc["isr"] = "idle"
  /\ client = "reading" \/ (Persistent /\ client \in {"done", "starved"})
  /\ stream' = stream \o [k \in 1 .. n |-> printBuffer[Slot(printByteOut + k - 1)]]
  /\ printByteOut' = printByteOut + n
  /\ client' = IF n = 0 THEN "starved"
               ELSE IF n = PrintBufDepth THEN "done" ELSE "reading"
  /\ raced' = (raced \/ (pc["main"] = "store" /\ n = PrintBufDepth))
  /\ UNCHANGED <<printByteIn, printBuffer, printTimeout, printOverflow,
                 printRequest, statics, pc, locals, requests, log>>

-----------------------------------------------------------------------------
Init ==
  /\ printByteIn = 0 /\ printByteOut = 0
  /\ printBuffer = [i \in 0 .. Capacity - 1 |-> Unset]
  /\ printTimeout = Timeout /\ printOverflow = FALSE /\ printRequest = -1
  /\ active = FALSE /\ chunk = 1 /\ outBuf = Garbled
  /\ outLen = 0 /\ outPos = 0 /\ chunkReady = FALSE
  /\ pc = [c \in Ctx |-> "idle"]
  /\ reg = [c \in Ctx |-> Unset] /\ idx = [c \in Ctx |-> 0]
  /\ fmt = [c \in Ctx |-> 1] /\ tmo = 0
  /\ client = "idle" /\ requests = 0 /\ stream = <<>>
  /\ log = <<>> /\ raced = FALSE

MainLoop == TriggerTimeoutRead \/ TriggerTimeoutWrite \/ PollPrintRequest
            \/ PrintParamsJson("main")
CanRxIsr == \/ \E sub \in SubIndices : StringsRequest(sub)
            \/ SegmentRequest
            \/ PrintParamsJson("isr")
Next == MainLoop \/ CanRxIsr
Spec == Init /\ [][Next]_vars

(* The main loop always comes round, an interrupt runs to its end, and the *)
(* client goes on asking for segments while its transfer is open.          *)
FairSpec ==
  Spec /\ WF_vars(MainLoop) /\ WF_vars(PrintParamsJson("isr"))
       /\ WF_vars(SegmentRequest)

-----------------------------------------------------------------------------
(***************************************************************************)
(* Properties.                                                             *)
(***************************************************************************)
Places == {"idle", "tick", "poll", "enter", "restart", "loop", "put", "full",
           "read", "publish", "store", "advance", "next", "formatted",
           "clear"}

(* Every variable keeps its type; in particular printTimeout never runs    *)
(* below zero although TriggerTimeout subtracts without a lock.            *)
TypeOK ==
  /\ printByteIn \in Nat /\ printByteOut \in Nat
  /\ printBuffer \in [0 .. Capacity - 1 -> Char]
  /\ printTimeout \in 0 .. Timeout /\ printOverflow \in BOOLEAN
  /\ printRequest \in {-1} \cup SubIndices
  /\ active \in BOOLEAN /\ chunk \in Nat \ {0} /\ chunkReady \in BOOLEAN
  /\ outBuf \in Garbled .. Len(ChunkLen) /\ outLen \in Nat /\ outPos \in Nat
  /\ pc \in [Ctx -> Places]
  /\ reg \in [Ctx -> Char] /\ idx \in [Ctx -> Nat]
  /\ fmt \in [Ctx -> DOMAIN ChunkLen] /\ tmo \in 0 .. Timeout
  /\ client \in {"idle", "waiting", "reading", "done", "starved"}
  /\ requests \in 0 .. MaxRequests
  /\ stream \in Seq(Char) /\ log \in Seq(Char)
  /\ raced \in BOOLEAN

(* The ring never holds more than its capacity (the comment on the indices *)
(* in cansdo.h).  As stated there, for every interleaving.                 *)
DepthWithinCapacity == PrintBufDepth <= Capacity

(* The ring is a FIFO: unless an interrupt hit a push half way, what the   *)
(* client got is exactly what PutChar published first, in order, nothing   *)
(* lost, repeated or overwritten before it was read.                       *)
DeliveredInOrder ==
  ~raced => /\ Len(stream) = printByteOut
            /\ printByteOut <= Len(log)
            /\ \A k \in 1 .. Len(stream) : stream[k] = log[k]

(* BUFFER_LOW leaves room enough that PutChar never meets a full ring, not *)
(* even when the interrupt prints between the main loop's check and push:  *)
(* printOverflow would stop the producer for good.                         *)
NoOverflow == ~raced => ~printOverflow

(* What the client has read of the first transfer is the beginning of the  *)
(* document that PrintParamsJson prints, from its first character, without *)
(* gaps.  Of a client that starts over it is not: the statics of the       *)
(* producer still stand where the transfer before had come to.             *)
FollowsDocument(s) ==
  /\ s # <<>> => s[1] = <<1, 0>>
  /\ \A k \in 1 .. Len(s) - 1 :
       s[k + 1] = IF s[k][2] + 1 < ChunkLen[s[k][1]]
                  THEN <<s[k][1], s[k][2] + 1>>
                  ELSE <<s[k][1] + 1, 0>>
StartedOver == requests > 1
StreamFollowsDocument == ~raced /\ ~StartedOver => FollowsDocument(stream)

(* A request that was accepted is closed: the producer does not get stuck  *)
(* as long as the client keeps asking for segments and does not start over.*)
RequestIsClosed == printRequest >= 0 ~> printRequest = -1 \/ StartedOver

(* With no data available yet the server does not respond and the client   *)
(* retries (the comment in ProcessSDO): no segment reply is empty while    *)
(* PrintParamsJson has more to print.                                      *)
NoEmptyReplyWhileProducing == client = "starved" => printRequest = -1
=============================================================================
