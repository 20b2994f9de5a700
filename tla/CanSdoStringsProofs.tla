------------------------- MODULE CanSdoStringsProofs -------------------------
(***************************************************************************)
(* The ring under the string transfer, proved for every capacity, low      *)
(* water mark, document and number of requests, and that what is put into  *)
(* it for the first of them is the document.                               *)
(***************************************************************************)
EXTENDS CanSdoStrings, TLAPS

(* A context that has found room and has not published its byte yet.       *)
Window == {"put", "full", "read", "publish"}
Pushing(c) == IF pc[c] \in Window THEN 1 ELSE 0

(* What holds of the ring while no interrupt has hit a push half way.      *)
RingSound ==
  /\ printByteOut <= printByteIn
  /\ printByteIn = Len(log)
  /\ printByteIn - printByteOut + Pushing("main") + Pushing("isr")
       <= Capacity - LowWater + 2
  /\ \A c \in Ctx : pc[c] = "publish" => idx[c] = printByteIn
  /\ \A c \in Ctx : pc[c] = "store" =>
       idx[c] = printByteIn - 1 /\ reg[c] = log[printByteIn]
         /\ printByteOut < printByteIn
  /\ Len(stream) = printByteOut
  /\ \A k \in 1 .. Len(stream) : stream[k] = log[k]
  /\ \A k \in printByteOut .. printByteIn - 1 :
       \/ printBuffer[Slot(k)] = log[k + 1]
       \/ \E c \in Ctx : pc[c] = "store" /\ idx[c] = k
  /\ ~printOverflow

RingInv ==
  /\ PushInFlight /\ pc["isr"] # "idle" => raced
  /\ ~raced => RingSound

-----------------------------------------------------------------------------
(* A slot is one of the slots of printBuffer.                              *)
LEMMA SlotInRange == ASSUME NEW i \in Nat PROVE Slot(i) \in 0 .. Capacity - 1
BY RingAssumption DEF Slot

(* Indices less than a capacity apart use different slots.                 *)
LEMMA SlotsDiffer ==
  ASSUME NEW i \in Nat, NEW j \in Nat, i < j, j - i < Capacity
  PROVE Slot(i) # Slot(j)
<1> DEFINE qi == i \div Capacity
           qj == j \div Capacity
<1>1. qi \in Int /\ qj \in Int /\ Capacity \in Nat \ {0}
  BY RingAssumption
<1>2. i = Capacity * qi + (i % Capacity) /\ j = Capacity * qj + (j % Capacity)
  BY RingAssumption
<1>3. SUFFICES ASSUME i % Capacity = j % Capacity PROVE FALSE
  BY DEF Slot
<1>4. j - i = Capacity * (qj - qi)
  <2> HIDE DEF qi, qj
  <2>1. i % Capacity \in Int
    BY <1>1
  <2> QED BY <1>1, <1>2, <1>3, <2>1
<1>5. CASE qj - qi <= 0
  <2> HIDE DEF qi, qj
  <2>1. Capacity * (qj - qi) <= 0
    BY <1>1, <1>5
  <2> QED BY <1>4, <2>1
<1>6. CASE qj - qi >= 1
  <2> HIDE DEF qi, qj
  <2>1. Capacity * (qj - qi) >= Capacity
    BY <1>1, <1>6
  <2> QED BY <1>4, <2>1, <1>1
<1>7. QED
  BY <1>1, <1>5, <1>6

(* While the indices are in order, the depth is their difference.          *)
LEMMA DepthIsDifference ==
  ASSUME printByteIn \in Nat, printByteOut \in Nat,
         printByteOut <= printByteIn, printByteIn - printByteOut <= Capacity
  PROVE PrintBufDepth = printByteIn - printByteOut
BY RingAssumption DEF PrintBufDepth

(* In any case the depth is a natural number. *)
LEMMA DepthIsNat ==
  ASSUME printByteIn \in Nat, printByteOut \in Nat
  PROVE PrintBufDepth \in Nat
BY RingAssumption DEF PrintBufDepth

-----------------------------------------------------------------------------
(* The characters a segment reply carries are characters. *)
LEMMA SegmentTyped ==
  ASSUME TypeOK, NEW n \in Nat
  PROVE [k \in 1 .. n |-> printBuffer[Slot(printByteOut + k - 1)]] \in Seq(Char)
<1>1. ASSUME NEW k \in 1 .. n
      PROVE printBuffer[Slot(printByteOut + k - 1)] \in Char
  <2>1. printByteOut + k - 1 \in Nat
    BY DEF TypeOK
  <2>2. Slot(printByteOut + k - 1) \in 0 .. Capacity - 1
    BY <2>1, SlotInRange
  <2> QED BY <2>2 DEF TypeOK
<1> QED BY <1>1

(* An empty transfer is a sequence of characters. *)
LEMMA NothingTyped == <<>> \in Seq(Char)
OBVIOUS

(* Moving one context keeps the places typed. *)
LEMMA PlaceTyped ==
  ASSUME TypeOK, NEW c \in Ctx, NEW place \in Places, Goto(c, place)
  PROVE pc' \in [Ctx -> Places]
BY DEF TypeOK, Goto

(* Type correctness, for both contexts and every interleaving. *)
LEMMA TypePreserved == TypeOK /\ [Next]_vars => TypeOK'
<1> SUFFICES ASSUME TypeOK, [Next]_vars PROVE TypeOK'
  OBVIOUS
<1>0. "main" \in Ctx /\ "isr" \in Ctx
  BY DEF Ctx
<1>1. CASE TriggerTimeoutRead
  <2>1. pc' \in [Ctx -> Places]
    BY <1>1, <1>0, PlaceTyped DEF TriggerTimeoutRead, Places
  <2> QED
    BY <1>1, <2>1 DEF TypeOK, TriggerTimeoutRead, ring, statics, peer, history
<1>2. CASE TriggerTimeoutWrite
  <2>1. pc' \in [Ctx -> Places]
    BY <1>2, <1>0, PlaceTyped DEF TriggerTimeoutWrite, Places
  <2>2. printTimeout' \in 0 .. Timeout
    BY <1>2, TransferAssumption DEF TriggerTimeoutWrite, TypeOK
  <2> QED
    BY <1>2, <2>1, <2>2 DEF TypeOK, TriggerTimeoutWrite, ring, statics, locals, peer, history
<1>3. CASE PollPrintRequest
  <2>1. pc' \in [Ctx -> Places]
    BY <1>3, <1>0, PlaceTyped DEF PollPrintRequest, Places
  <2> QED
    BY <1>3, <2>1 DEF TypeOK, PollPrintRequest, ring, statics, locals, peer, history
<1>4. ASSUME NEW c \in Ctx, Enter(c) PROVE TypeOK'
  <2>1. pc' \in [Ctx -> Places]
    BY <1>4, <1>0, PlaceTyped DEF Enter, Places
  <2> QED
    BY <1>4, <2>1 DEF TypeOK, Enter, ring, statics, locals, peer, history
<1>5. ASSUME NEW c \in Ctx, Restart(c) PROVE TypeOK'
  <2>1. pc' \in [Ctx -> Places]
    BY <1>5, <1>0, PlaceTyped DEF Restart, Places
  <2>2. printOverflow' \in BOOLEAN /\ chunkReady' \in BOOLEAN
    BY <1>5 DEF Restart
  <2>3. chunk' \in Nat \ {0} /\ outLen' \in Nat /\ outPos' \in Nat
    BY <1>5 DEF Restart
  <2> QED
    BY <1>5, <2>1, <2>2, <2>3 DEF TypeOK, Restart, ring, statics, locals, peer, history
<1>6. ASSUME NEW c \in Ctx, CheckRoom(c) PROVE TypeOK'
  <2>1. pc' \in [Ctx -> Places]
    BY <1>6, <1>0, PlaceTyped DEF CheckRoom, Places, Return
  <2>2. <<outBuf, outPos>> \in Char
    BY DEF Char, TypeOK
  <2>3. reg' \in [Ctx -> Char]
    BY <1>6, <2>2 DEF CheckRoom, TypeOK
  <2>4. client' \in {"idle", "waiting", "reading", "done", "starved"}
    BY <1>6 DEF CheckRoom, Return, TypeOK
  <2> QED
    BY <1>6, <2>1, <2>2, <2>3, <2>4 DEF TypeOK, CheckRoom, ring, statics, locals, peer, history
<1>7. ASSUME NEW c \in Ctx, PutChar(c) PROVE TypeOK'
  <2>1. pc' \in [Ctx -> Places]
    BY <1>7, <1>0, PlaceTyped DEF PutChar, Places
  <2>2. printTimeout' \in 0 .. Timeout
    BY <1>7, TransferAssumption DEF PutChar, TypeOK
  <2> QED
    BY <1>7, <2>1, <2>2 DEF TypeOK, PutChar, ring, statics, locals, peer, history
<1>8. ASSUME NEW c \in Ctx, PutCharFull(c) PROVE TypeOK'
  <2>1. pc' \in [Ctx -> Places]
    BY <1>8, <1>0, PlaceTyped DEF PutCharFull, Places
  <2>2. printOverflow' \in BOOLEAN
    BY <1>8 DEF PutCharFull, TypeOK
  <2> QED
    BY <1>8, <2>1, <2>2 DEF TypeOK, PutCharFull, ring, statics, locals, peer, history
<1>9. ASSUME NEW c \in Ctx, EnqueueRead(c) PROVE TypeOK'
  <2>1. pc' \in [Ctx -> Places]
    BY <1>9, <1>0, PlaceTyped DEF EnqueueRead, Places
  <2> QED
    BY <1>9, <2>1 DEF TypeOK, EnqueueRead, ring, statics, locals, peer, history
<1>10. ASSUME NEW c \in Ctx, EnqueuePublish(c) PROVE TypeOK'
  <2>1. pc' \in [Ctx -> Places]
    BY <1>10, <1>0, PlaceTyped DEF EnqueuePublish, Places
  <2>2. log' \in Seq(Char)
    BY <1>10 DEF EnqueuePublish, TypeOK
  <2>3. printByteIn' \in Nat
    BY <1>10 DEF EnqueuePublish, TypeOK
  <2> QED
    BY <1>10, <2>1, <2>2, <2>3 DEF TypeOK, EnqueuePublish, ring, statics, locals, peer, history
<1>11. ASSUME NEW c \in Ctx, EnqueueStore(c) PROVE TypeOK'
  <2>1. pc' \in [Ctx -> Places]
    BY <1>11, <1>0, PlaceTyped DEF EnqueueStore, Places
  <2>2. Slot(idx[c]) \in 0 .. Capacity - 1 /\ reg[c] \in Char
    BY <1>11, SlotInRange DEF TypeOK
  <2>3. printBuffer' \in [0 .. Capacity - 1 -> Char]
    BY <1>11, <2>2 DEF EnqueueStore, TypeOK
  <2> QED
    BY <1>11, <2>1, <2>2, <2>3 DEF TypeOK, EnqueueStore, ring, statics, locals, peer, history
<1>12. ASSUME NEW c \in Ctx, Advance(c) PROVE TypeOK'
  <2>1. pc' \in [Ctx -> Places]
    BY <1>12, <1>0, PlaceTyped DEF Advance, Places
  <2> QED
    BY <1>12, <2>1 DEF TypeOK, Advance, ring, statics, locals, peer, history
<1>13. ASSUME NEW c \in Ctx, ChunkDone(c) PROVE TypeOK'
  <2>1. pc' \in [Ctx -> Places]
    BY <1>13, <1>0, PlaceTyped DEF ChunkDone, Places
  <2>2. chunkReady' \in BOOLEAN /\ outLen' \in Nat /\ outPos' \in Nat
    BY <1>13 DEF ChunkDone
  <2> QED
    BY <1>13, <2>1, <2>2 DEF TypeOK, ChunkDone, ring, statics, locals, peer, history
<1>14. ASSUME NEW c \in Ctx, NextChunk(c) PROVE TypeOK'
  <2>1. pc' \in [Ctx -> Places]
    BY <1>14, <1>0, PlaceTyped DEF NextChunk, Places
  <2>2. chunk' \in Nat \ {0}
    BY <1>14 DEF NextChunk, TypeOK
  <2> QED
    BY <1>14, <2>1, <2>2 DEF TypeOK, NextChunk, ring, statics, locals, peer, history
<1>15. ASSUME NEW c \in Ctx, Format(c) PROVE TypeOK'
  <2>1. pc' \in [Ctx -> Places]
    BY <1>15, <1>0, PlaceTyped DEF Format, Places
  <2>2. chunk \in DOMAIN ChunkLen /\ chunk \in Garbled .. Len(ChunkLen)
    BY <1>15, TransferAssumption DEF Format, TypeOK, Garbled
  <2>3. fmt' \in [Ctx -> DOMAIN ChunkLen] /\ outBuf' \in Garbled .. Len(ChunkLen)
    BY <1>15, <2>2 DEF Format, TypeOK
  <2> QED
    BY <1>15, <2>1, <2>2, <2>3 DEF TypeOK, Format, ring, statics, locals, peer, history
<1>16. ASSUME NEW c \in Ctx, Formatted(c) PROVE TypeOK'
  <2>1. pc' \in [Ctx -> Places]
    BY <1>16, <1>0, PlaceTyped DEF Formatted, Places
  <2>2. fmt[c] \in DOMAIN ChunkLen /\ Len(ChunkLen) \in Nat
    BY <1>16, TransferAssumption DEF TypeOK
  <2>3. outLen' \in Nat /\ outPos' \in Nat /\ chunkReady' \in BOOLEAN
    BY <1>16, <2>2, TransferAssumption DEF Formatted
  <2>4. outBuf' \in Garbled .. Len(ChunkLen)
    BY <1>16, <2>2 DEF Formatted, TypeOK, Garbled
  <2> QED
    BY <1>16, <2>1, <2>2, <2>3, <2>4 DEF TypeOK, Formatted, ring, statics, locals, peer, history
<1>17. ASSUME NEW c \in Ctx, Finish(c) PROVE TypeOK'
  <2>1. pc' \in [Ctx -> Places]
    BY <1>17, <1>0, PlaceTyped DEF Finish, Places
  <2> QED
    BY <1>17, <2>1 DEF TypeOK, Finish, ring, statics, locals, peer, history
<1>18. ASSUME NEW c \in Ctx, ClearPrintRequest(c) PROVE TypeOK'
  <2>1. pc' \in [Ctx -> Places]
    BY <1>18, <1>0, PlaceTyped DEF ClearPrintRequest, Places, Return
  <2>2. printRequest' \in {-1} \cup SubIndices
    BY <1>18 DEF ClearPrintRequest
  <2>3. client' \in {"idle", "waiting", "reading", "done", "starved"}
    BY <1>18 DEF ClearPrintRequest, Return, TypeOK
  <2> QED
    BY <1>18, <2>1, <2>2, <2>3 DEF TypeOK, ClearPrintRequest, ring, statics, locals, peer, history
<1>19. ASSUME NEW sub \in SubIndices, StringsRequest(sub) PROVE TypeOK'
  <2>1. stream' \in Seq(Char) /\ log' \in Seq(Char)
    BY <1>19, NothingTyped DEF StringsRequest
  <2>2. pc' \in [Ctx -> Places]
    <3>1. CASE UNCHANGED pc
      BY <3>1 DEF TypeOK
    <3>2. CASE Goto("isr", "enter")
      BY <3>2, <1>0, PlaceTyped DEF Places
    <3> QED BY <1>19, <3>1, <3>2 DEF StringsRequest
  <2>3. requests' \in 0 .. MaxRequests
    BY <1>19, TransferAssumption DEF StringsRequest, TypeOK
  <2>4. raced' \in BOOLEAN
    BY <1>19 DEF StringsRequest, PushInFlight
  <2>5. printTimeout' \in 0 .. Timeout
    BY <1>19, TransferAssumption DEF StringsRequest
  <2>6. printRequest' \in {-1} \cup SubIndices
    BY <1>19 DEF StringsRequest
  <2>7. client' \in {"idle", "waiting", "reading", "done", "starved"}
    BY <1>19 DEF StringsRequest
  <2>8. printByteIn' \in Nat /\ printByteOut' \in Nat /\ printOverflow' \in BOOLEAN
    BY <1>19 DEF StringsRequest
  <2> QED
    BY <1>19, <2>1, <2>2, <2>3, <2>4, <2>5, <2>6, <2>7, <2>8
       DEF StringsRequest, TypeOK, statics, locals
<1>20. CASE SegmentRequest
  <2> DEFINE n == IF PrintBufDepth < SegBytes THEN PrintBufDepth ELSE SegBytes
             seg == [k \in 1 .. n |-> printBuffer[Slot(printByteOut + k - 1)]]
  <2>1. n \in Nat
    BY DepthIsNat, TransferAssumption DEF TypeOK
  <2>2. seg \in Seq(Char)
    BY <2>1, SegmentTyped
  <2>3. stream' = stream \o seg /\ printByteOut' = printByteOut + n
    BY <1>20 DEF SegmentRequest
  <2>4. stream' \in Seq(Char) /\ printByteOut' \in Nat
    <3> HIDE DEF n, seg
    <3> QED BY <2>1, <2>2, <2>3 DEF TypeOK
  <2>5. client' \in {"idle", "waiting", "reading", "done", "starved"}
        /\ raced' \in BOOLEAN
    BY <1>20 DEF SegmentRequest, TypeOK
  <2> QED BY <1>20, <2>4, <2>5 DEF SegmentRequest, TypeOK, statics, locals
<1>21. CASE UNCHANGED vars
  BY <1>21 DEF TypeOK, vars, ring, statics, locals, peer, history
<1> QED
  BY <1>0, <1>1, <1>2, <1>3, <1>4, <1>5, <1>6, <1>7, <1>8, <1>9, <1>10, <1>11, <1>12,
     <1>13, <1>14, <1>15, <1>16, <1>17, <1>18, <1>19, <1>20, <1>21
     DEF Next, MainLoop, CanRxIsr, PrintParamsJson

(* Every variable keeps its type: the timeout never runs below zero, the   *)
(* saved ring index of a preempted push stays an index.                    *)
THEOREM TypeCorrect == Spec => []TypeOK
<1>1. Init => TypeOK
  <2> SUFFICES ASSUME Init PROVE TypeOK
    OBVIOUS
  <2> USE RingAssumption, TransferAssumption DEF Init
  <2>1. Unset \in Char
    BY DEF Unset, Char, Garbled
  <2>2. Len(ChunkLen) \in Nat \ {0} /\ 1 \in DOMAIN ChunkLen
    OBVIOUS
  <2>3. printBuffer \in [0 .. Capacity - 1 -> Char] /\ reg \in [Ctx -> Char]
    BY <2>1
  <2>4. pc \in [Ctx -> Places] /\ idx \in [Ctx -> Nat]
        /\ fmt \in [Ctx -> DOMAIN ChunkLen]
    BY <2>2 DEF Places
  <2>5. stream \in Seq(Char) /\ log \in Seq(Char)
    BY NothingTyped
  <2>6. /\ printTimeout \in 0 .. Timeout /\ tmo \in 0 .. Timeout
        /\ printRequest \in {-1} \cup SubIndices
        /\ requests \in 0 .. MaxRequests /\ outBuf \in Garbled .. Len(ChunkLen)
    BY <2>2 DEF Garbled
  <2>7. /\ printByteIn \in Nat /\ printByteOut \in Nat /\ chunk \in Nat \ {0}
        /\ outLen \in Nat /\ outPos \in Nat
    OBVIOUS
  <2>8. /\ printOverflow \in BOOLEAN /\ active \in BOOLEAN
        /\ chunkReady \in BOOLEAN /\ raced \in BOOLEAN
        /\ client \in {"idle", "waiting", "reading", "done", "starved"}
    OBVIOUS
  <2> QED
    BY <2>3, <2>4, <2>5, <2>6, <2>7, <2>8, Zenon DEF TypeOK
<1>2. QED
  BY <1>1, TypePreserved, PTL DEF Spec

-----------------------------------------------------------------------------
(* A context that leaves the window frees the room it had reserved. *)
LEMMA RoomShrinks ==
  ASSUME NEW d \in Int, NEW r \in Int, NEW p \in {0, 1}, NEW q \in {0, 1},
         NEW p1 \in {0, 1}, NEW q1 \in {0, 1}, p1 <= p, q1 <= q, d + p + q <= r
  PROVE d + p1 + q1 <= r
OBVIOUS

(* Room for one byte of each context. *)
LEMMA RoomForTwo ==
  ASSUME NEW d \in Int, NEW r \in Int, NEW p \in {0, 1}, NEW q \in {0, 1}, d <= r
  PROVE d + p + q <= r + 2
OBVIOUS

(* The depth is what RingSound bounds, and it fits. *)
LEMMA SoundDepth ==
  ASSUME TypeOK, RingSound
  PROVE /\ PrintBufDepth = printByteIn - printByteOut
        /\ PrintBufDepth + Pushing("main") + Pushing("isr")
             <= Capacity - LowWater + 2
        /\ PrintBufDepth <= Capacity
<1>1. Pushing("main") \in {0, 1} /\ Pushing("isr") \in {0, 1}
  BY DEF Pushing
<1>2. printByteIn - printByteOut <= Capacity
  BY <1>1, RingAssumption DEF RingSound, TypeOK
<1>3. PrintBufDepth = printByteIn - printByteOut
  BY <1>2, DepthIsDifference DEF RingSound, TypeOK
<1> QED
  BY <1>2, <1>3 DEF RingSound

(* A step that moves one context without touching the ring.  It does not   *)
(* begin a push, and does not leave one between its two writes.            *)
LEMMA QuietStep ==
  ASSUME TypeOK, RingInv, NEW c \in Ctx, NEW place \in Places,
         Goto(c, place), c = "main" => pc["isr"] = "idle",
         c = "isr" => pc["isr"] # "idle",
         pc[c] # "store", place \notin {"publish", "store"},
         place \in Window => pc[c] \in Window,
         printOverflow' => printOverflow,
         UNCHANGED <<printByteIn, printByteOut, printBuffer, reg, idx, stream,
                     log, raced>>
  PROVE RingInv'
<1> USE DEF Ctx
<1>0. pc' = [pc EXCEPT ![c] = place] /\ pc \in [Ctx -> Places]
  BY DEF Goto, TypeOK
<1>1. (PushInFlight /\ pc["isr"] # "idle" => raced)'
  BY <1>0 DEF RingInv, PushInFlight
<1>2. ASSUME ~raced PROVE RingSound'
  <2> USE <1>2
  <2>1. RingSound
    BY DEF RingInv
  <2>2. \A d \in Ctx : /\ pc'[d] = "store" <=> pc[d] = "store"
                       /\ pc'[d] = "publish" => pc[d] = "publish"
                       /\ pc'[d] \in Window => pc[d] \in Window
    BY <1>0
  <2>3. /\ Pushing("main")' \in {0, 1} /\ Pushing("isr")' \in {0, 1}
        /\ Pushing("main") \in {0, 1} /\ Pushing("isr") \in {0, 1}
        /\ Pushing("main")' <= Pushing("main")
        /\ Pushing("isr")' <= Pushing("isr")
    BY <2>2 DEF Pushing, Window
  <2>4. (printByteIn - printByteOut + Pushing("main") + Pushing("isr")
           <= Capacity - LowWater + 2)'
    <3>1. printByteIn - printByteOut \in Int /\ Capacity - LowWater + 2 \in Int
      BY RingAssumption DEF TypeOK
    <3>2. printByteIn - printByteOut + Pushing("main") + Pushing("isr")
            <= Capacity - LowWater + 2
      BY <2>1 DEF RingSound
    <3> QED BY <2>3, <3>1, <3>2, RoomShrinks
  <2>5. ~printOverflow'
    BY <2>1 DEF RingSound
  <2>6. (\A k \in printByteOut .. printByteIn - 1 :
           \/ printBuffer[Slot(k)] = log[k + 1]
           \/ \E d \in Ctx : pc[d] = "store" /\ idx[d] = k)'
    BY <2>1, <2>2 DEF RingSound, Slot
  <2>7. (\A d \in Ctx : pc[d] = "publish" => idx[d] = printByteIn)'
    BY <2>1, <2>2 DEF RingSound
  <2>8. (\A d \in Ctx : pc[d] = "store" =>
            idx[d] = printByteIn - 1 /\ reg[d] = log[printByteIn]
              /\ printByteOut < printByteIn)'
    BY <2>1, <2>2 DEF RingSound
  <2> QED
    BY <2>1, <2>4, <2>5, <2>6, <2>7, <2>8 DEF RingSound
<1> QED
  BY <1>1, <1>2 DEF RingInv

(* PrintParamsJson found room: its byte fits besides the other context's.  *)
LEMMA CheckRoomStep ==
  ASSUME TypeOK, RingInv, NEW c \in Ctx, CheckRoom(c)
  PROVE RingInv'
<1> USE DEF Ctx
<1>1. CASE BufferLow
  <2>1. Goto(c, "idle") \/ Goto(c, "put")
    BY DEF CheckRoom, Return
  <2>2. CASE Goto(c, "idle") /\ UNCHANGED reg
    BY <2>2, QuietStep DEF CheckRoom, At, Places, Window, ring, locals, history
  <2> QED BY <1>1, <2>2 DEF CheckRoom, Return
<1>2. CASE ~BufferLow
  <2>0. /\ pc' = [pc EXCEPT ![c] = "put"] /\ pc \in [Ctx -> Places]
        /\ reg' = [reg EXCEPT ![c] = <<outBuf, outPos>>] /\ reg \in [Ctx -> Char]
        /\ pc[c] = "loop" /\ (c = "main" => pc["isr"] = "idle")
        /\ UNCHANGED <<printByteIn, printByteOut, printBuffer, printOverflow,
                       idx, stream, log, raced>>
    BY <1>2 DEF CheckRoom, At, Goto, TypeOK, ring, history
  <2>1. (PushInFlight /\ pc["isr"] # "idle" => raced)'
    BY <2>0 DEF RingInv, PushInFlight
  <2>2. ASSUME ~raced PROVE RingSound'
    <3>1. RingSound /\ ~printOverflow
      BY <2>2 DEF RingInv, RingSound
    <3>2. printByteIn - printByteOut <= Capacity - LowWater
      <4>1. GetPrintFree >= LowWater
        BY <1>2, SoundDepth, <3>1, RingAssumption DEF BufferLow, GetPrintFree, TypeOK
      <4> QED BY <4>1, SoundDepth, <3>1, RingAssumption DEF GetPrintFree, TypeOK
    <3>3. Pushing("main")' \in {0, 1} /\ Pushing("isr")' \in {0, 1}
      BY DEF Pushing
    <3>4. (printByteIn - printByteOut + Pushing("main") + Pushing("isr")
             <= Capacity - LowWater + 2)'
      <4>1. printByteIn - printByteOut \in Int /\ Capacity - LowWater \in Int
        BY RingAssumption DEF TypeOK
      <4> QED BY <2>0, <3>2, <3>3, <4>1, RoomForTwo
    <3>5. \A d \in Ctx : /\ pc'[d] = "store" <=> pc[d] = "store"
                         /\ pc'[d] = "publish" <=> pc[d] = "publish"
                         /\ pc[d] = "store" => reg'[d] = reg[d]
      BY <2>0
    <3>6. (\A k \in printByteOut .. printByteIn - 1 :
             \/ printBuffer[Slot(k)] = log[k + 1]
             \/ \E d \in Ctx : pc[d] = "store" /\ idx[d] = k)'
      BY <2>0, <3>1, <3>5 DEF RingSound, Slot
    <3>7. (\A d \in Ctx : pc[d] = "publish" => idx[d] = printByteIn)'
      BY <2>0, <3>1, <3>5 DEF RingSound
    <3>8. (\A d \in Ctx : pc[d] = "store" =>
              idx[d] = printByteIn - 1 /\ reg[d] = log[printByteIn]
                /\ printByteOut < printByteIn)'
      BY <2>0, <3>1, <3>5 DEF RingSound
    <3> QED
      BY <2>0, <3>1, <3>4, <3>6, <3>7, <3>8 DEF RingSound
  <2> QED
    BY <2>1, <2>2, <2>0 DEF RingInv
<1> QED
  BY <1>1, <1>2

(* PutChar never meets a full ring: it holds the room CheckRoom found. *)
LEMMA PutCharFullStep ==
  ASSUME TypeOK, RingInv, NEW c \in Ctx, PutCharFull(c)
  PROVE RingInv'
<1> USE DEF Ctx
<1>0. pc[c] = "full" /\ (c = "main" => pc["isr"] = "idle")
  BY DEF PutCharFull, At
<1>1. CASE ~PrintBufFull
  BY <1>1, <1>0, QuietStep DEF PutCharFull, Places, Window, ring, locals, peer, history
<1>2. CASE PrintBufFull
  <2>1. ~RingSound
    <3>1. Pushing("main") \in {0, 1} /\ Pushing("isr") \in {0, 1} /\ Pushing(c) = 1
      BY <1>0 DEF Pushing, Window
    <3>2. ASSUME RingSound PROVE FALSE
      <4>1. PrintBufDepth + 1 <= Capacity
        <5>1. PrintBufDepth + Pushing("main") + Pushing("isr")
                <= Capacity - LowWater + 2
          BY <3>2, SoundDepth
        <5>2. PrintBufDepth \in Nat
          BY DepthIsNat DEF TypeOK
        <5>3. Pushing("main") + Pushing("isr") >= 1
          BY <3>1
        <5> QED BY <3>1, <5>1, <5>2, <5>3, RingAssumption
      <4> QED BY <4>1, <1>2, RingAssumption DEF PrintBufFull
    <3> QED BY <3>2
  <2>2. raced /\ raced'
    BY <2>1 DEF RingInv, PutCharFull, history
  <2> QED BY <2>2 DEF RingInv
<1> QED
  BY <1>1, <1>2

(* PrintBufEnqueue, first access: the index read is the next one.          *)
LEMMA EnqueueReadStep ==
  ASSUME TypeOK, RingInv, NEW c \in Ctx, EnqueueRead(c)
  PROVE RingInv'
<1> USE DEF Ctx
<1>0. /\ pc' = [pc EXCEPT ![c] = "publish"] /\ pc \in [Ctx -> Places]
      /\ idx' = [idx EXCEPT ![c] = printByteIn] /\ idx \in [Ctx -> Nat]
      /\ pc[c] = "read" /\ (c = "main" => pc["isr"] = "idle")
      /\ UNCHANGED <<printByteIn, printByteOut, printBuffer, printOverflow,
                     reg, stream, log, raced>>
  BY DEF EnqueueRead, At, Goto, TypeOK, ring, peer, history
<1>1. (PushInFlight /\ pc["isr"] # "idle" => raced)'
  BY <1>0 DEF RingInv, PushInFlight
<1>2. ASSUME ~raced PROVE RingSound'
  <2>1. RingSound
    BY <1>2 DEF RingInv
  <2>2. Pushing("main")' = Pushing("main") /\ Pushing("isr")' = Pushing("isr")
    BY <1>0 DEF Pushing, Window
  <2>3. \A d \in Ctx : /\ pc'[d] = "store" <=> pc[d] = "store"
                       /\ pc[d] = "store" => idx'[d] = idx[d]
                       /\ pc'[d] = "publish" => \/ d = c
                                                \/ pc[d] = "publish" /\ idx'[d] = idx[d]
    BY <1>0
  <2>4. (printByteIn - printByteOut + Pushing("main") + Pushing("isr")
           <= Capacity - LowWater + 2)'
    BY <1>0, <2>1, <2>2 DEF RingSound
  <2>5. (\A k \in printByteOut .. printByteIn - 1 :
           \/ printBuffer[Slot(k)] = log[k + 1]
           \/ \E d \in Ctx : pc[d] = "store" /\ idx[d] = k)'
    BY <1>0, <2>1, <2>3 DEF RingSound, Slot
  <2>6. (\A d \in Ctx : pc[d] = "publish" => idx[d] = printByteIn)'
    BY <1>0, <2>1, <2>3 DEF RingSound
  <2>7. (\A d \in Ctx : pc[d] = "store" =>
            idx[d] = printByteIn - 1 /\ reg[d] = log[printByteIn]
              /\ printByteOut < printByteIn)'
    BY <1>0, <2>1, <2>3 DEF RingSound
  <2> QED
    BY <1>0, <2>1, <2>4, <2>5, <2>6, <2>7 DEF RingSound
<1> QED
  BY <1>1, <1>2, <1>0 DEF RingInv

(* Second access: the new index announces a byte that is still in reg.     *)
LEMMA EnqueuePublishStep ==
  ASSUME TypeOK, RingInv, NEW c \in Ctx, EnqueuePublish(c)
  PROVE RingInv'
<1> USE DEF Ctx
<1>0. /\ pc' = [pc EXCEPT ![c] = "store"] /\ pc \in [Ctx -> Places]
      /\ printByteIn' = idx[c] + 1 /\ log' = Append(log, reg[c])
      /\ pc[c] = "publish" /\ (c = "main" => pc["isr"] = "idle")
      /\ reg \in [Ctx -> Char] /\ log \in Seq(Char)
      /\ UNCHANGED <<printByteOut, printBuffer, printOverflow, idx, reg,
                     stream, raced>>
  BY DEF EnqueuePublish, At, Goto, TypeOK, locals, peer
<1>1. (PushInFlight /\ pc["isr"] # "idle" => raced)'
  BY <1>0 DEF RingInv, PushInFlight
<1>2. ASSUME ~raced PROVE RingSound'
  <2>1. RingSound /\ (PushInFlight => pc["isr"] = "idle")
    BY <1>2 DEF RingInv
  <2>2. \A d \in Ctx : d # c => pc[d] \notin {"publish", "store"}
    BY <1>0, <2>1 DEF PushInFlight
  <2>3. \A d \in Ctx : /\ pc'[d] # "publish"
                       /\ pc'[d] = "store" <=> d = c
    BY <1>0, <2>2
  <2>4. printByteIn' = printByteIn + 1 /\ idx'[c] = printByteIn
        /\ printByteIn \in Nat /\ printByteOut \in Nat
        /\ printByteOut <= printByteIn /\ Len(log) = printByteIn
    BY <1>0, <2>1 DEF RingSound, TypeOK
  <2>5. /\ Len(log') = printByteIn' /\ log'[printByteIn'] = reg[c]
        /\ \A k \in 1 .. printByteIn : log'[k] = log[k]
    BY <1>0, <2>4
  <2>6. Pushing("main")' + Pushing("isr")' = Pushing("main") + Pushing("isr") - 1
        /\ Pushing("main") \in {0, 1} /\ Pushing("isr") \in {0, 1}
        /\ Pushing("main")' \in {0, 1} /\ Pushing("isr")' \in {0, 1}
    BY <1>0 DEF Pushing, Window
  <2>7. (printByteIn - printByteOut + Pushing("main") + Pushing("isr")
           <= Capacity - LowWater + 2)'
    BY <1>0, <2>1, <2>4, <2>6, RingAssumption DEF RingSound
  <2>8. (\A k \in printByteOut .. printByteIn - 1 :
           \/ printBuffer[Slot(k)] = log[k + 1]
           \/ \E d \in Ctx : pc[d] = "store" /\ idx[d] = k)'
    <3> SUFFICES ASSUME NEW k \in printByteOut .. printByteIn
                 PROVE \/ printBuffer[Slot(k)] = log'[k + 1]
                       \/ \E d \in Ctx : pc'[d] = "store" /\ idx'[d] = k
      BY <1>0, <2>4 DEF Slot
    <3>1. CASE k = printByteIn
      BY <3>1, <2>3, <2>4
    <3>2. CASE k < printByteIn
      BY <3>2, <2>1, <2>2, <2>4, <2>5, <1>0 DEF RingSound
    <3> QED BY <3>1, <3>2, <2>4
  <2>9. (\A k \in 1 .. Len(stream) : stream[k] = log[k])'
    BY <1>0, <2>1, <2>4, <2>5 DEF RingSound
  <2> QED
    BY <1>0, <2>1, <2>3, <2>4, <2>5, <2>7, <2>8, <2>9 DEF RingSound
<1> QED
  BY <1>1, <1>2, <1>0 DEF RingInv

(* Third access: the byte lands in its slot, which no unread byte shares.  *)
LEMMA EnqueueStoreStep ==
  ASSUME TypeOK, RingInv, NEW c \in Ctx, EnqueueStore(c)
  PROVE RingInv'
<1> USE DEF Ctx
<1>0. /\ pc' = [pc EXCEPT ![c] = "advance"] /\ pc \in [Ctx -> Places]
      /\ printBuffer' = [printBuffer EXCEPT ![Slot(idx[c])] = reg[c]]
      /\ printBuffer \in [0 .. Capacity - 1 -> Char]
      /\ pc[c] = "store" /\ (c = "main" => pc["isr"] = "idle")
      /\ UNCHANGED <<printByteIn, printByteOut, printOverflow, idx, reg,
                     stream, log, raced>>
  BY DEF EnqueueStore, At, Goto, TypeOK, locals, peer, history
<1>1. (PushInFlight /\ pc["isr"] # "idle" => raced)'
  BY <1>0 DEF RingInv, PushInFlight
<1>2. ASSUME ~raced PROVE RingSound'
  <2>1. RingSound /\ (PushInFlight => pc["isr"] = "idle")
    BY <1>2 DEF RingInv
  <2>2. \A d \in Ctx : d # c => pc[d] \notin {"publish", "store"}
    BY <1>0, <2>1 DEF PushInFlight
  <2>3. \A d \in Ctx : pc'[d] \notin {"publish", "store"}
    BY <1>0, <2>2
  <2>4. /\ idx[c] = printByteIn - 1 /\ reg[c] = log[printByteIn]
        /\ printByteIn \in Nat /\ printByteOut \in Nat
        /\ printByteOut < printByteIn /\ idx[c] \in Nat
        /\ printByteIn - printByteOut <= Capacity /\ Capacity \in Nat
    BY <1>0, <2>1, SoundDepth, RingAssumption DEF RingSound, TypeOK
  <2>5. Pushing("main")' = Pushing("main") /\ Pushing("isr")' = Pushing("isr")
    BY <1>0 DEF Pushing, Window
  <2>6. (printByteIn - printByteOut + Pushing("main") + Pushing("isr")
           <= Capacity - LowWater + 2)'
    BY <1>0, <2>1, <2>5 DEF RingSound
  <2>7. ASSUME NEW k \in printByteOut .. printByteIn - 1
        PROVE printBuffer'[Slot(k)] = log[k + 1]
    <3>1. k \in Nat /\ Slot(k) \in 0 .. Capacity - 1
      BY <2>4, SlotInRange
    <3>2. CASE k = idx[c]
      BY <3>1, <3>2, <2>4, <1>0
    <3>3. CASE k # idx[c]
      <4>1. k < idx[c] /\ idx[c] - k < Capacity
        BY <3>3, <2>4
      <4>2. Slot(k) # Slot(idx[c])
        BY <4>1, <3>1, <2>4, SlotsDiffer
      <4>3. ~\E d \in Ctx : pc[d] = "store" /\ idx[d] = k
        BY <3>3, <2>2
      <4>4. printBuffer[Slot(k)] = log[k + 1]
        BY <2>1, <4>3 DEF RingSound
      <4> QED BY <4>2, <4>4, <3>1, <1>0
    <3> QED BY <3>2, <3>3
  <2>8. (\A k \in printByteOut .. printByteIn - 1 :
           \/ printBuffer[Slot(k)] = log[k + 1]
           \/ \E d \in Ctx : pc[d] = "store" /\ idx[d] = k)'
    BY <2>7, <1>0 DEF Slot
  <2> QED
    BY <1>0, <2>1, <2>3, <2>6, <2>8 DEF RingSound
<1> QED
  BY <1>1, <1>2, <1>0 DEF RingInv

(* The length of two sequences put together. *)
LEMMA LengthOfConcat ==
  ASSUME NEW S, NEW a \in Seq(S), NEW b \in Seq(S)
  PROVE Len(a \o b) = Len(a) + Len(b)
OBVIOUS

(* What is found where in two sequences put together. *)
LEMMA ElementOfConcat ==
  ASSUME NEW S, NEW a \in Seq(S), NEW b \in Seq(S), NEW k \in Nat
  PROVE /\ k \in 1 .. Len(a) => (a \o b)[k] = a[k]
        /\ k - Len(a) \in 1 .. Len(b) => (a \o b)[k] = b[k - Len(a)]
OBVIOUS

(* A read request empties the ring; a push it interrupts makes it raced.   *)
LEMMA StringsRequestStep ==
  ASSUME TypeOK, RingInv, NEW sub \in SubIndices, StringsRequest(sub)
  PROVE RingInv'
<1> USE DEF Ctx
<1>0. /\ pc["isr"] = "idle" /\ pc \in [Ctx -> Places]
      /\ pc' = pc \/ pc' = [pc EXCEPT !["isr"] = "enter"]
      /\ printByteIn' = 0 /\ printByteOut' = 0 /\ printOverflow' = FALSE
      /\ stream' = <<>> /\ log' = <<>> /\ raced' = PushInFlight
  BY DEF StringsRequest, Goto, TypeOK
<1>1. (PushInFlight /\ pc["isr"] # "idle" => raced)'
  BY <1>0 DEF PushInFlight
<1>2. ASSUME ~raced' PROVE RingSound'
  <2>1. pc["main"] \notin {"publish", "store"}
    BY <1>0, <1>2 DEF PushInFlight
  <2>2. \A d \in Ctx : pc'[d] \notin {"publish", "store"}
    BY <1>0, <2>1
  <2>3. Pushing("main")' \in {0, 1} /\ Pushing("isr")' = 0
    BY <1>0 DEF Pushing, Window
  <2>4. (printByteIn - printByteOut + Pushing("main") + Pushing("isr")
           <= Capacity - LowWater + 2)'
    BY <1>0, <2>3, RingAssumption
  <2>5. Len(stream') = 0 /\ Len(log') = 0
    BY <1>0
  <2> QED
    BY <1>0, <2>2, <2>4, <2>5 DEF RingSound
<1> QED
  BY <1>1, <1>2 DEF RingInv

(* A segment hands out bytes that are in their slots already.              *)
LEMMA SegmentRequestStep ==
  ASSUME TypeOK, RingInv, SegmentRequest
  PROVE RingInv'
<1> USE DEF Ctx
<1> DEFINE n == IF PrintBufDepth < SegBytes THEN PrintBufDepth ELSE SegBytes
           seg == [k \in 1 .. n |-> printBuffer[Slot(printByteOut + k - 1)]]
<1>0. /\ pc["isr"] = "idle" /\ pc \in [Ctx -> Places]
      /\ stream' = stream \o seg /\ printByteOut' = printByteOut + n
      /\ raced' = (raced \/ (pc["main"] = "store" /\ n = PrintBufDepth))
      /\ UNCHANGED <<printByteIn, printBuffer, printOverflow, pc, reg, idx, log>>
  BY DEF SegmentRequest, TypeOK, locals
<1>1. (PushInFlight /\ pc["isr"] # "idle" => raced)'
  BY <1>0 DEF PushInFlight
<1>2. ASSUME ~raced' PROVE RingSound'
  <2>1. /\ RingSound /\ ~raced
        /\ pc["main"] = "store" => n # PrintBufDepth
    BY <1>0, <1>2, Zenon DEF RingInv
  <2>2. /\ PrintBufDepth = printByteIn - printByteOut /\ n \in Nat
        /\ n <= PrintBufDepth /\ PrintBufDepth \in Nat
        /\ printByteIn \in Nat /\ printByteOut \in Nat
    <3>1. PrintBufDepth = printByteIn - printByteOut
      BY <2>1, SoundDepth
    <3>2. printByteIn \in Nat /\ printByteOut \in Nat
      BY DEF TypeOK
    <3>3. PrintBufDepth \in Nat
      BY <3>2, DepthIsNat
    <3>4. n \in Nat /\ n <= PrintBufDepth
      BY <3>3, TransferAssumption
    <3> QED BY <3>1, <3>2, <3>3, <3>4
  <2>3. seg \in Seq(Char) /\ Len(seg) = n
        /\ \A k \in 1 .. n : seg[k] = printBuffer[Slot(printByteOut + k - 1)]
    <3> HIDE DEF n
    <3>1. seg \in Seq(Char)
      BY <2>2, SegmentTyped
    <3>2. DOMAIN seg = 1 .. n
      OBVIOUS
    <3>3. Len(seg) = n
      <4> HIDE DEF seg
      <4> QED BY <3>1, <3>2, <2>2
    <3> QED BY <3>1, <3>3
  <2> HIDE DEF n, seg
  <2>4. stream \in Seq(Char) /\ log \in Seq(Char) /\ Len(stream) = printByteOut
    BY <2>1 DEF TypeOK, RingSound
  <2>5. Len(stream') = printByteOut' /\ printByteOut' <= printByteIn'
    <3>1. Len(stream \o seg) = Len(stream) + Len(seg)
      BY <2>3, <2>4, LengthOfConcat
    <3>2. Len(stream') = printByteOut'
      BY <3>1, <1>0, <2>3, <2>4
    <3> QED BY <3>2, <1>0, <2>2
  <2>6. ASSUME NEW k \in 1 .. n PROVE seg[k] = log[printByteOut + k]
    <3>1. printByteOut + k - 1 \in printByteOut .. printByteIn - 1
      BY <2>2
    <3>2. ~\E d \in Ctx : pc[d] = "store" /\ idx[d] = printByteOut + k - 1
      BY <1>0, <2>1, <2>2 DEF RingSound
    <3>3. printBuffer[Slot(printByteOut + k - 1)] = log[printByteOut + k - 1 + 1]
      BY <3>1, <3>2, <2>1 DEF RingSound
    <3> QED BY <3>3, <2>2, <2>3
  <2>7. ASSUME NEW k \in 1 .. Len(stream') PROVE stream'[k] = log[k]
    <3>1. CASE k <= printByteOut
      <4>1. stream'[k] = stream[k]
        BY <3>1, <1>0, <2>2, <2>3, <2>4, ElementOfConcat
      <4> QED BY <4>1, <3>1, <2>1, <2>2, <2>4 DEF RingSound
    <3>2. CASE k > printByteOut
      <4>1. k - printByteOut \in 1 .. n
        BY <3>2, <2>2, <2>5, <1>0
      <4>2. (stream \o seg)[k] = seg[k - printByteOut]
        <5>1. k \in Nat /\ k - Len(stream) \in 1 .. Len(seg)
          BY <4>1, <3>2, <2>2, <2>3, <2>4
        <5>2. seg \in Seq(Char) /\ stream \in Seq(Char)
          BY <2>3, <2>4
        <5> QED BY <5>1, <5>2, <2>4, ElementOfConcat
      <4> QED BY <4>1, <4>2, <2>6, <2>2, <1>0
    <3> QED BY <3>1, <3>2, <2>2, <2>5, <1>0
  <2>8. Pushing("main")' \in {0, 1} /\ Pushing("isr")' \in {0, 1}
        /\ Pushing("main")' = Pushing("main") /\ Pushing("isr")' = Pushing("isr")
    BY <1>0 DEF Pushing
  <2>9. (printByteIn - printByteOut + Pushing("main") + Pushing("isr")
           <= Capacity - LowWater + 2)'
    BY <1>0, <2>1, <2>2, <2>8, RingAssumption DEF RingSound
  <2>10. (\A d \in Ctx : pc[d] = "store" =>
            idx[d] = printByteIn - 1 /\ reg[d] = log[printByteIn]
              /\ printByteOut < printByteIn)'
    BY <1>0, <2>1, <2>2 DEF RingSound
  <2>11. (\A k \in printByteOut .. printByteIn - 1 :
            \/ printBuffer[Slot(k)] = log[k + 1]
            \/ \E d \in Ctx : pc[d] = "store" /\ idx[d] = k)'
    BY <1>0, <2>1, <2>2 DEF RingSound, Slot
  <2> QED
    BY <1>0, <2>1, <2>5, <2>7, <2>9, <2>10, <2>11 DEF RingSound
<1> QED
  BY <1>1, <1>2 DEF RingInv

-----------------------------------------------------------------------------
(* Every step of either context keeps the ring invariant. *)
LEMMA RingPreserved == TypeOK /\ RingInv /\ [Next]_vars => RingInv'
<1> SUFFICES ASSUME TypeOK, RingInv, [Next]_vars PROVE RingInv'
  OBVIOUS
<1> USE DEF Places, Window, Ctx
<1>1. CASE TriggerTimeoutRead
  BY <1>1, QuietStep DEF TriggerTimeoutRead, At, ring, peer, history
<1>2. CASE TriggerTimeoutWrite
  BY <1>2, QuietStep DEF TriggerTimeoutWrite, At, ring, locals, peer, history
<1>3. CASE PollPrintRequest
  BY <1>3, QuietStep DEF PollPrintRequest, At, ring, locals, peer, history
<1>4. ASSUME NEW c \in Ctx, Enter(c) PROVE RingInv'
  BY <1>4, QuietStep DEF Enter, At, ring, locals, peer, history
<1>5. ASSUME NEW c \in Ctx, Restart(c) PROVE RingInv'
  BY <1>5, QuietStep DEF Restart, At, ring, locals, peer, history
<1>6. ASSUME NEW c \in Ctx, PutChar(c) PROVE RingInv'
  BY <1>6, QuietStep DEF PutChar, At, ring, locals, peer, history
<1>7. ASSUME NEW c \in Ctx, Advance(c) PROVE RingInv'
  BY <1>7, QuietStep DEF Advance, At, ring, locals, peer, history
<1>8. ASSUME NEW c \in Ctx, ChunkDone(c) PROVE RingInv'
  BY <1>8, QuietStep DEF ChunkDone, At, ring, locals, peer, history
<1>9. ASSUME NEW c \in Ctx, NextChunk(c) PROVE RingInv'
  BY <1>9, QuietStep DEF NextChunk, At, ring, locals, peer, history
<1>10. ASSUME NEW c \in Ctx, Format(c) PROVE RingInv'
  BY <1>10, QuietStep DEF Format, At, ring, locals, peer, history
<1>11. ASSUME NEW c \in Ctx, Formatted(c) PROVE RingInv'
  BY <1>11, QuietStep DEF Formatted, At, ring, locals, peer, history
<1>12. ASSUME NEW c \in Ctx, Finish(c) PROVE RingInv'
  BY <1>12, QuietStep DEF Finish, At, ring, locals, peer, history
<1>13. ASSUME NEW c \in Ctx, ClearPrintRequest(c) PROVE RingInv'
  BY <1>13, QuietStep DEF ClearPrintRequest, Return, At, ring, locals, history
<1>14. CASE UNCHANGED vars
  <2>1. UNCHANGED <<printByteIn, printByteOut, printBuffer, printOverflow, pc,
                    reg, idx, stream, log, raced>>
    BY <1>14 DEF vars, ring, locals, peer, history
  <2>2. (PushInFlight /\ pc["isr"] # "idle" => raced)'
    BY <2>1 DEF RingInv, PushInFlight
  <2>3. RingSound' <=> RingSound
    BY <2>1 DEF RingSound, Pushing, Slot
  <2> QED BY <2>1, <2>2, <2>3 DEF RingInv
<1> QED
  BY <1>1, <1>2, <1>3, <1>4, <1>5, <1>6, <1>7, <1>8, <1>9, <1>10, <1>11,
     <1>12, <1>13, <1>14, CheckRoomStep, PutCharFullStep, EnqueueReadStep,
     EnqueuePublishStep, EnqueueStoreStep, StringsRequestStep,
     SegmentRequestStep
  DEF Next, MainLoop, CanRxIsr, PrintParamsJson

(* The invariant the two properties below follow from. *)
THEOREM RingInvariant == Spec => [](TypeOK /\ RingInv)
<1>1. Init => RingInv
  <2> SUFFICES ASSUME Init PROVE RingInv
    OBVIOUS
  <2>1. \A c \in Ctx : pc[c] = "idle"
    BY DEF Init
  <2>2. Pushing("main") = 0 /\ Pushing("isr") = 0
    BY <2>1 DEF Pushing, Window, Ctx
  <2>3. Len(stream) = 0 /\ Len(log) = 0
    BY DEF Init
  <2>4. RingSound
    BY <2>1, <2>2, <2>3, RingAssumption DEF Init, RingSound
  <2> QED BY <2>1, <2>4 DEF RingInv, PushInFlight, Ctx
<1>2. TypeOK /\ RingInv /\ [Next]_vars => RingInv'
  BY RingPreserved
<1> QED
  BY <1>1, <1>2, TypeCorrect, PTL DEF Spec

(* The ring hands the client what PutChar published, first in first out,   *)
(* whatever the interleaving, as long as no interrupt hit a push half way. *)
THEOREM RingDeliversInOrder == Spec => []DeliveredInOrder
<1>1. TypeOK /\ RingInv => DeliveredInOrder
  <2> SUFFICES ASSUME TypeOK, RingInv, ~raced
               PROVE /\ Len(stream) = printByteOut
                     /\ printByteOut <= Len(log)
                     /\ \A k \in 1 .. Len(stream) : stream[k] = log[k]
    BY DEF DeliveredInOrder
  <2> QED BY DEF RingInv, RingSound
<1> QED
  BY <1>1, RingInvariant, PTL

(* Room for two is enough: a full ring, which would set printOverflow and  *)
(* stop the producer for good, is never met, for every capacity.           *)
THEOREM RingNeverOverflows == Spec => []NoOverflow
<1>1. RingInv => NoOverflow
  BY DEF RingInv, RingSound, NoOverflow
<1> QED
  BY <1>1, RingInvariant, PTL

-------------------------------------------------------------------------------
(* The document of the first request, character by character: where the    *)
(* statics of PrintParamsJson stand says what is in the ring already and   *)
(* what comes next.                                                        *)

(* Who is in PrintParamsJson: nobody, or one context alone.                *)
Resting == pc["isr"] = "idle" /\ pc["main"] \in {"idle", "tick", "poll"}
Alone(c) ==
  IF c = "isr" THEN pc["isr"] # "idle" /\ pc["main"] \in {"idle", "tick", "poll"}
  ELSE pc["isr"] = "idle" /\ pc["main"] \notin {"idle", "tick", "poll"}

(* The character of the document after another, and after what is out.     *)
Successor(char) == IF char[2] + 1 < ChunkLen[char[1]]
                   THEN <<char[1], char[2] + 1>>
                   ELSE <<char[1] + 1, 0>>
Due == IF log = <<>> THEN <<1, 0>> ELSE Successor(log[Len(log)])

(* The character a context at a place prints next, from the statics.       *)
Coming(place) ==
  CASE place \in {"store", "advance"} -> Successor(<<chunk, outPos>>)
    [] place = "next" -> <<chunk + 1, 0>>
    [] OTHER -> IF chunkReady = FALSE THEN <<chunk, 0>>
                ELSE IF outPos < outLen THEN <<chunk, outPos>>
                ELSE <<chunk + 1, 0>>

(* What the statics and locals are there.                                  *)
Prepared(c, place) ==
  /\ chunkReady = TRUE => /\ chunk \in DOMAIN ChunkLen
                          /\ outBuf = chunk /\ outLen = ChunkLen[chunk]
  /\ place \in {"put", "full", "read", "publish", "store", "advance"} =>
       chunkReady = TRUE /\ outPos < outLen
  /\ place \in {"put", "full", "read", "publish", "store"} => reg[c] = <<chunk, outPos>>
  /\ place \in {"full", "read", "publish"} => printTimeout # 0
  /\ place = "next" => chunkReady = FALSE
  /\ place = "formatted" => /\ chunkReady = FALSE /\ chunk \in DOMAIN ChunkLen
                            /\ outBuf = chunk /\ fmt[c] = chunk

(* Where the first request is: accepted, begun, being printed or over.     *)
Accepted(place) == active = FALSE /\ log = <<>> /\ place \in {"idle", "enter"}
Begun(place) == active = TRUE /\ log = <<>> /\ place = "restart"
Printing(c, place) ==
  /\ active = TRUE /\ place \notin {"restart", "clear"}
  /\ FollowsDocument(log) /\ Prepared(c, place)
  /\ printTimeout # 0 => Due = Coming(place)
Over(place) ==
  /\ active = FALSE /\ FollowsDocument(log)
  /\ place = "clear" \/ (place = "idle" /\ printRequest = -1)
Stage(c, place) ==
  Accepted(place) \/ Begun(place) \/ Printing(c, place) \/ Over(place)

(* A timeout that has run out stays so: TriggerTimeout writes what it has  *)
(* read only if that was not zero.                                         *)
StaysOut == pc["main"] = "tick" /\ printTimeout = 0 => tmo = 0

FollowInv ==
  /\ StaysOut
  /\ requests = 0 => Resting /\ active = FALSE /\ log = <<>> /\ printRequest = -1
  /\ requests = 1 /\ ~raced => \/ Resting /\ Stage("main", "idle")
                               \/ \E c \in Ctx : Alone(c) /\ Stage(c, pc[c])

(* A context that is in PrintParamsJson during the first request is there  *)
(* alone.                                                                  *)
LEMMA ProducerAlone ==
  ASSUME TypeOK, FollowInv, ~raced, requests = 1, NEW c \in Ctx, NEW p,
         At(c, p), p \notin {"idle", "tick", "poll"}
  PROVE  Alone(c) /\ Stage(c, p)
<1>1. ~Resting /\ pc[c] = p
  BY DEF Resting, At, Ctx
<1>2. PICK d \in Ctx : Alone(d) /\ Stage(d, pc[d])
  BY <1>1 DEF FollowInv
<1>3. d = c
  BY <1>1, <1>2 DEF Alone, At, Ctx
<1> QED
  BY <1>1, <1>2, <1>3

(* A step of such a context from one place to the next keeps the invariant *)
(* if it leads from one stage to the next.                                 *)
LEMMA ProducerGoesOn ==
  ASSUME TypeOK, FollowInv, NEW c \in Ctx, NEW p, NEW q,
         At(c, p), p \notin {"idle", "tick", "poll"}, Goto(c, q), q \notin {"tick", "poll"},
         requests' = requests, raced' = raced, tmo' = tmo,
         printTimeout' \in {printTimeout, Timeout}, printTimeout = 0 => printTimeout' = 0,
         ~raced /\ Stage(c, p) => Stage(c, q)'
  PROVE  FollowInv'
<1>1. ~Resting /\ pc[c] = p /\ pc' = [pc EXCEPT ![c] = q] /\ pc \in [Ctx -> Places]
  BY DEF Resting, At, Ctx, Goto, TypeOK
<1>2. \A d \in Ctx : pc'[d] = IF d = c THEN q ELSE pc[d]
  BY <1>1 DEF Ctx
<1>3. StaysOut'
  <2>1. pc'["main"] = "tick" => pc["main"] = "tick"
    BY <1>2 DEF Ctx
  <2>2. Timeout # 0
    BY TransferAssumption
  <2>3. printTimeout' = 0 => printTimeout = 0
    BY <2>2
  <2> QED
    BY <2>1, <2>3 DEF StaysOut, FollowInv
<1>4. requests # 0
  BY <1>1 DEF FollowInv
<1>5. ASSUME requests = 1, ~raced
      PROVE  (Resting /\ Stage("main", "idle"))' \/ \E d \in Ctx : (Alone(d) /\ Stage(d, pc[d]))'
  <2>1. Alone(c) /\ Stage(c, q)'
    BY <1>5, ProducerAlone
  <2>2. CASE q = "idle"
    <3>1. Resting'
      BY <2>1, <2>2, <1>2, <1>1 DEF Resting, Alone, Ctx
    <3>2. Stage("main", "idle")'
      BY <2>1, <2>2 DEF Stage, Accepted, Begun, Printing, Prepared, Over
    <3> QED
      BY <3>1, <3>2
  <2>3. CASE q # "idle"
    <3>1. Alone(c)'
      BY <2>1, <2>3, <1>2 DEF Alone, Ctx
    <3>2. pc'[c] = q
      BY <1>2
    <3> QED
      BY <2>1, <3>1, <3>2
  <2> QED
    BY <2>2, <2>3
<1> QED
  BY <1>3, <1>4, <1>5 DEF FollowInv

(* Each action of PrintParamsJson leads from one stage to the next.        *)
LEMMA EnterFollows ==
  ASSUME TypeOK, FollowInv, NEW c \in Ctx, Enter(c)
  PROVE  FollowInv'
<1>1. /\ At(c, "enter") /\ active' = TRUE /\ UNCHANGED <<printTimeout, printRequest, chunk, outBuf>>
      /\ UNCHANGED <<outLen, outPos, chunkReady, reg, fmt, tmo, requests, log, raced>>
      /\ active \in BOOLEAN
  BY DEF Enter, locals, peer, history, TypeOK
<1>2. active = TRUE => Goto(c, "loop")
  BY DEF Enter
<1>3. active = FALSE => Goto(c, "restart")
  BY DEF Enter
<1>4. active = TRUE /\ Stage(c, "enter") => Stage(c, "loop")'
  BY <1>1 DEF Stage, Accepted, Begun, Printing, Prepared, Over, Coming, Due, FollowsDocument, Successor
<1>5. active = FALSE /\ Stage(c, "enter") => Stage(c, "restart")'
  BY <1>1 DEF Stage, Accepted, Begun, Printing, Over
<1> QED
  BY <1>1, <1>2, <1>3, <1>4, <1>5, ProducerGoesOn

LEMMA RestartFollows ==
  ASSUME TypeOK, FollowInv, NEW c \in Ctx, Restart(c)
  PROVE  FollowInv'
<1>1. /\ At(c, "restart") /\ Goto(c, "loop") /\ chunk' = 1 /\ chunkReady' = FALSE
      /\ UNCHANGED <<printTimeout, printRequest, active, outBuf, reg, fmt, tmo, requests, log, raced>>
  BY DEF Restart, locals, peer, history
<1>2. Stage(c, "restart") => Stage(c, "loop")'
  <2> SUFFICES ASSUME Stage(c, "restart") PROVE Stage(c, "loop")'
    OBVIOUS
  <2>1. active = TRUE /\ log = <<>>
    BY DEF Stage, Accepted, Begun, Printing, Over
  <2>2. FollowsDocument(log)' /\ Due' = <<1, 0>> /\ Coming("loop")' = <<1, 0>>
    BY <1>1, <2>1 DEF FollowsDocument, Due, Coming
  <2>3. Prepared(c, "loop")'
    BY <1>1 DEF Prepared
  <2> QED
    BY <1>1, <2>1, <2>2, <2>3 DEF Stage, Printing
<1> QED
  BY <1>1, <1>2, ProducerGoesOn

LEMMA CheckRoomFollows ==
  ASSUME TypeOK, FollowInv, NEW c \in Ctx, CheckRoom(c)
  PROVE  FollowInv'
<1>1. /\ At(c, "loop") /\ chunkReady /\ outPos < outLen
      /\ UNCHANGED <<printTimeout, printRequest, active, chunk, outBuf>>
      /\ UNCHANGED <<outLen, outPos, chunkReady, fmt, tmo, requests, log, raced>>
      /\ chunkReady \in BOOLEAN
  BY DEF CheckRoom, statics, history, TypeOK
<1>0. chunkReady = TRUE
  BY <1>1, Zenon
<1>2. CASE BufferLow
  <2>1. Goto(c, "idle") /\ reg' = reg
    BY <1>2 DEF CheckRoom, Return
  <2>2. Stage(c, "loop") => Stage(c, "idle")'
    BY <1>1, <2>1 DEF Stage, Accepted, Begun, Printing, Prepared, Over, Coming, Due, FollowsDocument, Successor
  <2> QED
    BY <1>1, <2>1, <2>2, ProducerGoesOn
<1>3. CASE ~BufferLow
  <2>1. Goto(c, "put") /\ reg' = [reg EXCEPT ![c] = <<outBuf, outPos>>]
    BY <1>3 DEF CheckRoom
  <2>2. reg'[c] = <<outBuf, outPos>>
    BY <2>1 DEF TypeOK
  <2>3. Stage(c, "loop") => Stage(c, "put")'
    <3> SUFFICES ASSUME Stage(c, "loop") PROVE Stage(c, "put")'
      OBVIOUS
    <3>1. Printing(c, "loop")
      BY DEF Stage, Accepted, Begun, Over
    <3>2. Prepared(c, "put")'
      BY <1>0, <1>1, <2>2, <3>1 DEF Printing, Prepared
    <3>3. Coming("put")' = Coming("loop") /\ Due' = Due /\ FollowsDocument(log)'
      BY <1>1, <3>1 DEF Coming, Due, FollowsDocument, Successor, Printing
    <3> QED
      BY <1>1, <3>1, <3>2, <3>3 DEF Stage, Printing
  <2> QED
    BY <1>1, <2>1, <2>3, ProducerGoesOn
<1> QED
  BY <1>2, <1>3

LEMMA PutCharFollows ==
  ASSUME TypeOK, FollowInv, NEW c \in Ctx, PutChar(c)
  PROVE  FollowInv'
<1>1. /\ At(c, "put") /\ UNCHANGED <<printRequest, active, chunk, outBuf, outLen, outPos>>
      /\ UNCHANGED <<chunkReady, reg, fmt, tmo, requests, log, raced>>
  BY DEF PutChar, statics, locals, peer, history
<1>2. Stage(c, "put") => /\ Printing(c, "put")
                         /\ Coming("put")' = Coming("put") /\ Coming("full")' = Coming("put")
                         /\ Due' = Due /\ FollowsDocument(log)'
  BY <1>1 DEF Stage, Accepted, Begun, Over, Printing, Coming, Due, FollowsDocument, Successor
<1>3. CASE printTimeout = 0
  <2>1. Goto(c, "advance") /\ printTimeout' = 0
    BY <1>3 DEF PutChar
  <2>2. Stage(c, "put") => Stage(c, "advance")'
    BY <1>1, <1>2, <2>1 DEF Stage, Printing, Prepared
  <2> QED
    BY <1>1, <1>3, <2>1, <2>2, ProducerGoesOn
<1>4. CASE printTimeout # 0
  <2>1. Goto(c, "full") /\ printTimeout' = Timeout /\ Timeout # 0
    BY <1>4, TransferAssumption DEF PutChar
  <2>2. Stage(c, "put") => Stage(c, "full")'
    BY <1>1, <1>2, <1>4, <2>1 DEF Stage, Printing, Prepared
  <2> QED
    BY <1>1, <1>4, <2>1, <2>2, ProducerGoesOn
<1> QED
  BY <1>3, <1>4

LEMMA PutCharFullFollows ==
  ASSUME TypeOK, FollowInv, RingInv', NEW c \in Ctx, PutCharFull(c)
  PROVE  FollowInv'
<1>1. /\ At(c, "full") /\ UNCHANGED <<printTimeout, printRequest, active, chunk, outBuf, outLen>>
      /\ UNCHANGED <<outPos, chunkReady, reg, fmt, tmo, requests, log, raced>>
  BY DEF PutCharFull, statics, locals, peer, history
<1>2. CASE PrintBufFull
  <2>1. Goto(c, "advance") /\ printOverflow' = TRUE
    BY <1>2 DEF PutCharFull
  <2>2. raced
    BY <1>1, <2>1 DEF RingInv, RingSound
  <2> QED
    BY <1>1, <2>1, <2>2, ProducerGoesOn
<1>3. CASE ~PrintBufFull
  <2>1. Goto(c, "read")
    BY <1>3 DEF PutCharFull
  <2>2. Stage(c, "full") => Stage(c, "read")'
    BY <1>1 DEF Stage, Accepted, Begun, Over, Printing, Prepared, Coming, Due, FollowsDocument, Successor
  <2> QED
    BY <1>1, <2>1, <2>2, ProducerGoesOn
<1> QED
  BY <1>2, <1>3

LEMMA EnqueueReadFollows ==
  ASSUME TypeOK, FollowInv, NEW c \in Ctx, EnqueueRead(c)
  PROVE  FollowInv'
<1>1. /\ At(c, "read") /\ Goto(c, "publish")
      /\ UNCHANGED <<printTimeout, printRequest, active, chunk, outBuf, outLen>>
      /\ UNCHANGED <<outPos, chunkReady, reg, fmt, tmo, requests, log, raced>>
  BY DEF EnqueueRead, statics, peer, history
<1>2. Stage(c, "read") => Stage(c, "publish")'
  BY <1>1 DEF Stage, Accepted, Begun, Over, Printing, Prepared, Coming, Due, FollowsDocument, Successor
<1> QED
  BY <1>1, <1>2, ProducerGoesOn

(* The character that is due, put behind what is out, follows it.          *)
LEMMA PublishedFollows ==
  ASSUME NEW char \in Char, log \in Seq(Char), FollowsDocument(log), Due = char,
         log' = Append(log, char)
  PROVE  FollowsDocument(log)' /\ Due' = Successor(char)
<1>1. /\ Len(log) \in Nat /\ Len(log') = Len(log) + 1 /\ log' # <<>>
      /\ log'[Len(log) + 1] = char /\ \A k \in 1 .. Len(log) : log'[k] = log[k]
      /\ log = <<>> <=> Len(log) = 0
  OBVIOUS
<1>2. Due' = Successor(char)
  BY <1>1 DEF Due, Successor
<1>3. log'[1] = <<1, 0>>
  BY <1>1 DEF Due, FollowsDocument
<1>4. ASSUME NEW k \in 1 .. Len(log)
      PROVE  log'[k + 1] = Successor(log'[k])
  <2>1. CASE k = Len(log)
    BY <1>1, <2>1 DEF Due
  <2>2. CASE k # Len(log)
    <3>1. k \in 1 .. Len(log) - 1 /\ k + 1 \in 1 .. Len(log)
      BY <1>1, <2>2
    <3>2. log[k + 1] = Successor(log[k])
      BY <3>1 DEF FollowsDocument, Successor
    <3> QED
      BY <1>1, <3>1, <3>2 DEF Successor
  <2> QED
    BY <2>1, <2>2
<1>5. Len(log') - 1 = Len(log)
  BY <1>1
<1> QED
  BY <1>2, <1>3, <1>4, <1>5 DEF FollowsDocument, Successor

LEMMA EnqueuePublishFollows ==
  ASSUME TypeOK, FollowInv, NEW c \in Ctx, EnqueuePublish(c)
  PROVE  FollowInv'
<1>1. /\ At(c, "publish") /\ Goto(c, "store") /\ log' = Append(log, reg[c])
      /\ UNCHANGED <<printTimeout, printRequest, active, chunk, outBuf, outLen>>
      /\ UNCHANGED <<outPos, chunkReady, reg, fmt, tmo, requests, raced>>
      /\ reg[c] \in Char /\ log \in Seq(Char)
  BY DEF EnqueuePublish, statics, locals, peer, TypeOK
<1>2. Stage(c, "publish") => Stage(c, "store")'
  <2> SUFFICES ASSUME Stage(c, "publish") PROVE Stage(c, "store")'
    OBVIOUS
  <2>1. Printing(c, "publish")
    BY DEF Stage, Accepted, Begun, Over
  <2>2. Due = reg[c] /\ reg[c] = <<chunk, outPos>> /\ FollowsDocument(log)
    BY <2>1 DEF Printing, Prepared, Coming
  <2>3. FollowsDocument(log)' /\ Due' = Successor(reg[c])
    BY <1>1, <2>2, PublishedFollows
  <2>4. Coming("store")' = Successor(reg[c])
    BY <1>1, <2>2 DEF Coming, Successor
  <2>5. Prepared(c, "store")'
    BY <1>1, <2>1 DEF Printing, Prepared
  <2> QED
    BY <1>1, <2>1, <2>3, <2>4, <2>5 DEF Stage, Printing
<1> QED
  BY <1>1, <1>2, ProducerGoesOn

LEMMA EnqueueStoreFollows ==
  ASSUME TypeOK, FollowInv, NEW c \in Ctx, EnqueueStore(c)
  PROVE  FollowInv'
<1>1. /\ At(c, "store") /\ Goto(c, "advance")
      /\ UNCHANGED <<printTimeout, printRequest, active, chunk, outBuf, outLen>>
      /\ UNCHANGED <<outPos, chunkReady, reg, fmt, tmo, requests, log, raced>>
  BY DEF EnqueueStore, statics, locals, peer, history
<1>2. Stage(c, "store") => Stage(c, "advance")'
  BY <1>1 DEF Stage, Accepted, Begun, Over, Printing, Prepared, Coming, Due, FollowsDocument, Successor
<1> QED
  BY <1>1, <1>2, ProducerGoesOn

LEMMA AdvanceFollows ==
  ASSUME TypeOK, FollowInv, NEW c \in Ctx, Advance(c)
  PROVE  FollowInv'
<1>1. /\ At(c, "advance") /\ Goto(c, "loop") /\ outPos' = outPos + 1 /\ outPos \in Nat
      /\ UNCHANGED <<printTimeout, printRequest, active, chunk, outBuf, outLen>>
      /\ UNCHANGED <<chunkReady, reg, fmt, tmo, requests, log, raced>>
  BY DEF Advance, locals, peer, history, TypeOK
<1>2. Stage(c, "advance") => Stage(c, "loop")'
  <2> SUFFICES ASSUME Stage(c, "advance") PROVE Stage(c, "loop")'
    OBVIOUS
  <2>1. Printing(c, "advance")
    BY DEF Stage, Accepted, Begun, Over
  <2>2. chunkReady = TRUE /\ outLen = ChunkLen[chunk]
    BY <2>1 DEF Printing, Prepared
  <2>3. Coming("loop")' = Coming("advance")
    BY <1>1, <2>2 DEF Coming, Successor
  <2>4. Prepared(c, "loop")'
    BY <1>1, <2>1 DEF Printing, Prepared
  <2>5. Due' = Due /\ FollowsDocument(log)'
    BY <1>1, <2>1 DEF Printing, Due, FollowsDocument, Successor
  <2> QED
    BY <1>1, <2>1, <2>3, <2>4, <2>5 DEF Stage, Printing
<1> QED
  BY <1>1, <1>2, ProducerGoesOn

LEMMA ChunkDoneFollows ==
  ASSUME TypeOK, FollowInv, NEW c \in Ctx, ChunkDone(c)
  PROVE  FollowInv'
<1>1. /\ At(c, "loop") /\ Goto(c, "next") /\ ~(outPos < outLen) /\ chunkReady' = FALSE
      /\ UNCHANGED <<printTimeout, printRequest, active, chunk, outBuf>>
      /\ UNCHANGED <<reg, fmt, tmo, requests, log, raced>>
  BY DEF ChunkDone, locals, peer, history, TypeOK
<1>0. chunkReady = TRUE
  <2>1. chunkReady /\ chunkReady \in BOOLEAN
    BY DEF ChunkDone, TypeOK
  <2> QED
    BY <2>1, Zenon
<1>2. Stage(c, "loop") => Stage(c, "next")'
  BY <1>0, <1>1 DEF Stage, Accepted, Begun, Over, Printing, Prepared, Coming, Due, FollowsDocument, Successor
<1> QED
  BY <1>1, <1>2, ProducerGoesOn

LEMMA NextChunkFollows ==
  ASSUME TypeOK, FollowInv, NEW c \in Ctx, NextChunk(c)
  PROVE  FollowInv'
<1>1. /\ At(c, "next") /\ Goto(c, "loop") /\ chunk' = chunk + 1
      /\ UNCHANGED <<printTimeout, printRequest, active, outBuf, outLen>>
      /\ UNCHANGED <<outPos, chunkReady, reg, fmt, tmo, requests, log, raced>>
  BY DEF NextChunk, locals, peer, history
<1>2. Stage(c, "next") => Stage(c, "loop")'
  BY <1>1 DEF Stage, Accepted, Begun, Over, Printing, Prepared, Coming, Due, FollowsDocument, Successor
<1> QED
  BY <1>1, <1>2, ProducerGoesOn

LEMMA FormatFollows ==
  ASSUME TypeOK, FollowInv, NEW c \in Ctx, Format(c)
  PROVE  FollowInv'
<1>1. /\ At(c, "loop") /\ Goto(c, "formatted") /\ fmt' = [fmt EXCEPT ![c] = chunk] /\ outBuf' = chunk
      /\ UNCHANGED <<printTimeout, printRequest, active, chunk, outLen>>
      /\ UNCHANGED <<outPos, chunkReady, reg, tmo, requests, log, raced>>
  BY DEF Format, peer, history
<1>2. fmt'[c] = chunk /\ chunk \in DOMAIN ChunkLen
  BY <1>1, TransferAssumption DEF Format, TypeOK
<1>0. chunkReady = FALSE
  <2>1. ~chunkReady /\ chunkReady \in BOOLEAN
    BY DEF Format, TypeOK
  <2> QED
    BY <2>1, Zenon
<1>3. Stage(c, "loop") => Stage(c, "formatted")'
  BY <1>0, <1>1, <1>2 DEF Stage, Accepted, Begun, Over, Printing, Prepared, Coming, Due, FollowsDocument, Successor
<1> QED
  BY <1>1, <1>3, ProducerGoesOn

LEMMA FormattedFollows ==
  ASSUME TypeOK, FollowInv, NEW c \in Ctx, Formatted(c)
  PROVE  FollowInv'
<1>1. /\ At(c, "formatted") /\ Goto(c, "loop") /\ outBuf' = (IF outBuf = fmt[c] THEN outBuf ELSE Garbled)
      /\ outLen' = ChunkLen[fmt[c]] /\ outPos' = 0 /\ chunkReady' = TRUE
      /\ UNCHANGED <<printTimeout, printRequest, active, chunk>>
      /\ UNCHANGED <<reg, fmt, tmo, requests, log, raced>>
  BY DEF Formatted, locals, peer, history
<1>2. Stage(c, "formatted") => Stage(c, "loop")'
  <2> SUFFICES ASSUME Stage(c, "formatted") PROVE Stage(c, "loop")'
    OBVIOUS
  <2>1. Printing(c, "formatted")
    BY DEF Stage, Accepted, Begun, Over
  <2>2. /\ chunkReady = FALSE /\ chunk \in DOMAIN ChunkLen /\ outBuf = chunk /\ fmt[c] = chunk
    BY <2>1 DEF Printing, Prepared
  <2>3. ChunkLen[chunk] \in Nat \ {0}
    BY <2>2, TransferAssumption
  <2>4. Coming("loop")' = <<chunk, 0>> /\ Coming("formatted") = <<chunk, 0>>
    BY <1>1, <2>2, <2>3 DEF Coming
  <2>5. Prepared(c, "loop")'
    BY <1>1, <2>2 DEF Prepared
  <2>6. Due' = Due /\ FollowsDocument(log)'
    BY <1>1, <2>1 DEF Printing, Due, FollowsDocument, Successor
  <2> QED
    BY <1>1, <2>1, <2>4, <2>5, <2>6 DEF Stage, Printing
<1> QED
  BY <1>1, <1>2, ProducerGoesOn

LEMMA FinishFollows ==
  ASSUME TypeOK, FollowInv, NEW c \in Ctx, Finish(c)
  PROVE  FollowInv'
<1>1. /\ At(c, "loop") /\ Goto(c, "clear") /\ active' = FALSE
      /\ UNCHANGED <<printTimeout, tmo, requests, log, raced>>
  BY DEF Finish, locals, peer, history
<1>2. Stage(c, "loop") => Stage(c, "clear")'
  BY <1>1 DEF Stage, Accepted, Begun, Over, Printing, FollowsDocument
<1> QED
  BY <1>1, <1>2, ProducerGoesOn

LEMMA ClearPrintRequestFollows ==
  ASSUME TypeOK, FollowInv, NEW c \in Ctx, ClearPrintRequest(c)
  PROVE  FollowInv'
<1>1. /\ At(c, "clear") /\ Goto(c, "idle") /\ printRequest' = -1
      /\ UNCHANGED <<printTimeout, active, tmo, requests, log, raced>>
  BY DEF ClearPrintRequest, Return, statics, locals, history
<1>2. Stage(c, "clear") => Stage(c, "idle")'
  BY <1>1 DEF Stage, Accepted, Begun, Over, Printing, FollowsDocument
<1> QED
  BY <1>1, <1>2, ProducerGoesOn

(* The main loop before it comes to PrintParamsJson, the client, and steps *)
(* of nobody.                                                              *)
StageVars == <<printRequest, statics, reg, fmt, log>>

LEMMA StageKept ==
  ASSUME UNCHANGED StageVars, printTimeout' # 0 => printTimeout' = printTimeout \/ printTimeout # 0,
         NEW c, NEW place, Stage(c, place), place \notin {"full", "read", "publish"} \/ printTimeout' = printTimeout
  PROVE  Stage(c, place)'
<1>1. UNCHANGED <<printRequest, active, chunk, outBuf, outLen, outPos, chunkReady, reg, fmt, log>>
  BY DEF StageVars, statics
<1>2. Due' = Due /\ Coming(place)' = Coming(place) /\ (FollowsDocument(log)' <=> FollowsDocument(log))
  BY <1>1 DEF Due, Coming, Successor, FollowsDocument
<1>3. Prepared(c, place) => Prepared(c, place)'
  BY <1>1 DEF Prepared
<1>4. Printing(c, place) => Printing(c, place)'
  BY <1>1, <1>2, <1>3 DEF Printing
<1>5. /\ Accepted(place) => Accepted(place)'
      /\ Begun(place) => Begun(place)'
      /\ Over(place) => Over(place)'
  BY <1>1, <1>2 DEF Accepted, Begun, Over
<1> QED
  BY <1>4, <1>5 DEF Stage

LEMMA TriggerTimeoutFollows ==
  ASSUME TypeOK, FollowInv, TriggerTimeoutRead \/ TriggerTimeoutWrite
  PROVE  FollowInv'
<1>1. /\ pc["isr"] = "idle" /\ pc["main"] \in {"idle", "tick"} /\ pc \in [Ctx -> Places]
      /\ pc' = [pc EXCEPT !["main"] = IF pc["main"] = "idle" THEN "tick" ELSE "poll"]
      /\ UNCHANGED <<StageVars, requests, raced>>
  BY DEF TriggerTimeoutRead, TriggerTimeoutWrite, At, Goto, StageVars, statics, locals, peer, history, TypeOK
<1>2. /\ printTimeout \in Nat /\ tmo \in Nat
      /\ pc["main"] = "idle" => printTimeout' = printTimeout /\ tmo' = printTimeout
      /\ pc["main"] = "tick" => printTimeout' = IF tmo > 0 THEN tmo - 1 ELSE printTimeout
  BY DEF TriggerTimeoutRead, TriggerTimeoutWrite, At, TypeOK
<1>3. Resting /\ Resting' /\ pc'["main"] = (IF pc["main"] = "idle" THEN "tick" ELSE "poll")
  BY <1>1 DEF Resting, Ctx
<1>4. StaysOut'
  BY <1>2, <1>3, <1>1 DEF StaysOut
<1>5. printTimeout' # 0 => printTimeout' = printTimeout \/ printTimeout # 0
  BY <1>1, <1>2 DEF FollowInv, StaysOut
<1>6. ASSUME requests = 1, ~raced PROVE Stage("main", "idle")'
  <2>1. \A c \in Ctx : ~Alone(c)
    BY <1>3 DEF Resting, Alone, Ctx
  <2>2. Stage("main", "idle")
    BY <1>6, <2>1 DEF FollowInv
  <2> QED
    BY <1>1, <1>5, <2>2, StageKept
<1> QED
  BY <1>1, <1>3, <1>4, <1>6 DEF FollowInv, StageVars, statics

LEMMA PollPrintRequestFollows ==
  ASSUME TypeOK, FollowInv, PollPrintRequest
  PROVE  FollowInv'
<1>1. /\ pc["isr"] = "idle" /\ pc["main"] = "poll" /\ pc \in [Ctx -> Places]
      /\ pc' = [pc EXCEPT !["main"] = IF printRequest >= 0 THEN "enter" ELSE "idle"]
      /\ UNCHANGED <<StageVars, requests, raced, printTimeout>>
  BY DEF PollPrintRequest, At, Goto, StageVars, statics, locals, peer, history, TypeOK
<1>2. Resting /\ pc'["isr"] = "idle" /\ pc'["main"] = (IF printRequest >= 0 THEN "enter" ELSE "idle")
  BY <1>1 DEF Resting, Ctx
<1>3. StaysOut'
  BY <1>2 DEF StaysOut
<1>4. requests = 0 => (Resting /\ active = FALSE /\ log = <<>> /\ printRequest = -1)'
  <2>1. requests = 0 => printRequest = -1 /\ ~(printRequest >= 0) /\ active = FALSE /\ log = <<>>
    BY DEF FollowInv
  <2> QED
    BY <1>1, <1>2, <2>1 DEF Resting, StageVars, statics
<1>5. ASSUME requests = 1, ~raced
      PROVE  (Resting /\ Stage("main", "idle"))' \/ \E c \in Ctx : (Alone(c) /\ Stage(c, pc[c]))'
  <2>1. \A c \in Ctx : ~Alone(c)
    BY <1>2 DEF Resting, Alone, Ctx
  <2>2. Stage("main", "idle")
    BY <1>5, <2>1 DEF FollowInv
  <2>3. Stage("main", "idle")'
    BY <1>1, <2>2, StageKept
  <2>4. CASE ~(printRequest >= 0)
    <3>1. Resting'
      BY <1>2, <2>4 DEF Resting
    <3> QED
      BY <2>3, <3>1
  <2>5. CASE printRequest >= 0
    <3>1. Alone("main")' /\ pc'["main"] = "enter"
      BY <1>2, <2>5 DEF Alone
    <3>2. printRequest' # -1
      BY <1>1, <2>5 DEF StageVars
    <3>3. Stage("main", "enter")'
      BY <2>3, <3>2 DEF Stage, Accepted, Begun, Printing, Prepared, Over, Coming
    <3> QED
      BY <3>1, <3>3 DEF Ctx
  <2> QED
    BY <2>4, <2>5
<1> QED
  BY <1>1, <1>3, <1>4, <1>5 DEF FollowInv

LEMMA StringsRequestFollows ==
  ASSUME TypeOK, FollowInv, NEW sub \in SubIndices, StringsRequest(sub)
  PROVE  FollowInv'
<1>1. /\ pc["isr"] = "idle" /\ pc \in [Ctx -> Places] /\ requests' = requests + 1 /\ requests \in Nat
      /\ printTimeout' = Timeout /\ Timeout # 0 /\ log' = <<>> /\ UNCHANGED <<active, tmo>>
      /\ pc' = (IF sub = 0 THEN [pc EXCEPT !["isr"] = "enter"] ELSE pc)
  BY TransferAssumption DEF StringsRequest, Goto, statics, locals, TypeOK
<1>2. StaysOut'
  BY <1>1 DEF StaysOut
<1>3. ASSUME requests' = 1
      PROVE  (Resting /\ Stage("main", "idle"))' \/ \E c \in Ctx : (Alone(c) /\ Stage(c, pc[c]))'
  <2>1. requests = 0
    BY <1>1, <1>3
  <2>2. Resting /\ active = FALSE
    BY <2>1 DEF FollowInv
  <2>3. CASE sub = 0
    <3>1. Alone("isr")' /\ pc'["isr"] = "enter"
      BY <1>1, <2>2, <2>3 DEF Alone, Resting, Ctx
    <3>2. Stage("isr", "enter")'
      BY <1>1, <2>2 DEF Stage, Accepted
    <3> QED
      BY <3>1, <3>2 DEF Ctx
  <2>4. CASE sub # 0
    <3>1. Resting'
      BY <1>1, <2>2, <2>4 DEF Resting
    <3>2. Stage("main", "idle")'
      BY <1>1, <2>2 DEF Stage, Accepted
    <3> QED
      BY <3>1, <3>2
  <2> QED
    BY <2>3, <2>4
<1>4. requests' # 0
  BY <1>1
<1> QED
  BY <1>2, <1>3, <1>4 DEF FollowInv

LEMMA QuietFollows ==
  ASSUME FollowInv, UNCHANGED <<StageVars, pc, requests, printTimeout, tmo>>, raced => raced'
  PROVE  FollowInv'
<1>1. StaysOut' /\ Resting' = Resting /\ (\A c \in Ctx : Alone(c)' = Alone(c))
  BY DEF FollowInv, StaysOut, Resting, Alone
<1>2. \A c \in Ctx : Stage(c, pc[c]) => Stage(c, pc[c])'
  <2> SUFFICES ASSUME NEW c \in Ctx, Stage(c, pc[c]) PROVE Stage(c, pc[c])'
    OBVIOUS
  <2>1. PICK place : place = pc[c]
    OBVIOUS
  <2>2. Stage(c, place)'
    BY <2>1, StageKept
  <2> QED
    BY <2>1, <2>2
<1>3. Stage("main", "idle") => Stage("main", "idle")'
  BY StageKept
<1>4. UNCHANGED <<active, log, printRequest>>
  BY DEF StageVars, statics
<1> QED
  BY <1>1, <1>2, <1>3, <1>4 DEF FollowInv

LEMMA FollowPreserved == TypeOK /\ RingInv' /\ FollowInv /\ [Next]_vars => FollowInv'
<1> SUFFICES ASSUME TypeOK, RingInv', FollowInv, [Next]_vars PROVE FollowInv'
  OBVIOUS
<1>1. CASE PollPrintRequest
  BY <1>1, PollPrintRequestFollows
<1>2. CASE TriggerTimeoutRead \/ TriggerTimeoutWrite
  BY <1>2, TriggerTimeoutFollows
<1>3. ASSUME NEW c \in Ctx, PrintParamsJson(c) PROVE FollowInv'
  BY <1>3, EnterFollows, RestartFollows, CheckRoomFollows, PutCharFollows, PutCharFullFollows,
     EnqueueReadFollows, EnqueuePublishFollows, EnqueueStoreFollows, AdvanceFollows,
     ChunkDoneFollows, NextChunkFollows, FormatFollows, FormattedFollows, FinishFollows,
     ClearPrintRequestFollows DEF PrintParamsJson
<1>4. ASSUME NEW sub \in SubIndices, StringsRequest(sub) PROVE FollowInv'
  BY <1>4, StringsRequestFollows
<1>5. CASE SegmentRequest
  <2>1. UNCHANGED <<StageVars, pc, requests, printTimeout, tmo>> /\ (raced => raced')
    BY <1>5 DEF SegmentRequest, StageVars, statics, locals
  <2> QED
    BY <2>1, QuietFollows
<1>6. CASE UNCHANGED vars
  <2>1. UNCHANGED <<StageVars, pc, requests, printTimeout, tmo>> /\ (raced => raced')
    BY <1>6 DEF vars, StageVars, statics, locals, peer, history
  <2> QED
    BY <2>1, QuietFollows
<1> QED
  BY <1>1, <1>2, <1>3, <1>4, <1>5, <1>6 DEF Next, MainLoop, CanRxIsr, Ctx

(* StreamFollowsDocument: what the client has read of its first transfer   *)
(* is the beginning of the document, for every document and every ring:    *)
(* only one context prints meanwhile, a character that is dropped is the   *)
(* first of all that are, and the ring hands over what is printed.         *)
THEOREM StreamFollows == Spec => []StreamFollowsDocument
<1>1. Init => FollowInv
  BY DEF Init, FollowInv, StaysOut, Resting, Ctx
<1>2. TypeOK /\ RingInv /\ FollowInv => StreamFollowsDocument
  <2> SUFFICES ASSUME TypeOK, RingInv, FollowInv, ~raced, requests <= 1 PROVE FollowsDocument(stream)
    BY DEF StreamFollowsDocument, StartedOver, TypeOK
  <2>1. /\ Len(stream) <= Len(log) /\ \A k \in 1 .. Len(stream) : stream[k] = log[k]
        /\ Len(stream) \in Nat /\ stream # <<>> <=> Len(stream) > 0
    BY DEF RingInv, RingSound, TypeOK
  <2>2. FollowsDocument(log)
    <3>1. log = <<>> => FollowsDocument(log)
      BY DEF FollowsDocument
    <3>2. requests = 0 \/ requests = 1
      BY DEF TypeOK
    <3>3. \A c, place : Stage(c, place) => FollowsDocument(log)
      BY <3>1 DEF Stage, Accepted, Begun, Printing, Over
    <3> QED
      BY <3>1, <3>2, <3>3 DEF FollowInv
  <2>3. Len(log) \in Nat /\ log # <<>> <=> Len(log) > 0
    BY DEF TypeOK
  <2>4. stream # <<>> => stream[1] = <<1, 0>>
    BY <2>1, <2>2, <2>3 DEF FollowsDocument
  <2>5. ASSUME NEW k \in 1 .. Len(stream) - 1
        PROVE  stream[k + 1] = Successor(stream[k])
    <3>1. k \in 1 .. Len(log) - 1 /\ k \in 1 .. Len(stream) /\ k + 1 \in 1 .. Len(stream)
      BY <2>1, <2>3
    <3>2. log[k + 1] = Successor(log[k])
      BY <2>2, <3>1 DEF FollowsDocument, Successor
    <3> QED
      BY <2>1, <3>1, <3>2
  <2> QED
    BY <2>4, <2>5 DEF FollowsDocument, Successor
<1>3. TypeOK /\ RingInv' /\ FollowInv /\ [Next]_vars => FollowInv'
  BY FollowPreserved
<1> QED
  BY <1>1, <1>2, <1>3, RingInvariant, PTL DEF Spec
===============================================================================
