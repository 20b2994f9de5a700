-------------------------- MODULE CanSdoMailboxProofs --------------------------
(***************************************************************************)
(* Towards a client that waits, the mailbox implements SdoServer: proved   *)
(* for every set of requests.                                              *)
(***************************************************************************)
EXTENDS CanSdoMailbox, TLAPS

(* Where the main loop has compared, answered or packed the frame so far.  *)
Untouched == {"poll", "serialIndex", "serialCmd", "serialReply",
              "commandIndex", "commandCmd", "commandReply", "refuse"}
Current == asked[Len(asked)]
IsSerialRead(r) == r.index = "serial" /\ r.cmd = "read"

Progress ==
  /\ pc \in Untouched => frame = Current
  /\ pc = "serialCmd" => isIndex = (Current.index = "serial")
  /\ pc \in {"serialReply", "serialSub"} => IsSerialRead(Current)
  /\ pc = "serialSub" => frame = [Current EXCEPT !.cmd = "readReply"]
  /\ pc \in {"commandIndex", "commandCmd", "commandReply", "commandSub", "refuse"}
       => ~IsSerialRead(Current)
  /\ pc = "commandCmd" => isIndex = (Current.index = "commands")
  /\ pc \in {"commandReply", "commandSub"} => IsCommand(Current)
  /\ pc = "commandSub" => frame = [Current EXCEPT !.cmd = "writeReply"]
  /\ pc = "refuse" => ~IsCommand(Current)
  /\ pc \in {"send", "packData"} => frame = Answer(Current)
  /\ pc = "packData" => buf = [Answer(Current) EXCEPT !.data = InvIdx]
  /\ pc = "transmit" => buf = Answer(Current)

MailboxInv ==
  /\ asked \in Seq(RequestFrame) /\ pc \in Places
  /\ Len(replies) <= Len(asked) /\ Len(asked) <= Len(replies) + 1
  /\ pendingUserSpaceSdo <=> (Outstanding \/ pc = "free")
  /\ pc = "free" => ~Outstanding
  /\ pc \notin {"poll", "free"} => Outstanding
  /\ Outstanding => Progress

-----------------------------------------------------------------------------
(* What is sent and stored are frames.                                     *)
LEMMA DataOfFrames ==
  /\ \A n \in 1 .. MaxAsked : Tag(n) \in Data
  /\ \A sub \in SerialSub : Serial(sub) \in Data
  /\ InvIdx \in Data
  BY DEF Tag, Serial, Data

LEMMA Updated ==
  ASSUME NEW f \in FrameType
  PROVE  /\ \A c \in Cmd : [f EXCEPT !.cmd = c] \in FrameType
         /\ \A d \in Data : [f EXCEPT !.data = d] \in FrameType
         /\ \A c \in Cmd, d \in Data :
              [f EXCEPT !.cmd = c, !.data = d] \in FrameType
  BY DEF FrameType

LEMMA RequestFrames ==
  ASSUME NEW kind \in ReqKind, NEW n \in 1 .. MaxAsked
  PROVE  /\ Frame(kind[1], kind[2], kind[3], Tag(n)) \in FrameType
         /\ Frame(kind[1], kind[2], kind[3], Tag(n)) \in RequestFrame
<1>1. kind \in {"read", "write"} \X Index \X (0 .. 255)
  BY MailboxAssumption
<1>2. /\ kind[1] \in {"read", "write"} /\ kind[2] \in Index
      /\ kind[3] \in 0 .. 255
  BY <1>1
<1> QED
  BY <1>2, DataOfFrames DEF Frame, FrameType, Cmd, RequestFrame

LEMMA RequestFrameType == RequestFrame \subseteq FrameType
  BY RequestFrames DEF RequestFrame

LEMMA FixedFrames == Empty \in FrameType /\ NoReply \in FrameType
  BY DataOfFrames DEF Empty, NoReply, Frame, FrameType, Index, Reset, Cmd

(* Every variable keeps its type, whether the client waits or not.         *)
THEOREM TypeCorrect == Spec => []TypeOK
<1>1. Init => TypeOK
  <2> SUFFICES ASSUME Init PROVE TypeOK
    OBVIOUS
  <2>1. /\ asked \in Seq(FrameType) /\ replies \in Seq(FrameType)
        /\ executed \in Seq(Command)
    BY DEF Init
  <2>2. frame \in FrameType /\ buf \in FrameType
    BY FixedFrames DEF Init
  <2> QED
    BY <2>1, <2>2 DEF Init, TypeOK, Places
<1>2. ASSUME TypeOK, [Next]_vars
      PROVE  TypeOK'
  <2> USE <1>2 DEF TypeOK
  <2>1. ASSUME NEW kind \in ReqKind, Ask(kind)
        PROVE  TypeOK'
    <3> DEFINE r == Frame(kind[1], kind[2], kind[3], Tag(Len(asked) + 1))
    <3>1. Len(asked) + 1 \in 1 .. MaxAsked
      BY <2>1, MailboxAssumption DEF Ask
    <3>2. r \in FrameType
      BY <3>1, RequestFrames
    <3>3. /\ pendingUserSpaceSdo' = TRUE /\ frame' = r
          /\ asked' = Append(asked, r)
          /\ UNCHANGED <<pc, isIndex, buf, replies, executed>>
      BY <2>1 DEF Ask, locals
    <3> HIDE DEF r
    <3> QED
      BY <3>2, <3>3
  <2>2. CASE PollPending \/ FreeSlot
    BY <2>2 DEF PollPending, FreeSlot, slot, locals, history, At, Goto, Places
  <2>3. CASE CompareSerialIndex \/ CompareSerialCmd
    BY <2>3 DEF CompareSerialIndex, CompareSerialCmd, slot, locals, history, At, Goto, Places
  <2>4. CASE CompareCommandIndex \/ CompareCommandCmd
    BY <2>4 DEF CompareCommandIndex, CompareCommandCmd, slot, locals, history, At, Goto, Places
  <2>5. CASE SetReadReply \/ SetWriteReply
    <3>1. frame' \in FrameType
      BY <2>5, Updated, DataOfFrames DEF SetReadReply, SetWriteReply, Cmd
    <3> QED
      BY <2>5, <3>1 DEF SetReadReply, SetWriteReply, locals, history, At, Goto, Places
  <2>6. CASE ServeSerial \/ RefuseCommand \/ Refuse
    <3>1. [frame EXCEPT !.cmd = "abort", !.data = InvIdx] \in FrameType
      BY Updated, DataOfFrames DEF Cmd
    <3>2. ASSUME frame.sub \in SerialSub
          PROVE  [frame EXCEPT !.data = Serial(frame.sub)] \in FrameType
      BY <3>2, Updated, DataOfFrames
    <3>3. frame' \in FrameType
      <4>1. CASE ServeSerial
        <5> DEFINE served == [frame EXCEPT !.data = Serial(frame.sub)]
                   refused == [frame EXCEPT !.cmd = "abort", !.data = InvIdx]
        <5>1. frame' = IF frame.sub \in SerialSub THEN served ELSE refused
          BY <4>1 DEF ServeSerial
        <5>2. refused \in FrameType /\ (frame.sub \in SerialSub => served \in FrameType)
          BY <3>1, <3>2
        <5> HIDE DEF served, refused
        <5> QED
          BY <5>1, <5>2
      <4>2. CASE RefuseCommand \/ Refuse
        BY <4>2, <3>1 DEF RefuseCommand, Refuse
      <4> QED
        BY <2>6, <4>1, <4>2
    <3> QED
      BY <2>6, <3>3 DEF ServeSerial, RefuseCommand, Refuse, locals, history, At, Goto, Places
  <2>7. CASE RunCommand
    BY <2>7 DEF RunCommand, slot, locals, At, Goto, Places, Command
  <2>8. CASE SoftReset
    <3>1. Reset \in Command
      BY DEF Reset, Command
    <3>2. /\ executed' \in Seq(Command) /\ replies' \in Seq(FrameType)
          /\ frame' \in FrameType /\ buf' \in FrameType
      BY <2>8, <3>1, FixedFrames DEF SoftReset
    <3> QED
      BY <2>8, <3>2 DEF SoftReset, Goto, Places
  <2>9. CASE PackHead \/ PackData
    <3>1. frame.data \in Data
      BY DEF FrameType
    <3>2. buf' \in FrameType
      BY <2>9, <3>1, Updated, DataOfFrames DEF PackHead, PackData, Cmd
    <3> QED
      BY <2>9, <3>2 DEF PackHead, PackData, slot, history, At, Goto, Places
  <2>10. CASE Transmit
    BY <2>10 DEF Transmit, slot, locals, At, Goto, Places
  <2>11. CASE UNCHANGED vars
    BY <2>11 DEF vars, slot, locals, history
  <2> QED
    BY <2>1, <2>2, <2>3, <2>4, <2>5, <2>6, <2>7, <2>8, <2>9, <2>10, <2>11
    DEF Next, MainLoop
<1> QED
  BY <1>1, <1>2, PTL DEF Spec

-----------------------------------------------------------------------------
(* Records: packing a frame word by word gives the frame back.             *)
LEMMA Repacked ==
  ASSUME NEW f \in FrameType
  PROVE  [[f EXCEPT !.data = InvIdx] EXCEPT !.data = f.data] = f
  BY DEF FrameType

LEMMA AnswerType ==
  ASSUME NEW r \in FrameType
  PROVE  Answer(r) \in FrameType
<1> DEFINE isRead == r.index = "serial" /\ r.cmd = "read" /\ r.sub \in SerialSub
           read == [r EXCEPT !.cmd = "readReply", !.data = Serial(r.sub)]
           write == [r EXCEPT !.cmd = "writeReply"]
           refused == [r EXCEPT !.cmd = "abort", !.data = InvIdx]
<1>1. Answer(r) = IF isRead THEN read
                  ELSE IF IsCommand(r) /\ r.sub = Reset THEN NoReply
                  ELSE IF Runs(r) # <<>> THEN write ELSE refused
  BY DEF Answer
<1>2. isRead => read \in FrameType
  BY Updated, DataOfFrames DEF Cmd
<1>3. write \in FrameType /\ refused \in FrameType /\ NoReply \in FrameType
  BY Updated, DataOfFrames, FixedFrames DEF Cmd
<1> HIDE DEF isRead, read, write, refused
<1> QED
  BY <1>1, <1>2, <1>3

(* What each path of SdoCommands makes of the request.                     *)
LEMMA AnswerOfSerialRead ==
  ASSUME NEW r \in FrameType, IsSerialRead(r)
  PROVE  /\ r.sub \in SerialSub =>
              Answer(r) = [[r EXCEPT !.cmd = "readReply"] EXCEPT !.data = Serial(r.sub)]
         /\ r.sub \notin SerialSub =>
              Answer(r) = [[r EXCEPT !.cmd = "readReply"] EXCEPT !.cmd = "abort", !.data = InvIdx]
         /\ Runs(r) = <<>>
  BY DEF IsSerialRead, Answer, Runs, IsCommand, FrameType

LEMMA AnswerOfCommand ==
  ASSUME NEW r \in FrameType, ~IsSerialRead(r), IsCommand(r)
  PROVE  /\ r.sub \in Command \ {Reset} =>
              Answer(r) = [r EXCEPT !.cmd = "writeReply"] /\ Runs(r) = <<r.sub>>
         /\ r.sub = Reset => Answer(r) = NoReply /\ Runs(r) = <<Reset>>
         /\ r.sub \notin Command =>
              /\ Answer(r) = [[r EXCEPT !.cmd = "writeReply"] EXCEPT !.cmd = "abort", !.data = InvIdx]
              /\ Runs(r) = <<>>
<1>1. <<r.sub>> # <<>>
  OBVIOUS
<1>2. Reset \in Command
  BY DEF Reset, Command
<1> QED
  BY <1>1, <1>2 DEF IsSerialRead, Answer, Runs, IsCommand, FrameType

LEMMA AnswerOfOther ==
  ASSUME NEW r \in FrameType, ~IsSerialRead(r), ~IsCommand(r)
  PROVE  Answer(r) = [r EXCEPT !.cmd = "abort", !.data = InvIdx] /\ Runs(r) = <<>>
  BY DEF IsSerialRead, Answer, Runs, IsCommand

-----------------------------------------------------------------------------
(* The last request is a frame, and stays the last until the next one.     *)
LEMMA CurrentType ==
  ASSUME TypeOK, MailboxInv, Outstanding
  PROVE  Current \in FrameType /\ Current \in RequestFrame
<1>1. Len(asked) \in Nat /\ Len(asked) > 0
  BY DEF TypeOK, Outstanding
<1>2. Len(asked) \in 1 .. Len(asked)
  BY <1>1
<1> QED
  BY <1>2, RequestFrameType DEF Current, MailboxInv

(* A request finds the main loop waiting.                                  *)
LEMMA AskInvariant ==
  ASSUME ~Pipelined, TypeOK, MailboxInv, NEW kind \in ReqKind, Ask(kind)
  PROVE  MailboxInv' /\ ~Outstanding
<1> DEFINE r == Frame(kind[1], kind[2], kind[3], Tag(Len(asked) + 1))
<1>1. /\ Len(asked) = Len(replies) /\ pc # "free"
      /\ Len(asked) < MaxAsked
      /\ pendingUserSpaceSdo' = TRUE /\ frame' = r
      /\ asked' = Append(asked, r)
      /\ UNCHANGED <<pc, isIndex, buf, replies, executed>>
  BY DEF Ask, locals
<1>2. Len(asked) \in Nat /\ Len(replies) \in Nat
  BY DEF TypeOK
<1>3. ~Outstanding /\ pc = "poll"
  BY <1>1, <1>2 DEF Outstanding, MailboxInv
<1>4. r \in RequestFrame
  BY <1>1, <1>2, RequestFrames, MailboxAssumption
<1> HIDE DEF r
<1>5. asked' \in Seq(RequestFrame) /\ Len(asked') = Len(asked) + 1
      /\ asked'[Len(asked')] = r
  BY <1>1, <1>2, <1>4 DEF MailboxInv
<1>6. Outstanding' /\ Current' = r
  BY <1>1, <1>2, <1>5 DEF Outstanding, Current
<1>7. Progress'
  BY <1>1, <1>3, <1>6 DEF Progress, Untouched
<1> QED
  BY <1>1, <1>2, <1>3, <1>5, <1>6, <1>7 DEF MailboxInv

(* A step of the main loop on the request it serves, up to the reply.      *)
Serving == UNCHANGED <<pendingUserSpaceSdo, asked, replies>>

LEMMA ServingKeeps ==
  ASSUME MailboxInv, Outstanding, Serving, Progress', pc' \in Places \ {"free"}
  PROVE  MailboxInv'
  BY DEF MailboxInv, Serving, Outstanding

LEMMA ServingInvariant ==
  ASSUME TypeOK, MailboxInv, MainLoop, ~Transmit, ~FreeSlot, ~SoftReset
  PROVE  /\ MailboxInv' /\ Serving /\ Outstanding
<1>1. Serving
  BY DEF MainLoop, PollPending, CompareSerialIndex, CompareSerialCmd, SetReadReply,
     ServeSerial, CompareCommandIndex, CompareCommandCmd, SetWriteReply, RunCommand,
     RefuseCommand, Refuse, PackHead, PackData, Serving, slot, history
<1>2. Outstanding
  BY DEF MainLoop, PollPending, CompareSerialIndex, CompareSerialCmd, SetReadReply,
     ServeSerial, CompareCommandIndex, CompareCommandCmd, SetWriteReply, RunCommand,
     RefuseCommand, Refuse, PackHead, PackData, At, MailboxInv
<1>3. Progress /\ Current \in FrameType /\ Current' = Current
  BY <1>1, <1>2, CurrentType DEF MailboxInv, Serving, Current
<1> DEFINE Served == Progress' /\ pc' \in Places \ {"free"}
<1> SUFFICES Served
  BY <1>1, <1>2, ServingKeeps
<1> USE <1>3
<1>5. CASE PollPending
  BY <1>5 DEF PollPending, At, Goto, slot, locals, Progress, Untouched, Places
<1>6. CASE CompareSerialIndex
  BY <1>6 DEF CompareSerialIndex, At, Goto, slot, Progress, Untouched, Places
<1>7. CASE CompareSerialCmd
  BY <1>7 DEF CompareSerialCmd, At, Goto, slot, locals, Progress, Untouched,
     Places, IsSerialRead
<1>8. CASE SetReadReply
  BY <1>8 DEF SetReadReply, At, Goto, locals, Progress, Untouched, Places
<1>9. CASE ServeSerial
  <2>1. IsSerialRead(Current) /\ frame = [Current EXCEPT !.cmd = "readReply"]
    BY <1>9 DEF ServeSerial, At, Progress
  <2>2. frame.sub = Current.sub
    BY <2>1 DEF FrameType
  <2>3. frame' = Answer(Current)
    BY <1>9, <2>1, <2>2, AnswerOfSerialRead DEF ServeSerial
  <2> QED
    BY <1>9, <2>3 DEF ServeSerial, Goto, Progress, Untouched, Places
<1>10. CASE CompareCommandIndex
  BY <1>10 DEF CompareCommandIndex, At, Goto, slot, Progress, Untouched, Places
<1>11. CASE CompareCommandCmd
  BY <1>11 DEF CompareCommandCmd, At, Goto, slot, locals, Progress, Untouched,
     Places, IsCommand
<1>12. CASE SetWriteReply
  BY <1>12 DEF SetWriteReply, At, Goto, locals, Progress, Untouched, Places
<1>13. CASE RunCommand \/ RefuseCommand
  <2>1. /\ ~IsSerialRead(Current) /\ IsCommand(Current)
        /\ frame = [Current EXCEPT !.cmd = "writeReply"]
    BY <1>13 DEF RunCommand, RefuseCommand, At, Progress
  <2>2. frame.sub = Current.sub
    BY <2>1 DEF FrameType
  <2>3. frame' = Answer(Current)
    BY <1>13, <2>1, <2>2, AnswerOfCommand DEF RunCommand, RefuseCommand, slot
  <2> QED
    BY <1>13, <2>3 DEF RunCommand, RefuseCommand, Goto, Progress, Untouched, Places
<1>14. CASE Refuse
  <2>1. frame = Current /\ ~IsSerialRead(Current) /\ ~IsCommand(Current)
    BY <1>14 DEF Refuse, At, Progress, Untouched
  <2>2. frame' = Answer(Current)
    BY <1>14, <2>1, AnswerOfOther DEF Refuse
  <2> QED
    BY <1>14, <2>2 DEF Refuse, Goto, Progress, Untouched, Places
<1>15. CASE PackHead
  BY <1>15 DEF PackHead, At, Goto, slot, Progress, Untouched, Places
<1>16. CASE PackData
  <2>1. frame = Answer(Current) /\ buf = [Answer(Current) EXCEPT !.data = InvIdx]
    BY <1>16 DEF PackData, At, Progress
  <2>2. buf' = Answer(Current)
    BY <1>16, <2>1, AnswerType, Repacked DEF PackData
  <2> QED
    BY <1>16, <2>2 DEF PackData, Goto, slot, Progress, Untouched, Places
<1> QED
  BY <1>1, <1>2, <1>5, <1>6, <1>7, <1>8, <1>9, <1>10, <1>11, <1>12, <1>13, <1>14,
     <1>15, <1>16 DEF MainLoop

(* The steps that end a request: the reply, or the restart.                *)
LEMMA EndingInvariant ==
  ASSUME TypeOK, MailboxInv, Transmit \/ SoftReset
  PROVE  /\ MailboxInv' /\ Outstanding /\ Progress
         /\ Len(replies') = Len(asked) /\ ~Outstanding' /\ asked' = asked
<1>1. Outstanding /\ Progress
  BY DEF Transmit, SoftReset, At, MailboxInv
<1>2. Len(asked) \in Nat /\ Len(replies) \in Nat /\ Len(asked) = Len(replies) + 1
  BY <1>1 DEF TypeOK, MailboxInv, Outstanding
<1>3. asked' = asked /\ Len(replies') = Len(replies) + 1
  BY DEF Transmit, SoftReset, TypeOK
<1>4. ~Outstanding'
  BY <1>2, <1>3 DEF Outstanding
<1>5. CASE Transmit
  BY <1>1, <1>2, <1>3, <1>4, <1>5 DEF Transmit, Goto, slot, MailboxInv, Places
<1>6. CASE SoftReset
  BY <1>1, <1>2, <1>3, <1>4, <1>6 DEF SoftReset, Goto, MailboxInv, Places
<1> QED
  BY <1>1, <1>2, <1>3, <1>4, <1>5, <1>6

(* The request being served, the answer it gets and the place of the main  *)
(* loop agree, as long as the client waits: what keeps the interrupt from  *)
(* writing into the frame is the client, nothing in the program.           *)
THEOREM SlotInvariant ==
  ASSUME ~Pipelined
  PROVE  Spec => [](TypeOK /\ MailboxInv)
<1>1. Init => MailboxInv
  BY DEF Init, MailboxInv, Outstanding, Places
<1>2. ASSUME TypeOK, MailboxInv, [Next]_vars
      PROVE  MailboxInv'
  <2>1. ASSUME NEW kind \in ReqKind, Ask(kind)
        PROVE  MailboxInv'
    BY <1>2, <2>1, AskInvariant
  <2>2. CASE MainLoop /\ ~Transmit /\ ~FreeSlot /\ ~SoftReset
    BY <1>2, <2>2, ServingInvariant
  <2>3. CASE Transmit \/ SoftReset
    BY <1>2, <2>3, EndingInvariant
  <2>4. CASE FreeSlot
    BY <1>2, <2>4 DEF FreeSlot, At, Goto, locals, history, MailboxInv, Outstanding, Places
  <2>5. CASE UNCHANGED vars
    BY <1>2, <2>5 DEF vars, slot, locals, history, MailboxInv, Outstanding, Progress,
       Current
  <2> QED
    BY <1>2, <2>1, <2>2, <2>3, <2>4, <2>5 DEF Next
<1> QED
  BY <1>1, <1>2, TypeCorrect, PTL DEF Spec

-----------------------------------------------------------------------------
(* The refinement.  The step that decides the answer is the server's       *)
(* Execute, the transmission its Reply, the restart does both.             *)
Deciding == ServeSerial \/ RunCommand \/ RefuseCommand \/ Refuse
Answered == {"send", "packData", "transmit"}

LEMMA AskRefines ==
  ASSUME ~Pipelined, TypeOK, MailboxInv, NEW kind \in ReqKind, Ask(kind)
  PROVE  Server!Ask
<1> DEFINE r == Frame(kind[1], kind[2], kind[3], Tag(Len(asked) + 1))
<1>1. /\ Len(asked) < MaxAsked /\ asked' = Append(asked, r)
      /\ UNCHANGED <<pc, replies, executed>>
  BY DEF Ask, locals
<1>2. ~Outstanding /\ pc \notin Answered
  BY AskInvariant DEF MailboxInv, Answered
<1>3. Len(asked) + 1 \in 1 .. MaxAsked
  BY <1>1, MailboxAssumption DEF TypeOK
<1>4. r \in RequestFrame
  BY <1>3, RequestFrames
<1> HIDE DEF r
<1>5. Ran' = Ran
  BY <1>1, <1>2 DEF Ran, Answered
<1>6. ~Server!Outstanding
  BY <1>2 DEF Server!Outstanding, Outstanding
<1>7. \E q \in RequestFrame : asked' = Append(asked, q)
  BY <1>1, <1>4
<1> QED
  BY <1>1, <1>5, <1>6, <1>7 DEF Server!Ask

LEMMA DecidingRefines ==
  ASSUME TypeOK, MailboxInv, Deciding
  PROVE  Server!Execute
<1>1. Outstanding /\ Serving
  <2>1. MainLoop
    BY DEF Deciding, MainLoop
  <2>2. /\ pc \notin {"transmit", "free"}
        /\ pc = "commandSub" => ~SoftReset
    BY DEF Deciding, ServeSerial, RunCommand, RefuseCommand, Refuse, SoftReset, At,
       Command, Reset
  <2>3. ~Transmit /\ ~FreeSlot /\ ~SoftReset
    BY <2>2 DEF Transmit, FreeSlot, SoftReset, At
  <2> QED
    BY <2>1, <2>3, ServingInvariant
<1>2. Progress /\ Current \in FrameType
  BY <1>1, CurrentType DEF MailboxInv
<1>3. pc \notin Answered /\ pc' \in Answered
  BY DEF Deciding, ServeSerial, RunCommand, RefuseCommand, Refuse, At, Goto, Answered
<1>4. Ran = Len(replies) /\ Ran' = Len(asked)
  BY <1>1, <1>3 DEF Ran, Answered, Serving, Outstanding
<1>5. executed' = executed \o Runs(Current)
  <2>1. executed \in Seq(Command) /\ executed \o <<>> = executed
    BY DEF TypeOK
  <2>2. CASE ServeSerial
    <3>1. IsSerialRead(Current) /\ executed' = executed
      BY <1>2, <2>2 DEF ServeSerial, At, Progress, history
    <3> QED
      BY <1>2, <2>1, <3>1, AnswerOfSerialRead
  <2>3. CASE RunCommand \/ RefuseCommand
    <3>1. /\ ~IsSerialRead(Current) /\ IsCommand(Current)
          /\ frame = [Current EXCEPT !.cmd = "writeReply"]
      BY <1>2, <2>3 DEF RunCommand, RefuseCommand, At, Progress
    <3>2. frame.sub = Current.sub
      BY <1>2, <3>1 DEF FrameType
    <3>3. CASE RunCommand
      <4>1. Runs(Current) = <<frame.sub>> /\ executed' = Append(executed, frame.sub)
        BY <1>2, <3>1, <3>2, <3>3, AnswerOfCommand DEF RunCommand
      <4>2. frame.sub \in Command
        BY <3>3 DEF RunCommand
      <4> QED
        BY <2>1, <4>1, <4>2
    <3>4. CASE RefuseCommand
      <4>1. Runs(Current) = <<>> /\ executed' = executed
        BY <1>2, <3>1, <3>2, <3>4, AnswerOfCommand DEF RefuseCommand, history
      <4> QED
        BY <2>1, <4>1
    <3> QED
      BY <2>3, <3>3, <3>4
  <2>4. CASE Refuse
    <3>1. /\ ~IsSerialRead(Current) /\ ~IsCommand(Current) /\ executed' = executed
      BY <1>2, <2>4 DEF Refuse, At, Progress, history
    <3> QED
      BY <1>2, <2>1, <3>1, AnswerOfOther
  <2> QED
    BY <2>2, <2>3, <2>4 DEF Deciding
<1> QED
  BY <1>1, <1>4, <1>5
  DEF Server!Execute, Server!Outstanding, Server!Current, Outstanding, Current, Serving

LEMMA TransmitRefines ==
  ASSUME TypeOK, MailboxInv, Transmit
  PROVE  Server!Reply
<1>1. /\ Outstanding /\ Progress /\ ~Outstanding'
      /\ Len(replies') = Len(asked) /\ asked' = asked
  BY EndingInvariant
<1>2. /\ pc = "transmit" /\ replies' = Append(replies, buf) /\ executed' = executed
      /\ buf = Answer(Current)
  BY <1>1 DEF Transmit, At, Progress
<1>3. Ran = Len(asked) /\ Ran' = Len(asked)
  BY <1>1, <1>2 DEF Ran
<1> QED
  BY <1>1, <1>2, <1>3
  DEF Server!Reply, Server!Outstanding, Server!Current, Outstanding, Current

LEMMA ResetRefines ==
  ASSUME TypeOK, MailboxInv, SoftReset
  PROVE  Server!ExecuteAndReply
<1>1. /\ Outstanding /\ Progress /\ ~Outstanding'
      /\ Len(replies') = Len(asked) /\ asked' = asked
  BY EndingInvariant
<1>2. /\ pc = "commandSub" /\ frame.sub = Reset
      /\ replies' = Append(replies, NoReply) /\ executed' = Append(executed, Reset)
  BY DEF SoftReset, At
<1>3. Current \in FrameType /\ ~IsSerialRead(Current) /\ IsCommand(Current)
      /\ frame = [Current EXCEPT !.cmd = "writeReply"]
  BY <1>1, <1>2, CurrentType DEF Progress
<1>4. Current.sub = Reset
  BY <1>2, <1>3 DEF FrameType
<1>5. Answer(Current) = NoReply /\ Runs(Current) = <<Reset>>
  BY <1>3, <1>4, AnswerOfCommand
<1>6. executed' = executed \o Runs(Current)
  <2>1. executed \in Seq(Command) /\ Reset \in Command
    BY DEF TypeOK, Reset, Command
  <2> QED
    BY <1>2, <1>5, <2>1
<1>7. Ran = Len(replies) /\ Ran' = Len(asked)
  BY <1>1, <1>2 DEF Ran
<1> QED
  BY <1>1, <1>2, <1>5, <1>6, <1>7
  DEF Server!ExecuteAndReply, Server!Outstanding, Server!Current, Outstanding, Current

LEMMA OtherStepsStutter ==
  ASSUME TypeOK, MailboxInv, MainLoop, ~Deciding, ~Transmit, ~SoftReset
  PROVE  UNCHANGED Server!vars
<1>1. UNCHANGED <<asked, replies, executed>>
  BY DEF MainLoop, Deciding, PollPending, CompareSerialIndex, CompareSerialCmd,
     SetReadReply, CompareCommandIndex, CompareCommandCmd, SetWriteReply, PackHead,
     PackData, FreeSlot, history
<1>2. (pc \in Answered) = (pc' \in Answered)
  BY DEF MainLoop, Deciding, PollPending, CompareSerialIndex, CompareSerialCmd,
     SetReadReply, CompareCommandIndex, CompareCommandCmd, SetWriteReply, PackHead,
     PackData, FreeSlot, At, Goto, Answered
<1>3. Ran' = Ran
  BY <1>1, <1>2 DEF Ran, Answered, Outstanding
<1> QED
  BY <1>1, <1>3 DEF Server!vars

(* A client that waits for its replies finds a server that runs each       *)
(* command it asked for once, and answers each request with its own reply. *)
THEOREM MailboxImplementsServer ==
  ASSUME ~Pipelined
  PROVE  Spec => ImplementsServer
<1>1. Init => Server!Init
  BY DEF Init, Server!Init, Ran, Outstanding
<1>2. ASSUME TypeOK, MailboxInv, [Next]_vars
      PROVE  [Server!Next]_(Server!vars)
  <2>1. ASSUME NEW kind \in ReqKind, Ask(kind)
        PROVE  Server!Next
    BY <1>2, <2>1, AskRefines DEF Server!Next
  <2>2. CASE Deciding
    BY <1>2, <2>2, DecidingRefines DEF Server!Next
  <2>3. CASE Transmit
    BY <1>2, <2>3, TransmitRefines DEF Server!Next
  <2>4. CASE SoftReset
    BY <1>2, <2>4, ResetRefines DEF Server!Next
  <2>5. CASE MainLoop /\ ~Deciding /\ ~Transmit /\ ~SoftReset
    BY <1>2, <2>5, OtherStepsStutter
  <2>6. CASE UNCHANGED vars
    BY <2>6 DEF vars, history, Server!vars, Ran, Outstanding
  <2> QED
    BY <1>2, <2>1, <2>2, <2>3, <2>4, <2>5, <2>6 DEF Next, Deciding
<1> QED
  BY <1>1, <1>2, SlotInvariant, PTL DEF Spec, ImplementsServer, Server!Spec
=============================================================================
