------------------------------ MODULE BusProofs -------------------------------
(***************************************************************************)
(* The transmit mailbox, proved for every number of calls and however      *)
(* often the bus goes away, the filters of the receive mailboxes, for      *)
(* every number of mailboxes and messages, and the logger, proved for      *)
(* every period, interval and keepalive time, what its client shows, the   *)
(* types of all parts of the bus together, and the coding of the values,   *)
(* for every number of bits in a byte.                                     *)
(***************************************************************************)
EXTENDS MCBus, WellFoundedInduction, FiniteSetTheorems, SequenceTheorems, TLAPS

-------------------------------------------------------------------------------
(* While the interrupt does not come in the middle of a Send of the main   *)
(* loop, the transmit mailbox sends every frame intact and in order.       *)

Working(c) == pc[c] # "out"

(* One context at a time is in Send, for the latest call.                  *)
Exclusive ==
  /\ Working("isr") => ~Working("main")
  /\ \A c \in Ctx : Working(c) => mine[c] = calls /\ calls # None

(* What the registers and the mailbox hold at each place of Send.          *)
Named(c) == \/ pc[c] = "readControl" /\ command = Idle
            \/ pc[c] \in {"awaitControl", "sendCommand"}
Registers ==
  \A c \in Ctx :
    /\ pc[c] \in {"awaitSent", "setup", "setupCommand", "sendCommand"} => command = Idle
    /\ pc[c] = "readControl" => command \in {Idle, "setup"}
    /\ pc[c] = "awaitControl" => command \in {Idle, "readControl"}
    /\ pc[c] \in {"setupCommand", "readControl"} => arb = mine[c]
    /\ Named(c) => mailbox[1] = mine[c] /\ ~txrqst
    /\ pc[c] = "sendCommand" => data = mine[c]
    /\ pc[c] \in {"setup", "setupCommand", "readControl"} /\ txrqst =>
         mailbox[2] \in abandoned

(* What the controller is about to do.                                     *)
Pending ==
  /\ command = "setup" => \E c \in Ctx : pc[c] = "readControl"
  /\ command = "send" => mailbox[1] = data /\ data # None /\ ~txrqst
  /\ FramesIntact

(* What is sent, pending and about to be pending came in this order.       *)
After(n) == \A i \in DOMAIN bus : bus[i][2] < n
Ordered ==
  /\ After(calls + 1)
  /\ command = "send" => After(data) /\ data <= calls
  /\ txrqst => After(mailbox[2]) /\ mailbox[2] <= calls
  /\ \A c \in Ctx : Working(c) =>
       /\ After(calls)
       /\ command = "send" => data < calls
       /\ txrqst => mailbox[2] < calls

SendInv == TypeOK /\ Exclusive /\ Registers /\ Pending /\ Ordered
             /\ FramesInOrder /\ NothingLost

LEMMA Constants ==
  /\ MaxSends \in Nat /\ MaxFaults \in Nat /\ MaxFilters \in Nat
  /\ CallNo = 0 .. MaxSends /\ None = 0 /\ Idle = "none"
  BY SendAssumption DEF CallNo, None, Idle

LEMMA CallInv ==
  ASSUME ~Preemptive, SendInv, NEW c \in Ctx, Call(c)
  PROVE  SendInv'
<1> USE Constants DEF SendInv, Call, Ctx, At, Runs, Goto, if1, object, peers, history
<1>1. TypeOK'
  BY DEF TypeOK, Places, Commands
<1>2. Exclusive'
  BY DEF Exclusive, Working, TypeOK
<1>3. Registers'
  BY DEF Registers, Named, Exclusive, Working, Pending, TypeOK
<1>4. Pending'
  BY DEF Pending, FramesIntact, Registers, Named, Exclusive, Working, TypeOK
<1>5. Ordered'
  BY DEF Ordered, After, Exclusive, Registers, Named, Pending, Working, TypeOK
<1>6. FramesInOrder'
  BY DEF FramesInOrder, Ordered, After, TypeOK
<1>7. NothingLost'
  BY DEF NothingLost, InSend, InMailbox, OnBus, Pending, Exclusive, Registers, Named, Working, TypeOK
<1> QED
  BY <1>1, <1>2, <1>3, <1>4, <1>5, <1>6, <1>7

LEMMA AwaitCopyInv ==
  ASSUME ~Preemptive, SendInv, NEW c \in Ctx, AwaitCopy(c)
  PROVE  SendInv'
<1> USE Constants DEF SendInv, AwaitCopy, Ctx, At, Runs, Goto, if1, object, peers, history
<1>1. TypeOK'
  BY DEF TypeOK, Places, Commands
<1>2. Exclusive'
  BY DEF Exclusive, Working, TypeOK
<1>3. Registers'
  BY DEF Registers, Named, Exclusive, Working, Pending, TypeOK
<1>4. Pending'
  BY DEF Pending, FramesIntact, Registers, Named, Exclusive, Working, TypeOK
<1>5. Ordered'
  BY DEF Ordered, After, Exclusive, Registers, Named, Pending, Working, TypeOK
<1>6. FramesInOrder'
  BY DEF FramesInOrder, Ordered, After, TypeOK
<1>7. NothingLost'
  BY DEF NothingLost, InSend, InMailbox, OnBus, Pending, Exclusive, Registers, Named, Working, TypeOK
<1> QED
  BY <1>1, <1>2, <1>3, <1>4, <1>5, <1>6, <1>7

LEMMA AwaitSentInv ==
  ASSUME ~Preemptive, SendInv, NEW c \in Ctx, AwaitSent(c)
  PROVE  SendInv'
<1> USE Constants DEF SendInv, AwaitSent, Ctx, At, Runs, Goto, if1, object, peers, history
<1>1. TypeOK'
  BY DEF TypeOK, Places, Commands
<1>2. Exclusive'
  BY DEF Exclusive, Working, TypeOK
<1>3. Registers'
  BY DEF Registers, Named, Exclusive, Working, Pending, TypeOK
<1>4. Pending'
  BY DEF Pending, FramesIntact, Registers, Named, Exclusive, Working, TypeOK
<1>5. Ordered'
  BY DEF Ordered, After, Exclusive, Registers, Named, Pending, Working, TypeOK
<1>6. FramesInOrder'
  BY DEF FramesInOrder, Ordered, After, TypeOK
<1>7. NothingLost'
  BY DEF NothingLost, InSend, InMailbox, OnBus, Pending, Exclusive, Registers, Named, Working, TypeOK
<1> QED
  BY <1>1, <1>2, <1>3, <1>4, <1>5, <1>6, <1>7

LEMMA GiveUpInv ==
  ASSUME ~Preemptive, SendInv, NEW c \in Ctx, GiveUp(c)
  PROVE  SendInv'
<1> USE Constants DEF SendInv, GiveUp, Ctx, At, Runs, Goto, if1, object, peers, history
<1>1. TypeOK'
  BY DEF TypeOK, Places, Commands
<1>2. Exclusive'
  BY DEF Exclusive, Working, TypeOK
<1>3. Registers'
  BY DEF Registers, Named, Exclusive, Working, Pending, TypeOK
<1>4. Pending'
  BY DEF Pending, FramesIntact, Registers, Named, Exclusive, Working, TypeOK
<1>5. Ordered'
  BY DEF Ordered, After, Exclusive, Registers, Named, Pending, Working, TypeOK
<1>6. FramesInOrder'
  BY DEF FramesInOrder, Ordered, After, TypeOK
<1>7. NothingLost'
  BY DEF NothingLost, InSend, InMailbox, OnBus, Pending, Exclusive, Registers, Named, Working, TypeOK
<1> QED
  BY <1>1, <1>2, <1>3, <1>4, <1>5, <1>6, <1>7

LEMMA SetupRegistersInv ==
  ASSUME ~Preemptive, SendInv, NEW c \in Ctx, SetupRegisters(c)
  PROVE  SendInv'
<1> USE Constants DEF SendInv, SetupRegisters, Ctx, At, Runs, Goto, if1, object, peers, history
<1>1. TypeOK'
  BY DEF TypeOK, Places, Commands
<1>2. Exclusive'
  BY DEF Exclusive, Working, TypeOK
<1>3. Registers'
  BY DEF Registers, Named, Exclusive, Working, Pending, TypeOK
<1>4. Pending'
  BY DEF Pending, FramesIntact, Registers, Named, Exclusive, Working, TypeOK
<1>5. Ordered'
  BY DEF Ordered, After, Exclusive, Registers, Named, Pending, Working, TypeOK
<1>6. FramesInOrder'
  BY DEF FramesInOrder, Ordered, After, TypeOK
<1>7. NothingLost'
  BY DEF NothingLost, InSend, InMailbox, OnBus, Pending, Exclusive, Registers, Named, Working, TypeOK
<1> QED
  BY <1>1, <1>2, <1>3, <1>4, <1>5, <1>6, <1>7

LEMMA SetupCommandInv ==
  ASSUME ~Preemptive, SendInv, NEW c \in Ctx, SetupCommand(c)
  PROVE  SendInv'
<1> USE Constants DEF SendInv, SetupCommand, Ctx, At, Runs, Goto, if1, object, peers, history
<1>1. TypeOK'
  BY DEF TypeOK, Places, Commands
<1>2. Exclusive'
  BY DEF Exclusive, Working, TypeOK
<1>3. Registers'
  BY DEF Registers, Named, Exclusive, Working, Pending, TypeOK
<1>4. Pending'
  BY DEF Pending, FramesIntact, Registers, Named, Exclusive, Working, TypeOK
<1>5. Ordered'
  BY DEF Ordered, After, Exclusive, Registers, Named, Pending, Working, TypeOK
<1>6. FramesInOrder'
  BY DEF FramesInOrder, Ordered, After, TypeOK
<1>7. NothingLost'
  BY DEF NothingLost, InSend, InMailbox, OnBus, Pending, Exclusive, Registers, Named, Working, TypeOK
<1> QED
  BY <1>1, <1>2, <1>3, <1>4, <1>5, <1>6, <1>7

LEMMA ReadControlInv ==
  ASSUME ~Preemptive, SendInv, NEW c \in Ctx, ReadControl(c)
  PROVE  SendInv'
<1> USE Constants DEF SendInv, ReadControl, Ctx, At, Runs, Goto, if1, object, peers, history
<1>1. TypeOK'
  BY DEF TypeOK, Places, Commands
<1>2. Exclusive'
  BY DEF Exclusive, Working, TypeOK
<1>3. Registers'
  BY DEF Registers, Named, Exclusive, Working, Pending, TypeOK
<1>4. Pending'
  BY DEF Pending, FramesIntact, Registers, Named, Exclusive, Working, TypeOK
<1>5. Ordered'
  BY DEF Ordered, After, Exclusive, Registers, Named, Pending, Working, TypeOK
<1>6. FramesInOrder'
  BY DEF FramesInOrder, Ordered, After, TypeOK
<1>7. NothingLost'
  BY DEF NothingLost, InSend, InMailbox, OnBus, Pending, Exclusive, Registers, Named, Working, TypeOK
<1> QED
  BY <1>1, <1>2, <1>3, <1>4, <1>5, <1>6, <1>7

LEMMA WriteDataInv ==
  ASSUME ~Preemptive, SendInv, NEW c \in Ctx, WriteData(c)
  PROVE  SendInv'
<1> USE Constants DEF SendInv, WriteData, Ctx, At, Runs, Goto, if1, object, peers, history
<1>1. TypeOK'
  BY DEF TypeOK, Places, Commands
<1>2. Exclusive'
  BY DEF Exclusive, Working, TypeOK
<1>3. Registers'
  BY DEF Registers, Named, Exclusive, Working, Pending, TypeOK
<1>4. Pending'
  BY DEF Pending, FramesIntact, Registers, Named, Exclusive, Working, TypeOK
<1>5. Ordered'
  BY DEF Ordered, After, Exclusive, Registers, Named, Pending, Working, TypeOK
<1>6. FramesInOrder'
  BY DEF FramesInOrder, Ordered, After, TypeOK
<1>7. NothingLost'
  BY DEF NothingLost, InSend, InMailbox, OnBus, Pending, Exclusive, Registers, Named, Working, TypeOK
<1> QED
  BY <1>1, <1>2, <1>3, <1>4, <1>5, <1>6, <1>7

LEMMA SendCommandInv ==
  ASSUME ~Preemptive, SendInv, NEW c \in Ctx, SendCommand(c)
  PROVE  SendInv'
<1> USE Constants DEF SendInv, SendCommand, Ctx, At, Runs, Goto, if1, object, peers, history
<1>1. TypeOK'
  BY DEF TypeOK, Places, Commands
<1>2. Exclusive'
  BY DEF Exclusive, Working, TypeOK
<1>3. Registers'
  BY DEF Registers, Named, Exclusive, Working, Pending, TypeOK
<1>4. Pending'
  BY DEF Pending, FramesIntact, Registers, Named, Exclusive, Working, TypeOK
<1>5. Ordered'
  BY DEF Ordered, After, Exclusive, Registers, Named, Pending, Working, TypeOK
<1>6. FramesInOrder'
  BY DEF FramesInOrder, Ordered, After, TypeOK
<1>7. NothingLost'
  BY DEF NothingLost, InSend, InMailbox, OnBus, Pending, Exclusive, Registers, Named, Working, TypeOK
<1> QED
  BY <1>1, <1>2, <1>3, <1>4, <1>5, <1>6, <1>7

LEMMA CopySetupInv ==
  ASSUME ~Preemptive, SendInv, CopySetup
  PROVE  SendInv'
<1> USE Constants DEF SendInv, CopySetup, Ctx, At, Runs, Goto, if1, object, peers, history
<1>1. TypeOK'
  <2>1. mailbox' \in CallNo \X CallNo
    BY DEF TypeOK
  <2> QED
    BY <2>1 DEF TypeOK, Places, Commands
<1>2. Exclusive'
  BY DEF Exclusive, Working, TypeOK
<1>3. Registers'
  BY DEF Registers, Named, Exclusive, Working, Pending, TypeOK
<1>4. Pending'
  BY DEF Pending, FramesIntact, Registers, Named, Exclusive, Working, TypeOK
<1>5. Ordered'
  BY DEF Ordered, After, Exclusive, Registers, Named, Pending, Working, TypeOK
<1>6. FramesInOrder'
  BY DEF FramesInOrder, Ordered, After, TypeOK
<1>7. NothingLost'
  BY DEF NothingLost, InSend, InMailbox, OnBus, Pending, Exclusive, Registers, Named, Working, TypeOK
<1> QED
  BY <1>1, <1>2, <1>3, <1>4, <1>5, <1>6, <1>7

LEMMA CopyDataInv ==
  ASSUME ~Preemptive, SendInv, CopyData
  PROVE  SendInv'
<1> USE Constants DEF SendInv, CopyData, Ctx, At, Runs, Goto, if1, object, peers, history
<1>1. TypeOK'
  BY DEF TypeOK, Places, Commands
<1>2. Exclusive'
  BY DEF Exclusive, Working, TypeOK
<1>3. Registers'
  BY DEF Registers, Named, Exclusive, Working, Pending, TypeOK
<1>4. Pending'
  BY DEF Pending, FramesIntact, Registers, Named, Exclusive, Working, TypeOK
<1>5. Ordered'
  BY DEF Ordered, After, Exclusive, Registers, Named, Pending, Working, TypeOK
<1>6. FramesInOrder'
  BY DEF FramesInOrder, Ordered, After, TypeOK
<1>7. NothingLost'
  BY DEF NothingLost, InSend, InMailbox, OnBus, Pending, Exclusive, Registers, Named, Working, TypeOK
<1> QED
  BY <1>1, <1>2, <1>3, <1>4, <1>5, <1>6, <1>7

LEMMA CopyOtherInv ==
  ASSUME ~Preemptive, SendInv, CopyOther
  PROVE  SendInv'
<1> USE Constants DEF SendInv, CopyOther, Ctx, At, Runs, Goto, if1, object, peers, history
<1>1. TypeOK'
  BY DEF TypeOK, Places, Commands
<1>2. Exclusive'
  BY DEF Exclusive, Working, TypeOK
<1>3. Registers'
  BY DEF Registers, Named, Exclusive, Working, Pending, TypeOK
<1>4. Pending'
  BY DEF Pending, FramesIntact, Registers, Named, Exclusive, Working, TypeOK
<1>5. Ordered'
  BY DEF Ordered, After, Exclusive, Registers, Named, Pending, Working, TypeOK
<1>6. FramesInOrder'
  BY DEF FramesInOrder, Ordered, After, TypeOK
<1>7. NothingLost'
  BY DEF NothingLost, InSend, InMailbox, OnBus, Pending, Exclusive, Registers, Named, Working, TypeOK
<1> QED
  BY <1>1, <1>2, <1>3, <1>4, <1>5, <1>6, <1>7

LEMMA TransmitInv ==
  ASSUME ~Preemptive, SendInv, Transmit
  PROVE  SendInv'
<1> USE Constants DEF SendInv, Ctx, if1, object, peers, history
<1>1. /\ mailbox \in CallNo \X CallNo /\ mailbox[1] = mailbox[2] /\ mailbox[1] # None
      /\ command # "send" /\ After(mailbox[2]) /\ mailbox[2] <= calls /\ calls \in Nat
      /\ bus \in Seq(CallNo \X CallNo)
  BY DEF Transmit, TypeOK, Pending, FramesIntact, Ordered
<1>2. /\ DOMAIN bus' = (DOMAIN bus) \cup {Len(bus) + 1}
      /\ \A i \in DOMAIN bus : bus'[i] = bus[i] /\ i < Len(bus) + 1
      /\ bus'[Len(bus) + 1] = mailbox
  BY <1>1 DEF Transmit
<1>3. TypeOK'
  <2>1. bus' \in Seq(CallNo \X CallNo)
    BY <1>1 DEF Transmit
  <2> QED
    BY <2>1 DEF Transmit, TypeOK
<1>4. Exclusive' /\ Registers'
  BY DEF Transmit, Exclusive, Registers, Named, Working
<1>5. Pending'
  BY <1>1, <1>2 DEF Transmit, Pending, FramesIntact
<1>6. Ordered'
  <2>1. \A n \in Nat : After(n) /\ mailbox[2] < n => After(n)'
    BY <1>2 DEF After
  <2>2. After(calls + 1)'
    BY <1>1, <2>1 DEF Transmit, Ordered
  <2>3. \A c \in Ctx : Working(c) => After(calls)'
    BY <1>1, <2>1 DEF Transmit, Ordered, Working
  <2> QED
    BY <1>1, <2>2, <2>3 DEF Transmit, Ordered, Working
<1>7. FramesInOrder'
  <2> SUFFICES ASSUME NEW i \in DOMAIN bus', NEW j \in DOMAIN bus', i < j
               PROVE  bus'[i][2] < bus'[j][2]
    BY DEF FramesInOrder
  <2>1. i \in DOMAIN bus
    BY <1>1, <1>2
  <2>2. CASE j \in DOMAIN bus
    BY <1>2, <2>1, <2>2 DEF FramesInOrder
  <2>3. CASE j = Len(bus) + 1
    BY <1>1, <1>2, <2>1, <2>3 DEF After
  <2> QED
    BY <1>2, <2>2, <2>3
<1>8. NothingLost'
  <2> SUFFICES ASSUME NEW n \in 1 .. calls
               PROVE  (InSend(n) \/ InMailbox(n) \/ OnBus(n) \/ n \in abandoned)'
    BY DEF Transmit, NothingLost
  <2>1. CASE InSend(n) \/ n \in abandoned
    BY <2>1 DEF Transmit, InSend
  <2>2. CASE InMailbox(n)
    <3>1. mailbox[2] = n
      BY <1>1, <2>2 DEF InMailbox
    <3> QED
      BY <1>2, <3>1 DEF OnBus
  <2>3. CASE OnBus(n)
    BY <1>2, <2>3 DEF OnBus
  <2> QED
    BY <2>1, <2>2, <2>3 DEF NothingLost
<1> QED
  BY <1>3, <1>4, <1>5, <1>6, <1>7, <1>8

LEMMA PeersChangeInv ==
  ASSUME ~Preemptive, SendInv, PeersChange
  PROVE  SendInv'
<1> USE Constants DEF SendInv, PeersChange, Ctx, At, Runs, Goto, if1, object, peers, history
<1>1. TypeOK'
  BY DEF TypeOK, Places, Commands
<1>2. Exclusive'
  BY DEF Exclusive, Working, TypeOK
<1>3. Registers'
  BY DEF Registers, Named, Exclusive, Working, Pending, TypeOK
<1>4. Pending'
  BY DEF Pending, FramesIntact, Registers, Named, Exclusive, Working, TypeOK
<1>5. Ordered'
  BY DEF Ordered, After, Exclusive, Registers, Named, Pending, Working, TypeOK
<1>6. FramesInOrder'
  BY DEF FramesInOrder, Ordered, After, TypeOK
<1>7. NothingLost'
  BY DEF NothingLost, InSend, InMailbox, OnBus, Pending, Exclusive, Registers, Named, Working, TypeOK
<1> QED
  BY <1>1, <1>2, <1>3, <1>4, <1>5, <1>6, <1>7

LEMMA ConfigureFiltersInv ==
  ASSUME ~Preemptive, SendInv, ConfigureFilters
  PROVE  SendInv'
<1> USE Constants DEF SendInv, ConfigureFilters, Ctx, At, Runs, Goto, if1, object, peers, history
<1>1. TypeOK'
  BY DEF TypeOK, Places, Commands
<1>2. Exclusive'
  BY DEF Exclusive, Working, TypeOK
<1>3. Registers'
  BY DEF Registers, Named, Exclusive, Working, Pending, TypeOK
<1>4. Pending'
  BY DEF Pending, FramesIntact, Registers, Named, Exclusive, Working, TypeOK
<1>5. Ordered'
  BY DEF Ordered, After, Exclusive, Registers, Named, Pending, Working, TypeOK
<1>6. FramesInOrder'
  BY DEF FramesInOrder, Ordered, After, TypeOK
<1>7. NothingLost'
  BY DEF NothingLost, InSend, InMailbox, OnBus, Pending, Exclusive, Registers, Named, Working, TypeOK
<1> QED
  BY <1>1, <1>2, <1>3, <1>4, <1>5, <1>6, <1>7

(* For every number of calls, filters and changes on the bus: frames leave *)
(* intact, in the order of the calls, none twice, and only those given up  *)
(* on are lost.  Without the assumption a frame may carry the id of one    *)
(* call and the data of another.                                           *)
THEOREM SendIsReliable ==
  ASSUME ~Preemptive
  PROVE  Spec => [](TypeOK /\ SendReliable)
<1>1. Init => SendInv
  <2> USE Constants DEF Init, Ctx
  <2>1. Init => TypeOK
    <3>1. Init => pc \in [Ctx -> Places] /\ mine \in [Ctx -> CallNo]
      BY DEF Places
    <3>2. Init => mailbox \in CallNo \X CallNo /\ bus \in Seq(CallNo \X CallNo)
      OBVIOUS
    <3>3. Init => command \in Commands /\ txrqst \in BOOLEAN /\ heard \in BOOLEAN
      BY DEF Commands
    <3> HIDE DEF Ctx
    <3>4. Init => /\ arb \in CallNo /\ data \in CallNo /\ calls \in CallNo
                  /\ faults \in 0 .. MaxFaults /\ filters \in 0 .. MaxFilters
                  /\ abandoned \subseteq CallNo
      OBVIOUS
    <3> QED
      BY <3>1, <3>2, <3>3, <3>4 DEF TypeOK
  <2>2. Init => Exclusive /\ Registers /\ Pending
    BY DEF Exclusive, Working, Registers, Named, Pending, FramesIntact
  <2>3. Init => Ordered /\ FramesInOrder /\ NothingLost
    BY DEF Ordered, After, Working, FramesInOrder, NothingLost
  <2> QED
    BY <2>1, <2>2, <2>3 DEF SendInv
<1>2. SendInv /\ [Next]_vars => SendInv'
  <2> SUFFICES ASSUME SendInv, [Next]_vars
               PROVE  SendInv'
    OBVIOUS
  <2>1. ASSUME NEW c \in Ctx, Call(c) \/ Send(c)
        PROVE  SendInv'
    BY <2>1, CallInv, AwaitCopyInv, AwaitSentInv, GiveUpInv, SetupRegistersInv,
       SetupCommandInv, ReadControlInv, WriteDataInv, SendCommandInv DEF Send
  <2>2. CASE Controller
    BY <2>2, CopySetupInv, CopyDataInv, CopyOtherInv, TransmitInv DEF Controller
  <2>3. CASE PeersChange \/ ConfigureFilters
    BY <2>3, PeersChangeInv, ConfigureFiltersInv
  <2>4. CASE UNCHANGED vars
    BY <2>4
    DEF SendInv, TypeOK, Exclusive, Working, Registers, Named, Pending, FramesIntact,
        Ordered, After, FramesInOrder, NothingLost, InSend, InMailbox, OnBus,
        vars, if1, object, peers, history
  <2> QED
    BY <2>1, <2>2, <2>3, <2>4 DEF Next
<1>3. SendInv => TypeOK /\ SendReliable
  BY DEF SendInv, Pending, SendReliable
<1> QED
  BY <1>1, <1>2, <1>3, PTL DEF Spec
-------------------------------------------------------------------------------
(* Which frames reach the program: a mailbox is open for every id somebody *)
(* waits for.                                                              *)

(* A set of numbers has a least one. *)
LEMMA NatMin ==
  ASSUME NEW T \in SUBSET Nat, T # {}
  PROVE  \E x \in T : \A y \in T : x <= y
<1>1. PICK x \in T : \A y \in T : <<y, x>> \notin OpToRel(<, Nat)
  BY WFMin, NatLessThanWellFounded, Zenon
<1>2. \A y \in T : ~(y < x)
  BY <1>1 DEF OpToRel
<1> QED
  BY <1>2

(* Induction over the numbers, said of a set: the least number outside it  *)
(* would have a predecessor in it.                                         *)
LEMMA NatSetInduction ==
  ASSUME NEW S, 0 \in S, \A n \in Nat : n \in S => n + 1 \in S
  PROVE  Nat \subseteq S
<1> SUFFICES ASSUME NEW n \in Nat, n \notin S PROVE FALSE
  OBVIOUS
<1> DEFINE T == {k \in Nat : k \notin S}
<1>1. PICK x \in T : \A y \in T : x <= y
  <2>1. T \in SUBSET Nat /\ T # {}
    OBVIOUS
  <2> HIDE DEF T
  <2> QED
    BY <2>1, NatMin
<1>2. x \in Nat /\ x # 0 /\ x - 1 \in Nat /\ x - 1 \notin T
  BY <1>1
<1> QED
  BY <1>1, <1>2

(* One more id: nothing is lost, and while there is room nothing refused.  *)
LEMMA WithKeeps ==
  ASSUME NEW ids \in Seq(Id), NEW id \in Id, Len(ids) <= MaxUsers
  PROVE  /\ With(ids, id) \in Seq(Id)
         /\ Len(ids) <= Len(With(ids, id)) /\ Len(With(ids, id)) <= Len(ids) + 1
         /\ Len(With(ids, id)) <= MaxUsers
         /\ \A i \in 1 .. Len(ids) : With(ids, id)[i] = ids[i]
         /\ Len(With(ids, id)) < MaxUsers \/ Len(ids) < MaxUsers =>
              \E i \in 1 .. Len(With(ids, id)) : With(ids, id)[i] = id
<1> USE FiltersAssumption
<1>1. CASE Len(ids) < MaxUsers /\ id \notin ToSet(ids)
  <2>1. With(ids, id) = Append(ids, id)
    BY <1>1 DEF With
  <2> QED
    BY <1>1, <2>1
<1>2. CASE Len(ids) >= MaxUsers
  <2>1. With(ids, id) = ids
    BY <1>2 DEF With
  <2> QED
    BY <1>2, <2>1
<1>3. CASE id \in ToSet(ids)
  <2>1. With(ids, id) = ids
    BY <1>3 DEF With
  <2>2. \E i \in 1 .. Len(ids) : ids[i] = id
    BY <1>3 DEF ToSet
  <2> QED
    BY <2>1, <2>2
<1> QED
  BY <1>1, <1>2, <1>3

(* As many ids as there are mailboxes are all registered.                  *)
Has(ids, id) == \E i \in 1 .. Len(ids) : ids[i] = id
AllIn(ids, f, k) ==
  f \in Seq(Id) /\ Len(f) <= k /\ \A j \in 1 .. k : Has(f, ids[j])

(* Registering is what its recursive definition says.                      *)
UpTo(ids, f, n) ==
  /\ f = [k \in 0 .. n |-> f[k]] /\ f[0] = <<>>
  /\ \A k \in 1 .. n : f[k] = With(f[k - 1], ids[k])

LEMMA RegisteredDef ==
  ASSUME NEW ids, Len(ids) \in Nat
  PROVE  \E f : UpTo(ids, f, Len(ids)) /\ Registered(ids) = f[Len(ids)]
<1> DEFINE S == {n \in Nat : \E f : UpTo(ids, f, n)}
<1>1. 0 \in S
  <2> DEFINE g == [k \in 0 .. 0 |-> <<>>]
  <2>1. UpTo(ids, g, 0)
    BY DEF UpTo
  <2> HIDE DEF g
  <2> QED
    BY <2>1
<1>2. ASSUME NEW n \in Nat, n \in S PROVE n + 1 \in S
  <2>1. PICK f : UpTo(ids, f, n)
    BY <1>2
  <2> DEFINE h == With(f[n], ids[n + 1])
             g == [k \in 0 .. n + 1 |-> IF k = n + 1 THEN h ELSE f[k]]
  <2> HIDE DEF h
  <2>2. /\ g = [k \in 0 .. n + 1 |-> g[k]] /\ g[0] = <<>> /\ g[n + 1] = h
        /\ \A k \in 0 .. n : g[k] = f[k]
    BY <2>1 DEF UpTo
  <2> HIDE DEF g
  <2>3. g[n + 1] = With(g[n], ids[n + 1])
    BY <2>2 DEF h
  <2>4. ASSUME NEW k \in 1 .. n PROVE g[k] = With(g[k - 1], ids[k])
    <3>1. k - 1 \in 0 .. n /\ k \in 0 .. n
      OBVIOUS
    <3>2. g[k] = f[k] /\ g[k - 1] = f[k - 1]
      BY <2>2, <3>1
    <3> QED
      BY <2>1, <3>2 DEF UpTo
  <2>5. UpTo(ids, g, n + 1)
    <3>1. \A k \in 1 .. n + 1 : k = n + 1 \/ k \in 1 .. n
      OBVIOUS
    <3>2. \A k \in 1 .. n + 1 : g[k] = With(g[k - 1], ids[k])
      BY <2>3, <2>4, <3>1
    <3> QED
      BY <2>2, <3>2 DEF UpTo
  <2> QED
    BY <2>5
<1>3. Len(ids) \in S
  <2> HIDE DEF S
  <2> QED
    BY <1>1, <1>2, NatSetInduction
<1>4. PICK f : UpTo(ids, f, Len(ids))
  BY <1>3
<1>5. f = [k \in 0 .. Len(ids) |-> IF k = 0 THEN <<>> ELSE With(f[k - 1], ids[k])]
  <2>1. \A k \in 0 .. Len(ids) : f[k] = IF k = 0 THEN <<>> ELSE With(f[k - 1], ids[k])
    <3>1. \A k \in 0 .. Len(ids) : k = 0 \/ k \in 1 .. Len(ids)
      OBVIOUS
    <3>2. f[0] = <<>> /\ \A k \in 1 .. Len(ids) : k # 0 /\ f[k] = With(f[k - 1], ids[k])
      BY <1>4 DEF UpTo
    <3> QED
      BY <3>1, <3>2, Zenon
  <2> QED
    BY <1>4, <2>1 DEF UpTo
<1>6. PICK upTo : /\ upTo = [k \in 0 .. Len(ids) |-> IF k = 0 THEN <<>> ELSE With(upTo[k - 1], ids[k])]
                  /\ Registered(ids) = upTo[Len(ids)]
  BY <1>5 DEF Registered
<1>7. /\ \A k \in 0 .. Len(ids) : upTo[k] = IF k = 0 THEN <<>> ELSE With(upTo[k - 1], ids[k])
      /\ upTo = [k \in 0 .. Len(ids) |-> upTo[k]]
  BY <1>6
<1>8. UpTo(ids, upTo, Len(ids))
  BY <1>7 DEF UpTo
<1> QED
  BY <1>6, <1>8

LEMMA RegisteredAll ==
  ASSUME NEW ids \in Seq(Id), Len(ids) <= MaxUsers
  PROVE  AllIn(ids, Registered(ids), Len(ids))
<1> USE FiltersAssumption
<1>1. Len(ids) \in Nat
  OBVIOUS
<1>2. PICK f : UpTo(ids, f, Len(ids)) /\ Registered(ids) = f[Len(ids)]
  BY <1>1, RegisteredDef
<1> DEFINE S == {n \in Nat : n <= Len(ids) => AllIn(ids, f[n], n)}
<1>3. 0 \in S
  <2>1. f[0] = <<>>
    BY <1>2 DEF UpTo
  <2>2. <<>> \in Seq(Id) /\ Len(<<>>) = 0
    OBVIOUS
  <2>3. AllIn(ids, f[0], 0)
    BY <2>1, <2>2 DEF AllIn
  <2> QED
    BY <2>3
<1>4. ASSUME NEW n \in Nat, n \in S PROVE n + 1 \in S
  <2> SUFFICES ASSUME n + 1 <= Len(ids) PROVE AllIn(ids, f[n + 1], n + 1)
    OBVIOUS
  <2>1. f[n] \in Seq(Id) /\ Len(f[n]) <= n /\ \A j \in 1 .. n : Has(f[n], ids[j])
    BY <1>4 DEF AllIn
  <2>2. ids[n + 1] \in Id /\ Len(f[n]) <= MaxUsers /\ Len(f[n]) < MaxUsers
    BY <2>1
  <2>3. f[n + 1] = With(f[n], ids[n + 1])
    <3>1. n + 1 \in 1 .. Len(ids) /\ (n + 1) - 1 = n
      OBVIOUS
    <3> QED
      BY <1>2, <3>1 DEF UpTo
  <2> DEFINE h == With(f[n], ids[n + 1])
  <2>4. /\ h \in Seq(Id) /\ Len(h) <= Len(f[n]) + 1 /\ Len(f[n]) <= Len(h)
        /\ \A i \in 1 .. Len(f[n]) : h[i] = f[n][i]
        /\ \E i \in 1 .. Len(h) : h[i] = ids[n + 1]
    BY <2>1, <2>2, WithKeeps
  <2> HIDE DEF h
  <2>5. ASSUME NEW j \in 1 .. n PROVE Has(h, ids[j])
    <3>1. PICK i \in 1 .. Len(f[n]) : f[n][i] = ids[j]
      BY <2>1 DEF Has
    <3>2. i \in 1 .. Len(h) /\ h[i] = ids[j]
      BY <2>1, <2>4, <3>1
    <3> QED
      BY <3>2 DEF Has
  <2>6. Has(h, ids[n + 1])
    BY <2>4 DEF Has
  <2>7. Len(h) <= n + 1
    BY <2>1, <2>4
  <2>8. AllIn(ids, h, n + 1)
    BY <2>4, <2>5, <2>6, <2>7 DEF AllIn
  <2> QED
    BY <2>3, <2>8 DEF h
<1>5. Len(ids) \in S
  <2> HIDE DEF S
  <2> QED
    BY <1>1, <1>3, <1>4, NatSetInduction
<1> QED
  BY <1>2, <1>5

(* What is registered has its mailbox; so has the node, and as long as a   *)
(* mailbox is left every message of the map.                               *)
FiltersInv ==
  /\ FilterTypeOK
  /\ \A i \in 1 .. Len(userIds) : mailboxes[i] = userIds[i]
  /\ Has(userIds, Std(Request(nodeId)))
  /\ Len(userIds) < MaxUsers => \A n \in 1 .. Len(recvMap) : Has(userIds, recvMap[n])

LEMMA Ids == \A n \in NodeIds : Std(Request(n)) \in Id
  BY FiltersAssumption DEF Std, Id

(* Each id gets its mailbox.                                               *)
LEMMA Configures ==
  ASSUME FilterTypeOK, NEW ids \in Seq(Id), Len(ids) <= MaxUsers
  PROVE  /\ Configured(ids) \in [1 .. MaxUsers -> Id \cup {NoMailbox}]
         /\ \A i \in 1 .. Len(ids) : Configured(ids)[i] = ids[i]
  BY FiltersAssumption DEF Configured, FilterTypeOK

LEMMA FilterInitInv == FilterInit => FiltersInv
<1> SUFFICES ASSUME FilterInit PROVE FiltersInv
  OBVIOUS
<1>1. Std(ControlId) \in Id /\ Std(Request(1)) \in Id /\ 1 \in NodeIds
  BY Ids, FiltersAssumption DEF Std, Id
<1>2. userIds \in Seq(Id) /\ Len(userIds) = 2 /\ userIds[2] = Std(Request(1)) /\ nodeId = 1
  BY <1>1 DEF FilterInit
<1>3. MaxUsers \in Nat /\ MaxUsers >= 2
  BY FiltersAssumption
<1>4. mailboxes \in [1 .. MaxUsers -> Id \cup {NoMailbox}]
  BY <1>2, <1>3 DEF FilterInit
<1>5. \A i \in 1 .. Len(userIds) : mailboxes[i] = userIds[i]
  BY <1>2, <1>3 DEF FilterInit
<1>6. recvMap = <<>> /\ recvMap \in Seq(Id) /\ Len(recvMap) = 0
  BY DEF FilterInit
<1>7. FilterTypeOK
  BY <1>1, <1>2, <1>3, <1>4, <1>6, FiltersAssumption DEF FilterTypeOK
<1>8. Has(userIds, Std(Request(nodeId)))
  BY <1>2 DEF Has
<1> QED
  BY <1>5, <1>6, <1>7, <1>8 DEF FiltersInv

LEMMA AddRecvInv ==
  ASSUME FiltersInv, NEW id \in Id, NEW itemLeft \in BOOLEAN, AddRecv(id, itemLeft)
  PROVE  FiltersInv'
<1> USE DEF FiltersInv, FilterTypeOK
<1>0. MaxUsers \in Nat /\ MaxMessages \in Nat
  BY FiltersAssumption
<1>1. /\ userIds' \in Seq(Id)
      /\ Len(userIds) <= Len(userIds') /\ Len(userIds') <= MaxUsers
      /\ \A i \in 1 .. Len(userIds) : userIds'[i] = userIds[i]
      /\ Len(userIds') < MaxUsers => Has(userIds', id)
  BY WithKeeps DEF AddRecv, Has
<1>2. /\ mailboxes' \in [1 .. MaxUsers -> Id \cup {NoMailbox}]
      /\ \A i \in 1 .. Len(userIds') : mailboxes'[i] = userIds'[i]
  <2>1. mailboxes' = Configured(userIds')
    BY DEF AddRecv
  <2> QED
    BY <1>1, <2>1, Configures
<1>3. \A other : Has(userIds, other) => Has(userIds', other)
  BY <1>0, <1>1 DEF Has
<1>4. /\ recvMap' \in Seq(Id) /\ Len(recvMap') <= MaxMessages
      /\ \A n \in 1 .. Len(recvMap') :
           recvMap'[n] = id \/ (n \in 1 .. Len(recvMap) /\ recvMap'[n] = recvMap[n])
  <2>1. CASE recvMap' = recvMap
    BY <2>1
  <2>2. CASE recvMap' = Append(recvMap, id) /\ Len(recvMap) < MaxMessages
    BY <1>0, <2>2
  <2> QED
    BY <2>1, <2>2 DEF AddRecv
<1>5. nodeId' = nodeId
  BY DEF AddRecv
<1>6. FilterTypeOK'
  BY <1>1, <1>2, <1>4, <1>5
<1>7. ASSUME Len(userIds') < MaxUsers, NEW n \in 1 .. Len(recvMap')
      PROVE  Has(userIds', recvMap'[n])
  <2>1. Len(userIds) < MaxUsers
    BY <1>0, <1>1, <1>7
  <2> QED
    BY <1>1, <1>3, <1>4, <1>7, <2>1
<1>8. Has(userIds', Std(Request(nodeId')))
  BY <1>3, <1>5
<1> QED
  BY <1>2, <1>6, <1>7, <1>8 DEF Has

LEMMA RemoveMessageInv ==
  ASSUME FiltersInv, NEW n \in DOMAIN recvMap, RemoveMessage(n)
  PROVE  FiltersInv'
<1> USE DEF FiltersInv, FilterTypeOK
<1>1. recvMap \in Seq(Id) /\ n \in 1 .. Len(recvMap) /\ Len(recvMap) > 0 /\ Len(recvMap) <= MaxMessages
  OBVIOUS
<1>2. Last(recvMap) = recvMap[Len(recvMap)]
  BY DEF Last
<1>3. recvMap' = [m \in 1 .. Len(recvMap) - 1 |->
                    IF m = n THEN recvMap[Len(recvMap)] ELSE recvMap[m]]
  BY <1>2 DEF RemoveMessage
<1>4. recvMap' \in Seq(Id) /\ Len(recvMap') = Len(recvMap) - 1
  BY <1>1, <1>3
<1>5. \A m \in 1 .. Len(recvMap') : \E k \in 1 .. Len(recvMap) : recvMap'[m] = recvMap[k]
  BY <1>1, <1>3, <1>4
<1>6. UNCHANGED <<userIds, mailboxes, nodeId>>
  BY DEF RemoveMessage
<1>7. Len(recvMap') <= MaxMessages
  BY <1>1, <1>4, FiltersAssumption
<1>8. FilterTypeOK'
  BY <1>4, <1>6, <1>7
<1> QED
  BY <1>5, <1>6, <1>8 DEF Has

LEMMA SetNodeIdInv ==
  ASSUME FiltersInv, NEW n \in NodeIds, SetNodeId(n)
  PROVE  FiltersInv'
<1> USE DEF FiltersInv, FilterTypeOK
<1> DEFINE ids == HandleClear(n)
<1>1. /\ ids \in Seq(Id) /\ Len(ids) = Len(recvMap) + 1 /\ ids[Len(ids)] = Std(Request(n))
      /\ \A k \in 1 .. Len(recvMap) : ids[k] = recvMap[k]
  <2>1. Std(Request(n)) \in Id
    BY Ids
  <2> QED
    BY <2>1 DEF HandleClear
<1>2. Len(ids) <= MaxUsers
  BY <1>1, FiltersAssumption
<1> HIDE DEF ids
<1>3. AllIn(ids, Registered(ids), Len(ids))
  BY <1>1, <1>2, RegisteredAll
<1>4. userIds' = Registered(ids) /\ nodeId' = n /\ mailboxes' = Configured(userIds') /\ UNCHANGED recvMap
  BY DEF SetNodeId, ids
<1>5. /\ userIds' \in Seq(Id) /\ Len(userIds') <= Len(ids)
      /\ \A j \in 1 .. Len(ids) : Has(userIds', ids[j])
  BY <1>3, <1>4 DEF AllIn
<1>6. Len(userIds') <= MaxUsers
  BY <1>1, <1>2, <1>5, FiltersAssumption
<1>7. /\ mailboxes' \in [1 .. MaxUsers -> Id \cup {NoMailbox}]
      /\ \A i \in 1 .. Len(userIds') : mailboxes'[i] = userIds'[i]
  BY <1>4, <1>5, <1>6, Configures
<1>8. Has(userIds', Std(Request(nodeId')))
  BY <1>1, <1>4, <1>5
<1>9. \A k \in 1 .. Len(recvMap') : Has(userIds', recvMap'[k])
  BY <1>1, <1>4, <1>5
<1>10. FilterTypeOK'
  BY <1>4, <1>5, <1>6, <1>7
<1> QED
  BY <1>7, <1>8, <1>9, <1>10 DEF Has

LEMMA FilterNextInv == FiltersInv /\ [FilterNext]_filterVars => FiltersInv'
<1> SUFFICES ASSUME FiltersInv, [FilterNext]_filterVars PROVE FiltersInv'
  OBVIOUS
<1>1. ASSUME NEW id \in StdIds, NEW flag \in Forced, NEW itemLeft \in BOOLEAN,
             AddRecv(<<id, flag>>, itemLeft)
      PROVE  FiltersInv'
  <2>1. <<id, flag>> \in Id
    BY FiltersAssumption DEF Id
  <2> QED
    BY <1>1, <2>1, AddRecvInv
<1>2. CASE \E n \in DOMAIN recvMap : RemoveMessage(n)
  BY <1>2, RemoveMessageInv
<1>3. CASE \E n \in NodeIds : SetNodeId(n)
  BY <1>3, SetNodeIdInv
<1>4. CASE UNCHANGED filterVars
  BY <1>4 DEF filterVars, FiltersInv, FilterTypeOK, Has
<1> QED
  BY <1>1, <1>2, <1>3, <1>4 DEF FilterNext

(* Reachable: for every number of mailboxes above that of the messages of  *)
(* the map, the node is heard under its id, whatever is mapped, unmapped   *)
(* and cleared, and so is every mapped message while a mailbox is left.    *)
THEOREM NodeIsReachable == FilterSpec => []Reachable
<1>1. FiltersInv => Reachable
  <2> SUFFICES ASSUME FiltersInv PROVE Reachable
    OBVIOUS
  <2>1. ASSUME NEW id, Has(userIds, id) PROVE Arrives(id)
    <3>1. PICK i \in 1 .. Len(userIds) : userIds[i] = id
      BY <2>1 DEF Has
    <3>2. mailboxes[i] = id /\ i \in DOMAIN mailboxes
      BY <3>1, FiltersAssumption DEF FiltersInv, FilterTypeOK
    <3> QED
      BY <3>2 DEF Arrives
  <2>2. SdoReachable
    <3>1. Std(Request(nodeId)) \in Id /\ Arrives(Std(Request(nodeId)))
      BY <2>1, Ids DEF FiltersInv, FilterTypeOK
    <3> QED
      BY <3>1 DEF SdoReachable, ForSdo
  <2>3. MappedReachable
    <3> SUFFICES ASSUME Len(userIds) < MaxUsers, NEW n \in DOMAIN recvMap, ~recvMap[n][2]
                 PROVE  Heard(recvMap[n])
      BY DEF MappedReachable
    <3>1. n \in 1 .. Len(recvMap)
      BY DEF FiltersInv, FilterTypeOK
    <3>2. Arrives(recvMap[n])
      BY <2>1, <3>1 DEF FiltersInv
    <3>3. Mapped(recvMap[n])
      BY DEF Mapped
    <3> QED
      BY <3>2, <3>3 DEF Heard, ForMap
  <2> QED
    BY <2>2, <2>3 DEF Reachable
<1> QED
  BY <1>1, FilterInitInv, FilterNextInv, PTL DEF FilterSpec

(* No list of ids grows past its bound, and every mailbox has an id.       *)
THEOREM FiltersTyped == FilterSpec => []FilterTypeOK
<1>1. FiltersInv => FilterTypeOK
  BY DEF FiltersInv
<1> QED
  BY <1>1, FilterInitInv, FilterNextInv, PTL DEF FilterSpec
-------------------------------------------------------------------------------
(* That logging ends on time needs nothing of the interrupt: wherever it   *)
(* strikes, the keepalive counter is not behind the time since the last    *)
(* start.  That it does not end early needs the counter not to be ahead    *)
(* either, which holds only when no control frame hits a Tick.             *)

Counting == at \in {"readKeepalive", "writeKeepalive"}
Passed == at \in {"readAccum", "writeAccum", "testAccum", "dump"}

NumberTypes ==
  /\ enabled \in BOOLEAN /\ keepaliveMs \in Nat /\ intervalAccumMs \in Nat
  /\ intervalMs \in Nat /\ reg \in Nat /\ sinceStart \in Nat

(* What the counter knows of the time since the last start.                *)
NotBehind ==
  enabled =>
    /\ Counting => sinceStart <= keepaliveMs + Step
    /\ at = "writeKeepalive" => sinceStart <= reg + Step
    /\ at = "testKeepalive" => sinceStart <= reg /\ sinceStart <= keepaliveMs
    /\ ~Counting => sinceStart <= keepaliveMs
    /\ Passed \/ at = "idle" => sinceStart < Keepalive

EndInv == NumberTypes /\ NotBehind

(* The counter is not ahead, or the time is up anyhow.                     *)
Due == sinceStart >= Keepalive
NotAhead ==
  \/ Due
  \/ /\ Counting => keepaliveMs + Step <= sinceStart
     /\ at = "writeKeepalive" => reg + Step <= sinceStart
     /\ at = "testKeepalive" => reg <= sinceStart
     /\ enabled => keepaliveMs <= sinceStart
     /\ at # "expire"
AheadInv == EndInv /\ NotAhead /\ KeptAlive /\ (at # "idle" => enabled)

(* An interval is a number of milliseconds.                                *)
LEMMA IntervalType == ASSUME NEW b \in Bytes PROVE Interval(b) \in Nat
  BY LoggerAssumption DEF Interval

(* At first nothing is logged.                                             *)
LEMMA EndInit == LoggerInit => EndInv /\ AheadInv
<1> SUFFICES ASSUME LoggerInit PROVE EndInv /\ AheadInv
  OBVIOUS
<1>1. EndInv
  BY LoggerAssumption DEF LoggerInit, EndInv, NumberTypes, NotBehind
<1>2. NotAhead
  BY DEF LoggerInit, NotAhead, Counting
<1>3. KeptAlive /\ at = "idle"
  BY DEF LoggerInit, KeptAlive
<1> QED
  BY <1>1, <1>2, <1>3 DEF AheadInv

(* No step puts the counter behind.                                        *)
LEMMA EndStep == EndInv /\ [LoggerNext]_loggerVars => EndInv'
<1> SUFFICES ASSUME EndInv, [LoggerNext]_loggerVars PROVE EndInv'
  OBVIOUS
<1> USE LoggerAssumption DEF EndInv, NumberTypes, NotBehind, Counting, Passed, shared, loggerHistory
<1>1. CASE TickBegin
  BY <1>1 DEF TickBegin, Later
<1>2. CASE ReadKeepalive
  BY <1>2 DEF ReadKeepalive
<1>3. CASE WriteKeepalive
  BY <1>3 DEF WriteKeepalive
<1>4. CASE TestKeepalive
  BY <1>4 DEF TestKeepalive
<1>5. CASE Expire
  BY <1>5 DEF Expire
<1>6. CASE ReadAccum
  BY <1>6 DEF ReadAccum
<1>7. CASE WriteAccum
  BY <1>7 DEF WriteAccum
<1>8. CASE TestAccum
  BY <1>8 DEF TestAccum
<1>9. CASE Dump
  BY <1>9 DEF Dump
<1>10. ASSUME NEW b \in Bytes, Start(b) PROVE EndInv'
  BY <1>10, IntervalType DEF Start
<1>11. CASE Stop
  BY <1>11 DEF Stop
<1>12. CASE Leave
  BY <1>12 DEF Leave
<1>13. CASE UNCHANGED loggerVars
  BY <1>13 DEF loggerVars
<1> QED
  BY <1>1, <1>2, <1>3, <1>4, <1>5, <1>6, <1>7, <1>8, <1>9, <1>10, <1>11, <1>12, <1>13
  DEF LoggerNext, Tick, HandleControlFrame

(* None that is not in a Tick puts it ahead.                               *)
LEMMA AheadStep ==
  ASSUME ~MidTick, AheadInv, EndInv', [LoggerNext]_loggerVars
  PROVE  AheadInv'
<1> USE LoggerAssumption DEF EndInv, NumberTypes, AheadInv, NotAhead, Due, Counting, KeptAlive,
  shared, loggerHistory
<1>1. CASE TickBegin
  BY <1>1 DEF TickBegin, Later
<1>2. CASE ReadKeepalive
  BY <1>2 DEF ReadKeepalive
<1>3. CASE WriteKeepalive
  BY <1>3 DEF WriteKeepalive
<1>4. CASE TestKeepalive
  BY <1>4 DEF TestKeepalive
<1>5. CASE Expire
  BY <1>5 DEF Expire
<1>6. CASE ReadAccum
  BY <1>6 DEF ReadAccum
<1>7. CASE WriteAccum
  BY <1>7 DEF WriteAccum
<1>8. CASE TestAccum
  BY <1>8 DEF TestAccum
<1>9. CASE Dump
  BY <1>9 DEF Dump
<1>10. ASSUME NEW b \in Bytes, Start(b), at = "idle" PROVE AheadInv'
  BY <1>10 DEF Start
<1>11. CASE Stop /\ at = "idle"
  BY <1>11 DEF Stop
<1>12. CASE Leave
  BY <1>12 DEF Leave
<1>13. CASE UNCHANGED loggerVars
  BY <1>13 DEF loggerVars
<1> QED
  BY <1>1, <1>2, <1>3, <1>4, <1>5, <1>6, <1>7, <1>8, <1>9, <1>10, <1>11, <1>12, <1>13
  DEF LoggerNext, Tick, HandleControlFrame

(* Logging is off once the keepalive time since the last start command has *)
(* passed, for every period, keepalive time and interval, and wherever     *)
(* control frames interrupt Tick.                                          *)
THEOREM LoggingEndsOnTime == LoggerSpec => []EndsOnTime
<1>1. EndInv => EndsOnTime
  BY DEF EndInv, NotBehind, EndsOnTime
<1> QED
  BY <1>1, EndInit, EndStep, PTL DEF LoggerSpec

(* While no control frame interrupts Tick, logging goes on until a stop or *)
(* until the keepalive time since the last start has passed.               *)
THEOREM LoggingIsKeptAlive == ASSUME ~MidTick PROVE LoggerSpec => []KeptAlive
<1>1. AheadInv /\ [LoggerNext]_loggerVars => AheadInv'
  <2> SUFFICES ASSUME AheadInv, [LoggerNext]_loggerVars PROVE AheadInv'
    OBVIOUS
  <2>1. EndInv'
    BY EndStep DEF AheadInv
  <2> QED
    BY <2>1, AheadStep
<1>2. AheadInv => KeptAlive
  BY DEF AheadInv
<1> QED
  BY <1>1, <1>2, EndInit, PTL DEF LoggerSpec

(* What has accumulated is no more than the time since the last dump, as   *)
(* far as that is counted, unless a first dump is owed.                    *)
Covers(t) == sinceDump = Horizon \/ t <= sinceDump
PaceInv ==
  /\ intervalMs \in Intervals /\ intervalAccumMs \in Nat /\ keepaliveMs \in Nat /\ reg \in Nat
  /\ sinceDump \in 0 .. Horizon /\ enabled \in BOOLEAN
  /\ at # "idle" => enabled
  /\ enabled /\ ~owed =>
       /\ at \in {"readKeepalive", "writeKeepalive", "testKeepalive", "expire", "readAccum"} =>
            Covers(intervalAccumMs + Step)
       /\ at = "writeAccum" => Covers(reg + Step)
       /\ at = "testAccum" => Covers(reg)
       /\ at \in {"idle", "testAccum"} => Covers(intervalAccumMs)
       /\ at = "dump" => Covers(intervalMs)

(* None is beyond the horizon the history counts to.                       *)
LEMMA IntervalRange == \A i \in Intervals : i \in Nat /\ i <= Horizon
<1>1. \A b \in Bytes : Interval(b) \in Nat
  BY IntervalType
<1>2. \A i \in Intervals : i \in Nat
  BY <1>1, LoggerAssumption DEF Intervals
<1> QED
  BY <1>2, LoggerAssumption

(* Every step keeps what has accumulated covered, and a dump comes when it *)
(* is.                                                                     *)
LEMMA PaceStep ==
  ASSUME ~MidTick, PaceInv, [LoggerNext]_loggerVars
  PROVE  PaceInv' /\ (at = "dump" /\ at' = "idle" => owed \/ sinceDump >= intervalMs)
<1> USE LoggerAssumption DEF PaceInv, shared, loggerHistory
<1> DEFINE Paced == at = "dump" /\ at' = "idle" => owed \/ sinceDump >= intervalMs
<1>1. CASE TickBegin
  <2>1. sinceDump' = Later(sinceDump) /\ intervalMs' = intervalMs
        /\ intervalAccumMs' = intervalAccumMs /\ keepaliveMs' = keepaliveMs /\ reg' = reg
    BY <1>1 DEF TickBegin
  <2>2. sinceDump' \in 0 .. Horizon
    BY <2>1 DEF Later
  <2>3. Covers(intervalAccumMs) => Covers(intervalAccumMs + Step)' /\ Covers(intervalAccumMs)'
    BY <2>1 DEF Later, Covers
  <2>4. /\ enabled' = enabled /\ owed' = owed /\ at = "idle"
        /\ enabled => at' = "readKeepalive"
        /\ ~enabled => at' = "idle"
    BY <1>1, Zenon DEF TickBegin
  <2>5. ~Covers(intervalAccumMs) => ~(enabled /\ ~owed)
    BY <2>4
  <2>6. /\ intervalMs' \in Intervals /\ intervalAccumMs' \in Nat /\ keepaliveMs' \in Nat /\ reg' \in Nat
        /\ enabled' \in BOOLEAN
    BY <2>1, <2>4, Zenon
  <2>7. at' # "idle" => enabled'
    BY <2>4, Zenon
  <2>8. CASE ~enabled
    BY <2>2, <2>4, <2>6, <2>7, <2>8, Zenon
  <2>9. CASE enabled
    <3>1. /\ at' # "writeAccum" /\ at' # "testAccum" /\ at' # "dump" /\ at' # "idle"
          /\ at' \notin {"idle", "testAccum"}
      BY <2>4, <2>9
    <3>2. owed' = owed /\ (~owed => Covers(intervalAccumMs + Step)')
      BY <2>3, <2>4, <2>5, <2>9, Zenon
    <3>3. ~owed' => Covers(intervalAccumMs + Step)'
      BY <3>2, Zenon
    <3> HIDE DEF Covers
    <3>4. PaceInv'
      BY <2>2, <2>6, <2>7, <3>1, <3>3, Zenon
    <3> QED
      BY <2>4, <3>4, Zenon
  <2> QED
    BY <2>8, <2>9
<1>2. CASE ReadKeepalive
  <2>1. /\ intervalMs' = intervalMs /\ intervalAccumMs' = intervalAccumMs /\ reg' = keepaliveMs
        /\ keepaliveMs' = keepaliveMs /\ sinceDump' = sinceDump
    BY <1>2 DEF ReadKeepalive
  <2>2. enabled' = enabled /\ owed' = owed /\ at = "readKeepalive" /\ at' = "writeKeepalive"
    BY <1>2, Zenon DEF ReadKeepalive
  <2> QED
    BY <2>1, <2>2 DEF Covers
<1>3. CASE WriteKeepalive
  BY <1>3 DEF WriteKeepalive, Covers
<1>4. CASE TestKeepalive
  BY <1>4 DEF TestKeepalive, Covers
<1>5. CASE Expire
  BY <1>5 DEF Expire, Covers
<1>6. CASE ReadAccum
  BY <1>6 DEF ReadAccum, Covers
<1>7. CASE WriteAccum
  BY <1>7 DEF WriteAccum, Covers
<1>8. CASE TestAccum
  BY <1>8, IntervalRange DEF TestAccum, Covers
<1>9. CASE Dump
  BY <1>9, IntervalRange DEF Dump, Covers
<1>10. ASSUME NEW b \in Bytes, Start(b), at = "idle" PROVE PaceInv' /\ Paced
  <2>1. Interval(b) \in Intervals /\ Interval(b) \in Nat
    BY IntervalRange DEF Intervals
  <2> QED
    BY <1>10, <2>1 DEF Start, Covers
<1>11. CASE Stop /\ at = "idle"
  BY <1>11 DEF Stop, Covers
<1>12. CASE Leave
  BY <1>12 DEF Leave, Covers
<1>13. CASE UNCHANGED loggerVars
  BY <1>13 DEF loggerVars, Covers
<1> QED
  BY <1>1, <1>2, <1>3, <1>4, <1>5, <1>6, <1>7, <1>8, <1>9, <1>10, <1>11, <1>12, <1>13
  DEF LoggerNext, Tick, HandleControlFrame

(* While no control frame interrupts Tick, the first dump after a start    *)
(* comes when it is owed and every other an interval after the one before. *)
THEOREM LoggerKeepsPace == ASSUME ~MidTick PROVE LoggerSpec => DumpsPaced
<1>1. LoggerInit => PaceInv
  <2> SUFFICES ASSUME LoggerInit PROVE PaceInv
    OBVIOUS
  <2>1. /\ intervalMs \in Intervals /\ intervalAccumMs \in Nat /\ keepaliveMs \in Nat /\ reg \in Nat
        /\ sinceDump \in 0 .. Horizon
    BY LoggerAssumption DEF LoggerInit, Intervals
  <2>2. enabled = FALSE /\ at = "idle"
    BY DEF LoggerInit
  <2> QED
    BY <2>1, <2>2, Zenon DEF PaceInv
<1>2. PaceInv /\ [LoggerNext]_loggerVars =>
        PaceInv' /\ [at = "dump" /\ at' = "idle" => owed \/ sinceDump >= intervalMs]_loggerVars
  BY PaceStep
<1> QED
  BY <1>1, <1>2, PTL DEF LoggerSpec, DumpsPaced

-------------------------------------------------------------------------------
(* What the client gathers and what is left of the message make up whole   *)
(* messages, and so does every text it shows.                              *)

(* The client, byte by byte: what it has gathered and shown after k bytes. *)
Gathered(k) ==
  IF k <= Len(rest) THEN [buf |-> buf \o SubSeq(rest, 1, k), shown |-> shown]
  ELSE [buf |-> <<>>, shown |-> Append(shown, buf \o rest)]

Buffered == buf \in Seq(1 .. Messages) /\ rest \in Seq(1 .. Messages) /\ rest # <<>>

(* A sequence cut in two.                                                  *)
LEMMA CutInTwo ==
  ASSUME NEW S, NEW s \in Seq(S), NEW k \in Nat, k <= Len(s)
  PROVE  SubSeq(s, 1, k) \o SubSeq(s, k + 1, Len(s)) = s
<1>1. /\ 1 \in 1 .. Len(s) + 1 /\ k \in 1 - 1 .. Len(s) /\ Len(s) \in k .. Len(s)
  OBVIOUS
<1>2. SubSeq(s, 1, k) \o SubSeq(s, k + 1, Len(s)) = SubSeq(s, 1, Len(s))
  BY <1>1, ConcatAdjacentSubSeq, Zenon
<1>3. SubSeq(s, 1, Len(s)) = s
  BY SubSeqFull, Zenon
<1> QED
  BY <1>2, <1>3

(* Any other byte is gathered.                                             *)
LEMMA OtherByte ==
  ASSUME NEW gathered, NEW texts, NEW b, b # Null
  PROVE  Byte([buf |-> gathered, shown |-> texts], b) = [buf |-> Append(gathered, b), shown |-> texts]
<1> DEFINE client == [buf |-> gathered, shown |-> texts]
<1>1. [client EXCEPT !.buf = Append(@, b)] = [buf |-> Append(gathered, b), shown |-> texts]
  OBVIOUS
<1> HIDE DEF client
<1> QED
  BY <1>1, Zenon DEF Byte, client

(* A null byte ends what has been gathered, if anything has.               *)
LEMMA NullByte ==
  ASSUME NEW gathered, NEW texts
  PROVE  Byte([buf |-> gathered, shown |-> texts], Null) =
           [buf |-> <<>>, shown |-> IF gathered = <<>> THEN texts ELSE Append(texts, gathered)]
<1> DEFINE client == [buf |-> gathered, shown |-> texts]
<1>1. client.buf = gathered /\ client.shown = texts
  OBVIOUS
<1> HIDE DEF client
<1> QED
  BY <1>1, Zenon DEF Byte, client

LEMMA NextByte ==
  ASSUME Buffered, NEW k \in 1 .. FrameSize
  PROVE  Byte(Gathered(k - 1), TextFrame[k]) = Gathered(k)
<1> USE TextAssumption
<1>1. /\ Len(rest) \in Nat /\ Len(rest) > 0 /\ DOMAIN rest = 1 .. Len(rest) /\ k \in Nat /\ k > 0
      /\ TextFrame[k] = IF k \in 1 .. Len(rest) THEN rest[k] ELSE Null
      /\ \A i \in 1 .. Len(rest) : rest[i] # Null
  BY DEF Buffered, TextFrame, Null
<1>2. CASE k <= Len(rest)
  <2>1. k \in 1 .. Len(rest) /\ k - 1 <= Len(rest) /\ TextFrame[k] = rest[k] /\ rest[k] # Null
    BY <1>1, <1>2
  <2>2. Append(buf \o SubSeq(rest, 1, k - 1), rest[k]) = buf \o SubSeq(rest, 1, k)
    <3>1. SubSeq(rest, 1, k) = Append(SubSeq(rest, 1, k - 1), rest[k])
      BY <2>1 DEF Buffered
    <3>2. SubSeq(rest, 1, k - 1) \in Seq(1 .. Messages)
      BY <2>1 DEF Buffered
    <3> DEFINE s == SubSeq(rest, 1, k - 1)
    <3> HIDE DEF s
    <3>3. rest[k] \in 1 .. Messages
      BY <2>1 DEF Buffered
    <3>5. s \in Seq(1 .. Messages) /\ buf \in Seq(1 .. Messages)
      BY <3>2 DEF s, Buffered
    <3>4. Append(buf \o s, rest[k]) = buf \o Append(s, rest[k])
      <4> DEFINE x == rest[k]
      <4> HIDE DEF x
      <4>1. x \in 1 .. Messages /\ <<x>> \in Seq(1 .. Messages) /\ buf \o s \in Seq(1 .. Messages)
        BY <3>3, <3>5 DEF x
      <4>2. Append(buf \o s, x) = (buf \o s) \o <<x>> /\ Append(s, x) = s \o <<x>>
        BY <3>5, <4>1, AppendIsConcat
      <4>3. (buf \o s) \o <<x>> = buf \o (s \o <<x>>)
        BY <3>5, <4>1, ConcatAssociative
      <4> QED
        BY <4>2, <4>3 DEF x
    <3> QED
      BY <3>1, <3>4 DEF s
  <2>3. Gathered(k - 1) = [buf |-> buf \o SubSeq(rest, 1, k - 1), shown |-> shown]
    BY <2>1 DEF Gathered
  <2>4. Gathered(k) = [buf |-> buf \o SubSeq(rest, 1, k), shown |-> shown]
    BY <1>2 DEF Gathered
  <2>5. Byte(Gathered(k - 1), rest[k]) = [buf |-> Append(buf \o SubSeq(rest, 1, k - 1), rest[k]), shown |-> shown]
    BY <2>1, <2>3, OtherByte, Zenon
  <2> QED
    BY <2>1, <2>2, <2>4, <2>5
<1>3. CASE ~(k <= Len(rest))
  <2>1. TextFrame[k] = Null /\ Gathered(k) = [buf |-> <<>>, shown |-> Append(shown, buf \o rest)]
    BY <1>1, <1>3 DEF Gathered
  <2>2. CASE k - 1 <= Len(rest)
    <3>1. k - 1 = Len(rest)
      BY <1>1, <1>3, <2>2
    <3>2. SubSeq(rest, 1, k - 1) = rest
      BY <3>1 DEF Buffered
    <3>3. Gathered(k - 1) = [buf |-> buf \o rest, shown |-> shown]
      BY <2>2, <3>2 DEF Gathered
    <3>4. buf \o rest # <<>>
      BY <1>1 DEF Buffered
    <3>5. Byte(Gathered(k - 1), Null) = [buf |-> <<>>, shown |-> Append(shown, buf \o rest)]
      BY <3>3, <3>4, NullByte, Zenon
    <3> QED
      BY <2>1, <3>5
  <2>3. CASE ~(k - 1 <= Len(rest))
    <3>1. Gathered(k - 1) = [buf |-> <<>>, shown |-> Append(shown, buf \o rest)]
      BY <2>3 DEF Gathered
    <3>2. Byte(Gathered(k - 1), Null) = [buf |-> <<>>, shown |-> Append(shown, buf \o rest)]
      BY <3>1, NullByte, Zenon
    <3> QED
      BY <2>1, <3>2
  <2> QED
    BY <2>2, <2>3
<1> QED
  BY <1>2, <1>3

LEMMA GatheredNone == ASSUME Buffered PROVE Gathered(0) = [buf |-> buf, shown |-> shown]
<1>1. SubSeq(rest, 1, 0) = <<>> /\ buf \o <<>> = buf /\ 0 <= Len(rest)
  BY DEF Buffered
<1> QED
  BY <1>1 DEF Gathered

(* So that is what it has received after a frame: the recursive definition *)
(* has that solution and no other.                                         *)
LEMMA FrameReceived ==
  ASSUME Buffered
  PROVE  Received(TextFrame) = Gathered(FrameSize)
<1> USE TextAssumption
<1> DEFINE Equation(g) ==
      g = [k \in 0 .. FrameSize |->
             IF k = 0 THEN [buf |-> buf, shown |-> shown] ELSE Byte(g[k - 1], TextFrame[k])]
<1>1. \E g : Equation(g)
  <2> DEFINE f == [k \in 0 .. FrameSize |-> Gathered(k)]
  <2>1. \A k \in 0 .. FrameSize :
          f[k] = IF k = 0 THEN [buf |-> buf, shown |-> shown] ELSE Byte(f[k - 1], TextFrame[k])
    <3> TAKE k \in 0 .. FrameSize
    <3>1. CASE k = 0
      BY <3>1, GatheredNone
    <3>2. CASE k # 0
      <4>1. k \in 1 .. FrameSize /\ k - 1 \in 0 .. FrameSize
        BY <3>2
      <4>2. f[k] = Gathered(k) /\ f[k - 1] = Gathered(k - 1)
        BY <4>1
      <4> HIDE DEF f
      <4>3. Byte(Gathered(k - 1), TextFrame[k]) = Gathered(k)
        BY <4>1, NextByte
      <4> QED
        BY <3>2, <4>2, <4>3
    <3> QED
      BY <3>1, <3>2
  <2>2. f = [k \in 0 .. FrameSize |-> f[k]]
    OBVIOUS
  <2> HIDE DEF f
  <2>3. Equation(f)
    BY <2>1, <2>2
  <2> QED
    BY <2>3
<1>2. PICK g : Equation(g) /\ Received(TextFrame) = g[FrameSize]
  BY <1>1 DEF Received
<1>3. \A k \in 0 .. FrameSize :
        g[k] = IF k = 0 THEN [buf |-> buf, shown |-> shown] ELSE Byte(g[k - 1], TextFrame[k])
  BY <1>2
<1> HIDE DEF Equation
<1> DEFINE S == {k \in Nat : k <= FrameSize => g[k] = Gathered(k)}
<1>4. 0 \in S
  BY <1>3, GatheredNone
<1>5. ASSUME NEW k \in Nat, k \in S PROVE k + 1 \in S
  <2> SUFFICES ASSUME k + 1 <= FrameSize PROVE g[k + 1] = Gathered(k + 1)
    OBVIOUS
  <2>1. /\ k + 1 \in 1 .. FrameSize /\ k + 1 \in 0 .. FrameSize /\ k + 1 # 0 /\ (k + 1) - 1 = k
        /\ g[k] = Gathered(k)
    BY <1>5
  <2>2. g[k + 1] = Byte(g[(k + 1) - 1], TextFrame[k + 1])
    BY <1>3, <2>1
  <2>3. Byte(Gathered((k + 1) - 1), TextFrame[k + 1]) = Gathered(k + 1)
    BY <2>1, NextByte
  <2> QED
    BY <2>1, <2>2, <2>3
<1>6. FrameSize \in S
  <2> HIDE DEF S
  <2> QED
    BY <1>4, <1>5, NatSetInduction
<1> QED
  BY <1>2, <1>6

(* Whole messages.                                                         *)
Whole(t, lengths) ==
  \A n \in ToSet(t) : n \in 1 .. Len(lengths) /\ Cardinality({i \in DOMAIN t : t[i] = n}) = lengths[n]
TextInv ==
  TextTypeOK /\ Whole(buf \o rest, printed) /\ \A t \in ToSet(shown) : Whole(t, printed)

(* A message more leaves those whole that were.                            *)
LEMMA StaysWhole ==
  ASSUME TextTypeOK, NEW t, NEW length, printed' = Append(printed, length), Whole(t, printed)
  PROVE  Whole(t, printed')
<1>1. Len(printed) \in Nat /\ Len(printed') = Len(printed) + 1
      /\ \A n \in 1 .. Len(printed) : printed'[n] = printed[n]
  BY DEF TextTypeOK
<1> SUFFICES ASSUME NEW n \in ToSet(t)
             PROVE  n \in 1 .. Len(printed') /\ Cardinality({i \in DOMAIN t : t[i] = n}) = printed'[n]
  BY DEF Whole
<1>2. n \in 1 .. Len(printed) /\ Cardinality({i \in DOMAIN t : t[i] = n}) = printed[n]
  BY DEF Whole
<1> QED
  BY <1>1, <1>2

(* A message behind others is whole, and so are they.                      *)
LEMMA PrintfWhole ==
  ASSUME TextInv, NEW length \in 1 .. MaxLength + 1, Printf(length)
  PROVE  TextInv'
<1> USE TextAssumption
<1> DEFINE l == Lower(length, MaxLength)
           m == Len(printed) + 1
<1>1. /\ rest = <<>> /\ rest' = Text(l) /\ printed' = Append(printed, l) /\ logging' = logging
      /\ buf' = buf /\ shown' = shown /\ m <= Messages
      /\ printed \in Seq(1 .. MaxLength) /\ buf \in Seq(1 .. Messages)
  BY DEF Printf, TextInv, TextTypeOK
<1>2. l \in 1 .. MaxLength
  BY DEF Lower
<1>3. m \in 1 .. Messages /\ m \in Nat /\ Len(printed') = m /\ printed'[m] = l
      /\ \A n \in 1 .. Len(printed) : printed'[n] = printed[n]
  BY <1>1, <1>2
<1>4. rest' = [i \in 1 .. l |-> m] /\ rest' \in Seq(1 .. Messages) /\ Len(rest') = l
  BY <1>1, <1>2, <1>3 DEF Text
<1> HIDE DEF l
<1>5. TextTypeOK'
  BY <1>1, <1>2, <1>3, <1>4 DEF TextTypeOK, TextInv
<1>6. Whole(buf, printed) /\ buf \o rest = buf
  <2>1. buf \o rest = buf
    BY <1>1
  <2> QED
    BY <2>1 DEF TextInv
<1> DEFINE t == buf \o rest'
           b == Len(buf)
<1>7. /\ b \in Nat /\ t \in Seq(1 .. Messages) /\ Len(t) = b + l /\ DOMAIN t = 1 .. b + l
      /\ \A i \in 1 .. b : t[i] = buf[i] /\ buf[i] \in 1 .. Len(printed)
      /\ \A i \in b + 1 .. b + l : t[i] = m
      /\ DOMAIN buf = 1 .. b
  <2>1. b \in Nat /\ DOMAIN buf = 1 .. b /\ t \in Seq(1 .. Messages) /\ Len(t) = b + l /\ DOMAIN t = 1 .. b + l
    BY <1>1, <1>2, <1>4
  <2>2. ASSUME NEW i \in 1 .. b PROVE t[i] = buf[i] /\ buf[i] \in 1 .. Len(printed)
    <3>1. t[i] = buf[i]
      BY <1>1, <1>4
    <3>2. buf[i] \in ToSet(buf)
      BY <2>1 DEF ToSet
    <3> QED
      BY <3>1, <3>2, <1>6 DEF Whole
  <2>3. ASSUME NEW i \in b + 1 .. b + l PROVE t[i] = m
    <3>1. i - b \in 1 .. l /\ t[i] = rest'[i - b]
      BY <1>1, <1>2, <1>4, <2>1
    <3> QED
      BY <1>4, <3>1
  <2> QED
    BY <2>1, <2>2, <2>3
<1> HIDE DEF t, b, m
<1>8. Whole(t, printed')
  <2> SUFFICES ASSUME NEW n \in ToSet(t)
               PROVE  n \in 1 .. Len(printed') /\ Cardinality({i \in DOMAIN t : t[i] = n}) = printed'[n]
    BY DEF Whole
  <2>1. PICK j \in 1 .. b + l : t[j] = n
    BY <1>7 DEF ToSet
  <2>2. CASE n = m
    <3>1. {i \in DOMAIN t : t[i] = n} = b + 1 .. b + l
      BY <1>3, <1>7, <2>2, <1>2 DEF m
    <3>2. Cardinality(b + 1 .. b + l) = l
      BY <1>2, <1>7, FS_Interval
    <3>3. Cardinality({i \in DOMAIN t : t[i] = n}) = l
      BY <3>1, <3>2
    <3>4. n \in 1 .. Len(printed') /\ printed'[n] = l
      BY <1>3, <2>2
    <3> QED
      BY <3>3, <3>4
  <2>3. CASE n # m
    <3>1. j \in 1 .. b
      BY <1>2, <1>7, <2>1, <2>3
    <3>2. buf[j] = n /\ n \in ToSet(buf)
      BY <1>7, <2>1, <3>1 DEF ToSet
    <3>3. n \in 1 .. Len(printed) /\ Cardinality({i \in DOMAIN buf : buf[i] = n}) = printed[n]
      BY <3>2, <1>6 DEF Whole
    <3>4. {i \in DOMAIN t : t[i] = n} = {i \in DOMAIN buf : buf[i] = n}
      BY <1>2, <1>7, <2>3
    <3>5. n \in 1 .. Len(printed') /\ printed'[n] = printed[n]
      BY <1>3, <3>3 DEF m
    <3> QED
      BY <3>3, <3>4, <3>5
  <2> QED
    BY <2>2, <2>3
<1>9. ASSUME NEW s \in ToSet(shown) PROVE Whole(s, printed')
  <2>1. Whole(s, printed) /\ TextTypeOK /\ printed' = Append(printed, l)
    BY <1>1 DEF TextInv
  <2> QED
    BY <2>1, StaysWhole
<1>10. (\A s \in ToSet(shown) : Whole(s, printed))'
  BY <1>1, <1>9
<1>11. Whole(buf \o rest, printed)'
  <2>1. (buf \o rest)' = t
    BY <1>1 DEF t
  <2> QED
    BY <1>8, <2>1
<1> QED
  BY <1>5, <1>10, <1>11 DEF TextInv

(* A frame hands the client what is left of the message, or a part of it.  *)
LEMMA SendFrameWhole ==
  ASSUME TextInv, SendFrame
  PROVE  TextInv'
<1> USE TextAssumption
<1>1. /\ Buffered /\ rest' = SubSeq(rest, FrameSize + 1, Len(rest)) /\ logging' = logging /\ printed' = printed
      /\ buf' = Received(TextFrame).buf /\ shown' = Received(TextFrame).shown
      /\ Len(rest) \in Nat /\ Len(rest) <= MaxLength /\ shown \in Seq(Seq(1 .. Messages))
      /\ buf \in Seq(1 .. Messages) /\ rest \in Seq(1 .. Messages)
  BY DEF SendFrame, TextInv, TextTypeOK, Buffered
<1>2. buf' = Gathered(FrameSize).buf /\ shown' = Gathered(FrameSize).shown
  BY <1>1, FrameReceived
<1>3. CASE FrameSize <= Len(rest)
  <2>1. buf' = buf \o SubSeq(rest, 1, FrameSize) /\ shown' = shown
    BY <1>2, <1>3 DEF Gathered
  <2>2. /\ SubSeq(rest, 1, FrameSize) \in Seq(1 .. Messages)
        /\ rest' \in Seq(1 .. Messages) /\ Len(rest') = Len(rest) - FrameSize
    <3>1. \A i \in 1 .. Len(rest) : rest[i] \in 1 .. Messages
      BY <1>1
    <3>2. SubSeq(rest, 1, FrameSize) \in Seq(1 .. Messages)
      BY <1>1, <1>3, <3>1, SubSeqProperties
    <3>3. /\ SubSeq(rest, FrameSize + 1, Len(rest)) \in Seq(1 .. Messages)
          /\ Len(SubSeq(rest, FrameSize + 1, Len(rest))) =
               IF FrameSize + 1 <= Len(rest) THEN Len(rest) - (FrameSize + 1) + 1 ELSE 0
      BY <1>1, <1>3, <3>1, SubSeqProperties
    <3> QED
      BY <1>1, <1>3, <3>2, <3>3
  <2>3. SubSeq(rest, 1, FrameSize) \o SubSeq(rest, FrameSize + 1, Len(rest)) = rest
    BY <1>1, <1>3, CutInTwo
  <2>4. buf' \o rest' = buf \o rest
    <3> DEFINE p == SubSeq(rest, 1, FrameSize)
    <3>2. p \o rest' = rest /\ p \in Seq(1 .. Messages) /\ rest' \in Seq(1 .. Messages)
      BY <1>1, <2>2, <2>3
    <3> DEFINE r == rest'
    <3> HIDE DEF p, r
    <3>3. buf \in Seq(1 .. Messages) /\ p \in Seq(1 .. Messages) /\ r \in Seq(1 .. Messages)
      BY <1>1, <3>2 DEF r
    <3>1. (buf \o p) \o r = buf \o (p \o r)
      BY <3>3, ConcatAssociative
    <3> QED
      BY <2>1, <3>1, <3>2 DEF p, r
  <2>5. TextTypeOK'
    <3>1. buf' \in Seq(1 .. Messages)
      BY <1>1, <2>1, <2>2
    <3>2. Len(rest') <= MaxLength
      BY <1>1, <2>2
    <3> QED
      BY <1>1, <2>1, <2>2, <3>1, <3>2 DEF TextInv, TextTypeOK
  <2> QED
    BY <1>1, <2>1, <2>4, <2>5 DEF TextInv
<1>4. CASE ~(FrameSize <= Len(rest))
  <2>1. buf' = <<>> /\ shown' = Append(shown, buf \o rest)
    BY <1>2, <1>4 DEF Gathered
  <2>2. rest' = <<>>
    BY <1>1, <1>4
  <2>3. buf \o rest \in Seq(1 .. Messages)
    BY <1>1
  <2> DEFINE t == buf \o rest
  <2>4. shown' \in Seq(Seq(1 .. Messages)) /\ \A s \in ToSet(shown') : s \in ToSet(shown) \/ s = t
    <3> HIDE DEF t
    <3>1. t \in Seq(1 .. Messages) /\ shown' = Append(shown, t)
      BY <2>1, <2>3 DEF t
    <3>2. shown' \in Seq(Seq(1 .. Messages)) /\ Len(shown') = Len(shown) + 1 /\ Len(shown) \in Nat
          /\ shown'[Len(shown) + 1] = t /\ \A i \in 1 .. Len(shown) : shown'[i] = shown[i]
      BY <1>1, <3>1
    <3>3. ASSUME NEW s \in ToSet(shown') PROVE s \in ToSet(shown) \/ s = t
      <4>1. PICK i \in 1 .. Len(shown') : s = shown'[i]
        BY <3>2, <3>3 DEF ToSet
      <4>2. CASE i = Len(shown) + 1
        BY <3>2, <4>1, <4>2
      <4>3. CASE i # Len(shown) + 1
        <5>1. i \in 1 .. Len(shown) /\ s = shown[i]
          BY <3>2, <4>1, <4>3
        <5> QED
          BY <1>1, <5>1 DEF ToSet
      <4> QED
        BY <4>2, <4>3
    <3> QED
      BY <3>2, <3>3
  <2>5. Whole(t, printed) /\ \A s \in ToSet(shown) : Whole(s, printed)
    BY DEF TextInv
  <2> HIDE DEF t
  <2>6. (\A s \in ToSet(shown) : Whole(s, printed))'
    BY <1>1, <2>4, <2>5
  <2>7. Whole(buf \o rest, printed)'
    <3>1. (buf \o rest)' = <<>>
      BY <2>1, <2>2
    <3> QED
      BY <3>1 DEF Whole, ToSet
  <2>8. TextTypeOK'
    BY <1>1, <2>1, <2>2, <2>4 DEF TextInv, TextTypeOK
  <2> QED
    BY <2>6, <2>7, <2>8 DEF TextInv
<1> QED
  BY <1>3, <1>4

LEMMA TextInvInit == TextInit => TextInv
<1> SUFFICES ASSUME TextInit PROVE TextInv
  OBVIOUS
<1>1. buf = <<>> /\ rest = <<>> /\ shown = <<>> /\ printed = <<>> /\ logging = FALSE
  BY DEF TextInit
<1>2. TextTypeOK
  <2>1. /\ <<>> \in Seq(1 .. MaxLength) /\ <<>> \in Seq(1 .. Messages)
        /\ <<>> \in Seq(Seq(1 .. Messages)) /\ Len(<<>>) = 0
    OBVIOUS
  <2>2. logging \in BOOLEAN
    BY <1>1
  <2> QED
    BY <1>1, <2>1, <2>2, TextAssumption DEF TextTypeOK
<1>3. Whole(buf \o rest, printed) /\ \A t \in ToSet(shown) : Whole(t, printed)
  <2>1. buf \o rest = <<>>
    BY <1>1
  <2> QED
    BY <1>1, <2>1 DEF Whole, ToSet
<1> QED
  BY <1>2, <1>3 DEF TextInv

LEMMA TextInvKept == TextInv /\ [TextNext]_textVars => TextInv'
<1> SUFFICES ASSUME TextInv, [TextNext]_textVars PROVE TextInv'
  OBVIOUS
<1>1. CASE UNCHANGED <<printed, rest, buf, shown>> /\ logging' \in BOOLEAN
  <2>2. TextTypeOK'
    BY <1>1 DEF TextInv, TextTypeOK
  <2> QED
    BY <1>1, <2>2 DEF TextInv
<1>2. CASE ControlFrame
  BY <1>1, <1>2 DEF ControlFrame
<1>3. CASE UNCHANGED textVars
  BY <1>1, <1>3 DEF textVars, TextInv, TextTypeOK
<1> QED
  BY <1>2, <1>3, PrintfWhole, SendFrameWhole DEF TextNext

(* TextsComplete: the client shows whole messages, for every length of     *)
(* messages and frames and however logging is started and stopped.         *)
THEOREM TextsAreComplete == TextSpec => []TextsComplete
<1>1. TextInv => TextsComplete
  BY DEF TextInv, TextsComplete, Whole
<1> QED
  BY <1>1, TextInvInit, TextInvKept, PTL DEF TextSpec

(* What the client gathers and shows are characters of messages.           *)
THEOREM TextIsTyped == TextSpec => []TextTypeOK
<1>1. TextInv => TextTypeOK
  BY DEF TextInv
<1> QED
  BY <1>1, TextInvInit, TextInvKept, PTL DEF TextSpec

-------------------------------------------------------------------------------
(* All parts together: a step of the bus is a step of one part and leaves  *)
(* the others alone, so that each keeps its type whichever is at work.     *)

(* Nothing is asked of the callers here: the interrupt may strike in Send. *)
LEMMA SendTyped == TypeOK /\ [Next]_vars => TypeOK'
<1> SUFFICES ASSUME TypeOK, [Next]_vars PROVE TypeOK'
  OBVIOUS
<1> USE Constants DEF TypeOK, Places, Commands, Ctx, At, Goto, if1, object, peers, history
<1>1. ASSUME NEW c \in Ctx, Call(c) PROVE TypeOK'
  BY <1>1 DEF Call
<1>2. ASSUME NEW c \in Ctx, AwaitCopy(c) PROVE TypeOK'
  BY <1>2 DEF AwaitCopy
<1>3. ASSUME NEW c \in Ctx, AwaitSent(c) PROVE TypeOK'
  BY <1>3 DEF AwaitSent
<1>4. ASSUME NEW c \in Ctx, GiveUp(c) PROVE TypeOK'
  BY <1>4 DEF GiveUp
<1>5. ASSUME NEW c \in Ctx, SetupRegisters(c) PROVE TypeOK'
  BY <1>5 DEF SetupRegisters
<1>6. ASSUME NEW c \in Ctx, SetupCommand(c) PROVE TypeOK'
  BY <1>6 DEF SetupCommand
<1>7. ASSUME NEW c \in Ctx, ReadControl(c) PROVE TypeOK'
  BY <1>7 DEF ReadControl
<1>8. ASSUME NEW c \in Ctx, WriteData(c) PROVE TypeOK'
  BY <1>8 DEF WriteData
<1>9. ASSUME NEW c \in Ctx, SendCommand(c) PROVE TypeOK'
  BY <1>9 DEF SendCommand
<1>10. CASE ConfigureFilters
  BY <1>10 DEF ConfigureFilters
<1>11. CASE CopySetup
  <2>1. mailbox' \in CallNo \X CallNo
    BY <1>11 DEF CopySetup
  <2> QED
    BY <1>11, <2>1 DEF CopySetup
<1>12. CASE CopyData
  BY <1>12 DEF CopyData
<1>13. CASE CopyOther
  BY <1>13 DEF CopyOther
<1>14. CASE Transmit
  <2>1. bus' \in Seq(CallNo \X CallNo)
    <3> HIDE DEF Ctx
    <3>1. mailbox \in CallNo \X CallNo /\ bus \in Seq(CallNo \X CallNo)
      OBVIOUS
    <3> QED
      BY <1>14, <3>1 DEF Transmit
  <2> QED
    BY <1>14, <2>1 DEF Transmit
<1>15. CASE PeersChange
  BY <1>15 DEF PeersChange
<1>16. CASE UNCHANGED vars
  BY <1>16 DEF vars
<1> QED
  BY <1>1, <1>2, <1>3, <1>4, <1>5, <1>6, <1>7, <1>8, <1>9, <1>10, <1>11, <1>12, <1>13, <1>14,
     <1>15, <1>16
  DEF Next, Send, Controller

LEMMA SendTypedInit == Init => TypeOK
<1> USE Constants DEF Init
<1>1. Init => pc \in [Ctx -> Places] /\ mine \in [Ctx -> CallNo]
  BY DEF Places
<1>2. Init => mailbox \in CallNo \X CallNo /\ bus \in Seq(CallNo \X CallNo)
  OBVIOUS
<1>3. Init => command \in Commands /\ txrqst \in BOOLEAN /\ heard \in BOOLEAN
  BY DEF Commands
<1>4. Init => /\ arb \in CallNo /\ data \in CallNo /\ calls \in CallNo
              /\ faults \in 0 .. MaxFaults /\ filters \in 0 .. MaxFilters
              /\ abandoned \subseteq CallNo
  OBVIOUS
<1> QED
  BY <1>1, <1>2, <1>3, <1>4 DEF TypeOK

(* The logger adds a period to its counters only while they are below the  *)
(* keepalive time, or not above the longest interval.                      *)
Slow(t) == t + Step <= Horizon
LoggerNumbers ==
  /\ intervalMs \in Intervals
  /\ intervalAccumMs \in 0 .. Horizon /\ keepaliveMs \in 0 .. Keepalive + Step
  /\ reg \in 0 .. Horizon
  /\ sinceStart \in 0 .. Horizon /\ sinceDump \in 0 .. Horizon
Below ==
  /\ at = "testKeepalive" => reg <= Keepalive + Step /\ keepaliveMs \in {0, reg}
  /\ at \notin {"testKeepalive", "expire"} /\ (enabled \/ at # "idle") =>
       keepaliveMs <= Keepalive
  /\ at = "writeKeepalive" => reg <= Keepalive
  /\ at \notin {"testAccum", "dump"} => Slow(intervalAccumMs)
  /\ at = "writeAccum" => Slow(reg)
  /\ at = "testAccum" => Slow(intervalAccumMs) \/ reg = intervalAccumMs
LoggerFlags ==
  /\ at \in {"idle", "readKeepalive", "writeKeepalive", "testKeepalive", "expire",
             "readAccum", "writeAccum", "testAccum", "dump"}
  /\ enabled \in BOOLEAN /\ clients \in BOOLEAN /\ stopped \in BOOLEAN /\ owed \in BOOLEAN
LoggerInv == LoggerNumbers /\ Below /\ LoggerFlags

LEMMA IntervalIsSlow ==
  /\ \A b \in Bytes : Interval(b) \in Intervals
  /\ Default \in Intervals
  /\ \A i \in Intervals : i \in Nat /\ Slow(i)
  BY LoggerAssumption DEF Intervals, Interval, Slow

LEMMA LoggerInvInit == LoggerInit => LoggerInv
<1> SUFFICES ASSUME LoggerInit PROVE LoggerInv
  OBVIOUS
<1>1. LoggerNumbers /\ Below
  BY LoggerAssumption, IntervalIsSlow DEF LoggerInit, LoggerNumbers, Below, Slow
<1>2. LoggerFlags
  BY DEF LoggerInit, LoggerFlags
<1> QED
  BY <1>1, <1>2 DEF LoggerInv

LEMMA LoggerNumbersKept ==
  ASSUME LoggerNumbers, Below, LoggerFlags, [LoggerNext]_loggerVars
  PROVE  LoggerNumbers' /\ Below'
<1> USE LoggerAssumption, IntervalIsSlow DEF LoggerNumbers, Below, Slow, shared, loggerHistory
<1>1. CASE TickBegin
  BY <1>1 DEF TickBegin, Later
<1>2. CASE ReadKeepalive
  BY <1>2 DEF ReadKeepalive
<1>3. CASE WriteKeepalive
  BY <1>3 DEF WriteKeepalive
<1>4. CASE TestKeepalive
  BY <1>4 DEF TestKeepalive
<1>5. CASE Expire
  BY <1>5 DEF Expire
<1>6. CASE ReadAccum
  BY <1>6 DEF ReadAccum
<1>7. CASE WriteAccum
  BY <1>7 DEF WriteAccum
<1>8. CASE TestAccum
  BY <1>8 DEF TestAccum
<1>9. CASE Dump
  BY <1>9 DEF Dump
<1>10. ASSUME NEW b \in Bytes, Start(b) PROVE LoggerNumbers' /\ Below'
  BY <1>10 DEF Start
<1>11. CASE Stop
  BY <1>11 DEF Stop
<1>12. CASE Leave
  BY <1>12 DEF Leave
<1>13. CASE UNCHANGED loggerVars
  BY <1>13 DEF loggerVars
<1> QED
  BY <1>1, <1>2, <1>3, <1>4, <1>5, <1>6, <1>7, <1>8, <1>9, <1>10, <1>11, <1>12, <1>13
  DEF LoggerNext, Tick, HandleControlFrame

LEMMA LoggerFlagsKept ==
  ASSUME LoggerFlags, [LoggerNext]_loggerVars
  PROVE  LoggerFlags'
<1> USE DEF LoggerFlags, shared, loggerHistory
<1>1. CASE Tick
  BY <1>1
  DEF Tick, TickBegin, ReadKeepalive, WriteKeepalive, TestKeepalive, Expire, ReadAccum,
      WriteAccum, TestAccum, Dump
<1>2. ASSUME NEW b \in Bytes, Start(b) PROVE LoggerFlags'
  BY <1>2 DEF Start
<1>3. CASE Stop \/ Leave
  BY <1>3 DEF Stop, Leave
<1>4. CASE UNCHANGED loggerVars
  BY <1>4 DEF loggerVars
<1> QED
  BY <1>1, <1>2, <1>3, <1>4 DEF LoggerNext, HandleControlFrame

LEMMA LoggerInvKept == LoggerInv /\ [LoggerNext]_loggerVars => LoggerInv'
  BY LoggerNumbersKept, LoggerFlagsKept DEF LoggerInv

(* Whatever is shifted, masked and swapped, a word remains a word.         *)
CodingInv == CodingTypeOK /\ Len(message) \in Nat

LEMMA WordOfPair ==
  ASSUME NEW item, NEW added \in Packed(item)
  PROVE  added[1] \in Word /\ added[2] \in Word
<1>1. \A w, n : Left(w, n) \in Word /\ Right(w, n) \in Word
  BY DEF Left, Right, Word
<1>2. NoBits \in Word
  BY DEF NoBits, Word
<1>3. \A value : Little(item, value)[1] \in Word /\ Little(item, value)[2] \in Word
  BY <1>1, <1>2 DEF Little
<1>4. \A s : Big(item, s)[1] \in Word /\ Big(item, s)[2] \in Word
  BY <1>1, <1>2 DEF Big
<1>5. (\E value : added = Little(item, value)) \/ (\E s : added = Big(item, s))
  BY Zenon DEF Packed
<1> QED
  BY <1>3, <1>4, <1>5

LEMMA WordTakenOut == ASSUME NEW item, NEW value \in Unpacked(item) PROVE value \in Word
<1>1. \E from, mask : value = Right(from.word, from.pos) \cap mask
  BY DEF Unpacked
<1> QED
  BY <1>1 DEF Right, Word

LEMMA CodingInvKept == CodingInv /\ [CodingNext]_codingVars => CodingInv'
<1> SUFFICES ASSUME CodingInv, [CodingNext]_codingVars PROVE CodingInv'
  OBVIOUS
<1> USE DEF CodingInv, CodingTypeOK
<1>1. CASE Pack
  <2>1. PICK added \in Packed(message[packed + 1]) :
          words' = <<words[1] \cup added[1], words[2] \cup added[2]>>
    BY <1>1 DEF Pack
  <2>2. added[1] \in Word /\ added[2] \in Word
    BY <2>1, WordOfPair
  <2>3. words'[1] \in Word /\ words'[2] \in Word
    BY <2>1, <2>2 DEF Word
  <2> QED
    BY <1>1, <2>3 DEF Pack
<1>2. CASE Unpack
  <2>1. PICK value \in Unpacked(message[Len(received) + 1]) : received' = Append(received, value)
    BY <1>2 DEF Unpack
  <2>2. value \in Word
    BY <2>1, WordTakenOut
  <2>3. received' \in Seq(Word) /\ Len(received') = Len(received) + 1
    BY <2>1, <2>2
  <2> QED
    BY <1>2, <2>3 DEF Unpack
<1>3. CASE UNCHANGED codingVars
  BY <1>3 DEF codingVars
<1> QED
  BY <1>1, <1>2, <1>3 DEF CodingNext

(* Whichever part is at work.                                              *)
LEMMA CodingInvInit == BusInit => CodingInv
<1> SUFFICES ASSUME BusInit PROVE CodingInv
  OBVIOUS
<1>1. words = <<NoBits, NoBits>> /\ packed = 0 /\ received = <<>>
  BY DEF BusInit, CodingInit
<1>2. Len(message) \in 0 .. 2
  <2>1. CASE message = <<>>
    BY <2>1
  <2>2. ASSUME NEW one, NEW two, NEW value, NEW other,
               message \in {<<Valued(one, value), Valued(two, other)>>,
                            <<Valued(two, other), Valued(one, value)>>}
        PROVE  Len(message) = 2
    BY <2>2
  <2>3. CASE message # <<>>
    <3>1. CodingInit
      BY <2>3 DEF BusInit
    <3>2. PICK one \in Mappable(Lengths), two \in Mappable(OtherLengths) :
            \E value \in Values(one.bits), other \in OtherValues(two.bits) :
              message \in {<<Valued(one, value), Valued(two, other)>>,
                          <<Valued(two, other), Valued(one, value)>>}
      BY <3>1, Zenon DEF CodingInit
    <3> QED
      BY <2>2, <3>2
  <2> QED
    BY <2>1, <2>3
<1>3. NoBits \in Word /\ words[1] = NoBits /\ words[2] = NoBits
  BY <1>1 DEF NoBits, Word
<1>4. packed \in 0 .. 2 /\ received \in Seq(Word) /\ Len(received) <= packed
  BY <1>1
<1>5. \A n \in 0 .. 2 : n \in Nat /\ n <= 2
  OBVIOUS
<1> QED
  BY <1>2, <1>3, <1>4, <1>5, Zenon DEF CodingInv, CodingTypeOK

(* A step of the bus is one of every part, or leaves the part alone.       *)
LEMMA StepOfEach ==
  [BusNext]_busVars =>
    /\ [Next]_vars /\ [FilterNext]_filterVars /\ [LoggerNext]_loggerVars
    /\ [TextNext]_textVars /\ [CodingNext]_codingVars
<1> SUFFICES ASSUME [BusNext]_busVars
             PROVE  /\ [Next]_vars /\ [FilterNext]_filterVars /\ [LoggerNext]_loggerVars
                    /\ [TextNext]_textVars /\ [CodingNext]_codingVars
  OBVIOUS
<1>1. CASE On("send") /\ Next
  BY <1>1 DEF On, idle
<1>2. CASE On("filters") /\ FilterNext
  BY <1>2 DEF On, idle
<1>3. CASE On("logger") /\ LoggerNext
  BY <1>3 DEF On, idle
<1>4. CASE On("text") /\ TextNext
  BY <1>4 DEF On, idle
<1>5. CASE On("coding") /\ CodingNext
  BY <1>5 DEF On, idle
<1>6. CASE UNCHANGED busVars
  BY <1>6 DEF busVars
<1> QED
  BY <1>1, <1>2, <1>3, <1>4, <1>5, <1>6 DEF BusNext

(* Every behaviour of the bus is one of each of its parts, as far as what  *)
(* may happen goes: what must happen is asked of the one at work only.     *)
THEOREM BusIsItsParts ==
  BusSpec => Spec /\ FilterSpec /\ (LoggerInit /\ [][LoggerNext]_loggerVars) /\ TextSpec
<1>1. BusInit => Init /\ FilterInit /\ LoggerInit /\ TextInit
  BY DEF BusInit
<1>2. BusInit /\ [][BusNext]_busVars =>
        /\ Init /\ FilterInit /\ LoggerInit /\ TextInit
        /\ [][Next]_vars /\ [][FilterNext]_filterVars /\ [][LoggerNext]_loggerVars
        /\ [][TextNext]_textVars
  BY <1>1, StepOfEach, PTL
<1> QED
  BY <1>2, PTL DEF BusSpec, Spec, FilterSpec, TextSpec

(* BusTypeOK: no counter, list or buffer of any part grows past its bound  *)
(* and no word past its width, for all constants, and for calls of Send    *)
(* and control frames that interrupt each other anywhere.                  *)
THEOREM BusIsTyped == BusSpec => []BusTypeOK
<1> DEFINE BusInv == TypeOK /\ FiltersInv /\ LoggerInv /\ TextInv /\ CodingInv
<1>1. BusInit => BusInv
  BY SendTypedInit, FilterInitInv, LoggerInvInit, TextInvInit, CodingInvInit DEF BusInit
<1>2. BusInv /\ [BusNext]_busVars => BusInv'
  BY StepOfEach, SendTyped, FilterNextInv, LoggerInvKept, TextInvKept, CodingInvKept
<1>3. BusInv => BusTypeOK
  BY DEF FiltersInv, LoggerInv, LoggerNumbers, LoggerFlags, LoggerTypeOK, TextInv, CodingInv,
         BusTypeOK
<1> QED
  BY <1>1, <1>2, <1>3, PTL DEF BusSpec

-------------------------------------------------------------------------------
(* The coding of values, for every number of bits in a byte.  A bit is     *)
(* named by its byte and its place in it, and every shift that SendAll and *)
(* HandleRx make of a big endian value that ends with a byte is by whole   *)
(* bytes.                                                                  *)

Digit == 0 .. ByteBits - 1

LEMMA ByteNumbers == ByteBits \in Int /\ ByteBits > 0 /\ Width \in Int /\ Width = 4 * ByteBits
  BY CodingAssumption DEF Width

(* More bytes are more bits.                                               *)
LEMMA Growing == \A x, y \in Int : x <= y => ByteBits * x <= ByteBits * y
<1> SUFFICES ASSUME NEW x \in Int, NEW y \in Int, x <= y PROVE ByteBits * x <= ByteBits * y
  OBVIOUS
<1>1. y - x \in Nat /\ ByteBits \in Nat
  BY ByteNumbers
<1>2. ByteBits * (y - x) >= 0
  BY <1>1
<1> QED
  BY <1>2, ByteNumbers

(* Which byte a bit is in.                                                 *)
LEMMA InByte ==
  ASSUME NEW c \in 0 .. 8 * ByteBits - 1
  PROVE  \E q \in 0 .. 7, r \in Digit : c = ByteBits * q + r
<1> USE ByteNumbers DEF Digit
<1>1. CASE c < ByteBits
  <2>1. c \in Digit /\ c = ByteBits * 0 + c
    BY <1>1
  <2> QED
    BY <2>1
<1>2. ASSUME NEW q \in 1 .. 7, ByteBits * q <= c, c < ByteBits * (q + 1)
      PROVE  \E p \in 0 .. 7, r \in Digit : c = ByteBits * p + r
  <2>1. ByteBits * (q + 1) = ByteBits * q + ByteBits
    OBVIOUS
  <2>2. c - ByteBits * q \in Digit /\ c = ByteBits * q + (c - ByteBits * q)
    BY <1>2, <2>1
  <2> QED
    BY <2>2
<1>3. \/ c < ByteBits
      \/ ByteBits * 1 <= c /\ c < ByteBits * (1 + 1)
      \/ ByteBits * 2 <= c /\ c < ByteBits * (2 + 1)
      \/ ByteBits * 3 <= c /\ c < ByteBits * (3 + 1)
      \/ ByteBits * 4 <= c /\ c < ByteBits * (4 + 1)
      \/ ByteBits * 5 <= c /\ c < ByteBits * (5 + 1)
      \/ ByteBits * 6 <= c /\ c < ByteBits * (6 + 1)
      \/ ByteBits * 7 <= c /\ c < ByteBits * (7 + 1)
  OBVIOUS
<1>4. 1 \in 1 .. 7 /\ 2 \in 1 .. 7 /\ 3 \in 1 .. 7 /\ 4 \in 1 .. 7 /\ 5 \in 1 .. 7
      /\ 6 \in 1 .. 7 /\ 7 \in 1 .. 7
  OBVIOUS
<1> QED
  BY <1>1, <1>2, <1>3, <1>4

LEMMA Quotient ==
  ASSUME NEW q \in Nat, NEW r \in Digit
  PROVE  (ByteBits * q + r) \div ByteBits = q /\ (ByteBits * q + r) % ByteBits = r
<1> DEFINE c == ByteBits * q + r
           d == c \div ByteBits
           s == c % ByteBits
<1>1. c \in Nat
  BY ByteNumbers DEF Digit
<1>2. d \in Int /\ s \in Int /\ c = ByteBits * d + s /\ 0 <= s /\ s < ByteBits
  <2> HIDE DEF c
  <2> QED
    BY <1>1, ByteNumbers
<1>3. c = ByteBits * q + r /\ r \in Int /\ 0 <= r /\ r < ByteBits
  BY ByteNumbers DEF Digit
<1> HIDE DEF c, d, s
<1>4. ~(d <= q - 1)
  <2> SUFFICES ASSUME d <= q - 1 PROVE FALSE
    OBVIOUS
  <2>1. ByteBits * d <= ByteBits * (q - 1)
    BY <1>2, Growing
  <2>2. ByteBits * (q - 1) = ByteBits * q - ByteBits
    BY ByteNumbers
  <2> QED
    BY <1>2, <1>3, <2>1, <2>2, ByteNumbers
<1>5. ~(d >= q + 1)
  <2> SUFFICES ASSUME d >= q + 1 PROVE FALSE
    OBVIOUS
  <2>1. ByteBits * (q + 1) <= ByteBits * d
    BY <1>2, Growing
  <2>2. ByteBits * (q + 1) = ByteBits * q + ByteBits
    BY ByteNumbers
  <2> QED
    BY <1>2, <1>3, <2>1, <2>2, ByteNumbers
<1>6. d = q
  BY <1>2, <1>4, <1>5
<1>7. s = r
  BY <1>2, <1>3, <1>6, ByteNumbers
<1> QED
  BY <1>6, <1>7 DEF c, d, s

(* A cell of a byte is mirrored in it.                                     *)
LEMMA PlaceInByte ==
  ASSUME NEW q \in Nat, NEW r \in Digit
  PROVE  Place(ByteBits * q + (ByteBits - 1 - r)) = ByteBits * q + r
<1>1. ByteBits - 1 - r \in Digit
  BY ByteNumbers DEF Digit
<1>2. Place(ByteBits * q + (ByteBits - 1 - r)) = ByteBits * q + (ByteBits - 1) - (ByteBits - 1 - r)
  BY <1>1, Quotient DEF Place
<1> QED
  BY <1>2, ByteNumbers DEF Digit

(* Swapping the bytes of a word.                                           *)
LEMMA SwapBit ==
  ASSUME CharBits = ByteBits, NEW w \in Word, NEW s \in Swaps(w),
         NEW i \in 0 .. 3, NEW r \in Digit
  PROVE  /\ ByteBits * (3 - i) + r \in s <=> ByteBits * i + r \in w
         /\ s \in Word
<1> USE ByteNumbers DEF Digit
<1>1. s = Swapped(w, Char(w, 2), Char(w, 3))
  BY DEF Swaps
<1>2. \A x \in Int : x \in s <=>
        \/ x \in 3 * ByteBits .. 4 * ByteBits - 1 /\ x - 3 * ByteBits \in w
        \/ x \in 2 * ByteBits .. 3 * ByteBits - 1 /\ x - 2 * ByteBits + ByteBits \in w
        \/ x \in ByteBits .. 2 * ByteBits - 1 /\ x - ByteBits + 2 * ByteBits \in w
        \/ x \in 0 .. ByteBits - 1 /\ x + 3 * ByteBits \in w
  BY <1>1 DEF Swapped, Left, Char, Low, Bits
<1>3. s \in Word
  BY <1>1 DEF Swapped, Left, Char, Low, Bits, Word
<1>4. CASE i = 0
  <2>1. ByteBits * (3 - i) + r = 3 * ByteBits + r /\ ByteBits * i + r = 0 * ByteBits + r
    BY <1>4
  <2>2. 3 * ByteBits + r \in s <=> 0 * ByteBits + r \in w
    BY <1>2
  <2> QED
    BY <1>3, <2>1, <2>2
<1>5. CASE i = 1
  <2>1. ByteBits * (3 - i) + r = 2 * ByteBits + r /\ ByteBits * i + r = 1 * ByteBits + r
    BY <1>5
  <2>2. 2 * ByteBits + r \in s <=> 1 * ByteBits + r \in w
    BY <1>2
  <2> QED
    BY <1>3, <2>1, <2>2
<1>6. CASE i = 2
  <2>1. ByteBits * (3 - i) + r = 1 * ByteBits + r /\ ByteBits * i + r = 2 * ByteBits + r
    BY <1>6
  <2>2. 1 * ByteBits + r \in s <=> 2 * ByteBits + r \in w
    BY <1>2
  <2> QED
    BY <1>3, <2>1, <2>2
<1>7. CASE i = 3
  <2>1. ByteBits * (3 - i) + r = 0 * ByteBits + r /\ ByteBits * i + r = 3 * ByteBits + r
    BY <1>7
  <2>2. 0 * ByteBits + r \in s <=> 3 * ByteBits + r \in w
    BY <1>2
  <2> QED
    BY <1>3, <2>1, <2>2
<1> QED
  BY <1>4, <1>5, <1>6, <1>7

(* The bits of a message, counted through both words, and the one that bit *)
(* b of an item's value becomes.                                           *)
BitIn(w, c) == IF c < Width THEN c \in w[1] ELSE c - Width \in w[2]
CellOf(item, b) == IF item.big THEN Place(item.offset - b) ELSE item.offset + b
Cell == 0 .. 2 * Width - 1

Item(item) ==
  /\ item.offset \in Cell /\ item.bits \in 1 .. Width /\ item.big \in BOOLEAN
  /\ Accepted(item)
  /\ item.big = TRUE => EndsByte(item)

(* A big endian item that ends with a byte ends with the last bit of one.  *)
LEMMA EndsInByte ==
  ASSUME NEW item, Item(item), item.big = TRUE
  PROVE  /\ item.offset \in Cell /\ item.bits \in 1 .. Width
         /\ item.offset - item.bits + 1 >= 0
         /\ \E m \in 1 .. 8 : item.offset = ByteBits * m - 1
<1>1. item.offset \in Cell /\ item.bits \in 1 .. Width /\ item.offset - item.bits + 1 >= 0
  BY ByteNumbers DEF Item, Accepted
<1>2. PICK q \in 0 .. 7, r \in Digit : item.offset = ByteBits * q + r
  <2>1. item.offset \in 0 .. 8 * ByteBits - 1
    BY <1>1, ByteNumbers DEF Cell
  <2> QED
    BY <2>1, InByte
<1>3. (item.offset + 1) % ByteBits = 0
  BY DEF Item, EndsByte
<1>4. r = ByteBits - 1
  <2> SUFFICES ASSUME r # ByteBits - 1 PROVE FALSE
    OBVIOUS
  <2>1. r + 1 \in Digit /\ item.offset + 1 = ByteBits * q + (r + 1)
    BY <1>2, ByteNumbers DEF Digit
  <2>2. (item.offset + 1) % ByteBits = r + 1
    BY <2>1, Quotient
  <2> QED
    BY <1>3, <2>2, ByteNumbers DEF Digit
<1>5. q + 1 \in 1 .. 8 /\ item.offset = ByteBits * (q + 1) - 1
  BY <1>2, <1>4, ByteNumbers
<1> QED
  BY <1>1, <1>5

(* Its bytes follow one another from there to the front.                   *)
LEMMA BigCell ==
  ASSUME NEW item, item.big = TRUE, NEW m \in 1 .. 8, item.offset = ByteBits * m - 1,
         NEW i \in 0 .. 3, NEW r \in Digit, ByteBits * i + r <= item.offset
  PROVE  /\ m - 1 - i \in 0 .. 7
         /\ CellOf(item, ByteBits * i + r) = ByteBits * (m - 1 - i) + r
<1> USE ByteNumbers DEF Digit
<1>1. m - 1 - i >= 0
  <2> SUFFICES ASSUME m <= i PROVE FALSE
    OBVIOUS
  <2>1. ByteBits * m <= ByteBits * i
    BY Growing
  <2> QED
    BY <2>1
<1>2. item.offset - (ByteBits * i + r) = ByteBits * (m - 1 - i) + (ByteBits - 1 - r)
  OBVIOUS
<1>3. m - 1 - i \in Nat
  BY <1>1
<1>4. Place(item.offset - (ByteBits * i + r)) = ByteBits * (m - 1 - i) + r
  BY <1>2, <1>3, PlaceInByte
<1> QED
  BY <1>1, <1>4 DEF CellOf

(* A little endian value is put into its cells.                            *)
LEMMA LittleBits ==
  ASSUME NEW item, Item(item), item.big = FALSE, NEW v \in SUBSET Low(item.bits), NEW c \in Cell
  PROVE  BitIn(Little(item, v), c) <=> c - item.offset \in v
<1>1. /\ item.offset \in Cell /\ item.bits \in 1 .. Width
      /\ item.offset + item.bits - 1 < 2 * Width
  BY DEF Item, Accepted
<1>2. \A x \in v : x \in Int /\ 0 <= x /\ x < item.bits
  BY <1>1, ByteNumbers DEF Low
<1>3. \A w, n : \A x : x \in Left(w, n) <=> x \in Bits /\ x - n \in w
  BY DEF Left
<1>4. \A w, n : \A x : x \in Right(w, n) <=> x \in Bits /\ x + n \in w
  BY DEF Right
<1>5. \A x : x \notin NoBits
  BY DEF NoBits
<1> USE ByteNumbers DEF Cell, Bits
<1>6. CASE item.offset >= Width
  <2>1. Little(item, v) = <<NoBits, Left(v, item.offset - Width)>>
    BY <1>6 DEF Little
  <2>2. CASE c < Width
    BY <1>1, <1>2, <1>5, <1>6, <2>1, <2>2 DEF BitIn
  <2>3. CASE c >= Width
    <3>1. c - Width - (item.offset - Width) = c - item.offset /\ c - Width \in Bits
      BY <1>1, <2>3
    <3> QED
      BY <1>3, <2>1, <2>3, <3>1 DEF BitIn
  <2> QED
    BY <2>2, <2>3
<1>7. CASE item.offset < Width /\ item.offset + item.bits <= Width
  <2>1. Little(item, v) = <<Left(v, item.offset), NoBits>>
    BY <1>1, <1>7 DEF Little
  <2>2. CASE c < Width
    BY <1>1, <1>3, <1>7, <2>1, <2>2 DEF BitIn
  <2>3. CASE c >= Width
    BY <1>1, <1>2, <1>5, <1>7, <2>1, <2>3 DEF BitIn
  <2> QED
    BY <2>2, <2>3
<1>8. CASE item.offset < Width /\ item.offset + item.bits > Width
  <2>1. Little(item, v) = <<Left(v, item.offset), Right(v, Width - item.offset)>>
    BY <1>1, <1>8 DEF Little
  <2>2. CASE c < Width
    BY <1>1, <1>3, <1>8, <2>1, <2>2 DEF BitIn
  <2>3. CASE c >= Width
    <3>1. c - Width + (Width - item.offset) = c - item.offset /\ c - Width \in Bits
      BY <1>1, <2>3
    <3> QED
      BY <1>4, <2>1, <2>3, <3>1 DEF BitIn
  <2> QED
    BY <2>2, <2>3
<1> QED
  BY <1>1, <1>6, <1>7, <1>8

(* A byte of the first word, and one of the second.                        *)
LEMMA WordOfByte ==
  \A q \in 0 .. 7, r \in Digit :
    /\ ByteBits * q + r \in Cell
    /\ q <= 3 => ByteBits * q + r < Width /\ ByteBits * q + r \in Bits
    /\ q >= 4 => ~(ByteBits * q + r < Width) /\ (ByteBits * q + r) - Width \in Bits
<1> SUFFICES ASSUME NEW q \in 0 .. 7, NEW r \in Digit
             PROVE  /\ ByteBits * q + r \in Cell
                    /\ q <= 3 => ByteBits * q + r < Width /\ ByteBits * q + r \in Bits
                    /\ q >= 4 => ~(ByteBits * q + r < Width) /\ (ByteBits * q + r) - Width \in Bits
  OBVIOUS
<1> USE ByteNumbers DEF Digit
<1>1. ByteBits * 0 <= ByteBits * q /\ ByteBits * q <= ByteBits * 7
  BY Growing
<1>2. q <= 3 => ByteBits * q <= ByteBits * 3
  BY Growing
<1>3. q >= 4 => ByteBits * 4 <= ByteBits * q
  BY Growing
<1> QED
  BY <1>1, <1>2, <1>3 DEF Cell, Bits

(* A big endian value is put into its cells: the swap turns its bytes      *)
(* round, and the shift moves them to where they belong.                   *)
LEMMA BigBits ==
  ASSUME CharBits = ByteBits, NEW item, Item(item), item.big = TRUE,
         NEW m \in 1 .. 8, item.offset = ByteBits * m - 1,
         NEW v \in SUBSET Low(item.bits), NEW s \in Swaps(v),
         NEW q \in 0 .. 7, NEW r \in Digit
  PROVE  BitIn(Big(item, s), ByteBits * q + r) <=>
           m - 1 - q \in 0 .. 3 /\ ByteBits * (m - 1 - q) + r \in v
<1> DEFINE c == ByteBits * q + r
           Ours == m - 1 - q \in 0 .. 3 /\ ByteBits * (m - 1 - q) + r \in v
<1>1. item.bits \in 1 .. Width /\ item.offset \in Cell
  BY DEF Item
<1>2. v \in Word
  BY <1>1, ByteNumbers DEF Low, Word, Bits
<1>3. s \in Word
  <2>1. 0 \in 0 .. 3 /\ 0 \in Digit
    BY ByteNumbers DEF Digit
  <2> QED
    BY <1>2, <2>1, SwapBit
<1>4. c + (4 - m) * ByteBits \in s <=> Ours
  <2>1. c + (4 - m) * ByteBits = ByteBits * (3 - (m - 1 - q)) + r
    BY ByteNumbers DEF Digit
  <2>2. CASE m - 1 - q \in 0 .. 3
    <3>1. ByteBits * (3 - (m - 1 - q)) + r \in s <=> ByteBits * (m - 1 - q) + r \in v
      BY <1>2, <2>2, SwapBit
    <3> QED
      BY <2>1, <2>2, <3>1
  <2>3. CASE m - 1 - q < 0
    <3>1. ByteBits * 4 <= ByteBits * (3 - (m - 1 - q))
      BY <2>3, Growing
    <3>2. c + (4 - m) * ByteBits \notin Bits
      BY <2>1, <3>1, ByteNumbers DEF Bits, Digit
    <3> QED
      BY <1>3, <2>3, <3>2 DEF Word
  <2>4. CASE m - 1 - q > 3
    <3>1. ByteBits * (3 - (m - 1 - q)) <= ByteBits * (-1)
      BY <2>4, Growing
    <3>2. c + (4 - m) * ByteBits \notin Bits
      BY <2>1, <3>1, ByteNumbers DEF Bits, Digit
    <3> QED
      BY <1>3, <2>4, <3>2 DEF Word
  <2> QED
    BY <2>2, <2>3, <2>4
<1>5. \A w, n : \A x : x \in Left(w, n) <=> x \in Bits /\ x - n \in w
  BY DEF Left
<1>6. \A w, n : \A x : x \in Right(w, n) <=> x \in Bits /\ x + n \in w
  BY DEF Right
<1>7. \A x : x \notin NoBits
  BY DEF NoBits
<1>8. /\ c \in Int
      /\ q <= 3 => c < Width /\ c \in Bits
      /\ q >= 4 => ~(c < Width) /\ c - Width \in Bits
  <2>1. c \in Int
    BY ByteNumbers DEF Digit
  <2> QED
    BY <2>1, WordOfByte
<1>9. /\ Width - 1 - item.offset = (4 - m) * ByteBits
      /\ 2 * Width - 1 - item.offset = Width + (4 - m) * ByteBits
      /\ item.offset - (Width - 1) = -((4 - m) * ByteBits)
  BY ByteNumbers
<1> DEFINE by == (4 - m) * ByteBits
<1>10. by \in Int
  BY ByteNumbers
<1>11. CASE item.offset < Width
  <2>1. Big(item, s) = <<Right(s, by), NoBits>>
    BY <1>9, <1>11 DEF Big
  <2>2. CASE q <= 3
    <3> HIDE DEF c, by, Ours
    <3>1. BitIn(Big(item, s), c) <=> c \in Right(s, by)
      BY <1>8, <2>1, <2>2 DEF BitIn
    <3>2. c \in Right(s, by) <=> c + by \in s
      BY <1>6, <1>8, <2>2
    <3>3. c + by \in s <=> Ours
      BY <1>4 DEF by
    <3> QED
      BY <3>1, <3>2, <3>3 DEF c, Ours
  <2>3. CASE q >= 4
    <3>1. ~BitIn(Big(item, s), c)
      BY <1>7, <1>8, <2>1, <2>3 DEF BitIn
    <3>2. m <= 4
      <4> SUFFICES ASSUME m >= 5 PROVE FALSE
        OBVIOUS
      <4>1. ByteBits * 5 <= ByteBits * m
        BY Growing
      <4> QED
        BY <1>11, <4>1, ByteNumbers
    <3> QED
      BY <2>3, <3>1, <3>2
  <2> QED
    BY <2>2, <2>3
<1>12. ASSUME q >= 4, BitIn(Big(item, s), c) <=> c - Width \in Right(s, Width + by)
       PROVE  BitIn(Big(item, s), c) <=> Ours
  <2> HIDE DEF c, by, Ours
  <2>1. c - Width \in Right(s, Width + by) <=> (c - Width) + (Width + by) \in s
    BY <1>6, <1>8, <1>12
  <2>2. (c - Width) + (Width + by) = c + by
    BY <1>8, <1>10, ByteNumbers
  <2>3. c + by \in s <=> Ours
    BY <1>4 DEF by
  <2> QED
    BY <1>12, <2>1, <2>2, <2>3
<1>13. CASE ~(item.offset < Width) /\ item.offset - item.bits >= Width - 1
  <2>1. Big(item, s) = <<NoBits, Right(s, Width + by)>>
    BY <1>9, <1>13 DEF Big
  <2>2. CASE q <= 3
    <3>1. ~BitIn(Big(item, s), c)
      BY <1>7, <1>8, <2>1, <2>2 DEF BitIn
    <3>2. ASSUME Ours PROVE FALSE
      <4> DEFINE b == ByteBits * (m - 1 - q) + r
      <4>1. b < item.bits
        <5>1. \A x \in v : x \in Int /\ x < item.bits
          BY <1>1, ByteNumbers DEF Low
        <5>2. b \in v
          BY <3>2
        <5> HIDE DEF b
        <5> QED
          BY <5>1, <5>2
      <4>2. item.bits <= ByteBits * (m - 4)
        BY <1>1, <1>13, ByteNumbers DEF Cell
      <4>3. ByteBits * (m - 4) <= ByteBits * (m - 1 - q)
        BY <2>2, Growing
      <4> QED
        BY <4>1, <4>2, <4>3, <1>1, ByteNumbers DEF Digit
    <3> QED
      BY <3>1, <3>2
  <2>3. CASE q >= 4
    <3>1. BitIn(Big(item, s), c) <=> c - Width \in Right(s, Width + by)
      BY <1>8, <2>1, <2>3 DEF BitIn
    <3> QED
      BY <1>12, <2>3, <3>1
  <2> QED
    BY <2>2, <2>3
<1>14. CASE ~(item.offset < Width) /\ ~(item.offset - item.bits >= Width - 1)
  <2>1. Big(item, s) = <<Left(s, -by), Right(s, Width + by)>>
    BY <1>9, <1>14 DEF Big
  <2>2. CASE q <= 3
    <3> HIDE DEF c, by, Ours
    <3>1. BitIn(Big(item, s), c) <=> c \in Left(s, -by)
      BY <1>8, <2>1, <2>2 DEF BitIn
    <3>2. c \in Left(s, -by) <=> c - (-by) \in s
      BY <1>5, <1>8, <2>2
    <3>3. c - (-by) = c + by
      BY <1>8, <1>10
    <3>4. c + by \in s <=> Ours
      BY <1>4 DEF by
    <3> QED
      BY <3>1, <3>2, <3>3, <3>4 DEF c, Ours
  <2>3. CASE q >= 4
    <3>1. BitIn(Big(item, s), c) <=> c - Width \in Right(s, Width + by)
      BY <1>8, <2>1, <2>3 DEF BitIn
    <3> QED
      BY <1>12, <2>3, <3>1
  <2> QED
    BY <2>2, <2>3
<1> QED
  BY <1>11, <1>13, <1>14

(* A bit of a value is in one of four bytes.                               *)
LEMMA DigitsOfBit ==
  ASSUME NEW b \in Bits
  PROVE  \E i \in 0 .. 3, r \in Digit : b = ByteBits * i + r
<1>1. b \in 0 .. 8 * ByteBits - 1 /\ b < Width
  BY ByteNumbers DEF Bits
<1>2. PICK i \in 0 .. 7, r \in Digit : b = ByteBits * i + r
  BY <1>1, InByte
<1>3. ~(i >= 4)
  BY <1>1, <1>2, WordOfByte
<1> QED
  BY <1>2, <1>3

(* SendAll fills the cells of an item and no others, with its value where  *)
(* that is shorter than a word.                                            *)
Fills(item, added) ==
  /\ \A c \in Cell : BitIn(added, c) => c \in Cells(item)
  /\ item.bits < Width =>
       \A b \in Low(item.bits) : BitIn(added, CellOf(item, b)) <=> b \in item.value

LEMMA CellsOf ==
  ASSUME NEW item, Item(item), NEW b \in Low(item.bits)
  PROVE  CellOf(item, b) \in Cells(item) /\ CellOf(item, b) \in Cell
<1> USE ByteNumbers
<1>1. /\ item.offset \in Cell /\ item.bits \in 1 .. Width /\ item.big \in BOOLEAN
      /\ Accepted(item)
  BY DEF Item
<1>2. b \in Int /\ 0 <= b /\ b < item.bits
  BY <1>1 DEF Low
<1>3. CASE item.big = FALSE
  BY <1>1, <1>2, <1>3 DEF CellOf, Cells, Accepted, Cell
<1>4. CASE item.big = TRUE
  <2>1. item.offset - b \in (item.offset - item.bits + 1) .. item.offset
    BY <1>1, <1>2 DEF Cell
  <2>2. CellOf(item, b) \in Cells(item)
    BY <1>4, <2>1 DEF CellOf, Cells
  <2>3. PICK m \in 1 .. 8 : item.offset = ByteBits * m - 1
    BY <1>4, EndsInByte
  <2>4. b \in Bits /\ b <= item.offset
    BY <1>1, <1>2, <1>4 DEF Bits, Cell, Accepted
  <2>5. PICK i \in 0 .. 3, r \in Digit : b = ByteBits * i + r
    BY <2>4, DigitsOfBit
  <2>6. m - 1 - i \in 0 .. 7 /\ CellOf(item, b) = ByteBits * (m - 1 - i) + r
    BY <1>4, <2>3, <2>4, <2>5, BigCell
  <2> QED
    BY <2>2, <2>6, WordOfByte
<1> QED
  BY <1>1, <1>3, <1>4

LEMMA Packs ==
  ASSUME CharBits = ByteBits, NEW item, Item(item), NEW added \in Packed(item)
  PROVE  Fills(item, added)
<1> USE ByteNumbers
<1>1. /\ item.offset \in Cell /\ item.bits \in 1 .. Width /\ item.big \in BOOLEAN
      /\ Accepted(item)
  BY DEF Item
<1>2. PICK mask \in Masks(item.bits) :
        IF item.big THEN \E s \in Swaps(item.value \cap mask) : added = Big(item, s)
                    ELSE added = Little(item, item.value \cap mask)
  BY Zenon DEF Packed
<1> DEFINE v == item.value \cap mask
<1>3. mask \in SUBSET Low(item.bits)
  BY <1>1, <1>2 DEF Masks, Low, Bits, NoBits
<1>4. v \in SUBSET Low(item.bits)
  BY <1>3
<1>5. item.bits < Width => \A b \in Low(item.bits) : b \in v <=> b \in item.value
  BY <1>2 DEF Masks
<1> HIDE DEF v
<1>6. \A b \in v : b \in Int /\ 0 <= b /\ b < item.bits
  BY <1>1, <1>4 DEF Low
<1>7. CASE item.big = FALSE
  <2>1. added = Little(item, v)
    BY <1>2, <1>7 DEF v
  <2>2. \A c \in Cell : BitIn(added, c) <=> c - item.offset \in v
    BY <1>4, <1>7, <2>1, LittleBits
  <2>3. ASSUME NEW c \in Cell, BitIn(added, c) PROVE c \in Cells(item)
    <3>1. c - item.offset \in Int /\ 0 <= c - item.offset /\ c - item.offset < item.bits
      BY <1>6, <2>2, <2>3
    <3> QED
      BY <1>1, <1>7, <3>1 DEF Cells, Cell
  <2>4. ASSUME item.bits < Width, NEW b \in Low(item.bits)
        PROVE  BitIn(added, CellOf(item, b)) <=> b \in item.value
    <3>1. CellOf(item, b) = item.offset + b /\ CellOf(item, b) \in Cell
      BY <1>7, CellsOf DEF CellOf
    <3>2. (item.offset + b) - item.offset = b
      BY <1>1, <2>4 DEF Low, Cell
    <3>3. BitIn(added, CellOf(item, b)) <=> b \in v
      BY <2>2, <3>1, <3>2
    <3> QED
      BY <1>5, <2>4, <3>3
  <2> QED
    BY <2>3, <2>4 DEF Fills
<1>8. CASE item.big = TRUE
  <2>1. PICK s \in Swaps(v) : added = Big(item, s)
    BY <1>2, <1>8 DEF v
  <2>2. PICK m \in 1 .. 8 : item.offset = ByteBits * m - 1
    BY <1>8, EndsInByte
  <2>3. \A q \in 0 .. 7, r \in Digit :
          BitIn(added, ByteBits * q + r) <=>
            m - 1 - q \in 0 .. 3 /\ ByteBits * (m - 1 - q) + r \in v
    BY <1>4, <1>8, <2>1, <2>2, BigBits
  <2>4. item.bits <= item.offset + 1
    BY <1>1, <1>8 DEF Accepted, Cell
  <2>5. ASSUME NEW i \in 0 .. 3, NEW r \in Digit, ByteBits * i + r < item.bits
        PROVE  /\ m - 1 - i \in 0 .. 7
               /\ CellOf(item, ByteBits * i + r) = ByteBits * (m - 1 - i) + r
    <3>1. ByteBits * i + r <= item.offset
      BY <1>1, <2>4, <2>5 DEF Digit, Cell
    <3> QED
      BY <1>8, <2>2, <3>1, BigCell
  <2>6. ASSUME NEW c \in Cell, BitIn(added, c) PROVE c \in Cells(item)
    <3>1. PICK q \in 0 .. 7, r \in Digit : c = ByteBits * q + r
      <4>1. c \in 0 .. 8 * ByteBits - 1
        BY DEF Cell
      <4> QED
        BY <4>1, InByte
    <3> DEFINE i == m - 1 - q
    <3>2. i \in 0 .. 3 /\ ByteBits * i + r \in v
      BY <2>3, <2>6, <3>1
    <3>3. q = m - 1 - i
      OBVIOUS
    <3> HIDE DEF i
    <3>4. CellOf(item, ByteBits * i + r) = ByteBits * q + r
      BY <1>6, <2>5, <3>2, <3>3
    <3>5. ByteBits * i + r \in Low(item.bits)
      BY <1>4, <3>2
    <3> QED
      BY <3>1, <3>4, <3>5, CellsOf
  <2>7. ASSUME item.bits < Width, NEW b \in Low(item.bits)
        PROVE  BitIn(added, CellOf(item, b)) <=> b \in item.value
    <3>1. b \in Bits /\ b < item.bits
      BY <1>1 DEF Low, Bits
    <3>2. PICK i \in 0 .. 3, r \in Digit : b = ByteBits * i + r
      BY <3>1, DigitsOfBit
    <3> DEFINE q == m - 1 - i
    <3>3. q \in 0 .. 7 /\ CellOf(item, b) = ByteBits * q + r
      BY <2>5, <3>1, <3>2
    <3>4. m - 1 - q = i
      OBVIOUS
    <3> HIDE DEF q
    <3>5. BitIn(added, CellOf(item, b)) <=> b \in v
      BY <2>3, <3>2, <3>3, <3>4
    <3> QED
      BY <1>5, <2>7, <3>5
  <2> QED
    BY <2>6, <2>7 DEF Fills
<1> QED
  BY <1>1, <1>7, <1>8

(* A byte of a word that is swapped and shifted down to its lowest l bytes.*)
LEMMA TakenBit ==
  ASSUME CharBits = ByteBits, NEW w \in Word, NEW s \in Swaps(w),
         NEW l \in 1 .. 4, NEW i \in 0 .. 3, i < l, NEW r \in Digit
  PROVE  ByteBits * i + r \in Right(s, (4 - l) * ByteBits) <=> ByteBits * (l - 1 - i) + r \in w
<1> DEFINE b == ByteBits * i + r
<1>1. b \in Bits
  BY WordOfByte
<1>2. b + (4 - l) * ByteBits = ByteBits * (3 - (l - 1 - i)) + r
  BY ByteNumbers DEF Digit
<1>3. b \in Right(s, (4 - l) * ByteBits) <=> b + (4 - l) * ByteBits \in s
  <2> HIDE DEF b
  <2> QED
    BY <1>1 DEF Right
<1>4. l - 1 - i \in 0 .. 3
  OBVIOUS
<1>5. ByteBits * (3 - (l - 1 - i)) + r \in s <=> ByteBits * (l - 1 - i) + r \in w
  BY <1>4, SwapBit
<1> QED
  BY <1>2, <1>3, <1>5

(* HandleRx takes out of the words what is in the cells of an item.        *)
Taken(item, value) ==
  \A b : b \in value <=> b \in Low(item.bits) /\ BitIn(words, CellOf(item, b))

LEMMA LittleTaken ==
  ASSUME NEW item, Item(item), item.big = FALSE, item.bits < Width,
         words[1] \in Word, words[2] \in Word, NEW value \in Unpacked(item)
  PROVE  Taken(item, value)
<1> USE ByteNumbers
<1>1. /\ item.offset \in Cell /\ item.bits \in 1 .. Width
      /\ item.offset + item.bits - 1 < 2 * Width
  BY DEF Item, Accepted
<1> DEFINE from == LittleFrom(item)
<1>2. value = Right(from.word, from.pos) \cap Low(item.bits)
  BY DEF Unpacked, Masks
<1> HIDE DEF from
<1>3. \A w, n : \A x : x \in Right(w, n) <=> x \in Bits /\ x + n \in w
  BY DEF Right
<1>4. \A w, n : \A x : x \in Left(w, n) <=> x \in Bits /\ x - n \in w
  BY DEF Left
<1> SUFFICES ASSUME NEW b \in Low(item.bits)
             PROVE  b + from.pos \in from.word <=> BitIn(words, item.offset + b)
  <2>1. \A b \in Low(item.bits) : b \in Bits
    BY <1>1 DEF Low, Bits
  <2> QED
    BY <1>2, <1>3, <2>1 DEF Taken, CellOf
<1>5. b \in Int /\ 0 <= b /\ b < item.bits /\ item.offset + b = b + item.offset
  BY <1>1 DEF Low, Cell
<1>6. CASE item.offset >= Width
  <2>1. from = [word |-> words[2], pos |-> item.offset - Width]
    BY <1>6 DEF from, LittleFrom
  <2>2. b + from.pos = (item.offset + b) - Width /\ ~(item.offset + b < Width)
    BY <1>1, <1>5, <1>6, <2>1 DEF Cell
  <2> QED
    BY <2>1, <2>2 DEF BitIn
<1>7. CASE ~(item.offset >= Width) /\ item.offset + item.bits <= Width
  <2>1. from = [word |-> words[1], pos |-> item.offset]
    BY <1>7 DEF from, LittleFrom
  <2>2. item.offset + b < Width
    BY <1>1, <1>5, <1>7 DEF Cell
  <2> QED
    BY <1>5, <2>1, <2>2 DEF BitIn
<1>8. CASE ~(item.offset >= Width) /\ ~(item.offset + item.bits <= Width)
  <2>1. from = [word |-> Right(words[1], item.offset) \cup Left(words[2], Width - item.offset),
                pos |-> 0]
    BY <1>8 DEF from, LittleFrom
  <2>2. b + from.pos = b /\ b \in Bits
    BY <1>1, <1>5, <2>1 DEF Bits
  <2>3. b \in from.word <=> b + item.offset \in words[1] \/ b - (Width - item.offset) \in words[2]
    BY <1>3, <1>4, <2>1, <2>2
  <2>4. b - (Width - item.offset) = (item.offset + b) - Width
    BY <1>1, <1>5 DEF Cell
  <2>5. /\ item.offset + b < Width => (item.offset + b) - Width \notin words[2]
        /\ ~(item.offset + b < Width) => item.offset + b \notin words[1]
    BY <1>1, <1>5 DEF Word, Bits, Cell
  <2> QED
    BY <1>5, <2>2, <2>3, <2>4, <2>5 DEF BitIn
<1> QED
  BY <1>6, <1>7, <1>8

LEMMA BigTaken ==
  ASSUME CharBits = ByteBits, NEW item, Item(item), item.big = TRUE, item.bits < Width,
         InOneWord(item) \/ (Spans(item) /\ item.bits % ByteBits = 0),
         words[1] \in Word, words[2] \in Word, NEW value \in Unpacked(item)
  PROVE  Taken(item, value)
<1> USE ByteNumbers
<1>1. /\ item.offset \in Cell /\ item.bits \in 1 .. Width
      /\ item.offset - item.bits + 1 >= 0 /\ item.bits <= item.offset + 1
  BY DEF Item, Accepted, Cell
<1>2. PICK m \in 1 .. 8 : item.offset = ByteBits * m - 1
  BY EndsInByte
<1>3. \A w, n : \A x : x \in Right(w, n) <=> x \in Bits /\ x + n \in w
  BY DEF Right
<1>4. \A w, n : \A x : x \in Left(w, n) <=> x \in Bits /\ x - n \in w
  BY DEF Left
<1>5. item.bits \in Int /\ \A b \in Low(item.bits) : b \in Bits /\ b < item.bits
  BY <1>1 DEF Low, Bits
<1>6. ASSUME NEW i \in 0 .. 3, NEW r \in Digit, ByteBits * i + r < item.bits
      PROVE  /\ m - 1 - i \in 0 .. 7
             /\ CellOf(item, ByteBits * i + r) = ByteBits * (m - 1 - i) + r
  <2>1. ByteBits * i + r <= item.offset
    BY <1>1, <1>6 DEF Digit, Cell
  <2> QED
    BY <1>2, <2>1, BigCell
(* The lowest l bytes of a swapped word are the value.                     *)
<1>7. ASSUME NEW w \in Word, NEW s \in Swaps(w), NEW l \in 1 .. 4,
             item.bits <= ByteBits * l,
             value = Right(s, (4 - l) * ByteBits) \cap Low(item.bits),
             \A i \in 0 .. 3, r \in Digit :
               i < l /\ ByteBits * i + r < item.bits =>
                 (ByteBits * (l - 1 - i) + r \in w
                    <=> BitIn(words, ByteBits * (m - 1 - i) + r))
      PROVE  Taken(item, value)
  <2> SUFFICES ASSUME NEW b \in Low(item.bits)
               PROVE  b \in Right(s, (4 - l) * ByteBits) <=> BitIn(words, CellOf(item, b))
    BY <1>7 DEF Taken
  <2>1. PICK i \in 0 .. 3, r \in Digit : b = ByteBits * i + r
    BY <1>5, DigitsOfBit
  <2>2. ByteBits * i + r < item.bits
    BY <1>5, <2>1
  <2>3. i < l
    <3> SUFFICES ASSUME l <= i PROVE FALSE
      OBVIOUS
    <3>1. ByteBits * l <= ByteBits * i
      BY Growing
    <3> QED
      BY <1>5, <1>7, <2>2, <3>1 DEF Digit
  <2>4. b \in Right(s, (4 - l) * ByteBits) <=> ByteBits * (l - 1 - i) + r \in w
    BY <2>1, <2>3, <1>7, TakenBit
  <2>5. CellOf(item, b) = ByteBits * (m - 1 - i) + r
    BY <1>6, <2>1, <2>2
  <2> QED
    BY <1>7, <2>2, <2>3, <2>4, <2>5
<1> DEFINE Sources ==
             IF item.offset < Width THEN {[word |-> words[1], pos |-> item.offset]}
             ELSE IF item.offset - item.bits > Width - 1
             THEN {[word |-> words[2], pos |-> item.offset - Width]}
             ELSE Spanning(item)
<1>8. \E source \in Sources : \E s \in Swaps(source.word) :
        value = Right(s, Width - 1 - source.pos) \cap Low(item.bits)
  <2>1. PICK taken \in BigFrom(item) :
          value = Right(taken.word, taken.pos) \cap Low(item.bits)
    BY DEF Unpacked, Masks
  <2>2. PICK source \in Sources :
          taken \in {[word |-> s, pos |-> Width - 1 - source.pos] : s \in Swaps(source.word)}
    BY <2>1, Zenon DEF BigFrom
  <2>3. PICK s \in Swaps(source.word) : taken = [word |-> s, pos |-> Width - 1 - source.pos]
    BY <2>2
  <2>4. taken.word = s /\ taken.pos = Width - 1 - source.pos
    BY <2>3
  <2> QED
    BY <2>1, <2>4
<1> PICK from \in Sources : \E s \in Swaps(from.word) :
      value = Right(s, Width - 1 - from.pos) \cap Low(item.bits)
  BY <1>8
<1> PICK s \in Swaps(from.word) : value = Right(s, Width - 1 - from.pos) \cap Low(item.bits)
  OBVIOUS
<1>9. CASE item.offset < Width
  <2>1. from = [word |-> words[1], pos |-> item.offset]
    BY <1>9
  <2>2. from.word = words[1] /\ from.pos = item.offset
    BY <2>1
  <2>3. m <= 4
    <3> SUFFICES ASSUME m >= 5 PROVE FALSE
      OBVIOUS
    <3>1. ByteBits * 5 <= ByteBits * m
      BY Growing
    <3> QED
      BY <1>2, <1>9, <3>1
  <2>4. Width - 1 - from.pos = (4 - m) * ByteBits /\ item.bits <= ByteBits * m
    BY <1>1, <1>2, <2>2 DEF Cell
  <2>5. ASSUME NEW i \in 0 .. 3, NEW r \in Digit, i < m
        PROVE  ByteBits * (m - 1 - i) + r \in words[1]
                 <=> BitIn(words, ByteBits * (m - 1 - i) + r)
    <3>1. m - 1 - i \in 0 .. 7 /\ m - 1 - i <= 3
      BY <2>3, <2>5
    <3>2. ByteBits * (m - 1 - i) + r < Width
      BY <3>1, WordOfByte
    <3> QED
      BY <3>2 DEF BitIn
  <2>6. m \in 1 .. 4
    BY <2>3
  <2> QED
    BY <1>7, <2>2, <2>4, <2>5, <2>6
<1>10. CASE ~(item.offset < Width) /\ item.offset - item.bits > Width - 1
  <2>1. from = [word |-> words[2], pos |-> item.offset - Width]
    BY <1>10
  <2>2. from.word = words[2] /\ from.pos = item.offset - Width
    BY <2>1
  <2>3. m >= 5
    <3> SUFFICES ASSUME m <= 4 PROVE FALSE
      OBVIOUS
    <3>1. ByteBits * m <= ByteBits * 4
      BY Growing
    <3> QED
      BY <1>1, <1>2, <1>10, <3>1 DEF Cell
  <2> DEFINE l == m - 4
  <2>4. l \in 1 .. 4 /\ m - 1 = l + 3
    BY <2>3
  <2>5. Width - 1 - from.pos = (4 - l) * ByteBits /\ item.bits <= ByteBits * l
    BY <1>1, <1>2, <1>10, <2>2 DEF Cell
  <2>6. ASSUME NEW i \in 0 .. 3, NEW r \in Digit, i < l
        PROVE  ByteBits * (l - 1 - i) + r \in words[2]
                 <=> BitIn(words, ByteBits * (m - 1 - i) + r)
    <3>1. m - 1 - i \in 0 .. 7 /\ m - 1 - i >= 4
      BY <2>4, <2>6
    <3>2. ~(ByteBits * (m - 1 - i) + r < Width)
      BY <3>1, WordOfByte
    <3>3. (ByteBits * (m - 1 - i) + r) - Width = ByteBits * (l - 1 - i) + r
      BY DEF Digit
    <3> QED
      BY <3>2, <3>3 DEF BitIn
  <2> HIDE DEF l
  <2> QED
    BY <1>7, <2>2, <2>4, <2>5, <2>6
<1>11. CASE ~(item.offset < Width) /\ ~(item.offset - item.bits > Width - 1)
  <2>1. Spans(item) /\ item.bits % ByteBits = 0
    BY <1>1, <1>11 DEF InOneWord, Cell
  <2>2. PICK l \in 1 .. 4 : item.bits = ByteBits * l
    <3>1. item.bits \in Bits
      BY <1>1 DEF Bits
    <3>2. PICK i \in 0 .. 3, r \in Digit : item.bits = ByteBits * i + r
      BY <3>1, DigitsOfBit
    <3>3. r = 0
      <4>1. i \in Nat
        OBVIOUS
      <4>2. (ByteBits * i + r) % ByteBits = r
        BY <4>1, Quotient
      <4> QED
        BY <2>1, <3>2, <4>2
    <3>4. i # 0 /\ item.bits = ByteBits * i
      BY <1>1, <3>2, <3>3
    <3> QED
      BY <3>4
  <2> DEFINE k == m - l
             first == item.offset - item.bits + 1
  <2>3. first = ByteBits * k /\ first < Width /\ first >= 0
    BY <1>1, <1>2, <2>1, <2>2 DEF Spans, Cell
  <2>4. k >= 0
    <3> SUFFICES ASSUME k <= -1 PROVE FALSE
      OBVIOUS
    <3>1. ByteBits * k <= ByteBits * (-1)
      BY Growing
    <3> QED
      BY <2>3, <3>1
  <2> HIDE DEF first
  <2>5. from = [word |-> Right(words[1], first) \cup Left(words[2], Width - first),
                pos |-> item.bits - 1]
    BY <1>11, <2>3 DEF Spanning, Rights, first
  <2> DEFINE w == Right(words[1], first) \cup Left(words[2], Width - first)
  <2>6. from.word = w /\ from.pos = item.bits - 1 /\ w \in Word
    BY <2>5 DEF Right, Left, Word
  <2>7. Width - 1 - from.pos = (4 - l) * ByteBits
    BY <1>1, <2>2, <2>6
  <2>8. ASSUME NEW i \in 0 .. 3, NEW r \in Digit, i < l
        PROVE  ByteBits * (l - 1 - i) + r \in w
                 <=> BitIn(words, ByteBits * (m - 1 - i) + r)
    <3> DEFINE t == ByteBits * (l - 1 - i) + r
               c == ByteBits * (m - 1 - i) + r
    <3>1. l - 1 - i \in 0 .. 7 /\ l - 1 - i <= 3
      BY <2>8
    <3>2. t \in Bits
      BY <3>1, WordOfByte
    <3>3. t \in Int /\ c \in Int
      BY DEF Digit
    <3>4. ByteBits * (l - 1 - i) + ByteBits * k = ByteBits * (m - 1 - i)
      OBVIOUS
    <3>5. t + first = c
      BY <2>3, <3>4 DEF Digit
    <3> HIDE DEF t, c
    <3>6. first \in Int
      BY <1>1 DEF first, Cell
    <3>7. t - (Width - first) = c - Width
      BY <3>3, <3>5, <3>6
    <3>8. t \in w <=> t + first \in words[1] \/ t - (Width - first) \in words[2]
      BY <1>3, <1>4, <3>2 DEF w
    <3>9. /\ c < Width => c - Width \notin words[2]
          /\ ~(c < Width) => c \notin words[1]
      BY <3>3 DEF Word, Bits
    <3>10. t \in w <=> BitIn(words, c)
      BY <3>5, <3>7, <3>8, <3>9 DEF BitIn
    <3> QED
      BY <3>10 DEF t, c
  <2> HIDE DEF w
  <2>9. item.bits <= ByteBits * l
    BY <1>5, <2>2
  <2> QED
    BY <1>7, <2>6, <2>7, <2>8, <2>9
<1> QED
  BY <1>9, <1>10, <1>11

(* The two items of a message, which have no cell in common.               *)
Shaped(item) ==
  /\ item.offset \in Cell /\ item.bits \in 1 .. Width /\ item.big \in BOOLEAN
  /\ Accepted(item)
Formed ==
  /\ Len(message) = 2 /\ DOMAIN message = 1 .. 2
  /\ \A i \in 1 .. 2 : Shaped(message[i])
  /\ Cells(message[1]) \cap Cells(message[2]) = {}

(* The words hold the items that are packed, each in its cells.            *)
Held(i) ==
  message[i].bits < Width =>
    \A b \in Low(message[i].bits) :
      BitIn(words, CellOf(message[i], b)) <=> b \in message[i].value
Filled(c) == BitIn(words, c) => \E i \in 1 .. packed : c \in Cells(message[i])
Stored == Placed => (\A c \in Cell : Filled(c)) /\ (\A i \in 1 .. packed : Held(i))

CarriedInv == CodingInv /\ Formed /\ Stored /\ ValuesCarried

LEMMA PlacedItem ==
  ASSUME Formed, Placed, NEW i \in 1 .. 2
  PROVE  Item(message[i])
  BY DEF Formed, Placed, Shaped, Item

LEMMA CellsApart ==
  ASSUME Formed, NEW i \in 1 .. 2, NEW j \in 1 .. 2, i # j, NEW c \in Cells(message[i])
  PROVE  c \notin Cells(message[j])
<1>1. (i = 1 /\ j = 2) \/ (i = 2 /\ j = 1)
  OBVIOUS
<1> QED
  BY <1>1 DEF Formed

LEMMA ItemOfInit ==
  ASSUME NEW lengths, lengths \subseteq 1 .. Width, NEW one \in Mappable(lengths), NEW value
  PROVE  Shaped(Valued(one, value)) /\ Cells(Valued(one, value)) = Cells(one)
<1> DEFINE item == Valued(one, value)
<1>1. item.offset = one.offset /\ item.bits = one.bits /\ item.big = one.big
  BY DEF Valued
<1>2. /\ one.offset \in 0 .. (2 * Width - 1) /\ one.bits \in lengths /\ one.big \in BOOLEAN
      /\ Accepted(one)
  BY DEF Mappable
<1> HIDE DEF item
<1>3. Accepted(item) /\ Cells(item) = Cells(one)
  BY <1>1, <1>2 DEF Accepted, Cells
<1> QED
  BY <1>1, <1>2, <1>3 DEF item, Shaped, Cell

LEMMA CarriedInit == CodingInit => CarriedInv
<1> SUFFICES ASSUME CodingInit PROVE CarriedInv
  OBVIOUS
<1>1. words = <<NoBits, NoBits>> /\ packed = 0 /\ received = <<>>
  BY DEF CodingInit
<1>2. PICK one \in Mappable(Lengths), two \in Mappable(OtherLengths) :
        /\ Cells(one) \cap Cells(two) = {}
        /\ \E value \in Values(one.bits), other \in OtherValues(two.bits) :
             message \in {<<Valued(one, value), Valued(two, other)>>,
                         <<Valued(two, other), Valued(one, value)>>}
  BY Zenon DEF CodingInit
<1>3. PICK value, other : message \in {<<Valued(one, value), Valued(two, other)>>,
                                       <<Valued(two, other), Valued(one, value)>>}
  BY <1>2
<1>4. /\ Shaped(Valued(one, value)) /\ Cells(Valued(one, value)) = Cells(one)
      /\ Shaped(Valued(two, other)) /\ Cells(Valued(two, other)) = Cells(two)
  BY ItemOfInit, CodingAssumption
<1>5. Formed
  <2>1. ASSUME NEW x, NEW y, message = <<x, y>>, Shaped(x), Shaped(y), Cells(x) \cap Cells(y) = {}
        PROVE  Formed
    <3>1. message[1] = x /\ message[2] = y /\ Len(message) = 2 /\ DOMAIN message = 1 .. 2
      BY <2>1
    <3>2. \A i \in 1 .. 2 : i = 1 \/ i = 2
      OBVIOUS
    <3> QED
      BY <2>1, <3>1, <3>2, Zenon DEF Formed
  <2>2. Cells(two) \cap Cells(one) = {}
    BY <1>2
  <2> QED
    BY <1>2, <1>3, <1>4, <2>1, <2>2, Zenon
<1>6. Stored
  <2>1. words[1] = {} /\ words[2] = {} /\ 1 .. packed = {}
    BY <1>1 DEF NoBits
  <2> QED
    BY <2>1 DEF Stored, Filled, BitIn
<1>7. CodingInv
  <2>1. words[1] \in Word /\ words[2] \in Word
    BY <1>1 DEF NoBits, Word
  <2>2. packed \in 0 .. 2 /\ received \in Seq(Word) /\ Len(received) <= packed
    BY <1>1
  <2>3. Len(message) <= 2 /\ Len(message) \in Nat
    BY <1>5 DEF Formed
  <2> QED
    BY <2>1, <2>2, <2>3 DEF CodingInv, CodingTypeOK
<1>8. ValuesCarried
  <2>1. DOMAIN received = {}
    BY <1>1
  <2> QED
    BY <2>1 DEF ValuesCarried, LittleCarried, BigCarried
<1> QED
  BY <1>5, <1>6, <1>7, <1>8 DEF CarriedInv

LEMMA PackCarries ==
  ASSUME CharBits = ByteBits, CarriedInv, Pack
  PROVE  Formed' /\ Stored' /\ ValuesCarried'
<1> DEFINE p == packed + 1
           item == message[p]
<1>1. /\ packed \in 0 .. 1 /\ p \in 1 .. 2 /\ packed' = p
      /\ UNCHANGED <<message, received>>
  BY DEF CarriedInv, CodingInv, CodingTypeOK, Formed, Pack
<1>2. PICK added \in Packed(item) :
        words' = <<words[1] \cup added[1], words[2] \cup added[2]>>
  BY DEF Pack
<1>3. Formed' /\ ValuesCarried' /\ (Placed' <=> Placed)
  BY <1>1
  DEF CarriedInv, Formed, ValuesCarried, LittleCarried, BigCarried, Carried, Placed
<1>4. \A c : BitIn(words', c) <=> BitIn(words, c) \/ BitIn(added, c)
  BY <1>2 DEF BitIn
<1>5. ASSUME Placed
      PROVE  (\A c \in Cell : Filled(c)') /\ (\A i \in 1 .. p : Held(i)')
  <2>1. Fills(item, added)
    BY <1>1, <1>2, <1>5, PlacedItem, Packs DEF CarriedInv
  <2>2. (\A c \in Cell : Filled(c)) /\ (\A i \in 1 .. packed : Held(i))
    BY <1>5 DEF CarriedInv, Stored
  <2>3. 1 .. p = (1 .. packed) \cup {p} /\ p \notin 1 .. packed /\ 1 .. p \subseteq 1 .. 2
    BY <1>1
  <2> HIDE DEF p
  <2>4. ASSUME NEW c \in Cell PROVE Filled(c)'
    <3>1. BitIn(words', c) => \E i \in 1 .. p : c \in Cells(message[i])
      BY <1>4, <2>1, <2>2, <2>3 DEF Filled, Fills
    <3> QED
      BY <1>1, <3>1 DEF Filled
  <2>5. ASSUME NEW i \in 1 .. p, message[i].bits < Width, NEW b \in Low(message[i].bits)
        PROVE  BitIn(words', CellOf(message[i], b)) <=> b \in message[i].value
    <3> DEFINE c == CellOf(message[i], b)
    <3>1. Item(message[i]) /\ i \in 1 .. 2
      BY <1>5, <2>3, PlacedItem DEF CarriedInv
    <3>2. c \in Cells(message[i]) /\ c \in Cell
      BY <3>1, CellsOf
    <3> HIDE DEF c
    <3>3. BitIn(words', c) <=> BitIn(words, c) \/ BitIn(added, c)
      BY <1>4
    <3>4. CASE i \in 1 .. packed
      <4>1. BitIn(words, c) <=> b \in message[i].value
        BY <2>2, <2>5, <3>4 DEF Held, c
      <4>2. c \notin Cells(item)
        BY <1>1, <2>3, <3>1, <3>2, <3>4, CellsApart DEF CarriedInv
      <4>3. ~BitIn(added, c)
        BY <2>1, <3>2, <4>2 DEF Fills
      <4> QED
        BY <3>3, <4>1, <4>3 DEF c
    <3>5. CASE i = p
      <4>1. BitIn(added, c) <=> b \in message[i].value
        BY <2>1, <2>5, <3>5 DEF Fills, c
      <4>2. ~BitIn(words, c)
        <5> SUFFICES ASSUME BitIn(words, c) PROVE FALSE
          OBVIOUS
        <5>1. PICK j \in 1 .. packed : c \in Cells(message[j])
          BY <2>2, <3>2 DEF Filled
        <5>2. j \in 1 .. 2 /\ i # j
          BY <2>3, <3>5, <5>1
        <5> QED
          BY <3>1, <3>2, <5>1, <5>2, CellsApart DEF CarriedInv
      <4> QED
        BY <3>3, <4>1, <4>2 DEF c
    <3> QED
      BY <2>3, <3>4, <3>5
  <2>6. ASSUME NEW i \in 1 .. p PROVE Held(i)'
    BY <1>1, <2>5 DEF Held, CellOf, BitIn
  <2> QED
    BY <2>4, <2>6
<1> QED
  BY <1>1, <1>3, <1>5 DEF Stored

LEMMA UnpackCarries ==
  ASSUME CharBits = ByteBits, CarriedInv, Unpack
  PROVE  Formed' /\ Stored' /\ ValuesCarried'
<1> DEFINE Arrived(i) ==
             /\ ~message[i].big /\ message[i].bits < Width => Carried(i)
             /\ /\ message[i].big /\ message[i].bits < Width
                /\ InOneWord(message[i])
                     \/ (Spans(message[i]) /\ message[i].bits % ByteBits = 0)
                => Carried(i)
<1> PICK n : n = Len(received) + 1
  OBVIOUS
<1>1. /\ packed = 2 /\ n \in 1 .. 2 /\ words[1] \in Word /\ words[2] \in Word
      /\ UNCHANGED <<message, words, packed>> /\ received \in Seq(Word)
  BY DEF CarriedInv, CodingInv, CodingTypeOK, Formed, Unpack
<1>2. PICK value \in Unpacked(message[n]) : received' = Append(received, value)
  BY DEF Unpack
<1>3. Formed' /\ (Placed' <=> Placed)
  BY <1>1 DEF CarriedInv, Formed, Placed
<1>4. Stored'
  BY <1>1, <1>3 DEF CarriedInv, Stored, Filled, Held
<1>5. /\ DOMAIN received' = (DOMAIN received) \cup {n}
      /\ \A i \in DOMAIN received : received'[i] = received[i]
      /\ received'[n] = value
  BY <1>1, <1>2
<1>6. ASSUME Placed, message[n].bits < Width,
             message[n].big = FALSE \/ InOneWord(message[n])
               \/ (Spans(message[n]) /\ message[n].bits % ByteBits = 0)
      PROVE  value = message[n].value \cap Low(message[n].bits)
  <2>1. Item(message[n])
    BY <1>1, <1>6, PlacedItem DEF CarriedInv
  <2>2. message[n].big = FALSE \/ message[n].big = TRUE
    BY <2>1 DEF Item
  <2>3. Taken(message[n], value)
    BY <1>1, <1>6, <2>1, <2>2, LittleTaken, BigTaken
  <2>4. Held(n)
    BY <1>1, <1>6 DEF CarriedInv, Stored
  <2> QED
    BY <1>6, <2>3, <2>4 DEF Taken, Held
<1>7. ASSUME Placed, NEW i \in DOMAIN received' PROVE Arrived(i)'
  <2>1. CASE i = n
    <3>1. message[n].big = FALSE \/ message[n].big = TRUE
      BY <1>1, <1>7, PlacedItem DEF CarriedInv, Item
    <3>2. value = message[n].value \cap Low(message[n].bits) => Carried(n)'
      BY <1>1, <1>5 DEF Carried
    <3>3. message' = message
      BY <1>1
    <3>4. Arrived(n)'
      BY <1>6, <1>7, <3>1, <3>2, <3>3
    <3> QED
      BY <2>1, <3>4
  <2>2. CASE i \in DOMAIN received
    <3>1. Arrived(i)
      BY <1>7, <2>2 DEF CarriedInv, ValuesCarried, LittleCarried, BigCarried
    <3> QED
      BY <1>1, <1>5, <2>2, <3>1 DEF Carried
  <2> QED
    BY <1>5, <1>7, <2>1, <2>2
<1>8. ValuesCarried'
  BY <1>3, <1>7 DEF ValuesCarried, LittleCarried, BigCarried
<1> QED
  BY <1>3, <1>4, <1>8

LEMMA CarriedKept ==
  ASSUME CharBits = ByteBits
  PROVE  CarriedInv /\ [CodingNext]_codingVars => CarriedInv'
<1> SUFFICES ASSUME CarriedInv, [CodingNext]_codingVars PROVE CarriedInv'
  OBVIOUS
<1>1. CodingInv'
  BY CodingInvKept DEF CarriedInv
<1>2. CASE Pack
  BY <1>1, <1>2, PackCarries DEF CarriedInv
<1>3. CASE Unpack
  BY <1>1, <1>3, UnpackCarries DEF CarriedInv
<1>4. CASE UNCHANGED codingVars
  <2>1. UNCHANGED <<message, words, packed, received>>
    BY <1>4 DEF codingVars
  <2>2. Formed' /\ Stored'
    BY <2>1 DEF CarriedInv, Formed, Stored, Filled, Held, Placed
  <2>3. ValuesCarried'
    BY <2>1 DEF CarriedInv, ValuesCarried, LittleCarried, BigCarried, Carried, Placed
  <2> QED
    BY <1>1, <2>2, <2>3 DEF CarriedInv
<1> QED
  BY <1>2, <1>3, <1>4 DEF CodingNext

(* ValuesCarried: where uint8_t has the bits of a byte, however many those *)
(* are, what SendAll packs HandleRx unpacks, for every pair of items that  *)
(* Add accepts side by side, in both byte orders, and whatever their       *)
(* values are.                                                             *)
THEOREM ValuesAreCarried ==
  ASSUME CharBits = ByteBits
  PROVE  CodingSpec => []ValuesCarried
<1>1. CarriedInv => ValuesCarried
  BY DEF CarriedInv
<1> QED
  BY <1>1, CarriedInit, CarriedKept, PTL DEF CodingSpec
===============================================================================
