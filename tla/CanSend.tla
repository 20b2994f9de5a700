------------------------------- MODULE CanSend -------------------------------
(***************************************************************************)
(* C2000Can::Send: one transmit mailbox of the CAN controller, written     *)
(* through the one register set IF1.  The main loop sends mapped messages, *)
(* log lines and late SDO replies; the receive interrupt sends SDO replies *)
(* and, when a message is mapped, sets up a receive mailbox through IF1.   *)
(* A command given to IF1 is carried out by the controller a little later. *)
(***************************************************************************)
EXTENDS Integers, Sequences

CONSTANTS
  MaxSends,     \* bound: calls of Send
  MaxFaults,    \* bound: times the other nodes leave the bus or come back
  MaxFilters,   \* MAX_USER_MESSAGES
  Preemptive    \* may the interrupt come while the main loop is in Send?

ASSUME SendAssumption ==
  MaxSends \in Nat /\ MaxFaults \in Nat /\ MaxFilters \in Nat /\ Preemptive \in BOOLEAN

Ctx == {"main", "isr"}

(* The id of the n-th call of Send, and the data it wants under that id.   *)
Frame(n) == <<n, n>>
None == 0

VARIABLES
  pc, mine,      \* each context: where in Send it is, the call it is serving
  arb, data,     \* IF1: id register, data registers
  command,       \* IF1: what the controller still has to carry out
  mailbox,       \* message object 32: id and data
  txrqst,        \* its transmit request
  filters,       \* CanHardware: ids that are registered
  heard, faults, \* is there a node on the bus that acknowledges?
  calls, bus,    \* history: number of calls; frames on the bus
  abandoned      \* history: frames the wait for their end was given up on

if1 == <<arb, data, command>>
object == <<mailbox, txrqst>>
peers == <<heard, faults>>
history == <<calls, bus, abandoned>>
vars == <<pc, mine, if1, object, filters, peers, history>>

Idle == "none"
Commands == {Idle, "setup", "readControl", "send", "receiver"}

(* The interrupt runs to its end before the main loop goes on. *)
Runs(c) == c = "main" => pc["isr"] = "out"
At(c, place) == Runs(c) /\ pc[c] = place
Goto(c, place) == pc' = [pc EXCEPT ![c] = place]

-----------------------------------------------------------------------------
Call(c) ==
  /\ At(c, "out") /\ calls < MaxSends
  /\ c = "isr" => Preemptive \/ pc["main"] = "out"
  /\ calls' = calls + 1
  /\ mine' = [mine EXCEPT ![c] = calls + 1]
  /\ Goto(c, "awaitCopy")
  /\ UNCHANGED <<if1, object, filters, peers, bus, abandoned>>

AwaitCopy(c) ==
  /\ At(c, "awaitCopy") /\ command = Idle
  /\ Goto(c, "awaitSent")
  /\ UNCHANGED <<mine, if1, object, filters, peers, history>>

AwaitSentNot(c) ==                                            \* mutant
  /\ At(c, "awaitSent")
  /\ Goto(c, "setup")
  /\ UNCHANGED <<mine, if1, object, filters, peers, history>>

AwaitSent(c) ==
  /\ At(c, "awaitSent") /\ ~txrqst
  /\ Goto(c, "setup")
  /\ UNCHANGED <<mine, if1, object, filters, peers, history>>

(* The wait is counted and ends on a bus where nothing gets through.  It   *)
(* is longer than a frame that is acknowledged takes.                      *)
GiveUpNever(c) == FALSE /\ UNCHANGED vars                      \* mutant

GiveUp(c) ==
  /\ At(c, "awaitSent") /\ txrqst /\ ~heard
  /\ Goto(c, "setup")
  /\ abandoned' = abandoned \cup {mailbox[2]}
  /\ UNCHANGED <<mine, if1, object, filters, peers, calls, bus>>

(* CAN_setupMessageObject: registers, then the command.  The controller    *)
(* takes no command before it is done with the last one.                   *)
SetupRegisters(c) ==
  /\ At(c, "setup") /\ command = Idle
  /\ arb' = mine[c]
  /\ Goto(c, "setupCommand")
  /\ UNCHANGED <<mine, data, command, object, filters, peers, history>>
SetupCommand(c) ==
  /\ At(c, "setupCommand") /\ command = Idle
  /\ command' = "setup"
  /\ Goto(c, "readControl")
  /\ UNCHANGED <<mine, arb, data, object, filters, peers, history>>

(* CAN_sendMessage: reads the length back, then data, then the command.    *)
ReadControl(c) ==
  /\ At(c, "readControl") /\ command = Idle
  /\ command' = "readControl"
  /\ Goto(c, "awaitControl")
  /\ UNCHANGED <<mine, arb, data, object, filters, peers, history>>
WriteData(c) ==
  /\ At(c, "awaitControl") /\ command = Idle
  /\ data' = mine[c]
  /\ Goto(c, "sendCommand")
  /\ UNCHANGED <<mine, arb, command, object, filters, peers, history>>
SendCommand(c) ==
  /\ At(c, "sendCommand") /\ command = Idle
  /\ command' = "send"
  /\ Goto(c, "out")
  /\ UNCHANGED <<mine, arb, data, object, filters, peers, history>>

(* RegisterUserMessage in the interrupt: the receive mailboxes are set up. *)
ConfigureFilters ==
  /\ At("isr", "out") /\ (Preemptive \/ pc["main"] = "out") /\ command = Idle
  /\ filters < MaxFilters
  /\ filters' = filters + 1
  /\ arb' = None /\ command' = "receiver"
  /\ UNCHANGED <<pc, mine, data, object, peers, history>>

-----------------------------------------------------------------------------
(* The controller.  Setting up a message takes back its transmit request.  *)
CopySetup ==
  /\ command = "setup"
  /\ mailbox' = [mailbox EXCEPT ![1] = arb] /\ txrqst' = FALSE
  /\ command' = Idle
  /\ UNCHANGED <<pc, mine, arb, data, filters, peers, history>>
CopyData ==
  /\ command = "send"
  /\ mailbox' = [mailbox EXCEPT ![2] = data] /\ txrqst' = TRUE
  /\ command' = Idle
  /\ UNCHANGED <<pc, mine, arb, data, filters, peers, history>>
CopyOther ==
  /\ command \in {"readControl", "receiver"}
  /\ command' = Idle
  /\ UNCHANGED <<pc, mine, arb, data, object, filters, peers, history>>

Transmit ==
  /\ txrqst /\ heard
  /\ bus' = Append(bus, mailbox) /\ txrqst' = FALSE
  /\ UNCHANGED <<pc, mine, if1, mailbox, filters, peers, calls, abandoned>>

PeersChange ==
  /\ faults < MaxFaults
  /\ heard' = ~heard /\ faults' = faults + 1
  /\ UNCHANGED <<pc, mine, if1, object, filters, history>>

-----------------------------------------------------------------------------
Init ==
  /\ pc = [c \in Ctx |-> "out"] /\ mine = [c \in Ctx |-> None]
  /\ arb = None /\ data = None /\ command = Idle
  /\ mailbox = <<None, None>> /\ txrqst = FALSE
  /\ filters = 0 /\ heard = TRUE /\ faults = 0
  /\ calls = 0 /\ bus = <<>> /\ abandoned = {}

Send(c) ==
  \/ AwaitCopy(c) \/ AwaitSent(c) \/ GiveUp(c) \/ SetupRegisters(c)
  \/ SetupCommand(c) \/ ReadControl(c) \/ WriteData(c) \/ SendCommand(c)
Controller == CopySetup \/ CopyData \/ CopyOther \/ Transmit

Next == Controller \/ PeersChange \/ ConfigureFilters \/ \E c \in Ctx : Call(c) \/ Send(c)
Spec == Init /\ [][Next]_vars

(* The processor runs and the controller carries out its commands. *)
FairSpec == Spec /\ WF_vars(Controller) /\ \A c \in Ctx : WF_vars(Send(c))

-----------------------------------------------------------------------------
(* Properties. *)
Places == {"out", "awaitCopy", "awaitSent", "setup", "setupCommand",
           "readControl", "awaitControl", "sendCommand"}
CallNo == 0 .. MaxSends

TypeOK ==
  /\ pc \in [Ctx -> Places] /\ mine \in [Ctx -> CallNo]
  /\ arb \in CallNo /\ data \in CallNo /\ command \in Commands
  /\ mailbox \in CallNo \X CallNo /\ txrqst \in BOOLEAN
  /\ filters \in 0 .. MaxFilters /\ heard \in BOOLEAN /\ faults \in 0 .. MaxFaults
  /\ calls \in CallNo /\ bus \in Seq(CallNo \X CallNo)
  /\ abandoned \subseteq CallNo

(* A frame on the bus carries the data of the call whose id it carries.    *)
FramesIntact ==
  /\ txrqst => mailbox[1] = mailbox[2] /\ mailbox[1] # None
  /\ \A i \in DOMAIN bus : bus[i][1] = bus[i][2]

(* Frames leave in the order of the calls, none twice.                     *)
FramesInOrder == \A i, j \in DOMAIN bus : i < j => bus[i][2] < bus[j][2]

(* A frame is on its way until it is on the bus, or given up on.           *)
InSend(n) == \E c \in Ctx : mine[c] = n /\ pc[c] # "out"
InMailbox(n) == \/ command = "send" /\ data = n
                \/ txrqst /\ mailbox[2] = n
OnBus(n) == \E i \in DOMAIN bus : bus[i][2] = n
NothingLost ==
  \A n \in 1 .. calls : InSend(n) \/ InMailbox(n) \/ OnBus(n) \/ n \in abandoned

(* With one caller at a time, frames leave whole, in order and once, and   *)
(* only what Send gave up on is missing from the bus.                      *)
SendReliable == FramesIntact /\ FramesInOrder /\ NothingLost

(* Every call returns, with nobody on the bus too.                         *)
EverySendReturns == \A c \in Ctx : pc[c] # "out" ~> pc[c] = "out"
=============================================================================
