------------------------------ MODULE CanFilters ------------------------------
(***************************************************************************)
(* Which frames reach the program: CanHardware keeps a list of the ids its *)
(* users asked for, C2000Can gives each a receive mailbox, and the CAN     *)
(* map, the SDO server and the logger look at what arrives.  Mapping,      *)
(* unmapping and a new node id all happen in the receive interrupt.        *)
(***************************************************************************)
EXTENDS Integers, Sequences, SequencesExt

CONSTANTS
  StdIds,        \* 11-bit identifiers, among them the next two
  ControlId,     \* CanLogger: 0x7FE
  NodeIds,
  Request(_),    \* the id a node is asked under: 0x600 + node
  MaxUsers,      \* MAX_USER_MESSAGES
  MaxMessages,   \* MAX_MESSAGES of the map
  Forced         \* values the flag for an extended filter is given

(* An id is sent with 11 bits, or, with the flag, with 29.                 *)
Id == StdIds \X BOOLEAN
Std(id) == <<id, FALSE>>
NoMailbox == Std("none")

ASSUME FiltersAssumption ==
  /\ MaxUsers \in Nat /\ MaxMessages \in Nat \ {0} /\ MaxMessages < MaxUsers
  /\ Forced \subseteq BOOLEAN
  /\ ControlId \in StdIds /\ 1 \in NodeIds /\ \A n \in NodeIds : Request(n) \in StdIds

VARIABLES
  userIds,     \* CanHardware: ids registered
  mailboxes,   \* the receive mailboxes
  recvMap,     \* CanMap: ids of the receive map, with the flag
  nodeId       \* CanSdo

filterVars == <<userIds, mailboxes, recvMap, nodeId>>

-----------------------------------------------------------------------------
(* RegisterUserMessage, on the list of ids. *)
WithUnlimited(ids, id) ==                                     \* mutant
  IF id \notin ToSet(ids) THEN Append(ids, id) ELSE ids
With(ids, id) ==
  IF Len(ids) < MaxUsers /\ id \notin ToSet(ids) THEN Append(ids, id) ELSE ids

(* A mailbox for each id; the others keep what they were set up for.       *)
Configured(ids) ==
  [i \in 1 .. MaxUsers |-> IF i \in DOMAIN ids THEN ids[i] ELSE mailboxes[i]]

Mapped(id) == \E n \in DOMAIN recvMap : recvMap[n][1] = id[1]

(* AddRecv.  Whether an item is left for the parameter is not decided here.*)
(* The filter is asked for however adding to the map went.                 *)
AddRecv(id, itemLeft) ==
  /\ recvMap' = IF ~Mapped(id) /\ itemLeft /\ Len(recvMap) < MaxMessages
                THEN Append(recvMap, id) ELSE recvMap
  /\ userIds' = With(userIds, id)
  /\ mailboxes' = Configured(userIds')
  /\ UNCHANGED nodeId

(* The last item of a message goes: the last message takes its place.      *)
RemoveMessage(n) ==
  /\ recvMap' = [m \in 1 .. Len(recvMap) - 1 |->
                   IF m = n THEN Last(recvMap) ELSE recvMap[m]]
  /\ UNCHANGED <<userIds, mailboxes, nodeId>>

(* Ids registered one after the other.                                     *)
Registered(ids) ==
  LET upTo[k \in 0 .. Len(ids)] == IF k = 0 THEN <<>> ELSE With(upTo[k - 1], ids[k])
  IN  upTo[Len(ids)]

(* Everybody registers again: the logger does not, the map what it has,    *)
(* the SDO server its new id.                                              *)
HandleClearSdoOnly(n) == <<Std(Request(n))>>                  \* mutant
HandleClear(n) == recvMap \o <<Std(Request(n))>>

SetNodeId(n) ==
  /\ nodeId' = n
  /\ userIds' = Registered(HandleClear(n))
  /\ mailboxes' = Configured(userIds')
  /\ UNCHANGED recvMap

-----------------------------------------------------------------------------
(* The logger registers before the interrupts are enabled, the SDO server  *)
(* when it is created, as node 1.                                          *)
FilterInit ==
  /\ nodeId = 1 /\ recvMap = <<>>
  /\ userIds = <<Std(ControlId), Std(Request(1))>>
  /\ mailboxes = [i \in 1 .. MaxUsers |-> IF i \in DOMAIN userIds THEN userIds[i] ELSE NoMailbox]

FilterNext ==
  \/ \E id \in StdIds, flag \in Forced, itemLeft \in BOOLEAN :
       AddRecv(<<id, flag>>, itemLeft)
  \/ \E n \in DOMAIN recvMap : RemoveMessage(n)
  \/ \E n \in NodeIds : SetNodeId(n)

FilterSpec == FilterInit /\ [][FilterNext]_filterVars

-----------------------------------------------------------------------------
(* Properties. *)
FilterTypeOK ==
  /\ userIds \in Seq(Id) /\ Len(userIds) <= MaxUsers
  /\ mailboxes \in [1 .. MaxUsers -> Id \cup {NoMailbox}]
  /\ recvMap \in Seq(Id) /\ Len(recvMap) <= MaxMessages
  /\ nodeId \in NodeIds

(* What the program does with a frame that a mailbox let in.  The id of a  *)
(* frame with 29 bits carries the flag, and the map compares it, too.      *)
Arrives(id) == \E i \in DOMAIN mailboxes : mailboxes[i] = id
ForMap(id) == ~id[2] /\ Mapped(id)
ForSdo(id) == id = Std(Request(nodeId))
ForLogger(id) == id = Std(ControlId)

(* However many ids were registered before, the inverter can be asked      *)
(* under its node id.                                                      *)
SdoReachable ==
  \E id \in Id : Arrives(id) /\ ForSdo(id)

(* A frame under an id of the receive map updates its parameters, as long  *)
(* as a mailbox is left and the filter was not forced: mapping, unmapping  *)
(* and new node ids in any order cost no mapped message its mailbox.       *)
Heard(id) == Arrives(id) /\ ForMap(id)
MappedReachable ==
  Len(userIds) < MaxUsers =>
    \A n \in DOMAIN recvMap : recvMap[n][2] \/ Heard(recvMap[n])

(* Nothing a node relies on is cut off by what others register, remove and *)
(* clear: neither its SDO server nor a mapped message.                     *)
Reachable == SdoReachable /\ MappedReachable

(* As RegisterUserMessage has it (canhardware.cpp:58): what was registered *)
(* is received, whether or not a mailbox was left.                         *)
AllMappedReachable == \A n \in DOMAIN recvMap : recvMap[n][2] \/ Heard(recvMap[n])

(* The logger can be started.                                              *)
LoggerReachable ==
  \E id \in Id : Arrives(id) /\ ForLogger(id)
=============================================================================
