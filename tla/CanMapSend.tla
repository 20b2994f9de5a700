------------------------------ MODULE CanMapSend ------------------------------
(***************************************************************************)
(* CanMap::SendAll: the main loop walks the send map and packs the values  *)
(* of each message, while the receive interrupt maps and unmaps.  What is  *)
(* packed is the list of parameters; their bits are not told apart.        *)
(***************************************************************************)
EXTENDS CanMap

CONSTANT
  RemovesDuring     \* whether items are removed while SendAll runs, too

ASSUME SendAssumption == RemovesDuring \in BOOLEAN

VARIABLES
  pc,        \* where SendAll is
  curMap,    \* its slot
  curPos,    \* its item
  packed,    \* the parameters whose values are in data
  defined    \* history: messages the send map has had since SendAll came to curMap

vars2 == <<vars, pc, curMap, curPos, packed, defined>>

(* canPosMap[ITEM_UNSET] is memory behind the object.                      *)
Outside == Unset

(* The messages of the send map, as id and parameters.                     *)
Defined ==
  { [id |-> canId[m], params |-> ParamsOf(m)] : m \in Used("send") }

-----------------------------------------------------------------------------
(* forEachCanMap finds a message or ends the round; data is cleared.       *)
TestMessageKeepsData ==                                       \* mutant
  /\ pc = "message"
  /\ IF curMap \in SlotsOf("send") /\ first[curMap] # End
     THEN pc' = "first" /\ UNCHANGED curMap
     ELSE pc' = "message" /\ curMap' = 0
  /\ defined' = IF pc' = "first" THEN Defined ELSE {}
  /\ UNCHANGED <<vars, curPos, packed>>
TestMessage ==
  /\ pc = "message"
  /\ IF curMap \in SlotsOf("send") /\ first[curMap] # End
     THEN pc' = "first" /\ UNCHANGED curMap
     ELSE pc' = "message" /\ curMap' = 0
  /\ packed' = <<>>
  /\ defined' = IF pc' = "first" THEN Defined ELSE {}
  /\ UNCHANGED <<vars, curPos>>

(* forEachPosMap *)
FirstItem ==
  /\ pc = "first" /\ pc' = "item"
  /\ curPos' = first[curMap]
  /\ UNCHANGED <<vars, curMap, packed, defined>>

TestItemNever ==                                              \* mutant
  /\ pc = "item" /\ curPos # Outside
  /\ pc' = "pack"
  /\ UNCHANGED <<vars, curMap, curPos, packed, defined>>
TestItem ==
  /\ pc = "item" /\ curPos # Outside
  /\ pc' = IF next[curPos] = Unset THEN "send" ELSE "pack"
  /\ UNCHANGED <<vars, curMap, curPos, packed, defined>>

Pack ==
  /\ pc = "pack" /\ pc' = "next"
  /\ packed' = Append(packed, mapParam[curPos])
  /\ UNCHANGED <<vars, curMap, curPos, defined>>

NextItem ==
  /\ pc = "next" /\ pc' = "item"
  /\ curPos' = next[curPos]
  /\ UNCHANGED <<vars, curMap, packed, defined>>

(* canHardware->Send(curMap->canId, data) *)
SendMessage ==
  /\ pc = "send" /\ pc' = "message"
  /\ curMap' = curMap + 1
  /\ UNCHANGED <<vars, curPos, packed, defined>>

SendAll == TestMessage \/ FirstItem \/ TestItem \/ Pack \/ NextItem \/ SendMessage

(* Between two rounds the main loop is elsewhere, for almost all the time. *)
BetweenRounds == pc = "message" /\ curMap = 0

Receive ==
  /\ \/ \E dir \in Dirs, param \in Params, id \in Ids : Add(dir, param, id)
     \/ /\ RemovesDuring \/ BetweenRounds
        /\ \E dir \in Dirs, index \in SlotIndex, k \in Item : Remove(dir, index, k)
  /\ defined' = IF pc = "message" THEN defined ELSE defined \cup Defined'
  /\ UNCHANGED <<pc, curMap, curPos, packed>>

SendInit ==
  /\ Init
  /\ pc = "message" /\ curMap = 0 /\ curPos = End /\ packed = <<>> /\ defined = {}
SendNext == SendAll \/ Receive
SendSpec == SendInit /\ [][SendNext]_vars2

-----------------------------------------------------------------------------
SendTypeOK ==
  /\ TypeOK
  /\ pc \in {"message", "first", "item", "pack", "next", "send"}
  /\ curMap \in 0 .. MaxMessages
  /\ curPos \in 0 .. End \cup {Outside}
  /\ packed \in Seq(Params \cup {NoParam})

(* SendAll looks at no item behind the array: "Last item is a tail"        *)
(* (canmap.h:97) is what ends every walk.                                  *)
CursorInArray == curPos # Outside

(* Every frame SendAll sends is one that was defined, as a whole and under *)
(* its id, at some time since it came to the message.                      *)
SentWasDefined == pc = "send" => [id |-> canId[curMap], params |-> packed] \in defined

(* What leaves is what the map defines, from lists that stay well formed   *)
(* under the walk.                                                         *)
DefinedSent == SendTypeOK /\ SentWasDefined
=============================================================================
