---------------------------- MODULE CanSdoMapping ----------------------------
(***************************************************************************)
(* Mapping a parameter over SDO takes three writes to one index: the CAN   *)
(* id, then parameter, position and length, then the gain.  What the first *)
(* two leave behind lies in two fields of CanSdo that the send and the     *)
(* receive index, and all clients, share.  Each write is one interrupt.    *)
(***************************************************************************)
EXTENDS CanMap

CONSTANTS
  Clients,
  CobIds,      \* CAN ids clients ask for: Ids, and the two below
  BootId,      \* id 0, which mapId holds after the start
  Unknown,     \* stands for a parameter whose unique id is not known
  GoesOn       \* does a client go on after a request was refused?

Extended == <<"extended", FALSE>>    \* more than 11 bits: Add refuses it
TooLarge == <<"tooLarge", FALSE>>    \* more than 29 bits
NoId == <<"noId", FALSE>>            \* mapId: 0xFFFFFFFF

ASSUME MappingAssumption ==
  /\ CobIds \subseteq Ids \cup {Extended, TooLarge}
  /\ BootId \in Ids /\ Unknown \in Params /\ GoesOn \in BOOLEAN

(* The second write: a length of no bits, one Add takes, one it does not.  *)
ItemWord == [param : Params, length : {"none", "fits", "long"}]

VARIABLES
  mapId, mapInfo,     \* CanSdo
  wish, step,         \* each client: what it wants mapped, requests accepted
  times               \* history: how often the wish of a client was mapped

sdo == <<mapId, mapInfo>>
client == <<wish, step>>
allVars == <<vars, sdo, client, times>>

Wish == [dir : Dirs, id : CobIds, item : ItemWord]
Refused == 4

-----------------------------------------------------------------------------
WriteCobIdOnce(id) ==                                         \* mutant
  /\ mapId' = IF id = TooLarge THEN NoId ELSE IF mapId = NoId THEN id ELSE mapId
  /\ UNCHANGED <<vars, mapInfo>>

WriteCobId(id) ==
  /\ mapId' = IF id = TooLarge THEN NoId ELSE id
  /\ UNCHANGED <<vars, mapInfo>>
CobIdAccepted(id) == id # TooLarge

(* Parameter and position are stored before the parameter is looked at.    *)
WriteItem(item) ==
  /\ IF mapId = NoId THEN UNCHANGED mapInfo ELSE mapInfo' = item
  /\ UNCHANGED <<vars, mapId>>
ItemAccepted(item) == mapId # NoId /\ item.param # Unknown

(* Does AddSend or AddRecv find the id, the length and a slot to its       *)
(* liking?  When only an item is missing, Add has named the slot already.  *)
FitsMap(dir) ==
  /\ mapInfo.length = "fits" /\ mapId \in Ids
  /\ Acceptable(dir, mapId) /\ Target(dir, mapId) # {}
GainAccepted(dir) == FitsMap(dir) /\ FreeItems # {}

WriteGainKeepsItem(dir) ==                                    \* mutant
  /\ mapInfo.length # "none"
  /\ IF FitsMap(dir) THEN Add(dir, mapInfo.param, mapId) ELSE UNCHANGED vars
  /\ UNCHANGED sdo

WriteGain(dir) ==
  \/ mapInfo.length = "none" /\ UNCHANGED <<vars, sdo>>
  \/ /\ mapInfo.length # "none"
     /\ IF FitsMap(dir) THEN Add(dir, mapInfo.param, mapId) ELSE UNCHANGED vars
     /\ mapInfo' = [mapInfo EXCEPT !.length = "none"]
     /\ mapId' = NoId

Write(sub, w) ==
  CASE sub = 0 -> WriteCobId(w.id)
    [] sub = 1 -> WriteItem(w.item)
    [] sub = 2 -> WriteGain(w.dir)
Accepted(sub, w) ==
  CASE sub = 0 -> CobIdAccepted(w.id)
    [] sub = 1 -> ItemAccepted(w.item)
    [] sub = 2 -> mapInfo.length # "none" /\ GainAccepted(w.dir)

-----------------------------------------------------------------------------
(* A client starts over whenever it likes, and repeats a request whose     *)
(* reply it did not get.                                                   *)
Begin(c) ==
  /\ \E w \in Wish : wish' = [wish EXCEPT ![c] = w]
  /\ step' = [step EXCEPT ![c] = 0]
  /\ times' = [times EXCEPT ![c] = 0]
  /\ UNCHANGED <<vars, sdo>>

StepAfter(c, ok, delivered) ==
  IF ~delivered THEN step[c]
  ELSE IF ok \/ GoesOn THEN step[c] + 1 ELSE Refused

Ask(c, delivered) ==
  /\ step[c] \in 0 .. 2
  /\ Write(step[c], wish[c])
  /\ LET ok == Accepted(step[c], wish[c]) IN
     /\ step' = [step EXCEPT ![c] = StepAfter(c, ok, delivered)]
     /\ times' = IF ok /\ step[c] = 2 THEN [times EXCEPT ![c] = @ + 1] ELSE times
  /\ UNCHANGED wish

(* A write of zero to an item that is mapped removes it.                   *)
DeleteItem(dir, index, k) ==
  /\ Remove(dir, index, k)
  /\ UNCHANGED <<sdo, client, times>>

MappingInit ==
  /\ Init
  /\ mapId = BootId /\ mapInfo \in ItemWord        \* mapInfo is not initialised
  /\ wish \in [Clients -> Wish] /\ step = [c \in Clients |-> Refused]
  /\ times = [c \in Clients |-> 0]

MappingNext ==
  \/ \E c \in Clients : Begin(c) \/ \E delivered \in BOOLEAN : Ask(c, delivered)
  \/ \E dir \in Dirs, index \in SlotIndex, k \in Item : DeleteItem(dir, index, k)

MappingSpec == MappingInit /\ [][MappingNext]_allVars

-----------------------------------------------------------------------------
(* Properties. *)
MappingTypeOK ==
  /\ TypeOK
  /\ mapId \in Ids \cup {Extended, NoId} /\ mapInfo \in ItemWord
  /\ wish \in [Clients -> Wish] /\ step \in [Clients -> 0 .. Refused]

(* A request that is accepted maps what its client asked for: its          *)
(* parameter ends the list of its id, in its direction.                    *)
Mapped(w) ==
  \E m \in WithId(w.dir, w.id) : \E i \in LastOf(m) : mapParam[i] = w.item.param
MappedAsAsked ==
  [][\A c \in Clients :
       times'[c] > times[c] => Mapped(wish[c])']_allVars

(* A request that is refused leaves both tables as they were.              *)
RefusedChangesNothing ==
  [][\A c \in Clients, delivered \in BOOLEAN :
       Ask(c, delivered) /\ ~Accepted(step[c], wish[c]) =>
         \A dir \in Dirs : UNCHANGED TableOf(dir)]_allVars

(* However often its last request is repeated, a wish is mapped once.      *)
MappedOnce == \A c \in Clients : times[c] <= 1

(* What is mapped exists: the map indexes the parameters with it.          *)
OnlyKnownMapped == \A i \in Item : next[i] # Unset => mapParam[i] # Unknown

(* What clients were told is mapped is there once, and all that is there   *)
(* exists, however often requests are repeated and dialogs abandoned.      *)
MappingSound == MappingTypeOK /\ MappedOnce /\ OnlyKnownMapped

(* Every answer is true: an accepted request has mapped what was asked     *)
(* for, a refused one has changed nothing.                                 *)
AnswersTrue == MappedAsAsked /\ RefusedChangesNothing
=============================================================================
