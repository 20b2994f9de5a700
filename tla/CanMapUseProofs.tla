--------------------------- MODULE CanMapUseProofs ----------------------------
(***************************************************************************)
(* The two users of the CAN map: SendAll, which walks its lists while      *)
(* requests change them, and the dialog that maps by SDO requests.         *)
(***************************************************************************)
EXTENDS CanMapSend, CanSdoMapping, CanMapProofs

-------------------------------------------------------------------------------
(* SendAll stays inside the array of items as long as only additions       *)
(* interrupt it: an addition takes no item out of use, so the item the     *)
(* cursor is at still leads to another one or to the tail.  And what it    *)
(* has packed is what the list had at the places before the cursor.        *)

Cursor ==
  /\ curMap \in Nat
  /\ pc = "first" => curMap \in Slots
  /\ curPos \in 0 .. End
  /\ pc \in {"pack", "next"} => curPos \in Item /\ next[curPos] # Unset

CursorInv == MapInv /\ Cursor

(* An addition leaves every item in use that was in use.                   *)
LEMMA AddKeepsItems ==
  ASSUME MapInv, NEW dir \in Dirs, NEW param \in Params, NEW id \in Ids,
         Add(dir, param, id)
  PROVE  \A i \in Item : next[i] # Unset => next'[i] # Unset
<1> USE Arithmetic
<1>1. next \in [0 .. End -> Item \cup {End, Unset}]
  BY DEF MapInv, TypeOK
<1>2. CASE UNCHANGED next
  BY <1>2
<1>3. ASSUME NEW m, NEW i \in Least(FreeItems), AddLink(m, i)
      PROVE  \A j \in Item : next[j] # Unset => next'[j] # Unset
  <2>1. i \in Item
    BY DEF Least, FreeItems
  <2>2. CASE next' = [next EXCEPT ![i] = End]
    BY <1>1, <2>1, <2>2
  <2>3. ASSUME NEW preceding \in LastOf(m),
               next' = [next EXCEPT ![i] = End, ![preceding] = i]
        PROVE  \A j \in Item : next[j] # Unset => next'[j] # Unset
    BY <1>1, <2>1, <2>3
  <2> QED
    BY <1>3, <2>2, <2>3 DEF AddLink
<1> QED
  BY <1>2, <1>3 DEF Add

(* SendAll starts outside.                                                 *)
LEMMA SendInitInv == SendInit => CursorInv
  BY InitInv, Arithmetic DEF SendInit, CursorInv, Cursor

(* Its own steps follow the list they read.                                *)
LEMMA SendAllInv ==
  ASSUME CursorInv, SendAll
  PROVE  CursorInv'
<1> USE Arithmetic DEF CursorInv
<1>1. MapInv' /\ UNCHANGED vars
  <2>1. UNCHANGED vars
    BY DEF SendAll, TestMessage, FirstItem, TestItem, Pack, NextItem, SendMessage
  <2> QED
    BY <2>1, MapUnchanged
<1>2. /\ first \in [Slots -> Item \cup {End}]
      /\ next \in [0 .. End -> Item \cup {End, Unset}] /\ next[End] = Unset
  BY DEF MapInv, TypeOK
<1>3. UNCHANGED <<first, next>>
  BY <1>1 DEF vars
<1>4. CASE TestMessage
  <2>1. SlotsOf("send") \subseteq Slots
    BY SlotsApart DEF Dirs
  <2> QED
    BY <1>1, <1>3, <1>4, <2>1 DEF TestMessage, Cursor
<1>5. CASE FirstItem
  BY <1>1, <1>2, <1>3, <1>5 DEF FirstItem, Cursor
<1>6. CASE TestItem
  <2>1. next[curPos] # Unset => curPos \in Item
    BY <1>2 DEF Cursor, Item, End
  <2> QED
    BY <1>1, <1>3, <1>6, <2>1 DEF TestItem, Cursor
<1>7. CASE Pack
  BY <1>1, <1>3, <1>7 DEF Pack, Cursor
<1>8. CASE NextItem
  <2>1. curPos \in Item /\ next[curPos] # Unset
    BY <1>8 DEF NextItem, Cursor
  <2>2. next[curPos] \in Item \cup {End}
    BY <1>2, <2>1
  <2>3. Item \cup {End} \subseteq 0 .. End
    OBVIOUS
  <2>4. curPos' \in 0 .. End
    BY <1>8, <2>2, <2>3 DEF NextItem
  <2> QED
    BY <1>1, <1>3, <1>8, <2>4 DEF NextItem, Cursor
<1>9. CASE SendMessage
  BY <1>1, <1>3, <1>9 DEF SendMessage, Cursor
<1> QED
  BY <1>4, <1>5, <1>6, <1>7, <1>8, <1>9 DEF SendAll

(* A request received in between adds to the lists, or clears nothing      *)
(* SendAll is at.                                                          *)
LEMMA ReceiveInv ==
  ASSUME ~RemovesDuring, SlotIndex \subseteq 0 .. MaxMessages - 1,
         CursorInv, Receive
  PROVE  CursorInv'
<1>1. UNCHANGED <<pc, curMap, curPos>>
  BY DEF Receive
<1>2. ASSUME NEW dir \in Dirs, NEW param \in Params, NEW id \in Ids,
             Add(dir, param, id)
      PROVE  CursorInv'
  <2>1. MapInv' /\ \A i \in Item : next[i] # Unset => next'[i] # Unset
    BY <1>2, AddInv, AddKeepsItems DEF CursorInv
  <2> QED
    BY <1>1, <2>1 DEF CursorInv, Cursor
<1>3. ASSUME BetweenRounds, NEW dir \in Dirs, NEW index \in SlotIndex, NEW k \in Item,
             Remove(dir, index, k)
      PROVE  CursorInv'
  <2>1. MapInv'
    BY <1>3, RemoveInv DEF CursorInv
  <2> QED
    BY <1>1, <1>3, <2>1 DEF CursorInv, Cursor, BetweenRounds
<1> QED
  BY <1>2, <1>3 DEF Receive

(* No step takes the cursor off the lists.                                 *)
LEMMA CursorStep ==
  ASSUME ~RemovesDuring, SlotIndex \subseteq 0 .. MaxMessages - 1,
         CursorInv, [SendNext]_vars2
  PROVE  CursorInv'
<1>1. CASE SendAll
  BY <1>1, SendAllInv
<1>2. CASE Receive
  BY <1>2, ReceiveInv
<1>3. CASE UNCHANGED vars2
  <2>1. UNCHANGED vars
    BY <1>3 DEF vars2
  <2>2. MapInv'
    BY <2>1, MapUnchanged DEF CursorInv
  <2> QED
    BY <1>3, <2>1, <2>2 DEF vars2, vars, CursorInv, Cursor
<1> QED
  BY <1>1, <1>2, <1>3 DEF SendNext

(* While items are only added, SendAll looks at no item behind the array,  *)
(* for every size of the map and wherever the interrupt strikes.           *)
THEOREM SendAllStaysInArray ==
  ASSUME ~RemovesDuring, SlotIndex \subseteq 0 .. MaxMessages - 1
  PROVE  SendSpec => []CursorInArray
<1>1. CursorInv => CursorInArray
  BY Arithmetic DEF CursorInv, Cursor, CursorInArray, Outside
<1> QED
  BY <1>1, CursorStep, SendInitInv, PTL DEF SendSpec

(* What SendAll has packed so far, and where it is: the values of the      *)
(* first items of the message, and then the item behind them.              *)
PackedUpTo(k) == packed = [j \in 1 .. k |-> mapParam[ItemAt(curMap)[j - 1]]]
Reached(k) == k \in Nat /\ k < Length(curMap) /\ curPos = ItemAt(curMap)[k]
WasDefined == [id |-> canId[curMap], params |-> packed] \in defined

Progress ==
  /\ pc # "message" =>
       curMap \in SlotsOf("send") /\ first[curMap] # End /\ Defined \subseteq defined
  /\ pc = "first" => packed = <<>>
  /\ pc = "item" =>
       \/ \E k \in Nat : Reached(k) /\ PackedUpTo(k)
       \/ curPos = End /\ WasDefined
  /\ pc = "pack" => \E k \in Nat : Reached(k) /\ PackedUpTo(k)
  /\ pc = "next" => \E k \in Nat : Reached(k) /\ PackedUpTo(k + 1)
  /\ pc = "send" => WasDefined

Types ==
  /\ pc \in {"message", "first", "item", "pack", "next", "send"}
  /\ curMap \in 0 .. MaxMessages
  /\ packed \in Seq(Params \cup {NoParam})

SendInv == CursorInv /\ Types /\ Progress

(* The places of items in lists, and how many there are: what LaterList    *)
(* says of a later map needs these as definitions.                         *)
Places ==
  \A m \in Slots :
    /\ ItemAt(m)[0] = first[m]
    /\ \A k \in 1 .. MaxItems : ItemAt(m)[k] = After(ItemAt(m)[k - 1])
Lengths ==
  \A m \in Slots :
    /\ Length(m) \in 0 .. MaxItems
    /\ \A k \in 0 .. MaxItems :
         IF k < Length(m) THEN Listed(ItemAt(m)[k]) ELSE ItemAt(m)[k] = End

(* Both hold of every map that is intact.                                  *)
LEMMA PlacesAndLengths == MapInv => Places /\ Lengths
<1> SUFFICES ASSUME MapInv PROVE Places /\ Lengths
  OBVIOUS
<1>1. Places
  BY ItemAtFacts DEF MapInv, Places
<1>2. Lengths
  BY LengthFacts DEF Lengths
<1> QED
  BY <1>1, <1>2

(* An addition moves no item that is listed. *)
LEMMA AddKeepsLists ==
  ASSUME MapInv, NEW dir \in Dirs, NEW param \in Params, NEW id \in Ids,
         Add(dir, param, id)
  PROVE  /\ \A n \in Slots : first[n] # End => first'[n] = first[n] /\ canId'[n] = canId[n]
         /\ \A j \in Item : next[j] \in Item => next'[j] = next[j]
         /\ \A j \in Item : next[j] # Unset => mapParam'[j] = mapParam[j] /\ next'[j] # Unset
<1>1. PICK m \in Target(dir, id) :
        /\ canId' = IF WithId(dir, id) = {} THEN [canId EXCEPT ![m] = id] ELSE canId
        /\ \/ UNCHANGED <<first, next, mapParam>>
           \/ \E i \in Least(FreeItems) :
                mapParam' = [mapParam EXCEPT ![i] = param] /\ AddLink(m, i)
  BY DEF Add
<1>2. /\ canId \in [Slots -> Ids \cup {<<"unset", FALSE>>}]
      /\ first \in [Slots -> Item \cup {End}]
      /\ next \in [0 .. End -> Item \cup {End, Unset}]
      /\ mapParam \in [0 .. End -> Params \cup {NoParam}]
      /\ \A j \in Item : j \in 0 .. End
  BY Arithmetic DEF MapInv, TypeOK
<1>3. ASSUME NEW n \in Slots, first[n] # End PROVE canId'[n] = canId[n]
  <2>1. WithId(dir, id) = {} => n # m
    BY <1>3, TargetFinds
  <2> QED
    BY <1>1, <1>2, <2>1
<1>4. CASE UNCHANGED <<first, next, mapParam>>
  BY <1>3, <1>4
<1>5. ASSUME NEW i \in Least(FreeItems), mapParam' = [mapParam EXCEPT ![i] = param], AddLink(m, i)
      PROVE  /\ \A n \in Slots : first[n] # End => first'[n] = first[n]
             /\ \A j \in Item : next[j] \in Item => next'[j] = next[j]
             /\ \A j \in Item : next[j] # Unset => mapParam'[j] = mapParam[j]
  <2>1. i \in Item /\ next[i] = Unset
    BY DEF Least, FreeItems
  <2>2. \A j \in Item : next[j] # Unset => mapParam'[j] = mapParam[j]
    BY <1>2, <1>5, <2>1
  <2>3. \A n \in Slots : first[n] # End => first'[n] = first[n]
    BY <1>2, <1>5 DEF AddLink
  <2>4. ASSUME NEW j \in Item, next[j] \in Item PROVE next'[j] = next[j]
    <3>1. j # i /\ \A p \in LastOf(m) : j # p
      BY <2>1, <2>4, Arithmetic DEF LastOf
    <3> QED
      BY <1>2, <1>5, <3>1 DEF AddLink
  <2> QED
    BY <2>2, <2>3, <2>4
<1>6. \A j \in Item : next[j] # Unset => next'[j] # Unset
  BY AddKeepsItems
<1> QED
  BY <1>1, <1>3, <1>4, <1>5, <1>6

(* An item that is listed keeps its place and its parameter.               *)
LEMMA AddKeepsPlaces ==
  ASSUME MapInv, MapInv', NEW dir \in Dirs, NEW param \in Params, NEW id \in Ids,
         Add(dir, param, id), NEW n \in Slots, NEW k \in Nat, k < Length(n)
  PROVE  /\ ItemAt(n)'[k] = ItemAt(n)[k] /\ k < Length(n)'
         /\ mapParam'[ItemAt(n)[k]] = mapParam[ItemAt(n)[k]]
<1>1. PICK at, len : at = ItemAt(n) /\ len = Length(n)
  OBVIOUS
<1>2. /\ len \in 0 .. MaxItems /\ at[0] = first[n]
      /\ \A j \in 1 .. MaxItems : at[j] = After(at[j - 1])
      /\ \A j \in 0 .. MaxItems : IF j < len THEN Listed(at[j]) ELSE at[j] = End
  BY <1>1, PlacesAndLengths DEF Places, Lengths
<1>3. PICK new, more : new = ItemAt(n)' /\ more = Length(n)'
  OBVIOUS
<1>4. /\ more \in 0 .. MaxItems /\ new[0] = first'[n]
      /\ \A j \in 1 .. MaxItems : new[j] = After(new[j - 1])'
      /\ \A j \in 0 .. MaxItems : IF j < more THEN Listed(new[j])' ELSE new[j] = End
  <2>1. (MapInv => Places /\ Lengths)'
    BY PlacesAndLengths, PTL
  <2> QED
    BY <1>3, <2>1 DEF Places, Lengths
<1>5. /\ first[n] # End => first'[n] = first[n]
      /\ \A j \in Item : next[j] \in Item => next'[j] = next[j]
      /\ \A j \in Item : next[j] # Unset => mapParam'[j] = mapParam[j] /\ next'[j] # Unset
  BY AddKeepsLists
<1>6. ASSUME NEW j \in 0 .. MaxItems, j < len, new[j] = at[j] PROVE j < more
  <2>1. at[j] \in Item /\ next[at[j]] # Unset
    BY <1>2, <1>6 DEF Listed
  <2>2. new[j] \in Item
    BY <1>6, <2>1
  <2>3. new[j] # End
    BY <2>2, Arithmetic
  <2> QED
    BY <1>4, <2>3
<1> DEFINE S == { j \in Nat : j < len => new[j] = at[j] }
<1>7. 0 \in S
  <2>1. 0 < len => at[0] # End
    BY <1>2, Arithmetic DEF Listed
  <2> QED
    BY <1>2, <1>4, <1>5, <2>1
<1>8. ASSUME NEW j \in Nat, j \in S PROVE j + 1 \in S
  <2> SUFFICES ASSUME j + 1 < len PROVE new[j + 1] = at[j + 1]
    OBVIOUS
  <2>1. /\ j \in 0 .. MaxItems /\ j < len /\ j + 1 \in 0 .. MaxItems /\ j + 1 \in 1 .. MaxItems
        /\ (j + 1) - 1 = j /\ new[j] = at[j]
    BY <1>2, <1>8, Arithmetic
  <2>2. at[j] \in Item /\ at[j + 1] \in Item /\ at[j + 1] = After(at[j])
    BY <1>2, <2>1 DEF Listed
  <2>3. next[at[j]] = at[j + 1]
    BY <2>2 DEF After
  <2>4. next'[at[j]] = at[j + 1]
    BY <1>5, <2>2, <2>3
  <2>5. new[j + 1] = After(at[j])'
    BY <1>4, <2>1, Zenon
  <2> QED
    BY <2>2, <2>4, <2>5 DEF After
<1>9. k \in S
  <2> HIDE DEF S
  <2> QED
    BY <1>7, <1>8, NatSetInduction
<1>10. k \in 0 .. MaxItems /\ k < len /\ new[k] = at[k]
  BY <1>1, <1>2, <1>9, Arithmetic
<1>11. mapParam'[at[k]] = mapParam[at[k]]
  BY <1>2, <1>5, <1>10 DEF Listed
<1> QED
  BY <1>1, <1>3, <1>6, <1>10, <1>11

(* A map that is not written defines what it did.                          *)
LEMMA ListsStay ==
  ASSUME MapInv, MapInv', UNCHANGED vars
  PROVE  /\ \A m \in Slots : /\ ItemAt(m)' = ItemAt(m) /\ Length(m)' = Length(m)
                            /\ ParamsOf(m)' = ParamsOf(m)
         /\ Defined' = Defined
<1>1. first' = first /\ next' = next /\ mapParam' = mapParam /\ canId' = canId
  BY DEF vars
<1>2. ASSUME NEW m \in Slots
      PROVE  /\ ItemAt(m)' = ItemAt(m) /\ Length(m)' = Length(m)
             /\ ParamsOf(m)' = ParamsOf(m)
  <2>1. PICK g, n : g = ItemAt(m) /\ n = Length(m)
    OBVIOUS
  <2>2. IsList(g, n, m)
    BY <2>1, TheList
  <2>3. IsList(g, n, m)'
    BY <1>1, <2>2 DEF IsList, After, Listed
  <2>4. /\ ItemAt(m)' = g /\ Length(m)' = n
        /\ ParamsOf(m)' = [k \in 1 .. n |-> mapParam'[g[k - 1]]]
    BY <2>3, LaterList
  <2>5. ParamsOf(m) = [k \in 1 .. n |-> mapParam[g[k - 1]]]
    BY <2>1, ParamsAre
  <2> QED
    BY <1>1, <2>1, <2>4, <2>5
<1>3. Used("send")' = Used("send")
  BY <1>1 DEF Used
<1>4. \A m \in Used("send") : m \in Slots
  BY SlotsApart DEF Used, Dirs
<1> QED
  BY <1>1, <1>2, <1>3, <1>4 DEF Defined

(* A message in use is one the map defines.                                *)
LEMMA MessageDefined ==
  ASSUME MapInv, NEW m \in SlotsOf("send"), first[m] # End
  PROVE  [id |-> canId[m], params |-> ParamsOf(m)] \in Defined
<1>1. m \in Used("send")
  BY UsedSlots DEF MapInv, Dirs
<1> QED
  BY <1>1 DEF Defined

(* The places of SendAll and what it packs.                                *)
LEMMA SendTypes ==
  ASSUME SendInv, [SendNext]_vars2
  PROVE  Types'
<1> USE DEF SendInv
<1>1. CASE SendAll
  <2>1. CASE TestMessage
    BY <2>1, Arithmetic DEF Types, TestMessage
  <2>2. CASE FirstItem
    BY <2>2 DEF Types, FirstItem
  <2>3. CASE TestItem
    BY <2>3 DEF Types, TestItem
  <2>4. CASE Pack
    <3>1. mapParam[curPos] \in Params \cup {NoParam}
      BY <2>4 DEF Pack, CursorInv, Cursor, MapInv, TypeOK
    <3> QED
      BY <2>4, <3>1 DEF Types, Pack
  <2>5. CASE NextItem
    BY <2>5 DEF Types, NextItem
  <2>6. CASE SendMessage
    <3>1. curMap \in Nat /\ pc' = "message" /\ curMap' = curMap + 1 /\ packed' = packed
      BY <2>6 DEF SendMessage, CursorInv, Cursor
    <3>2. curMap < MaxMessages
      BY <2>6, SlotNumbers DEF SendMessage, Progress, Dirs, Base
    <3>3. curMap + 1 \in 0 .. MaxMessages
      BY <3>1, <3>2, Arithmetic
    <3> QED
      BY <3>1, <3>3 DEF Types
  <2> QED
    BY <1>1, <2>1, <2>2, <2>3, <2>4, <2>5, <2>6 DEF SendAll
<1>2. CASE Receive \/ UNCHANGED vars2
  BY <1>2 DEF Receive, vars2, Types
<1> QED
  BY <1>1, <1>2 DEF SendNext

(* A step of SendAll. *)
LEMMA SendAllProgress ==
  ASSUME SendInv, MapInv', UNCHANGED vars, SendAll
  PROVE  Progress'
<1>1. /\ MapInv /\ Progress /\ curMap \in Nat
  BY DEF SendInv, CursorInv, Cursor
<1>2. /\ first' = first /\ next' = next /\ mapParam' = mapParam /\ canId' = canId
      /\ Defined' = Defined
  BY <1>1, ListsStay DEF vars
<1>3. SlotsOf("send") \subseteq Slots /\ "send" \in Dirs
  BY SlotsApart DEF Dirs
<1>4. CASE TestMessage
  <2>1. pc' = "message" \/ pc' = "first"
    BY <1>4 DEF TestMessage
  <2>2. pc' = "first" => /\ curMap' \in SlotsOf("send") /\ first[curMap'] # End
                         /\ packed' = <<>> /\ defined' = Defined
    BY <1>4 DEF TestMessage
  <2> QED
    BY <1>2, <2>1, <2>2 DEF Progress
<1>5. ASSUME pc # "message", curMap' = curMap, defined' = defined,
             pc' \in {"item", "pack", "next", "send"},
             pc' = "item" => \/ \E k \in Nat : Reached(k)' /\ PackedUpTo(k)'
                             \/ curPos' = End /\ WasDefined',
             pc' = "pack" => \E k \in Nat : Reached(k)' /\ PackedUpTo(k)',
             pc' = "next" => \E k \in Nat : Reached(k)' /\ PackedUpTo(k + 1)',
             pc' = "send" => WasDefined'
      PROVE  Progress'
  <2>1. curMap' \in SlotsOf("send") /\ first'[curMap'] # End /\ Defined' \subseteq defined'
    BY <1>1, <1>2, <1>5 DEF Progress
  <2> QED
    BY <1>5, <2>1, Zenon DEF Progress
<1>6. ASSUME pc # "message", curMap' = curMap
      PROVE  /\ curMap \in SlotsOf("send") /\ curMap \in Slots /\ first[curMap] # End
             /\ Defined \subseteq defined
             /\ ItemAt(curMap)' = ItemAt(curMap) /\ Length(curMap)' = Length(curMap)
  <2>1. curMap \in SlotsOf("send") /\ first[curMap] # End /\ Defined \subseteq defined
    BY <1>1, <1>6 DEF Progress
  <2>2. PICK m \in Slots : m = curMap
    BY <1>3, <2>1
  <2>3. ItemAt(m)' = ItemAt(m) /\ Length(m)' = Length(m)
    BY <1>1, ListsStay
  <2>4. PICK g, n : g = ItemAt(m) /\ n = Length(m)
    OBVIOUS
  <2>5. IsList(g, n, m)'
    BY <1>1, <1>2, <2>4, TheList DEF IsList, After, Listed
  <2>6. IsList(g, n, curMap)'
    BY <1>6, <2>2, <2>5 DEF IsList
  <2>7. (MapInv => ListsDetermined)'
    BY OnlyList, PTL
  <2>8. ItemAt(curMap)' = g /\ Length(curMap)' = n
    BY <1>6, <2>2, <2>6, <2>7 DEF ListsDetermined
  <2> QED
    BY <2>1, <2>2, <2>4, <2>8
<1>7. CASE FirstItem
  <2>1. /\ pc = "first" /\ pc' = "item" /\ curPos' = first[curMap]
        /\ curMap' = curMap /\ packed' = packed /\ defined' = defined
    BY <1>7 DEF FirstItem
  <2>2. /\ curMap \in Slots /\ first[curMap] # End /\ packed = <<>>
        /\ ItemAt(curMap)' = ItemAt(curMap) /\ Length(curMap)' = Length(curMap)
    BY <1>1, <1>6, <2>1 DEF Progress
  <2>3. 0 < Length(curMap) /\ ItemAt(curMap)[0] = first[curMap]
    BY <1>1, <2>2, PlacesAndLengths, Arithmetic DEF Places, Lengths
  <2>4. Reached(0)'
    BY <2>1, <2>2, <2>3 DEF Reached
  <2>5. PackedUpTo(0)'
    BY <2>1, <2>2 DEF PackedUpTo
  <2>6. 0 \in Nat
    OBVIOUS
  <2> QED
    BY <1>5, <2>1, <2>4, <2>5, <2>6
<1>8. CASE TestItem
  <2>1. /\ pc = "item" /\ curMap' = curMap /\ packed' = packed /\ defined' = defined
        /\ curPos' = curPos /\ pc' = IF next[curPos] = Unset THEN "send" ELSE "pack"
    BY <1>8 DEF TestItem
  <2>2. /\ curMap \in Slots
        /\ ItemAt(curMap)' = ItemAt(curMap) /\ Length(curMap)' = Length(curMap)
    BY <1>6, <2>1
  <2>3. ASSUME NEW k \in Nat, Reached(k), PackedUpTo(k)
        PROVE  pc' = "pack" /\ Reached(k)' /\ PackedUpTo(k)'
    <3>1. next[curPos] # Unset
      <4>1. PICK len : len = Length(curMap)
        OBVIOUS
      <4>2. k < len /\ len \in 0 .. MaxItems
        BY <1>1, <2>2, <2>3, <4>1, PlacesAndLengths DEF Reached, Lengths
      <4>3. k \in 0 .. MaxItems /\ k < Length(curMap)
        BY <4>1, <4>2, Arithmetic
      <4>4. Listed(ItemAt(curMap)[k])
        BY <1>1, <2>2, <4>3, PlacesAndLengths DEF Lengths
      <4> QED
        BY <2>3, <4>4 DEF Reached, Listed
    <3> QED
      BY <1>2, <2>1, <2>2, <2>3, <3>1 DEF Reached, PackedUpTo
  <2>4. ASSUME curPos = End, WasDefined PROVE pc' = "send" /\ WasDefined'
    <3>1. next[curPos] = Unset
      BY <1>1, <2>4 DEF MapInv, TypeOK
    <3> QED
      BY <1>2, <2>1, <2>4, <3>1 DEF WasDefined
  <2> QED
    BY <1>1, <1>5, <2>1, <2>3, <2>4 DEF Progress
<1>9. CASE Pack
  <2>1. /\ pc = "pack" /\ pc' = "next" /\ curMap' = curMap /\ curPos' = curPos
        /\ packed' = Append(packed, mapParam[curPos]) /\ defined' = defined
    BY <1>9 DEF Pack
  <2>2. /\ curMap \in Slots
        /\ ItemAt(curMap)' = ItemAt(curMap) /\ Length(curMap)' = Length(curMap)
    BY <1>6, <2>1
  <2>3. PICK k \in Nat : Reached(k) /\ PackedUpTo(k)
    BY <1>1, <2>1 DEF Progress
  <2>4. Reached(k)'
    BY <2>1, <2>2, <2>3 DEF Reached
  <2>5. PICK at, p, values : at = ItemAt(curMap) /\ p = packed /\ values = mapParam
    OBVIOUS
  <2>6. p = [j \in 1 .. k |-> values[at[j - 1]]] /\ curPos = at[k]
    BY <2>3, <2>5 DEF PackedUpTo, Reached
  <2>7. Append(p, values[at[k]]) = [j \in 1 .. k + 1 |-> values[at[j - 1]]]
    <3>1. p = [j \in 1 .. k |-> p[j]]
      BY <2>6
    <3>2. Append(p, values[at[k]]) = [j \in 1 .. k + 1 |-> IF j = k + 1 THEN values[at[k]] ELSE p[j]]
      BY <3>1, Appended
    <3>3. ASSUME NEW j \in 1 .. k + 1
          PROVE  (IF j = k + 1 THEN values[at[k]] ELSE p[j]) = values[at[j - 1]]
      <4>1. j = k + 1 => j - 1 = k
        OBVIOUS
      <4>2. j # k + 1 => j \in 1 .. k
        OBVIOUS
      <4> QED
        BY <2>6, <4>1, <4>2
    <3> QED
      BY <3>2, <3>3
  <2>8. PackedUpTo(k + 1)'
    BY <1>2, <2>1, <2>2, <2>5, <2>6, <2>7 DEF PackedUpTo
  <2> QED
    BY <1>5, <2>1, <2>4, <2>8
<1>10. CASE NextItem
  <2>1. /\ pc = "next" /\ pc' = "item" /\ curMap' = curMap /\ curPos' = next[curPos]
        /\ packed' = packed /\ defined' = defined
    BY <1>10 DEF NextItem
  <2>2. /\ curMap \in SlotsOf("send") /\ curMap \in Slots /\ first[curMap] # End
        /\ Defined \subseteq defined
        /\ ItemAt(curMap)' = ItemAt(curMap) /\ Length(curMap)' = Length(curMap)
    BY <1>6, <2>1
  <2>3. PICK k \in Nat : Reached(k) /\ PackedUpTo(k + 1)
    BY <1>1, <2>1 DEF Progress
  <2>4. PICK at, len : at = ItemAt(curMap) /\ len = Length(curMap)
    OBVIOUS
  <2>5. /\ len \in 0 .. MaxItems
        /\ \A j \in 1 .. MaxItems : at[j] = After(at[j - 1])
        /\ \A j \in 0 .. MaxItems : IF j < len THEN Listed(at[j]) ELSE at[j] = End
    BY <1>1, <2>2, <2>4, PlacesAndLengths DEF Places, Lengths
  <2>6. k < len /\ curPos = at[k]
    BY <2>3, <2>4 DEF Reached
  <2>7. /\ k \in 0 .. MaxItems /\ k + 1 \in 0 .. MaxItems /\ k + 1 \in 1 .. MaxItems
        /\ (k + 1) - 1 = k /\ k + 1 \in Nat
    BY <2>5, <2>6, Arithmetic
  <2>8. curPos' = at[k + 1]
    <3>1. at[k + 1] = After(at[k])
      BY <2>5, <2>7, Zenon
    <3>2. Listed(at[k])
      BY <2>5, <2>6, <2>7
    <3> QED
      BY <2>1, <2>6, <3>1, <3>2 DEF After, Listed
  <2>9. CASE k + 1 < len
    <3>1. Reached(k + 1)' /\ PackedUpTo(k + 1)'
      BY <1>2, <2>1, <2>2, <2>3, <2>4, <2>7, <2>8, <2>9 DEF Reached, PackedUpTo
    <3> QED
      BY <1>5, <2>1, <2>7, <3>1
  <2>10. CASE ~(k + 1 < len)
    <3>1. k + 1 = len
      BY <2>5, <2>6, <2>10, Arithmetic
    <3>2. curPos' = End
      BY <2>5, <2>7, <2>8, <2>10
    <3>3. packed = ParamsOf(curMap)
      BY <2>3, <2>4, <3>1, ParamsAre DEF PackedUpTo
    <3>4. WasDefined
      BY <1>1, <2>2, <3>3, MessageDefined DEF WasDefined
    <3>5. WasDefined'
      BY <1>2, <2>1, <3>4 DEF WasDefined
    <3> QED
      BY <1>5, <2>1, <3>2, <3>5
  <2> QED
    BY <2>9, <2>10
<1>11. CASE SendMessage
  BY <1>11 DEF SendMessage, Progress
<1> QED
  BY <1>4, <1>7, <1>8, <1>9, <1>10, <1>11 DEF SendAll

(* Nothing happens.                                                        *)
LEMMA StutterProgress ==
  ASSUME SendInv, MapInv', UNCHANGED vars2
  PROVE  Progress'
<1>1. MapInv /\ Progress /\ UNCHANGED <<vars, pc, curMap, curPos, packed, defined>>
  BY DEF SendInv, CursorInv, vars2
<1>2. UNCHANGED <<first, canId, mapParam>> /\ Defined' = Defined
  BY <1>1, ListsStay DEF vars
<1>3. CASE pc = "message"
  BY <1>1, <1>3 DEF Progress
<1>4. CASE pc # "message"
  <2>1. curMap \in SlotsOf("send") /\ curMap \in Slots
    BY <1>1, <1>4, SlotsApart DEF Progress, Dirs
  <2>2. PICK m \in Slots : m = curMap
    BY <2>1
  <2>3. ItemAt(m)' = ItemAt(m) /\ Length(m)' = Length(m)
    BY <1>1, ListsStay
  <2>4. ItemAt(curMap)' = ItemAt(m)' /\ Length(curMap)' = Length(m)'
    BY <1>1, <2>2
  <2>5. ItemAt(curMap)' = ItemAt(curMap) /\ Length(curMap)' = Length(curMap)
    BY <2>2, <2>3, <2>4
  <2>6. /\ \A k : Reached(k)' <=> Reached(k)
        /\ \A k : PackedUpTo(k)' <=> PackedUpTo(k)
        /\ WasDefined' <=> WasDefined
    BY <1>1, <1>2, <2>5 DEF Reached, PackedUpTo, WasDefined
  <2> QED
    BY <1>1, <1>2, <2>6 DEF Progress
<1> QED
  BY <1>3, <1>4

(* An addition. *)
LEMMA AddProgress ==
  ASSUME SendInv, MapInv', NEW dir \in Dirs, NEW param \in Params, NEW id \in Ids,
         Add(dir, param, id), UNCHANGED <<pc, curMap, curPos, packed>>,
         defined' = IF pc = "message" THEN defined ELSE defined \cup Defined'
  PROVE  Progress'
<1>1. /\ MapInv /\ Progress
  BY DEF SendInv, CursorInv
<1>2. CASE pc = "message"
  BY <1>2 DEF Progress
<1>3. CASE pc # "message"
  <2>1. /\ curMap \in SlotsOf("send") /\ curMap \in Slots /\ first[curMap] # End
        /\ defined \subseteq defined' /\ Defined' \subseteq defined'
    BY <1>1, <1>3, SlotsApart DEF Progress, Dirs
  <2>2. first'[curMap] = first[curMap] /\ canId'[curMap] = canId[curMap]
    BY <1>1, <2>1, AddKeepsLists
  <2>3. PICK m \in Slots : m = curMap
    BY <2>1
  <2>4. ASSUME NEW k \in Nat, k < Length(curMap)
        PROVE  /\ ItemAt(curMap)'[k] = ItemAt(curMap)[k] /\ k < Length(curMap)'
               /\ mapParam'[ItemAt(curMap)[k]] = mapParam[ItemAt(curMap)[k]]
    <3>1. /\ ItemAt(m)'[k] = ItemAt(m)[k] /\ k < Length(m)'
          /\ mapParam'[ItemAt(m)[k]] = mapParam[ItemAt(m)[k]]
      BY <1>1, <2>3, <2>4, AddKeepsPlaces
    <3>2. ItemAt(curMap)' = ItemAt(m)' /\ Length(curMap)' = Length(m)'
      BY <2>3
    <3> QED
      BY <2>3, <3>1, <3>2
  <2>5. ASSUME NEW k \in Nat, Reached(k) PROVE Reached(k)'
    BY <2>4, <2>5 DEF Reached
  <2>6. ASSUME NEW k \in Nat, NEW n \in Nat, Reached(k), n <= k + 1, PackedUpTo(n)
        PROVE  PackedUpTo(n)'
    <3>1. ASSUME NEW j \in 1 .. n
          PROVE  mapParam'[ItemAt(curMap)'[j - 1]] = mapParam[ItemAt(curMap)[j - 1]]
      <4>1. PICK len : len = Length(curMap)
        OBVIOUS
      <4>2. k < len /\ len \in 0 .. MaxItems
        BY <1>1, <2>1, <2>6, <4>1, PlacesAndLengths DEF Reached, Lengths
      <4>3. j - 1 \in Nat /\ j - 1 < len
        BY <2>6, <4>2, Arithmetic
      <4> QED
        BY <2>4, <4>1, <4>3
    <3> QED
      BY <2>6, <3>1 DEF PackedUpTo
  <2>7. WasDefined => WasDefined'
    BY <2>1, <2>2 DEF WasDefined
  <2>8. \A k \in Nat : Reached(k) /\ PackedUpTo(k) => Reached(k)' /\ PackedUpTo(k)'
    <3>1. \A k \in Nat : k <= k + 1
      OBVIOUS
    <3> QED
      BY <2>5, <2>6, <3>1
  <2>9. \A k \in Nat : Reached(k) /\ PackedUpTo(k + 1) => Reached(k)' /\ PackedUpTo(k + 1)'
    <3>1. \A k \in Nat : k + 1 <= k + 1 /\ k + 1 \in Nat
      OBVIOUS
    <3> QED
      BY <2>5, <2>6, <3>1
  <2> QED
    BY <1>1, <2>1, <2>2, <2>7, <2>8, <2>9 DEF Progress
<1> QED
  BY <1>2, <1>3

(* DefinedSent: while items are only added, every frame SendAll sends is   *)
(* one the map defined, as a whole and under its id, since SendAll came to *)
(* its message.                                                            *)
THEOREM SendAllSendsDefined ==
  ASSUME ~RemovesDuring, SlotIndex \subseteq 0 .. MaxMessages - 1
  PROVE  SendSpec => []DefinedSent
<1>1. SendInit => SendInv
  <2> SUFFICES ASSUME SendInit PROVE SendInv
    OBVIOUS
  <2>1. CursorInv
    BY SendInitInv
  <2>2. Types
    BY Arithmetic DEF SendInit, Types
  <2>3. Progress
    BY DEF SendInit, Progress
  <2> QED
    BY <2>1, <2>2, <2>3 DEF SendInv
<1>2. ASSUME SendInv, [SendNext]_vars2
      PROVE  SendInv'
  <2>1. CursorInv' /\ Types' /\ MapInv'
    BY <1>2, CursorStep, SendTypes DEF SendInv, CursorInv
  <2>2. CASE SendAll
    <3>1. UNCHANGED vars
      BY <2>2 DEF SendAll, TestMessage, FirstItem, TestItem, Pack, NextItem, SendMessage
    <3> QED
      BY <1>2, <2>1, <2>2, <3>1, SendAllProgress DEF SendInv
  <2>3. CASE Receive
    <3>1. ASSUME NEW dir \in Dirs, NEW param \in Params, NEW id \in Ids, Add(dir, param, id)
          PROVE  Progress'
      BY <1>2, <2>1, <2>3, <3>1, AddProgress DEF Receive
    <3>2. ASSUME BetweenRounds PROVE Progress'
      BY <2>3, <3>2 DEF Receive, BetweenRounds, Progress
    <3> QED
      BY <2>1, <2>3, <3>1, <3>2 DEF Receive, SendInv
  <2>4. CASE UNCHANGED vars2
    <3>1. UNCHANGED vars
      BY <2>4 DEF vars2
    <3>2. Progress'
      BY <1>2, <2>1, <2>4, <3>1, StutterProgress
    <3> QED
      BY <2>1, <3>2 DEF SendInv
  <2> QED
    BY <1>2, <2>2, <2>3, <2>4 DEF SendNext
<1>3. SendInv => DefinedSent
  <2> SUFFICES ASSUME SendInv PROVE DefinedSent
    OBVIOUS
  <2>1. SendTypeOK
    BY DEF SendInv, CursorInv, MapInv, Cursor, Types, SendTypeOK
  <2>2. SentWasDefined
    BY DEF SendInv, Progress, WasDefined, SentWasDefined
  <2> QED
    BY <2>1, <2>2 DEF DefinedSent
<1> QED
  BY <1>1, <1>2, <1>3, PTL DEF SendSpec
-------------------------------------------------------------------------------
(* The dialog that maps.                                                   *)

(* The dialog of one client.  Once a wish is mapped, its last request finds *)
(* no length left; and what the last request may map has been looked at.   *)
DialogInv ==
  /\ mapId \in Ids \cup {Extended, NoId} /\ mapInfo \in ItemWord
  /\ wish \in [Clients -> Wish] /\ step \in [Clients -> 0 .. Refused]
  /\ times \in [Clients -> 0 .. 1]
  /\ \A c \in Clients :
       /\ times[c] = 1 => step[c] \notin {0, 1}
       /\ step[c] = 2 => \/ mapInfo.length = "none"
                         \/ times[c] = 0 /\ mapInfo.param # Unknown

MappingInv == MapInv /\ DialogInv /\ OnlyKnownMapped

(* Adding a parameter that exists, and removing any, leaves only           *)
(* parameters mapped that exist.                                           *)
LEMMA AddKeepsKnown ==
  ASSUME MapInv, OnlyKnownMapped, NEW dir \in Dirs, NEW param \in Params, NEW id \in Ids,
         param # Unknown, Add(dir, param, id)
  PROVE  OnlyKnownMapped'
<1> USE Arithmetic
<1>1. /\ next \in [0 .. End -> Item \cup {End, Unset}]
      /\ mapParam \in [0 .. End -> Params \cup {NoParam}]
  BY DEF MapInv, TypeOK
<1>2. CASE UNCHANGED <<next, mapParam>>
  BY <1>2 DEF OnlyKnownMapped
<1>3. ASSUME NEW m, NEW i \in Least(FreeItems), AddLink(m, i),
             mapParam' = [mapParam EXCEPT ![i] = param]
      PROVE  OnlyKnownMapped'
  <2>1. i \in Item /\ i \in 0 .. End
    BY DEF Least, FreeItems
  <2>2. \A j \in Item : next'[j] # Unset => j = i \/ next[j] # Unset
    <3>1. CASE next' = [next EXCEPT ![i] = End]
      BY <1>1, <2>1, <3>1
    <3>2. ASSUME NEW preceding \in LastOf(m),
                 next' = [next EXCEPT ![i] = End, ![preceding] = i]
          PROVE  \A j \in Item : next'[j] # Unset => j = i \/ next[j] # Unset
      <4>1. preceding \in Item /\ next[preceding] = End
        BY DEF LastOf
      <4> QED
        BY <1>1, <2>1, <3>2, <4>1
    <3> QED
      BY <1>3, <3>1, <3>2 DEF AddLink
  <2>3. \A j \in Item : j \in 0 .. End /\ mapParam'[j] = IF j = i THEN param ELSE mapParam[j]
    BY <1>1, <1>3, <2>1
  <2> QED
    BY <2>2, <2>3 DEF OnlyKnownMapped
<1> QED
  BY <1>2, <1>3 DEF Add

LEMMA RemoveKeepsKnown ==
  ASSUME MapInv, OnlyKnownMapped, NEW dir \in Dirs, NEW index \in 0 .. MaxMessages - 1,
         NEW k \in Item, Remove(dir, index, k)
  PROVE  OnlyKnownMapped'
<1> USE Arithmetic
<1> DEFINE slot == RemovalSlot(dir, index)
<1>1. TypeOK /\ next \in [0 .. End -> Item \cup {End, Unset}] /\ slot \in Slots
  BY DEF MapInv, TypeOK, Remove, MayRemove
<1>2. PICK path \in Walk(slot, k) :
        \/ k > 0 /\ next' = [next EXCEPT ![path[k - 1]] = next[path[k]], ![path[k]] = Unset]
        \/ next' = [next EXCEPT ![path[k]] = Unset]
  BY DEF Remove
<1>3. /\ path[k] \in Item
      /\ k > 0 => path[k - 1] \in Item /\ next[path[k - 1]] = path[k]
  <2> HIDE DEF slot
  <2>1. TypeOK /\ slot \in Slots
    BY <1>1
  <2> QED
    BY <2>1, WalkFinds
<1>4. \A j \in Item : next'[j] # Unset => next[j] # Unset
  <2>1. CASE next' = [next EXCEPT ![path[k]] = Unset]
    BY <1>1, <1>3, <2>1
  <2>2. CASE k > 0 /\ next' = [next EXCEPT ![path[k - 1]] = next[path[k]], ![path[k]] = Unset]
    BY <1>1, <1>3, <2>2
  <2> QED
    BY <1>2, <2>1, <2>2
<1>5. mapParam' = mapParam
  BY DEF Remove
<1> QED
  BY <1>4, <1>5 DEF OnlyKnownMapped

(* At first nothing is mapped and no client was answered.                  *)
LEMMA MappingInitInv == MappingInit => MappingInv
<1> SUFFICES ASSUME MappingInit PROVE MappingInv
  OBVIOUS
<1>1. MapInv /\ OnlyKnownMapped
  BY InitInv, Arithmetic DEF MappingInit, Init, NoItems, OnlyKnownMapped
<1>2. DialogInv
  BY MappingAssumption DEF MappingInit, DialogInv, Refused
<1> QED
  BY <1>1, <1>2 DEF MappingInv

(* One request, answered or not.                                           *)
LEMMA AskInv ==
  ASSUME ~GoesOn, NEW c \in Clients, Clients = {c}, MappingInv,
         NEW delivered \in BOOLEAN, Ask(c, delivered)
  PROVE  MappingInv'
<1> DEFINE ok == Accepted(step[c], wish[c])
<1>1. /\ DialogInv /\ MapInv /\ OnlyKnownMapped
      /\ wish[c] \in Wish /\ step[c] \in 0 .. 2 /\ times[c] \in 0 .. 1
      /\ wish[c].item \in ItemWord /\ wish[c].id \in CobIds /\ wish[c].dir \in Dirs
      /\ mapInfo \in ItemWord /\ mapId \in Ids \cup {Extended, NoId}
  BY DEF MappingInv, DialogInv, Ask, Wish
<1>2. /\ step' = [step EXCEPT ![c] = StepAfter(c, ok, delivered)]
      /\ times' = IF ok /\ step[c] = 2 THEN [times EXCEPT ![c] = @ + 1] ELSE times
      /\ wish' = wish
  BY DEF Ask
<1>3. CASE step[c] = 0
  <2>1. WriteCobId(wish[c].id) /\ (ok <=> wish[c].id # TooLarge)
    BY <1>3 DEF Ask, Write, Accepted, CobIdAccepted
  <2>2. MapInv' /\ OnlyKnownMapped'
    BY <1>1, <2>1, MapUnchanged DEF WriteCobId, vars, OnlyKnownMapped
  <2>3. mapId' \in Ids \cup {Extended, NoId} /\ mapInfo' = mapInfo
    BY <1>1, <2>1, MappingAssumption DEF WriteCobId
  <2>4. StepAfter(c, ok, delivered) \in {0, 1, Refused} /\ times' = times /\ times[c] = 0
    BY <1>1, <1>2, <1>3 DEF StepAfter, DialogInv, Refused
  <2>5. step' \in [Clients -> 0 .. Refused] /\ step'[c] # 2
    BY <1>1, <1>2, <2>4 DEF DialogInv, Refused
  <2>6. DialogInv'
    BY <1>1, <1>2, <2>3, <2>4, <2>5 DEF DialogInv
  <2> QED
    BY <2>2, <2>6 DEF MappingInv
<1>4. CASE step[c] = 1
  <2>1. WriteItem(wish[c].item) /\ (ok <=> mapId # NoId /\ wish[c].item.param # Unknown)
    BY <1>4 DEF Ask, Write, Accepted, ItemAccepted
  <2>2. MapInv' /\ OnlyKnownMapped'
    BY <1>1, <2>1, MapUnchanged DEF WriteItem, vars, OnlyKnownMapped
  <2>3. mapId' = mapId /\ mapInfo' \in ItemWord /\ (ok => mapInfo'.param # Unknown)
    BY <1>1, <2>1 DEF WriteItem
  <2>4. /\ StepAfter(c, ok, delivered) \in {1, 2, Refused}
        /\ StepAfter(c, ok, delivered) = 2 => ok
        /\ times' = times /\ times[c] = 0
    BY <1>1, <1>2, <1>4 DEF StepAfter, DialogInv, Refused
  <2>5. step' \in [Clients -> 0 .. Refused] /\ (step'[c] = 2 => ok)
    BY <1>1, <1>2, <2>4 DEF DialogInv, Refused
  <2>6. DialogInv'
    BY <1>1, <1>2, <2>3, <2>4, <2>5 DEF DialogInv
  <2> QED
    BY <2>2, <2>6 DEF MappingInv
<1>5. CASE step[c] = 2
  <2>1. /\ WriteGain(wish[c].dir)
        /\ ok => mapInfo.length # "none"
    BY <1>5 DEF Ask, Write, Accepted
  <2>2. mapInfo.length # "none" => times[c] = 0 /\ mapInfo.param # Unknown
    BY <1>1, <1>5 DEF DialogInv
  <2>3. MapInv' /\ OnlyKnownMapped'
    <3>1. CASE UNCHANGED vars
      BY <1>1, <3>1, MapUnchanged DEF vars, OnlyKnownMapped
    <3>2. CASE /\ mapInfo.length # "none" /\ FitsMap(wish[c].dir)
               /\ Add(wish[c].dir, mapInfo.param, mapId)
      <4>1. mapId \in Ids /\ mapInfo.param \in Params
        BY <1>1, <3>2 DEF FitsMap, ItemWord
      <4> QED
        BY <1>1, <2>2, <3>2, <4>1, AddInv, AddKeepsKnown
    <3> QED
      BY <2>1, <3>1, <3>2 DEF WriteGain
  <2>4. /\ mapInfo' \in ItemWord /\ mapInfo'.length = "none"
        /\ mapId' \in Ids \cup {Extended, NoId}
    BY <1>1, <2>1 DEF WriteGain, sdo, ItemWord
  <2>5. StepAfter(c, ok, delivered) \in {2, 3, Refused}
    BY <1>5 DEF StepAfter, Refused
  <2>6. step' \in [Clients -> 0 .. Refused] /\ step'[c] \notin {0, 1}
    BY <1>1, <1>2, <2>5 DEF DialogInv, Refused
  <2>7. times' \in [Clients -> 0 .. 1]
    BY <1>1, <1>2, <2>1, <2>2 DEF DialogInv
  <2>8. DialogInv'
    BY <1>1, <1>2, <2>4, <2>6, <2>7 DEF DialogInv
  <2> QED
    BY <2>3, <2>8 DEF MappingInv
<1> QED
  BY <1>1, <1>3, <1>4, <1>5

(* With one client that starts over after a refusal, what it was told is   *)
(* mapped is there once, and all that is mapped exists, for every size of  *)
(* the map and however often requests are repeated and dialogs abandoned.  *)
THEOREM MappingIsSound ==
  ASSUME ~GoesOn, \E c : Clients = {c}, SlotIndex \subseteq 0 .. MaxMessages - 1
  PROVE  MappingSpec => []MappingSound
<1>1. ASSUME MappingInv, [MappingNext]_allVars
      PROVE  MappingInv'
  <2>1. ASSUME NEW c \in Clients, Begin(c)
        PROVE  MappingInv'
    <3>1. MapInv' /\ OnlyKnownMapped'
      BY <1>1, <2>1, MapUnchanged DEF Begin, MappingInv, vars, OnlyKnownMapped
    <3>2. PICK w \in Wish : wish' = [wish EXCEPT ![c] = w]
      BY <2>1 DEF Begin
    <3>3. DialogInv'
      BY <1>1, <2>1, <3>2 DEF Begin, MappingInv, DialogInv, sdo, Refused
    <3> QED
      BY <3>1, <3>3 DEF MappingInv
  <2>2. ASSUME NEW c \in Clients, NEW delivered \in BOOLEAN, Ask(c, delivered)
        PROVE  MappingInv'
    <3>1. Clients = {c}
      OBVIOUS
    <3> QED
      BY <1>1, <2>2, <3>1, AskInv
  <2>3. ASSUME NEW dir \in Dirs, NEW index \in SlotIndex, NEW k \in Item,
               DeleteItem(dir, index, k)
        PROVE  MappingInv'
    <3>1. MapInv' /\ OnlyKnownMapped'
      BY <1>1, <2>3, RemoveInv, RemoveKeepsKnown DEF DeleteItem, MappingInv
    <3>2. DialogInv'
      BY <1>1, <2>3 DEF DeleteItem, MappingInv, DialogInv, sdo, client
    <3> QED
      BY <3>1, <3>2 DEF MappingInv
  <2>4. CASE UNCHANGED allVars
    <3>1. UNCHANGED vars
      BY <2>4 DEF allVars
    <3>2. MapInv' /\ OnlyKnownMapped'
      BY <1>1, <3>1, MapUnchanged DEF MappingInv, vars, OnlyKnownMapped
    <3>3. DialogInv'
      BY <1>1, <2>4 DEF allVars, MappingInv, DialogInv, sdo, client
    <3> QED
      BY <3>2, <3>3 DEF MappingInv
  <2> QED
    BY <1>1, <2>1, <2>2, <2>3, <2>4 DEF MappingNext
<1>2. MappingInv => MappingSound
  <2> SUFFICES ASSUME MappingInv PROVE MappingSound
    OBVIOUS
  <2>1. MappingTypeOK
    BY DEF MappingInv, DialogInv, MapInv, MappingTypeOK
  <2>2. MappedOnce
    BY DEF MappingInv, DialogInv, MappedOnce
  <2> QED
    BY <2>1, <2>2 DEF MappingInv, MappingSound
<1> QED
  BY <1>1, <1>2, MappingInitInv, PTL DEF MappingSpec

(* What the requests of clients have brought about. *)
MappingTyped == MapInv /\ MappingTypeOK

(* Every request, of any number of clients, keeps the map intact.          *)
LEMMA MappingTypedHolds ==
  ASSUME SlotIndex \subseteq 0 .. MaxMessages - 1
  PROVE  MappingTyped /\ [MappingNext]_allVars => MappingTyped'
<1> SUFFICES ASSUME MappingTyped, [MappingNext]_allVars PROVE MappingTyped'
  OBVIOUS
<1>1. /\ MapInv /\ mapId \in Ids \cup {Extended, NoId} /\ mapInfo \in ItemWord
      /\ wish \in [Clients -> Wish] /\ step \in [Clients -> 0 .. Refused]
  BY DEF MappingTyped, MappingTypeOK
<1>2. ASSUME MapInv', mapId' \in Ids \cup {Extended, NoId}, mapInfo' \in ItemWord,
             wish' \in [Clients -> Wish], step' \in [Clients -> 0 .. Refused]
      PROVE  MappingTyped'
  BY <1>2 DEF MappingTyped, MappingTypeOK, MapInv
<1>3. ASSUME NEW c \in Clients, Begin(c) PROVE MappingTyped'
  <2>1. MapInv' /\ mapId' = mapId /\ mapInfo' = mapInfo
    BY <1>1, <1>3, MapUnchanged DEF Begin, vars, sdo
  <2>2. wish' \in [Clients -> Wish] /\ step' \in [Clients -> 0 .. Refused]
    BY <1>1, <1>3 DEF Begin, Refused
  <2> QED
    BY <1>1, <1>2, <2>1, <2>2
<1>4. ASSUME NEW c \in Clients, NEW delivered \in BOOLEAN, Ask(c, delivered)
      PROVE  MappingTyped'
  <2>1. /\ wish' = wish /\ step[c] \in 0 .. 2 /\ wish[c] \in Wish
        /\ wish[c].id \in CobIds /\ wish[c].item \in ItemWord /\ wish[c].dir \in Dirs
    BY <1>1, <1>4 DEF Ask, Wish
  <2>2. step' \in [Clients -> 0 .. Refused]
    <3>1. StepAfter(c, Accepted(step[c], wish[c]), delivered) \in 0 .. Refused
      BY <2>1 DEF StepAfter, Refused
    <3> QED
      BY <1>1, <1>4, <3>1 DEF Ask
  <2>3. CASE step[c] = 0
    <3>1. WriteCobId(wish[c].id)
      BY <1>4, <2>3 DEF Ask, Write
    <3>2. MapInv'
      BY <1>1, <3>1, MapUnchanged DEF WriteCobId, vars
    <3>3. mapId' \in Ids \cup {Extended, NoId} /\ mapInfo' = mapInfo
      BY <2>1, <3>1, MappingAssumption DEF WriteCobId
    <3> QED
      BY <1>1, <1>2, <2>1, <2>2, <3>2, <3>3
  <2>4. CASE step[c] = 1
    <3>1. WriteItem(wish[c].item)
      BY <1>4, <2>4 DEF Ask, Write
    <3>2. MapInv'
      BY <1>1, <3>1, MapUnchanged DEF WriteItem, vars
    <3>3. mapId' = mapId /\ mapInfo' \in ItemWord
      BY <1>1, <2>1, <3>1 DEF WriteItem
    <3> QED
      BY <1>1, <1>2, <2>1, <2>2, <3>2, <3>3
  <2>5. CASE step[c] = 2
    <3>1. WriteGain(wish[c].dir)
      BY <1>4, <2>5 DEF Ask, Write
    <3>2. MapInv'
      <4>1. CASE UNCHANGED vars
        BY <1>1, <4>1, MapUnchanged
      <4>2. CASE FitsMap(wish[c].dir) /\ Add(wish[c].dir, mapInfo.param, mapId)
        <5>1. mapId \in Ids /\ mapInfo.param \in Params
          BY <1>1, <4>2 DEF FitsMap, ItemWord
        <5> QED
          BY <1>1, <2>1, <4>2, <5>1, AddInv
      <4> QED
        BY <3>1, <4>1, <4>2 DEF WriteGain
    <3>3. mapInfo' \in ItemWord /\ mapId' \in Ids \cup {Extended, NoId}
      BY <1>1, <3>1 DEF WriteGain, sdo, ItemWord
    <3> QED
      BY <1>1, <1>2, <2>1, <2>2, <3>2, <3>3
  <2> QED
    BY <2>1, <2>3, <2>4, <2>5
<1>5. ASSUME NEW dir \in Dirs, NEW index \in SlotIndex, NEW k \in Item,
             DeleteItem(dir, index, k)
      PROVE  MappingTyped'
  <2>1. MapInv' /\ UNCHANGED <<mapId, mapInfo, wish, step>>
    BY <1>1, <1>5, RemoveInv DEF DeleteItem, sdo, client
  <2> QED
    BY <1>1, <1>2, <2>1
<1>6. CASE UNCHANGED allVars
  <2>1. MapInv' /\ UNCHANGED <<mapId, mapInfo, wish, step>>
    BY <1>1, <1>6, MapUnchanged DEF allVars, sdo, client
  <2> QED
    BY <1>1, <1>2, <2>1
<1> QED
  BY <1>3, <1>4, <1>5, <1>6 DEF MappingNext

(* Nothing that keeps the map changes a table. *)
LEMMA UnchangedTables ==
  ASSUME MapInv, UNCHANGED vars PROVE \A d \in Dirs : TableOf(d)' = TableOf(d)
<1>1. MapInv'
  BY MapUnchanged
<1>2. \A d \in Dirs : \A n \in SlotsOf(d) : Kept(n) /\ canId'[n] = canId[n]
  BY DEF Kept, vars
<1> QED
  BY <1>1, <1>2, TableKept

(* A request that is refused changes no table.                             *)
LEMMA RefusedKeepsTables ==
  ASSUME MappingTyped, NEW c \in Clients, NEW delivered \in BOOLEAN,
         Ask(c, delivered), ~Accepted(step[c], wish[c])
  PROVE  \A d \in Dirs : TableOf(d)' = TableOf(d)
<1>1. /\ MapInv /\ mapInfo \in ItemWord /\ step[c] \in 0 .. 2 /\ wish[c].dir \in Dirs
  BY DEF MappingTyped, MappingTypeOK, Ask, Wish
<1>2. CASE step[c] = 0 \/ step[c] = 1
  <2>1. UNCHANGED vars
    <3>1. CASE step[c] = 0
      BY <3>1 DEF Ask, Write, WriteCobId
    <3>2. CASE step[c] = 1
      BY <3>2 DEF Ask, Write, WriteItem
    <3> QED
      BY <1>2, <3>1, <3>2
  <2> QED
    BY <1>1, <2>1, UnchangedTables
<1>3. CASE step[c] = 2
  <2>1. WriteGain(wish[c].dir) /\ ~(mapInfo.length # "none" /\ GainAccepted(wish[c].dir))
    BY <1>3 DEF Ask, Write, Accepted
  <2>2. CASE UNCHANGED vars
    BY <1>1, <2>2, UnchangedTables
  <2>3. CASE mapInfo.length # "none" /\ FitsMap(wish[c].dir) /\ Add(wish[c].dir, mapInfo.param, mapId)
    <3>1. FreeItems = {} /\ mapId \in Ids /\ mapInfo.param \in Params
      BY <1>1, <2>1, <2>3 DEF GainAccepted, FitsMap, ItemWord
    <3>2. PICK m \in Target(wish[c].dir, mapId) :
            /\ canId' = IF WithId(wish[c].dir, mapId) = {} THEN [canId EXCEPT ![m] = mapId] ELSE canId
            /\ UNCHANGED <<first, next, mapParam>>
      BY <2>3, <3>1 DEF Add, Least
    <3>3. MapInv'
      BY <1>1, <2>3, <3>1, AddInv
    <3> QED
      BY <1>1, <3>1, <3>2, <3>3, AddsNothing
  <2> QED
    BY <2>1, <2>2, <2>3 DEF WriteGain
<1> QED
  BY <1>1, <1>2, <1>3

(* A parameter that is added ends the list of its id. *)
LEMMA AddedIsLast ==
  ASSUME MapInv, NEW m \in Slots, NEW i \in Item, next[i] = Unset, AddLink(m, i)
  PROVE  i \in LastOf(m)' /\ first'[m] # End
<1> USE Arithmetic
<1>1. /\ first \in [Slots -> Item \cup {End}]
      /\ next \in [0 .. End -> Item \cup {End, Unset}] /\ i \in 0 .. End
  BY DEF MapInv, TypeOK
<1>2. CASE first' = [first EXCEPT ![m] = i] /\ next' = [next EXCEPT ![i] = End]
  <2>1. PICK path : path = [j \in 0 .. 0 |-> i]
    OBVIOUS
  <2>2. path \in [0 .. 0 -> Item] /\ path[0] = i /\ 0 \in Item
    <3>1. 0 \in Item
      BY DEF Item
    <3>2. \A j \in 0 .. 0 : path[j] = i
      BY <2>1
    <3> QED
      BY <2>1, <3>1, <3>2
  <2>3. first'[m] = i /\ next'[i] = End
    BY <1>1, <1>2
  <2>4. path \in Walk(m, 0)'
    BY <2>1, <2>2, <2>3 DEF Walk
  <2> QED
    BY <2>2, <2>3, <2>4 DEF LastOf
<1>3. ASSUME NEW p \in LastOf(m), next' = [next EXCEPT ![i] = End, ![p] = i], first' = first
      PROVE  i \in LastOf(m)' /\ first'[m] # End
  <2>1. p \in Item /\ next[p] = End /\ p # i /\ p \in 0 .. End
    BY <1>1 DEF LastOf
  <2>2. PICK k \in Item : \E path \in Walk(m, k) : path[k] = p
    BY DEF LastOf
  <2>3. PICK path \in Walk(m, k) : path[k] = p
    BY <2>2
  <2>4. /\ path \in [0 .. k -> Item] /\ path[0] = first[m] /\ k \in Nat
        /\ \A j \in 0 .. k : next[path[j]] # Unset
        /\ \A j \in 0 .. k - 1 : path[j + 1] = next[path[j]]
    BY DEF Walk
  <2>5. k + 1 \in Item
    <3>1. k < Length(m) /\ Length(m) < MaxItems /\ Length(m) \in 0 .. MaxItems
      BY WalkIsList, RoomForOne, LengthFacts
    <3>2. PICK len : len = Length(m)
      OBVIOUS
    <3> QED
      BY <2>4, <3>1, <3>2 DEF Item
  <2>6. /\ next'[i] = End /\ next'[p] = i /\ first'[m] = first[m]
        /\ \A j \in Item : j # i /\ j # p => next'[j] = next[j]
    BY <1>1, <1>3, <2>1
  <2>7. ASSUME NEW j \in 0 .. k - 1 PROVE path[j] # p /\ path[j] # i /\ path[j] \in Item
    <3>1. j \in 0 .. k /\ j + 1 \in 0 .. k /\ j # k
      BY <2>4
    <3>2. path[j] \in Item /\ path[j + 1] = next[path[j]] /\ path[j + 1] \in Item
      BY <2>4, <3>1
    <3> QED
      BY <2>1, <3>2
  <2>8. PICK new : new = [j \in 0 .. k + 1 |-> IF j = k + 1 THEN i ELSE path[j]]
    OBVIOUS
  <2>9. /\ new \in [0 .. k + 1 -> Item] /\ new[0] = first'[m] /\ new[k + 1] = i
        /\ \A j \in 0 .. k : new[j] = path[j]
    BY <2>4, <2>6, <2>8
  <2>10. ASSUME NEW j \in 0 .. k + 1 PROVE next'[new[j]] # Unset
    <3>1. j = k + 1 \/ j = k \/ j \in 0 .. k - 1
      BY <2>4
    <3>2. k \in 0 .. k /\ (j \in 0 .. k - 1 => j \in 0 .. k)
      BY <2>4
    <3>3. CASE j = k + 1
      BY <2>6, <2>9, <3>3
    <3>4. CASE j = k
      BY <2>3, <2>6, <2>9, <3>2, <3>4
    <3>5. CASE j \in 0 .. k - 1
      <4>1. j \in 0 .. k /\ new[j] = path[j] /\ next[path[j]] # Unset
        BY <2>4, <2>9, <3>2, <3>5
      <4>2. next'[path[j]] = next[path[j]]
        BY <2>6, <2>7, <3>5
      <4> QED
        BY <4>1, <4>2
    <3> QED
      BY <3>1, <3>3, <3>4, <3>5
  <2>11. ASSUME NEW j \in 0 .. (k + 1) - 1 PROVE new[j + 1] = next'[new[j]]
    <3>1. j = k \/ j \in 0 .. k - 1
      BY <2>4
    <3>2. k \in 0 .. k /\ (j \in 0 .. k - 1 => j \in 0 .. k /\ j + 1 \in 0 .. k)
      BY <2>4
    <3>3. CASE j = k
      BY <2>3, <2>6, <2>9, <3>2, <3>3
    <3>4. CASE j \in 0 .. k - 1
      <4>1. new[j] = path[j] /\ new[j + 1] = path[j + 1]
        BY <2>9, <3>2, <3>4
      <4> QED
        BY <2>4, <2>6, <2>7, <3>4, <4>1
    <3> QED
      BY <3>1, <3>3, <3>4
  <2>12. new \in Walk(m, k + 1)'
    BY <2>9, <2>10, <2>11 DEF Walk
  <2>13. first'[m] # End
    BY <2>4, <2>6
  <2> QED
    BY <2>5, <2>6, <2>9, <2>12, <2>13 DEF LastOf
<1> QED
  BY <1>2, <1>3 DEF AddLink

(* The messages of a map are the slots whose list has begun.               *)
UsedAre == \A dir \in Dirs : Used(dir) = { m \in SlotsOf(dir) : first[m] # End }
LEMMA UsedAreThose == MapInv => UsedAre
  BY UsedSlots DEF MapInv, UsedAre

(* What the fields hold between the requests of one client. *)
FieldsInv ==
  \A c \in Clients :
    /\ times[c] \in Nat
    /\ step[c] = 1 => mapId = wish[c].id
    /\ step[c] = 2 /\ mapInfo.length # "none" =>
         mapId = wish[c].id /\ mapInfo = wish[c].item

(* The last request, accepted, leaves the wish at the end of its message.  *)
LEMMA MappedIsWish ==
  ASSUME MappingTyped, FieldsInv, NEW c \in Clients, NEW delivered \in BOOLEAN,
         Ask(c, delivered), Accepted(step[c], wish[c]), step[c] = 2
  PROVE  Mapped(wish[c])'
<1>1. /\ MapInv /\ mapInfo \in ItemWord /\ wish[c].dir \in Dirs /\ wish' = wish
  BY DEF MappingTyped, MappingTypeOK, Ask, Wish
<1>2. /\ mapInfo.length # "none" /\ FitsMap(wish[c].dir) /\ FreeItems # {}
      /\ Add(wish[c].dir, mapInfo.param, mapId)
  BY DEF Ask, Write, WriteGain, Accepted, GainAccepted
<1>3. mapId = wish[c].id /\ mapInfo = wish[c].item
  BY <1>2 DEF FieldsInv
<1>4. PICK w : w = wish[c] /\ wish'[c] = w /\ mapId = w.id /\ mapInfo = w.item
  BY <1>1, <1>3
<1>5. w.dir \in Dirs /\ w.id \in Ids /\ w.item.param \in Params
  BY <1>1, <1>2, <1>4 DEF FitsMap, ItemWord
<1>6. MapInv'
  BY <1>1, <1>2, <1>4, <1>5, AddInv
<1>7. PICK m \in Target(w.dir, w.id) :
        /\ canId' = IF WithId(w.dir, w.id) = {} THEN [canId EXCEPT ![m] = w.id] ELSE canId
        /\ \E i \in Least(FreeItems) :
             mapParam' = [mapParam EXCEPT ![i] = w.item.param] /\ AddLink(m, i)
  BY <1>2, <1>4 DEF Add
<1>8. PICK i \in Item : next[i] = Unset /\ mapParam' = [mapParam EXCEPT ![i] = w.item.param]
                       /\ AddLink(m, i)
  BY <1>7 DEF Least, FreeItems
<1>9. m \in SlotsOf(w.dir) /\ m \in Slots
  BY <1>1, <1>5, TargetFinds
<1>10. i \in LastOf(m)' /\ first'[m] # End
  BY <1>1, <1>8, <1>9, AddedIsLast
<1>11. SameId(canId'[m], w.id)
  <2>1. CASE WithId(w.dir, w.id) = {}
    BY <1>1, <1>7, <1>9, <2>1 DEF MapInv, TypeOK, SameId
  <2>2. CASE WithId(w.dir, w.id) # {}
    BY <1>7, <2>2 DEF Target, Least, WithId
  <2> QED
    BY <2>1, <2>2
<1>12. m \in Used(w.dir)'
  <2>1. (MapInv => UsedAre)'
    BY UsedAreThose, PTL
  <2> QED
    BY <1>5, <1>6, <1>9, <1>10, <2>1 DEF UsedAre
<1>13. m \in WithId(w.dir, w.id)'
  BY <1>11, <1>12 DEF WithId
<1>14. mapParam'[i] = w.item.param
  BY <1>1, <1>8, Arithmetic DEF MapInv, TypeOK
<1> QED
  BY <1>4, <1>10, <1>13, <1>14 DEF Mapped

(* Every request keeps the fields those of its dialog.                     *)
LEMMA FieldsKept ==
  ASSUME ~GoesOn, NEW c \in Clients, Clients = {c}, MappingTyped, FieldsInv, times \in [Clients -> Nat],
         NEW delivered \in BOOLEAN, Ask(c, delivered)
  PROVE  FieldsInv'
<1>1. /\ mapInfo \in ItemWord /\ wish \in [Clients -> Wish] /\ step \in [Clients -> 0 .. Refused]
      /\ times[c] \in Nat /\ wish' = wish
  BY DEF MappingTyped, MappingTypeOK, FieldsInv, Ask
<1>2. PICK ok \in BOOLEAN : ok <=> Accepted(step[c], wish[c])
  OBVIOUS
<1>3. times'[c] \in Nat
  <2>1. times' = times \/ times' = [times EXCEPT ![c] = @ + 1]
    BY DEF Ask
  <2> QED
    BY <1>1, <2>1
<1>4. step'[c] = StepAfter(c, Accepted(step[c], wish[c]), delivered)
  BY <1>1 DEF Ask
<1>5. ASSUME step'[c] = 1 => mapId' = wish[c].id,
             step'[c] = 2 /\ mapInfo'.length # "none" =>
               mapId' = wish[c].id /\ mapInfo' = wish[c].item
      PROVE  FieldsInv'
  BY <1>1, <1>3, <1>5 DEF FieldsInv
<1>6. CASE step[c] = 0
  <2>1. WriteCobId(wish[c].id) /\ (Accepted(step[c], wish[c]) => wish[c].id # TooLarge)
    BY <1>6 DEF Ask, Write, Accepted, CobIdAccepted
  <2>2. step'[c] = 1 => Accepted(step[c], wish[c])
    BY <1>4, <1>6 DEF StepAfter, Refused
  <2>3. step'[c] # 2
    BY <1>4, <1>6 DEF StepAfter, Refused
  <2>4. step'[c] = 1 => mapId' = wish[c].id
    BY <2>1, <2>2 DEF WriteCobId
  <2> QED
    BY <1>5, <2>3, <2>4
<1>7. CASE step[c] = 1
  <2>1. WriteItem(wish[c].item) /\ (Accepted(step[c], wish[c]) => mapId # NoId)
    BY <1>7 DEF Ask, Write, Accepted, ItemAccepted
  <2>2. step'[c] = 2 => Accepted(step[c], wish[c])
    BY <1>4, <1>7 DEF StepAfter, Refused
  <2>3. mapId' = wish[c].id
    BY <1>7, <2>1 DEF FieldsInv, WriteItem
  <2>4. Accepted(step[c], wish[c]) => mapInfo' = wish[c].item
    BY <2>1 DEF WriteItem
  <2> QED
    BY <1>5, <2>2, <2>3, <2>4
<1>8. CASE step[c] = 2
  <2>1. WriteGain(wish[c].dir)
    BY <1>8 DEF Ask, Write
  <2>2. mapInfo'.length = "none"
    BY <1>1, <2>1 DEF WriteGain, sdo, ItemWord
  <2>3. step'[c] # 1
    BY <1>4, <1>8 DEF StepAfter, Refused
  <2> QED
    BY <1>5, <2>2, <2>3
<1> QED
  BY <1>6, <1>7, <1>8 DEF Ask

(* The invariant behind AnswersAreTrue.                                    *)
AnswersInv == MappingTyped /\ FieldsInv /\ times \in [Clients -> Nat]

(* AnswersTrue: with one client that starts over after a refusal, a        *)
(* request that is accepted has mapped what was asked for and one that is  *)
(* refused has changed nothing.                                            *)
THEOREM AnswersAreTrue ==
  ASSUME ~GoesOn, \E c : Clients = {c}, SlotIndex \subseteq 0 .. MaxMessages - 1
  PROVE  MappingSpec => AnswersTrue
<1>1. MappingInit => AnswersInv
  <2> SUFFICES ASSUME MappingInit PROVE AnswersInv
    OBVIOUS
  <2>1. MapInv
    BY InitInv DEF MappingInit
  <2>2. MappingTyped
    BY <2>1, MappingAssumption DEF MappingInit, MappingTyped, MappingTypeOK, MapInv, Refused
  <2>3. FieldsInv /\ times \in [Clients -> Nat]
    BY DEF MappingInit, FieldsInv, Refused
  <2> QED
    BY <2>2, <2>3 DEF AnswersInv
<1>2. ASSUME AnswersInv, [MappingNext]_allVars
      PROVE  AnswersInv'
  <2>1. MappingTyped'
    BY <1>2, MappingTypedHolds DEF AnswersInv
  <2>2. ASSUME NEW c \in Clients, Begin(c)
        PROVE  FieldsInv' /\ times' \in [Clients -> Nat]
    <3>1. Clients = {c}
      OBVIOUS
    <3>2. step'[c] = 0 /\ times' \in [Clients -> Nat]
      BY <1>2, <2>2 DEF Begin, AnswersInv, MappingTyped, MappingTypeOK
    <3> QED
      BY <3>1, <3>2 DEF FieldsInv
  <2>3. ASSUME NEW c \in Clients, NEW delivered \in BOOLEAN, Ask(c, delivered)
        PROVE  FieldsInv' /\ times' \in [Clients -> Nat]
    <3>1. Clients = {c}
      OBVIOUS
    <3>2. FieldsInv'
      BY <1>2, <2>3, <3>1, FieldsKept DEF AnswersInv
    <3>3. times' = times \/ times' = [times EXCEPT ![c] = @ + 1]
      BY <2>3 DEF Ask
    <3> QED
      BY <1>2, <3>2, <3>3 DEF AnswersInv
  <2>4. ASSUME UNCHANGED <<sdo, client, times>>
        PROVE  FieldsInv' /\ times' \in [Clients -> Nat]
    BY <1>2, <2>4 DEF AnswersInv, FieldsInv, sdo, client
  <2> QED
    BY <1>2, <2>1, <2>2, <2>3, <2>4 DEF MappingNext, AnswersInv, DeleteItem, allVars
<1>3. ASSUME AnswersInv, [MappingNext]_allVars, NEW c \in Clients, times'[c] > times[c]
      PROVE  Mapped(wish[c])'
  <2>1. times[c] \in Nat /\ times'[c] # times[c] /\ times'[c] # 0 /\ Clients = {c}
    BY <1>3 DEF AnswersInv
  <2>2. ~Begin(c) /\ times' # times
    BY <1>3, <2>1 DEF Begin, AnswersInv
  <2>3. PICK delivered \in BOOLEAN : Ask(c, delivered)
    BY <1>3, <2>1, <2>2 DEF MappingNext, DeleteItem, allVars
  <2>4. Accepted(step[c], wish[c]) /\ step[c] = 2
    BY <2>2, <2>3 DEF Ask
  <2> QED
    BY <1>3, <2>3, <2>4, MappedIsWish DEF AnswersInv
<1>4. ASSUME AnswersInv, NEW c \in Clients, NEW delivered \in BOOLEAN,
             Ask(c, delivered), ~Accepted(step[c], wish[c]), NEW dir \in Dirs
      PROVE  UNCHANGED TableOf(dir)
  BY <1>4, RefusedKeepsTables DEF AnswersInv
<1>5. AnswersInv /\ [MappingNext]_allVars =>
        [\A c \in Clients : times'[c] > times[c] => Mapped(wish[c])']_allVars
  BY <1>3
<1>6. AnswersInv /\ [MappingNext]_allVars =>
        [\A c \in Clients, delivered \in BOOLEAN :
           Ask(c, delivered) /\ ~Accepted(step[c], wish[c]) =>
             \A dir \in Dirs : UNCHANGED TableOf(dir)]_allVars
  BY <1>4
<1> QED
  BY <1>1, <1>2, <1>5, <1>6, PTL
    DEF MappingSpec, AnswersTrue, MappedAsAsked, RefusedChangesNothing
===============================================================================
