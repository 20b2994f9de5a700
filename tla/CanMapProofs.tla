----------------------------- MODULE CanMapProofs -----------------------------
(***************************************************************************)
(* The CAN map, for every number of messages, items, parameters and ids.   *)
(* First that every operation keeps its lists intact, when removals name   *)
(* messages of their own map.  Then that the lists implement the tables of *)
(* CanMapTable: what the recursive walk over a list and its length are,    *)
(* found by induction over the places of the list; what the map is as a    *)
(* table; then each operation.                                             *)
(***************************************************************************)
EXTENDS CanMap, FiniteSetTheorems, WellFoundedInduction, TLAPS

-------------------------------------------------------------------------------
(* Intact lists.                                                           *)

MapInv == TypeOK /\ ListsIntact /\ MessagesIntact

LEMMA Arithmetic ==
  /\ MaxMessages \in Nat /\ MaxMessages > 0 /\ MaxItems \in Nat /\ MaxItems > 0
  /\ End = MaxItems /\ Unset = MaxItems + 1
  /\ End \notin Item /\ Unset \notin Item /\ End # Unset
  /\ Item \subseteq Nat /\ Slots \subseteq Nat
  /\ Item \subseteq 0 .. End
  BY MapAssumption DEF End, Unset, Item, Slots

LEMMA SlotsApart ==
  /\ \A dir \in Dirs : SlotsOf(dir) \subseteq Slots
  /\ \A m \in Slots : \E dir \in Dirs : m \in SlotsOf(dir)
  /\ \A dir, other \in Dirs : \A m \in SlotsOf(dir) : m \in SlotsOf(other) => dir = other
  BY Arithmetic DEF SlotsOf, Slots, Base, Dirs

LEMMA InitInv == Init => MapInv
<1> SUFFICES ASSUME Init PROVE MapInv
  OBVIOUS
<1> USE Arithmetic
<1>1. TypeOK
  BY DEF Init, TypeOK, NoItems, NoParam
<1>2. ListsIntact
  BY DEF Init, NoItems, ListsIntact, NoDangling, NoSharing, NoLeak, NoCycle
<1>3. MessagesIntact
  BY SlotsApart DEF Init, MessagesIntact, UsedFirst, DistinctIds
<1> QED
  BY <1>1, <1>2, <1>3 DEF MapInv

(* The invariant depends on the map alone. *)
LEMMA MapUnchanged == ASSUME MapInv, UNCHANGED vars PROVE MapInv'
  BY DEF vars, MapInv, TypeOK, ListsIntact, NoDangling, NoSharing, NoLeak, NoCycle,
     MessagesIntact, UsedFirst, DistinctIds

LEMMA ClearInv ==
  ASSUME MapInv, Clear
  PROVE  MapInv'
<1> USE Arithmetic, SlotsApart
<1>1. \A m \in Slots : first'[m] = End
  BY DEF Clear, Cleared, Dirs
<1>2. TypeOK'
  <2>1. first' \in [Slots -> Item \cup {End}]
    BY <1>1 DEF Clear, Cleared
  <2>2. next' \in [0 .. End -> Item \cup {End, Unset}] /\ next'[End] = Unset
    BY DEF Clear, NoItems
  <2> QED
    BY <2>1, <2>2 DEF MapInv, TypeOK, Clear
<1>3. ListsIntact'
  BY <1>1 DEF Clear, NoItems, ListsIntact, NoDangling, NoSharing, NoLeak, NoCycle
<1>4. MessagesIntact'
  BY <1>1 DEF MessagesIntact, UsedFirst, DistinctIds
<1> QED
  BY <1>2, <1>3, <1>4 DEF MapInv

-----------------------------------------------------------------------------
(* The list operations, whatever they are for.                             *)

(* A free item as the first of a slot without any.                         *)
LEMMA NewList ==
  ASSUME TypeOK, ListsIntact,
         NEW m \in Slots, first[m] = End, NEW i \in Item, next[i] = Unset,
         first' = [first EXCEPT ![m] = i], next' = [next EXCEPT ![i] = End]
  PROVE  ListsIntact'
<1> USE Arithmetic DEF TypeOK, ListsIntact
<1>1. NoDangling'
  <2>1. \A j \in Item : next'[j] # Unset <=> next[j] # Unset \/ j = i
    OBVIOUS
  <2>2. ASSUME NEW j \in Item, next'[j] \in Item
        PROVE  next'[next'[j]] # Unset
    BY <2>1, <2>2 DEF NoDangling
  <2>3. ASSUME NEW n \in Slots, first'[n] \in Item
        PROVE  next'[first'[n]] # Unset
    BY <2>1, <2>3 DEF NoDangling
  <2> QED
    BY <2>2, <2>3 DEF NoDangling
<1>2. NoSharing'
  <2>1. next'[i] = End /\ \A j \in Item \ {i} : next'[j] = next[j]
    OBVIOUS
  <2>2. first'[m] = i /\ \A n \in Slots \ {m} : first'[n] = first[n]
    OBVIOUS
  <2>3. (\A j \in Item : next[j] # i) /\ \A n \in Slots : first[n] # i
    BY DEF NoDangling
  <2>4. ASSUME NEW j \in Item, NEW k \in Item, next'[j] = next'[k], next'[j] \in Item
        PROVE  j = k
    BY <2>1, <2>4 DEF NoSharing
  <2>5. ASSUME NEW j \in Slots, NEW k \in Slots, first'[j] = first'[k], first'[j] \in Item
        PROVE  j = k
    BY <2>2, <2>3, <2>5 DEF NoSharing
  <2>6. ASSUME NEW j \in Slots, NEW k \in Item, first'[j] \in Item
        PROVE  first'[j] # next'[k]
    BY <2>1, <2>2, <2>3, <2>6 DEF NoSharing
  <2> QED
    BY <2>4, <2>5, <2>6 DEF NoSharing
<1>3. NoLeak'
  <2> SUFFICES ASSUME NEW j \in Item, next'[j] # Unset
               PROVE  (\E n \in Slots : first'[n] = j) \/ (\E k \in Item : next'[k] = j)
    BY DEF NoLeak
  <2>1. CASE j = i
    BY <2>1
  <2>2. CASE j # i
    <3>1. next[j] # Unset
      BY <2>2
    <3>2. (\E n \in Slots : first[n] = j) \/ (\E k \in Item : next[k] = j)
      BY <3>1 DEF NoLeak
    <3> QED
      BY <2>2, <3>2
  <2> QED
    BY <2>1, <2>2
<1>4. NoCycle'
  <2> SUFFICES ASSUME NEW S \in SUBSET Item, S # {}
               PROVE  \E j \in S : next'[j] \notin S
    BY DEF NoCycle
  <2>1. CASE i \in S
    BY <2>1
  <2>2. CASE i \notin S
    <3>1. PICK j \in S : next[j] \notin S
      BY DEF NoCycle
    <3> QED
      BY <2>2, <3>1
  <2> QED
    BY <2>1, <2>2
<1> QED
  BY <1>1, <1>2, <1>3, <1>4

(* A free item at the end of a list.                                       *)
LEMMA LongerList ==
  ASSUME TypeOK, ListsIntact,
         NEW p \in Item, next[p] = End, NEW i \in Item, next[i] = Unset,
         UNCHANGED first, next' = [next EXCEPT ![i] = End, ![p] = i]
  PROVE  ListsIntact'
<1> USE Arithmetic DEF TypeOK, ListsIntact
<1>1. p # i
  OBVIOUS
<1>2. NoDangling'
  <2>1. \A j \in Item : next'[j] # Unset <=> next[j] # Unset \/ j = i
    BY <1>1
  <2>2. ASSUME NEW j \in Item, next'[j] \in Item
        PROVE  next'[j] = i \/ next[next'[j]] # Unset
    BY <1>1, <2>2 DEF NoDangling
  <2>3. ASSUME NEW j \in Item, next'[j] \in Item
        PROVE  next'[next'[j]] # Unset
    BY <2>1, <2>2, <2>3
  <2>4. ASSUME NEW m \in Slots, first'[m] \in Item
        PROVE  next'[first'[m]] # Unset
    BY <2>1, <2>4 DEF NoDangling
  <2> QED
    BY <2>3, <2>4 DEF NoDangling
<1>3. NoSharing'
  <2>1. next'[i] = End /\ next'[p] = i /\ \A j \in Item \ {p, i} : next'[j] = next[j]
    BY <1>1
  <2>2. (\A j \in Item : next[j] # i) /\ \A m \in Slots : first[m] # i
    BY DEF NoDangling
  <2>3. \A m \in Slots, j \in Item : first[m] \in Item => first[m] # next'[j]
    BY <2>1, <2>2 DEF NoSharing
  <2>4. ASSUME NEW j \in Item, NEW k \in Item, next'[j] = next'[k], next'[j] \in Item
        PROVE  j = k
    BY <2>1, <2>2, <2>4 DEF NoSharing
  <2> QED
    BY <2>3, <2>4 DEF NoSharing
<1>4. NoLeak'
  <2> SUFFICES ASSUME NEW j \in Item, next'[j] # Unset
               PROVE  (\E n \in Slots : first'[n] = j) \/ (\E k \in Item : next'[k] = j)
    BY DEF NoLeak
  <2>1. CASE j = i
    BY <1>1, <2>1
  <2>2. CASE j # i /\ \E k \in Item : next[k] = j
    BY <1>1, <2>2
  <2>3. CASE j # i /\ \E n \in Slots : first[n] = j
    BY <2>3
  <2>4. j # i => next[j] # Unset
    BY <1>1
  <2> QED
    BY <2>1, <2>2, <2>3, <2>4 DEF NoLeak
<1>5. NoCycle'
  <2> SUFFICES ASSUME NEW S \in SUBSET Item, S # {}
               PROVE  \E j \in S : next'[j] \notin S
    BY DEF NoCycle
  <2>1. CASE i \in S
    BY <1>1, <2>1
  <2>2. CASE i \notin S
    BY <1>1, <2>2 DEF NoCycle
  <2> QED
    BY <2>1, <2>2
<1> QED
  BY <1>2, <1>3, <1>4, <1>5

(* An item that is not the first leaves its list.                          *)
LEMMA ShorterList ==
  ASSUME TypeOK, ListsIntact,
         NEW p \in Item, NEW i \in Item, next[p] = i,
         UNCHANGED first, next' = [next EXCEPT ![p] = next[i], ![i] = Unset]
  PROVE  ListsIntact'
<1> USE Arithmetic DEF ListsIntact
<1>1. p # i
  BY {i} \in SUBSET Item DEF NoCycle
<1>2. next[i] # i /\ next[i] # Unset
  BY <1>1 DEF NoSharing, NoDangling
<1>3. next'[i] = Unset /\ next'[p] = next[i]
  BY <1>1 DEF TypeOK
<1>4. \A j \in Item \ {p, i} : next'[j] = next[j]
  BY <1>1 DEF TypeOK
<1>5. NoDangling'
  <2>1. \A m \in Slots : first[m] \in Item => first[m] # i /\ next'[first[m]] # Unset
    BY <1>2, <1>3, <1>4 DEF NoSharing, NoDangling
  <2>2. \A j \in Item \ {p, i} : next[j] \in Item => next[j] # i /\ next'[next[j]] # Unset
    BY <1>2, <1>3, <1>4 DEF NoSharing, NoDangling
  <2>3. next[i] \in Item => next'[next[i]] # Unset
    BY <1>2, <1>3, <1>4 DEF NoDangling
  <2>4. ASSUME NEW j \in Item, next'[j] \in Item
        PROVE  next'[next'[j]] # Unset
    BY <1>3, <1>4, <2>2, <2>3, <2>4
  <2> QED
    BY <2>1, <2>4 DEF NoDangling
<1>6. NoSharing'
  <2>1. ASSUME NEW m \in Slots, NEW j \in Item, first[m] \in Item
        PROVE  first[m] # next'[j]
    <3>1. \A k \in Item : first[m] # next[k]
      BY <2>1 DEF NoSharing
    <3>2. next'[j] = Unset \/ \E k \in Item : next'[j] = next[k]
      BY <1>3, <1>4
    <3> QED
      BY <2>1, <3>1, <3>2
  <2>2. \A j, k \in Item : next[j] = next[k] /\ next[j] \in Item => j = k
    BY DEF NoSharing
  <2>3. ASSUME NEW j \in Item, NEW k \in Item, next'[j] = next'[k], next'[j] \in Item
        PROVE  j = k
    <3>1. j # i /\ k # i
      BY <1>3, <2>3
    <3>2. ASSUME j = p, k # p PROVE FALSE
      <4>1. next[i] = next[k] /\ next[k] \in Item
        BY <1>3, <1>4, <2>3, <3>1, <3>2
      <4> QED
        BY <2>2, <3>1, <4>1
    <3>3. ASSUME k = p, j # p PROVE FALSE
      <4>1. next[i] = next[j] /\ next[j] \in Item
        BY <1>3, <1>4, <2>3, <3>1, <3>3
      <4> QED
        BY <2>2, <3>1, <4>1
    <3>4. CASE j # p /\ k # p
      <4>1. next[k] = next[j] /\ next[j] \in Item
        BY <1>4, <2>3, <3>1, <3>4
      <4> QED
        BY <2>2, <4>1
    <3> QED
      BY <3>2, <3>3, <3>4
  <2>4. \A m, n \in Slots : first[m] = first[n] /\ first[m] \in Item => m = n
    BY DEF NoSharing
  <2> QED
    BY <2>1, <2>3, <2>4 DEF NoSharing
<1>7. NoLeak'
  <2> SUFFICES ASSUME NEW j \in Item, next'[j] # Unset
               PROVE  (\E n \in Slots : first[n] = j) \/ (\E k \in Item : next'[k] = j)
    BY DEF NoLeak
  <2>1. j # i /\ next[j] # Unset
    BY <1>1, <1>3, <1>4
  <2>2. CASE \E n \in Slots : first[n] = j
    BY <2>2
  <2>3. ASSUME NEW k \in Item, next[k] = j
        PROVE  \E l \in Item : next'[l] = j
    <3>1. k # p
      BY <2>1, <2>3
    <3>2. k = i => next'[p] = j
      BY <1>3, <2>3
    <3>3. k # i => next'[k] = j
      BY <1>4, <2>3, <3>1
    <3> QED
      BY <3>2, <3>3
  <2> QED
    BY <2>1, <2>2, <2>3 DEF NoLeak
<1>8. NoCycle'
  <2> SUFFICES ASSUME NEW S \in SUBSET Item, S # {}
               PROVE  \E j \in S : next'[j] \notin S
    BY DEF NoCycle
  <2>1. CASE i \in S
    BY <1>3, <2>1
  <2>2. CASE i \notin S /\ p \in S
    <3>1. S \cup {i} \in SUBSET Item /\ S \cup {i} # {}
      OBVIOUS
    <3>2. PICK j \in S \cup {i} : next[j] \notin S \cup {i}
      BY <3>1 DEF NoCycle
    <3>3. CASE j = i
      BY <1>3, <2>2, <3>2, <3>3
    <3>4. CASE j # i
      <4>1. j \in S /\ j # p
        BY <3>2, <3>4
      <4> QED
        BY <1>4, <3>2, <3>4, <4>1
    <3> QED
      BY <3>3, <3>4
  <2>3. CASE i \notin S /\ p \notin S
    <3>1. PICK j \in S : next[j] \notin S
      BY DEF NoCycle
    <3> QED
      BY <1>4, <2>3, <3>1
  <2> QED
    BY <2>1, <2>2, <2>3
<1> QED
  BY <1>5, <1>6, <1>7, <1>8

(* The first item of a list leaves it; the rest, if any, is found in slot  *)
(* l, and another list may have moved to its slot.                         *)
LEMMA NextList ==
  ASSUME TypeOK, ListsIntact,
         NEW m \in Slots, NEW i \in Item, first[m] = i, next[i] \in Item,
         first' = [first EXCEPT ![m] = next[i]], next' = [next EXCEPT ![i] = Unset]
  PROVE  ListsIntact'
<1> USE Arithmetic DEF TypeOK, ListsIntact
<1>1. next[i] # i
  BY {i} \in SUBSET Item DEF NoCycle
<1>2. NoDangling'
  BY <1>1 DEF NoDangling, NoSharing
<1>3. NoSharing'
  BY <1>1 DEF NoSharing
<1>4. NoLeak'
  BY <1>1 DEF NoLeak, NoSharing
<1>5. NoCycle'
  <2> SUFFICES ASSUME NEW S \in SUBSET Item, S # {}
               PROVE  \E j \in S : next'[j] \notin S
    BY DEF NoCycle
  <2> QED
    BY DEF NoCycle
<1> QED
  BY <1>2, <1>3, <1>4, <1>5

LEMMA NoList ==
  ASSUME TypeOK, ListsIntact,
         NEW m \in Slots, NEW l \in Slots, NEW i \in Item, first[m] = i, next[i] = End,
         first[l] # End,
         first' = [first EXCEPT ![m] = first[l], ![l] = End],
         next' = [next EXCEPT ![i] = Unset]
  PROVE  ListsIntact'
<1> USE Arithmetic DEF TypeOK, ListsIntact
<1>1. NoDangling'
  BY DEF NoDangling, NoSharing
<1>2. NoSharing'
  BY DEF NoSharing
<1>3. NoLeak'
  <2> SUFFICES ASSUME NEW j \in Item, next'[j] # Unset
               PROVE  (\E n \in Slots : first'[n] = j) \/ (\E k \in Item : next'[k] = j)
    BY DEF NoLeak
  <2>1. j # i /\ next[j] # Unset
    OBVIOUS
  <2>2. CASE \E k \in Item : next[k] = j
    BY <2>1, <2>2
  <2>3. CASE \E n \in Slots : first[n] = j
    BY <2>1, <2>3
  <2> QED
    BY <2>1, <2>2, <2>3 DEF NoLeak
<1>4. NoCycle'
  <2> SUFFICES ASSUME NEW S \in SUBSET Item, S # {}
               PROVE  \E j \in S : next'[j] \notin S
    BY DEF NoCycle
  <2> QED
    BY DEF NoCycle
<1> QED
  BY <1>1, <1>2, <1>3, <1>4

-----------------------------------------------------------------------------
(* What the walks and searches of the code find.                           *)
LEMMA WalkFinds ==
  ASSUME TypeOK, NEW m \in Slots, NEW k \in Item, NEW path \in Walk(m, k)
  PROVE  /\ path[k] \in Item /\ next[path[k]] # Unset
         /\ k = 0 => first[m] = path[k]
         /\ k > 0 => path[k - 1] \in Item /\ next[path[k - 1]] = path[k]
<1>1. k \in 0 .. k /\ path \in [0 .. k -> Item]
  BY Arithmetic DEF Walk
<1>2. k > 0 => k - 1 \in 0 .. k - 1 /\ k - 1 \in 0 .. k
  BY Arithmetic
<1> QED
  BY <1>1, <1>2, Arithmetic DEF Walk

LEMMA UsedSlots ==
  ASSUME MessagesIntact, TypeOK, NEW dir \in Dirs
  PROVE  Used(dir) = { m \in SlotsOf(dir) : first[m] # End }
<1>1. SlotsOf(dir) \subseteq Nat
  BY SlotsApart, Arithmetic
<1>2. ASSUME NEW m \in SlotsOf(dir), first[m] # End, NEW k \in SlotsOf(dir), k <= m
      PROVE  first[k] # End
  <2>1. k = m \/ k < m
    BY <1>1, <1>2
  <2> QED
    BY <1>2, <2>1 DEF MessagesIntact, UsedFirst
<1>3. \A m \in SlotsOf(dir) : m <= m
  BY <1>1
<1> QED
  BY <1>2, <1>3 DEF Used

(* A slot is given to an id only if it is the first free one and no used   *)
(* slot has the id.                                                        *)
LEMMA TargetFinds ==
  ASSUME MapInv, NEW dir \in Dirs, NEW id \in Ids, NEW m \in Target(dir, id)
  PROVE  /\ m \in SlotsOf(dir) /\ m \in Slots
         /\ WithId(dir, id) # {} => first[m] # End
         /\ WithId(dir, id) = {} =>
              /\ first[m] = End
              /\ \A n \in SlotsOf(dir) : n < m => first[n] # End
              /\ \A n \in SlotsOf(dir) : first[n] # End => ~SameId(canId[n], id)
<1>1. Used(dir) = { n \in SlotsOf(dir) : first[n] # End }
  BY UsedSlots DEF MapInv
<1>2. SlotsOf(dir) \subseteq Slots /\ SlotsOf(dir) \subseteq Nat
  BY SlotsApart, Arithmetic
<1>3. CASE WithId(dir, id) # {}
  BY <1>1, <1>2, <1>3 DEF Target, Least, WithId
<1>4. CASE WithId(dir, id) = {}
  BY <1>1, <1>2, <1>4 DEF Target, Least, WithId, FreeSlots
<1> QED
  BY <1>3, <1>4

LEMMA AddInv ==
  ASSUME MapInv, NEW dir \in Dirs, NEW param \in Params, NEW id \in Ids,
         Add(dir, param, id)
  PROVE  MapInv'
<1> USE Arithmetic
<1>1. PICK m \in Target(dir, id) :
        /\ canId' = IF WithId(dir, id) = {} THEN [canId EXCEPT ![m] = id] ELSE canId
        /\ \/ FreeItems = {} /\ UNCHANGED <<first, next, mapParam>>
           \/ \E i \in Least(FreeItems) :
                /\ mapParam' = [mapParam EXCEPT ![i] = param]
                /\ AddLink(m, i)
  BY DEF Add
<1>2. /\ m \in SlotsOf(dir) /\ m \in Slots
      /\ WithId(dir, id) # {} => first[m] # End
      /\ WithId(dir, id) = {} =>
           /\ first[m] = End
           /\ \A n \in SlotsOf(dir) : n < m => first[n] # End
           /\ \A n \in SlotsOf(dir) : first[n] # End => ~SameId(canId[n], id)
  BY TargetFinds
<1>3. canId' \in [Slots -> Ids \cup {<<"unset", FALSE>>}]
  BY <1>1, <1>2 DEF MapInv, TypeOK
<1>4. ASSUME UNCHANGED <<first, next, mapParam>>
      PROVE  MapInv'
  <2>1. TypeOK'
    BY <1>3, <1>4 DEF MapInv, TypeOK
  <2>2. ListsIntact'
    BY <1>4 DEF MapInv, ListsIntact, NoDangling, NoSharing, NoLeak, NoCycle
  <2>3. \A n \in Slots : first[n] # End => canId'[n] = canId[n]
    BY <1>1, <1>2 DEF MapInv, TypeOK
  <2>4. MessagesIntact'
    BY <1>4, <2>3, SlotsApart DEF MapInv, MessagesIntact, UsedFirst, DistinctIds
  <2> QED
    BY <2>1, <2>2, <2>4 DEF MapInv
<1>5. ASSUME NEW i \in Least(FreeItems), AddLink(m, i),
             mapParam' = [mapParam EXCEPT ![i] = param]
      PROVE  MapInv'
  <2>1. i \in Item /\ next[i] = Unset
    BY <1>5 DEF Least, FreeItems
  <2>2. CASE /\ first[m] = End /\ first' = [first EXCEPT ![m] = i]
             /\ next' = [next EXCEPT ![i] = End]
    <3>1. TypeOK'
      <4>1. first' \in [Slots -> Item \cup {End}]
        BY <1>2, <2>1, <2>2 DEF MapInv, TypeOK
      <4>2. next' \in [0 .. End -> Item \cup {End, Unset}] /\ next'[End] = Unset
        BY <2>1, <2>2 DEF MapInv, TypeOK
      <4> QED
        BY <1>3, <1>5, <4>1, <4>2 DEF MapInv, TypeOK
    <3>2. ListsIntact'
      BY <1>2, <2>1, <2>2, NewList DEF MapInv
    <3>3. \A n \in Slots \ {m} : first'[n] = first[n] /\ canId'[n] = canId[n]
      BY <1>1, <1>2, <2>2 DEF MapInv, TypeOK
    <3>4. first'[m] # End /\ canId'[m] = id
      BY <1>1, <1>2, <2>1, <2>2 DEF MapInv, TypeOK
    <3>5. UsedFirst'
      BY <1>2, <2>2, <3>3, <3>4, SlotsApart DEF MapInv, MessagesIntact, UsedFirst
    <3>6. DistinctIds'
      BY <1>2, <2>2, <3>3, <3>4, SlotsApart
      DEF MapInv, MessagesIntact, DistinctIds, SameId
    <3> QED
      BY <3>1, <3>2, <3>5, <3>6 DEF MapInv, MessagesIntact
  <2>3. CASE \E p \in LastOf(m) :
               next' = [next EXCEPT ![i] = End, ![p] = i] /\ UNCHANGED first
    <3>1. PICK p \in LastOf(m) :
            next' = [next EXCEPT ![i] = End, ![p] = i] /\ UNCHANGED first
      BY <2>3
    <3>2. p \in Item /\ next[p] = End
      BY <3>1 DEF LastOf
    <3>3. first[m] # End
      <4>1. PICK k \in Item : \E path \in Walk(m, k) : path[k] = p
        BY <3>1 DEF LastOf
      <4>2. PICK path \in Walk(m, k) : path[k] = p
        BY <4>1
      <4>3. path[0] \in Item /\ path[0] = first[m]
        BY <4>2 DEF Walk
      <4> QED
        BY <4>3
    <3>4. canId' = canId
      BY <1>1, <1>2, <3>3
    <3>5. TypeOK'
      <4>1. next' \in [0 .. End -> Item \cup {End, Unset}] /\ next'[End] = Unset
        BY <2>1, <3>1, <3>2 DEF MapInv, TypeOK
      <4> QED
        BY <1>3, <1>5, <3>1, <4>1 DEF MapInv, TypeOK
    <3>6. ListsIntact'
      BY <2>1, <3>1, <3>2, LongerList DEF MapInv
    <3>7. MessagesIntact'
      BY <3>1, <3>4 DEF MapInv, MessagesIntact, UsedFirst, DistinctIds
    <3> QED
      BY <3>5, <3>6, <3>7 DEF MapInv
  <2> QED
    BY <1>5, <2>2, <2>3 DEF AddLink
<1> QED
  BY <1>1, <1>4, <1>5

(* The only item of a message goes, and the last message moves.            *)
LEMMA DropInv ==
  ASSUME MapInv, NEW dir \in Dirs, NEW m \in SlotsOf(dir), NEW l \in SlotsOf(dir),
         NEW i \in Item, first[m] = i, next[i] = End,
         m <= l, first[l] # End, l + 1 \in SlotsOf(dir) => first[l + 1] = End,
         first' = [first EXCEPT ![m] = first[l], ![l] = End],
         canId' = [canId EXCEPT ![m] = canId[l]],
         next' = [next EXCEPT ![i] = Unset], UNCHANGED mapParam
  PROVE  MapInv'
<1> USE Arithmetic
<1>1. m \in Slots /\ l \in Slots
  BY SlotsApart
<1>2. TypeOK'
  <2>1. first' \in [Slots -> Item \cup {End}]
    BY <1>1 DEF MapInv, TypeOK
  <2>2. canId' \in [Slots -> Ids \cup {<<"unset", FALSE>>}]
    BY <1>1 DEF MapInv, TypeOK
  <2>3. next' \in [0 .. End -> Item \cup {End, Unset}] /\ next'[End] = Unset
    BY DEF MapInv, TypeOK
  <2> QED
    BY <2>1, <2>2, <2>3 DEF MapInv, TypeOK
<1>3. ListsIntact'
  BY <1>1, NoList DEF MapInv
<1>4. \A n \in SlotsOf(dir) : n > l => first[n] = End
  <2> SUFFICES ASSUME NEW n \in SlotsOf(dir), n > l
               PROVE  first[n] = End
    OBVIOUS
  <2>1. l + 1 \in SlotsOf(dir) /\ (n = l + 1 \/ l + 1 < n)
    BY DEF SlotsOf, Base
  <2> QED
    BY <2>1 DEF MapInv, MessagesIntact, UsedFirst
<1>5. \A n \in Slots \ {m, l} : first'[n] = first[n] /\ canId'[n] = canId[n]
  BY <1>1 DEF MapInv, TypeOK
<1>6. /\ first'[l] = End
      /\ m # l => first'[m] = first[l] /\ canId'[m] = canId[l]
  BY <1>1 DEF MapInv, TypeOK
<1>7. UsedFirst'
  <2> SUFFICES ASSUME NEW d \in Dirs, NEW a \in SlotsOf(d), NEW b \in SlotsOf(d),
                      a < b, first'[a] = End
               PROVE  first'[b] = End
    BY DEF UsedFirst
  <2>1. a \in Slots /\ b \in Slots
    BY SlotsApart
  <2>2. CASE b = l
    BY <1>6, <2>2
  <2>3. CASE b # l /\ d # dir
    <3>1. a \notin {m, l} /\ b \notin {m, l}
      BY <2>3, SlotsApart
    <3>2. first[a] = End /\ first'[b] = first[b]
      BY <1>5, <2>1, <3>1
    <3>3. first[b] = End
      BY <3>2 DEF MapInv, MessagesIntact, UsedFirst
    <3> QED
      BY <3>2, <3>3
  <2>4. CASE b # l /\ d = dir /\ b > l
    <3>1. b \notin {m, l}
      BY <2>4, <1>1, <2>1
    <3> QED
      BY <1>4, <1>5, <2>1, <2>4, <3>1
  <2>5. CASE b # l /\ d = dir /\ b < l
    <3>1. a # l /\ a < l
      BY <1>1, <2>1, <2>5
    <3>2. first[a] # End
      BY <2>5, <3>1 DEF MapInv, MessagesIntact, UsedFirst
    <3>3. CASE a = m
      <4>1. first'[m] = first[l]
        BY <1>6, <3>1, <3>3
      <4> QED
        BY <3>3, <4>1
    <3>4. CASE a # m
      <4>1. first'[a] = first[a]
        BY <1>5, <2>1, <3>1, <3>4
      <4> QED
        BY <3>2, <4>1
    <3> QED
      BY <3>3, <3>4
  <2> QED
    BY <1>1, <2>1, <2>2, <2>3, <2>4, <2>5
<1>8. DistinctIds'
  <2> SUFFICES ASSUME NEW d \in Dirs, NEW a \in SlotsOf(d), NEW b \in SlotsOf(d),
                      first'[a] # End, first'[b] # End, SameId(canId'[a], canId'[b])
               PROVE  a = b
    BY DEF DistinctIds
  <2>1. a \in Slots /\ b \in Slots /\ a # l /\ b # l
    BY <1>6, SlotsApart
  <2>2. CASE a = m /\ b # m
    <3>1. d = dir
      BY <2>2, SlotsApart
    <3>2. first[b] # End /\ SameId(canId[l], canId[b])
      BY <1>5, <1>6, <2>1, <2>2
    <3> QED
      BY <2>1, <3>1, <3>2 DEF MapInv, MessagesIntact, DistinctIds
  <2>3. CASE b = m /\ a # m
    <3>1. d = dir
      BY <2>3, SlotsApart
    <3>2. first[a] # End /\ SameId(canId[a], canId[l])
      BY <1>5, <1>6, <2>1, <2>3
    <3> QED
      BY <2>1, <3>1, <3>2 DEF MapInv, MessagesIntact, DistinctIds
  <2>4. CASE a # m /\ b # m
    BY <1>5, <2>1, <2>4 DEF MapInv, MessagesIntact, DistinctIds
  <2> QED
    BY <2>2, <2>3, <2>4
<1> QED
  BY <1>2, <1>3, <1>7, <1>8 DEF MapInv, MessagesIntact

(* An item goes and the messages keep their slots.                         *)
LEMMA SameMessages ==
  ASSUME MapInv, UNCHANGED canId, NEW m \in Slots,
         first[m] # End, NEW f \in Item, first' = [first EXCEPT ![m] = f]
  PROVE  MessagesIntact'
<1>1. \A n \in Slots : first'[n] = End <=> first[n] = End
  BY Arithmetic DEF MapInv, TypeOK
<1> QED
  BY <1>1, SlotsApart DEF MapInv, MessagesIntact, UsedFirst, DistinctIds

LEMMA RemoveInv ==
  ASSUME MapInv, NEW dir \in Dirs, NEW index \in 0 .. MaxMessages - 1,
         NEW k \in Item, Remove(dir, index, k)
  PROVE  MapInv'
<1> USE Arithmetic
<1> DEFINE m == RemovalSlot(dir, index)
<1>1. m \in SlotsOf(dir) /\ m \in Slots /\ first[m] # End /\ index # MaxMessages
  <2>1. Base(dir) \in Nat
    BY DEF Base
  <2>2. m \in SlotsOf(dir) /\ index # MaxMessages
    BY <2>1 DEF RemovalSlot, SlotsOf
  <2>3. MayRemove(dir, index)
    BY DEF Remove
  <2> QED
    BY <2>2, <2>3 DEF MayRemove
<1>2. UNCHANGED mapParam
  BY DEF Remove
<1>3. PICK path \in Walk(m, k) :
        \/ /\ k > 0
           /\ next' = [next EXCEPT ![path[k - 1]] = next[path[k]], ![path[k]] = Unset]
           /\ UNCHANGED <<first, canId>>
        \/ /\ k = 0 /\ next[path[k]] # End
           /\ first' = [first EXCEPT ![m] = next[path[k]]]
           /\ next' = [next EXCEPT ![path[k]] = Unset]
           /\ UNCHANGED canId
        \/ /\ k = 0 /\ next[path[k]] = End
           /\ DropMessage(dir, index)
           /\ next' = [next EXCEPT ![path[k]] = Unset]
  BY DEF Remove
<1>4. /\ path[k] \in Item /\ next[path[k]] # Unset
      /\ k = 0 => first[m] = path[k]
      /\ k > 0 => path[k - 1] \in Item /\ next[path[k - 1]] = path[k]
  <2> HIDE DEF m
  <2>1. TypeOK /\ m \in Slots
    BY <1>1 DEF MapInv
  <2> QED
    BY <2>1, WalkFinds
<1>5. next[path[k]] \in Item \cup {End}
  BY <1>4 DEF MapInv, TypeOK
<1> HIDE DEF m
<1>6. CASE /\ k > 0
           /\ next' = [next EXCEPT ![path[k - 1]] = next[path[k]], ![path[k]] = Unset]
           /\ UNCHANGED <<first, canId>>
  <2>1. TypeOK'
    <3>1. next' \in [0 .. End -> Item \cup {End, Unset}]
      BY <1>4, <1>5, <1>6 DEF MapInv, TypeOK
    <3>2. next'[End] = Unset
      BY <1>4, <1>6 DEF MapInv, TypeOK
    <3> QED
      BY <1>2, <1>6, <3>1, <3>2 DEF MapInv, TypeOK
  <2>2. ListsIntact'
    BY <1>4, <1>6, ShorterList DEF MapInv
  <2>3. MessagesIntact'
    BY <1>6 DEF MapInv, MessagesIntact, UsedFirst, DistinctIds
  <2> QED
    BY <2>1, <2>2, <2>3 DEF MapInv
<1>7. CASE /\ k = 0 /\ next[path[k]] # End
           /\ first' = [first EXCEPT ![m] = next[path[k]]]
           /\ next' = [next EXCEPT ![path[k]] = Unset]
           /\ UNCHANGED canId
  <2>1. next[path[k]] \in Item
    BY <1>5, <1>7
  <2>2. TypeOK'
    <3>1. first' \in [Slots -> Item \cup {End}]
      BY <1>1, <1>7, <2>1 DEF MapInv, TypeOK
    <3>2. next' \in [0 .. End -> Item \cup {End, Unset}]
      BY <1>4, <1>7 DEF MapInv, TypeOK
    <3>3. next'[End] = Unset
      BY <1>4, <1>7 DEF MapInv, TypeOK
    <3> QED
      BY <1>2, <1>7, <3>1, <3>2, <3>3 DEF MapInv, TypeOK
  <2>3. ListsIntact'
    BY <1>1, <1>4, <1>7, <2>1, NextList DEF MapInv
  <2>4. MessagesIntact'
    BY <1>1, <1>7, <2>1, SameMessages
  <2> QED
    BY <2>2, <2>3, <2>4 DEF MapInv
<1>8. CASE /\ k = 0 /\ next[path[k]] = End
           /\ DropMessage(dir, index)
           /\ next' = [next EXCEPT ![path[k]] = Unset]
  <2>1. PICK l \in LastUsed(dir, index) :
          /\ first' = [first EXCEPT ![m] = first[l], ![l] = End]
          /\ canId' = [canId EXCEPT ![m] = canId[l]]
    BY <1>1, <1>8 DEF DropMessage, m
  <2>2. /\ l \in SlotsOf(dir) /\ m <= l
        /\ l + 1 \in SlotsOf(dir) => first[l + 1] = End
    BY <2>1 DEF LastUsed, m
  <2>3. l \in m .. l
    BY <1>1, <2>2, SlotsApart
  <2>4. first[l] # End
    BY <2>1, <2>3 DEF LastUsed, m
  <2> QED
    BY <1>1, <1>2, <1>4, <1>8, <2>1, <2>2, <2>4, DropInv
<1> QED
  BY <1>3, <1>6, <1>7, <1>8

(* The lists and the messages stay intact for ever, for every size of the  *)
(* map, when clients remove by indices the map has: the one the guard in   *)
(* Remove lets through without being one is excluded.                      *)
THEOREM MapStaysIntact ==
  ASSUME SlotIndex \subseteq 0 .. MaxMessages - 1
  PROVE  Spec => [](TypeOK /\ MapIntact)
<1>1. ASSUME MapInv, [Next]_vars
      PROVE  MapInv'
  <2>1. CASE Clear
    BY <1>1, <2>1, ClearInv
  <2>2. ASSUME NEW dir \in Dirs, NEW param \in Params, NEW id \in Ids,
               Add(dir, param, id)
        PROVE  MapInv'
    BY <1>1, <2>2, AddInv
  <2>3. ASSUME NEW dir \in Dirs, NEW index \in SlotIndex, NEW k \in Item,
               Remove(dir, index, k)
        PROVE  MapInv'
    BY <1>1, <2>3, RemoveInv
  <2>4. CASE UNCHANGED vars
    BY <1>1, <2>4, MapUnchanged
  <2> QED
    BY <1>1, <2>1, <2>2, <2>3, <2>4 DEF Next
<1> QED
  BY <1>1, InitInv, PTL DEF Spec, MapInv, MapIntact
-------------------------------------------------------------------------------
(* Lists, place by place.                                                  *)

(* A set of numbers has a least one.                                       *)
LEMMA NatMin ==
  ASSUME NEW T \in SUBSET Nat, T # {}
  PROVE  \E x \in T : \A y \in T : x <= y
<1>1. PICK x \in T : \A y \in T : <<y, x>> \notin OpToRel(<, Nat)
  BY WFMin, NatLessThanWellFounded, Zenon
<1>2. \A y \in T : ~(y < x)
  BY <1>1 DEF OpToRel
<1> QED
  BY <1>2

(* Induction over the numbers, said of a set: the least number outside it  *)
(* would have a predecessor in it.                                         *)
LEMMA NatSetInduction ==
  ASSUME NEW S, 0 \in S, \A n \in Nat : n \in S => n + 1 \in S
  PROVE  Nat \subseteq S
<1> SUFFICES ASSUME NEW n \in Nat, n \notin S PROVE FALSE
  OBVIOUS
<1> DEFINE T == {k \in Nat : k \notin S}
<1>1. PICK x \in T : \A y \in T : x <= y
  <2>1. T \in SUBSET Nat /\ T # {}
    OBVIOUS
  <2> HIDE DEF T
  <2> QED
    BY <2>1, NatMin
<1>2. x \in Nat /\ x # 0 /\ x - 1 \in Nat /\ x - 1 \notin T
  BY <1>1
<1> QED
  BY <1>1, <1>2

(* What an item, or the head of a list, can point at. *)
Node == Item \cup {End, Unset}

(* Only a node follows a node.                                             *)
LEMMA Nodes ==
  TypeOK => /\ \A m \in Slots : first[m] \in Node
            /\ \A i : After(i) \in Node
  BY Arithmetic DEF TypeOK, Node, After

(* ItemAt is what its recursive definition says. *)
LEMMA ItemAtDef ==
  TypeOK => \A m \in Slots :
    ItemAt(m) = [k \in 0 .. MaxItems |-> IF k = 0 THEN first[m] ELSE After(ItemAt(m)[k - 1])]
<1> SUFFICES ASSUME TypeOK, NEW m \in Slots
             PROVE  ItemAt(m) = [k \in 0 .. MaxItems |-> IF k = 0 THEN first[m] ELSE After(ItemAt(m)[k - 1])]
  OBVIOUS
<1> DEFINE Path(n) == [0 .. n -> Node]
           IsPath(f, n) == f[0] = first[m] /\ \A k \in 1 .. n : f[k] = After(f[k - 1])
           S == {n \in Nat : \E f \in Path(n) : IsPath(f, n)}
<1>1. 0 \in S
  <2>1. first[m] \in Node
    BY Nodes
  <2>2. [k \in 0 .. 0 |-> first[m]] \in Path(0) /\ IsPath([k \in 0 .. 0 |-> first[m]], 0)
    BY <2>1
  <2> QED
    BY <2>2
<1>2. ASSUME NEW n \in Nat, n \in S PROVE n + 1 \in S
  <2>1. PICK f \in Path(n) : IsPath(f, n)
    BY <1>2
  <2> DEFINE g == [k \in 0 .. n + 1 |-> IF k = n + 1 THEN After(f[n]) ELSE f[k]]
  <2>2. After(f[n]) \in Node
    BY Nodes
  <2>3. g \in Path(n + 1)
    BY <2>1, <2>2
  <2>4. IsPath(g, n + 1)
    <3>1. g[0] = first[m]
      BY <2>1
    <3>2. ASSUME NEW k \in 1 .. n + 1 PROVE g[k] = After(g[k - 1])
      BY <2>1
    <3> QED
      BY <3>1, <3>2
  <2>5. n + 1 \in Nat
    OBVIOUS
  <2> HIDE DEF g
  <2> QED
    BY <2>3, <2>4, <2>5
<1>3. MaxItems \in S
  <2> HIDE DEF S
  <2> QED
    BY <1>1, <1>2, NatSetInduction, Arithmetic
<1>4. PICK f \in Path(MaxItems) : IsPath(f, MaxItems)
  BY <1>3
<1>5. f = [k \in 0 .. MaxItems |-> IF k = 0 THEN first[m] ELSE After(f[k - 1])]
  BY <1>4, Arithmetic
<1> HIDE DEF Path, IsPath
<1> QED
  BY <1>5 DEF ItemAt

(* Those equations one by one.                                             *)
LEMMA ItemAtFacts ==
  TypeOK => \A m \in Slots :
    /\ DOMAIN ItemAt(m) = 0 .. MaxItems
    /\ ItemAt(m)[0] = first[m]
    /\ \A k \in 1 .. MaxItems : ItemAt(m)[k] = After(ItemAt(m)[k - 1])
    /\ \A k \in 0 .. MaxItems : ItemAt(m)[k] \in Node
<1> SUFFICES ASSUME TypeOK, NEW m \in Slots
             PROVE  /\ DOMAIN ItemAt(m) = 0 .. MaxItems
                    /\ ItemAt(m)[0] = first[m]
                    /\ \A k \in 1 .. MaxItems : ItemAt(m)[k] = After(ItemAt(m)[k - 1])
                    /\ \A k \in 0 .. MaxItems : ItemAt(m)[k] \in Node
  OBVIOUS
<1> DEFINE at == ItemAt(m)
<1>1. at = [k \in 0 .. MaxItems |-> IF k = 0 THEN first[m] ELSE After(at[k - 1])]
  BY ItemAtDef
<1> HIDE DEF at
<1>2. at[0] = first[m] /\ \A k \in 1 .. MaxItems : at[k] = After(at[k - 1])
  BY <1>1, Arithmetic
<1>3. \A k \in 0 .. MaxItems : at[k] \in Node
  BY <1>1, Nodes
<1> QED
  BY <1>1, <1>2, <1>3 DEF at

(* Nothing else satisfies the equations. *)
LEMMA ItemAtUnique ==
  TypeOK => \A m \in Slots : \A g :
    /\ g = [k \in 0 .. MaxItems |-> g[k]] /\ g[0] = first[m]
    /\ \A k \in 1 .. MaxItems : g[k] = After(g[k - 1])
    => ItemAt(m) = g
<1> SUFFICES ASSUME TypeOK, NEW m \in Slots, NEW g,
                    g = [k \in 0 .. MaxItems |-> g[k]], g[0] = first[m],
                    \A k \in 1 .. MaxItems : g[k] = After(g[k - 1])
             PROVE  ItemAt(m) = g
  OBVIOUS
<1> DEFINE at == ItemAt(m)
           S == {k \in Nat : k <= MaxItems => at[k] = g[k]}
<1>1. /\ at = [k \in 0 .. MaxItems |-> at[k]] /\ at[0] = first[m]
      /\ \A k \in 1 .. MaxItems : at[k] = After(at[k - 1])
  BY ItemAtFacts, ItemAtDef
<1> HIDE DEF at
<1>2. 0 \in S
  BY <1>1
<1>3. ASSUME NEW k \in Nat, k \in S PROVE k + 1 \in S
  <2> SUFFICES ASSUME k + 1 <= MaxItems PROVE at[k + 1] = g[k + 1]
    OBVIOUS
  <2>1. k + 1 \in 1 .. MaxItems /\ (k + 1) - 1 = k /\ k <= MaxItems
    BY Arithmetic
  <2>2. at[k] = g[k]
    BY <1>3, <2>1
  <2> QED
    BY <1>1, <2>1, <2>2
<1>4. Nat \subseteq S
  <2> HIDE DEF S
  <2> QED
    BY <1>2, <1>3, NatSetInduction
<1>5. \A k \in 0 .. MaxItems : at[k] = g[k]
  BY <1>4
<1>6. at = g
  BY <1>1, <1>5
<1> QED
  BY <1>6 DEF at

(* A list consists of items in use and then stays at its end. *)
LEMMA EndOrListed ==
  MapInv => \A m \in Slots, k \in 0 .. MaxItems :
              ItemAt(m)[k] = End \/ Listed(ItemAt(m)[k])
<1> SUFFICES ASSUME MapInv, NEW m \in Slots
             PROVE  \A k \in 0 .. MaxItems : ItemAt(m)[k] = End \/ Listed(ItemAt(m)[k])
  OBVIOUS
<1> DEFINE at == ItemAt(m)
           S == {k \in Nat : k <= MaxItems => at[k] = End \/ Listed(at[k])}
<1>1. /\ at[0] = first[m] /\ \A k \in 1 .. MaxItems : at[k] = After(at[k - 1])
  BY ItemAtFacts DEF MapInv
<1> HIDE DEF at
<1>2. 0 \in S
  BY <1>1 DEF Listed, MapInv, TypeOK, ListsIntact, NoDangling
<1>3. \A i : i = End \/ Listed(i) => After(i) = End \/ Listed(After(i))
  BY Arithmetic DEF Listed, After, MapInv, TypeOK, ListsIntact, NoDangling
<1>4. ASSUME NEW k \in Nat, k \in S PROVE k + 1 \in S
  <2> SUFFICES ASSUME k + 1 <= MaxItems PROVE at[k + 1] = End \/ Listed(at[k + 1])
    OBVIOUS
  <2>1. k + 1 \in 1 .. MaxItems /\ (k + 1) - 1 = k /\ k <= MaxItems
    BY Arithmetic
  <2>2. at[k] = End \/ Listed(at[k])
    BY <1>4, <2>1
  <2> QED
    BY <1>1, <1>3, <2>1, <2>2
<1>5. Nat \subseteq S
  <2> HIDE DEF S
  <2> QED
    BY <1>2, <1>4, NatSetInduction
<1>6. \A k \in 0 .. MaxItems : at[k] = End \/ Listed(at[k])
  BY <1>5
<1> QED
  BY <1>6 DEF at

(* An item is at one place of one list. *)
LEMMA OnePlace ==
  MapInv => \A m, n \in Slots : \A j, k \in 0 .. MaxItems :
              Listed(ItemAt(m)[j]) /\ ItemAt(m)[j] = ItemAt(n)[k] => m = n /\ j = k
<1> SUFFICES ASSUME MapInv, NEW m \in Slots, NEW n \in Slots
             PROVE  \A j, k \in 0 .. MaxItems :
                      Listed(ItemAt(m)[j]) /\ ItemAt(m)[j] = ItemAt(n)[k] => m = n /\ j = k
  OBVIOUS
<1> DEFINE at == ItemAt(m)
           bt == ItemAt(n)
           S == {j \in Nat : j <= MaxItems =>
                   \A k \in 0 .. MaxItems : Listed(at[j]) /\ at[j] = bt[k] => m = n /\ j = k}
<1>1. /\ at[0] = first[m] /\ \A k \in 1 .. MaxItems : at[k] = After(at[k - 1])
      /\ bt[0] = first[n] /\ \A k \in 1 .. MaxItems : bt[k] = After(bt[k - 1])
      /\ \A k \in 0 .. MaxItems : at[k] = End \/ Listed(at[k])
      /\ \A k \in 0 .. MaxItems : bt[k] = End \/ Listed(bt[k])
  BY ItemAtFacts, EndOrListed DEF MapInv
<1> HIDE DEF at, bt
<1>2. \A i : (i = End \/ Listed(i)) /\ Listed(After(i)) => i \in Item /\ next[i] = After(i)
  BY Arithmetic DEF Listed, After
<1>3. /\ \A i, j \in Item : next[i] = next[j] /\ Listed(next[i]) => i = j
      /\ \A i \in Item : Listed(first[m]) => first[m] # next[i]
      /\ \A i \in Item : Listed(first[n]) => first[n] # next[i]
      /\ Listed(first[m]) /\ first[m] = first[n] => m = n
  BY DEF Listed, MapInv, ListsIntact, NoSharing
<1>4. \A k \in 0 .. MaxItems : k # 0 => k \in 1 .. MaxItems /\ k - 1 \in 0 .. MaxItems
  BY Arithmetic
<1>5. 0 \in S
  <2> SUFFICES ASSUME NEW k \in 0 .. MaxItems, Listed(at[0]), at[0] = bt[k] PROVE m = n /\ 0 = k
    OBVIOUS
  <2>1. CASE k = 0
    BY <1>1, <1>3, <2>1
  <2>2. CASE k # 0
    <3>1. bt[k - 1] \in Item /\ next[bt[k - 1]] = bt[k]
      BY <1>1, <1>2, <1>4, <2>2
    <3> QED
      BY <1>1, <1>3, <3>1
  <2> QED
    BY <2>1, <2>2
<1>6. ASSUME NEW j \in Nat, j \in S PROVE j + 1 \in S
  <2> SUFFICES ASSUME j + 1 <= MaxItems, NEW k \in 0 .. MaxItems,
                      Listed(at[j + 1]), at[j + 1] = bt[k]
               PROVE  m = n /\ j + 1 = k
    OBVIOUS
  <2>1. j + 1 \in 1 .. MaxItems /\ (j + 1) - 1 = j /\ j \in 0 .. MaxItems
    BY Arithmetic
  <2>2. at[j] \in Item /\ next[at[j]] = at[j + 1]
    BY <1>1, <1>2, <2>1
  <2>3. k # 0
    BY <1>1, <1>3, <2>2
  <2>4. bt[k - 1] \in Item /\ next[bt[k - 1]] = bt[k]
    BY <1>1, <1>2, <1>4, <2>3
  <2>5. at[j] = bt[k - 1]
    BY <1>3, <2>2, <2>4
  <2>6. Listed(at[j])
    BY <1>1, <2>1, <2>2, Arithmetic
  <2>7. m = n /\ j = k - 1
    BY <1>4, <1>6, <2>1, <2>3, <2>5, <2>6
  <2> QED
    BY <2>1, <2>7
<1>7. Nat \subseteq S
  <2> HIDE DEF S
  <2> QED
    BY <1>5, <1>6, NatSetInduction
<1>8. \A j, k \in 0 .. MaxItems : Listed(at[j]) /\ at[j] = bt[k] => m = n /\ j = k
  BY <1>7
<1> QED
  BY <1>8 DEF at, bt

(* The number of items of a list. *)
Length(m) == Cardinality({ k \in 0 .. MaxItems : Listed(ItemAt(m)[k]) })

(* Counting up to n.                                                       *)
LEMMA InitialSegment ==
  ASSUME NEW S, NEW N \in Nat, NEW n \in 0 .. N,
         S \subseteq 0 .. N, \A k \in 0 .. N : k \in S <=> k < n
  PROVE  Cardinality(S) = n
<1>1. S = 0 .. (n - 1)
  <2>1. \A k \in S : k \in 0 .. (n - 1)
    OBVIOUS
  <2>2. \A k \in 0 .. (n - 1) : k \in 0 .. N
    OBVIOUS
  <2>3. \A k \in 0 .. (n - 1) : k \in S
    BY <2>2
  <2> QED
    BY <2>1, <2>3
<1>2. Cardinality(0 .. (n - 1)) = IF 0 > n - 1 THEN 0 ELSE (n - 1) - 0 + 1
  BY FS_Interval
<1> QED
  BY <1>1, <1>2

(* There are more places than items, so a walk of that many visits one     *)
(* twice.                                                                  *)
LEMMA MoreThanItems ==
  /\ IsFiniteSet(0 .. MaxItems) /\ IsFiniteSet(Item) /\ Cardinality(Item) = MaxItems
  /\ Cardinality(Item) < Cardinality(0 .. MaxItems)
<1>1. /\ IsFiniteSet(0 .. MaxItems) /\ Cardinality(0 .. MaxItems) = MaxItems + 1
      /\ IsFiniteSet(Item) /\ Cardinality(Item) = MaxItems
  BY FS_Interval, Arithmetic DEF Item
<1> QED
  BY <1>1, Arithmetic

(* A list ends within the array. *)
LEMMA ListEnds ==
  MapInv => \A m \in Slots : \E n \in 0 .. MaxItems :
    \A k \in 0 .. MaxItems : IF k < n THEN Listed(ItemAt(m)[k]) ELSE ItemAt(m)[k] = End
<1> SUFFICES ASSUME MapInv, NEW m \in Slots
             PROVE  \E n \in 0 .. MaxItems : \A k \in 0 .. MaxItems :
                      IF k < n THEN Listed(ItemAt(m)[k]) ELSE ItemAt(m)[k] = End
  OBVIOUS
<1> DEFINE at == ItemAt(m)
           T == {k \in Nat : k <= MaxItems /\ ~Listed(at[k])}
<1>1. /\ DOMAIN at = 0 .. MaxItems /\ at = [k \in 0 .. MaxItems |-> at[k]]
      /\ \A k \in 1 .. MaxItems : at[k] = After(at[k - 1])
      /\ \A k \in 0 .. MaxItems : at[k] = End \/ Listed(at[k])
      /\ \A j, k \in 0 .. MaxItems : Listed(at[j]) /\ at[j] = at[k] => j = k
  BY ItemAtFacts, ItemAtDef, EndOrListed, OnePlace DEF MapInv
<1> HIDE DEF at
<1>2. T # {}
  <2> SUFFICES ASSUME \A k \in 0 .. MaxItems : Listed(at[k]) PROVE FALSE
    BY Arithmetic
  <2>1. at \in [0 .. MaxItems -> Item]
    BY <1>1 DEF Listed
  <2>2. \E x, y \in 0 .. MaxItems : x # y /\ at[x] = at[y]
    BY <2>1, MoreThanItems, FS_PigeonHole, Zenon
  <2> QED
    BY <1>1, <2>2
<1>3. PICK n \in T : \A k \in T : n <= k
  <2>1. T \in SUBSET Nat
    OBVIOUS
  <2> HIDE DEF T
  <2> QED
    BY <1>2, <2>1, NatMin
<1>4. n \in 0 .. MaxItems /\ at[n] = End
  BY <1>1, <1>3
<1>5. \A k \in 0 .. MaxItems : k < n => Listed(at[k])
  BY <1>3
<1>6. \A k \in 0 .. MaxItems : k >= n => at[k] = End
  <2> DEFINE S == {k \in Nat : n <= k /\ k <= MaxItems => at[k] = End}
  <2>1. 0 \in S
    BY <1>4
  <2>2. ASSUME NEW k \in Nat, k \in S PROVE k + 1 \in S
    <3> SUFFICES ASSUME n <= k + 1, k + 1 <= MaxItems PROVE at[k + 1] = End
      OBVIOUS
    <3>1. CASE n = k + 1
      BY <1>4, <3>1
    <3>2. CASE n # k + 1
      <4>1. n <= k /\ k + 1 \in 1 .. MaxItems /\ (k + 1) - 1 = k
        BY <1>4, <3>2, Arithmetic
      <4>2. at[k] = End
        BY <2>2, <4>1, Arithmetic
      <4> QED
        BY <1>1, <4>1, <4>2, Arithmetic DEF After
    <3> QED
      BY <3>1, <3>2
  <2>3. Nat \subseteq S
    <3> HIDE DEF S
    <3> QED
      BY <2>1, <2>2, NatSetInduction
  <2> QED
    BY <2>3
<1>7. \A k \in 0 .. MaxItems : IF k < n THEN Listed(at[k]) ELSE at[k] = End
  BY <1>4, <1>5, <1>6
<1> QED
  BY <1>4, <1>7 DEF at

(* The items of a list come first, then its end.                           *)
LEMMA LengthFacts ==
  MapInv => \A m \in Slots :
    /\ Length(m) \in 0 .. MaxItems
    /\ \A k \in 0 .. MaxItems :
         IF k < Length(m) THEN Listed(ItemAt(m)[k]) ELSE ItemAt(m)[k] = End
<1> SUFFICES ASSUME MapInv, NEW m \in Slots
             PROVE  /\ Length(m) \in 0 .. MaxItems
                    /\ \A k \in 0 .. MaxItems :
                         IF k < Length(m) THEN Listed(ItemAt(m)[k]) ELSE ItemAt(m)[k] = End
  OBVIOUS
<1>1. PICK n \in 0 .. MaxItems :
        \A k \in 0 .. MaxItems : IF k < n THEN Listed(ItemAt(m)[k]) ELSE ItemAt(m)[k] = End
  BY ListEnds
<1> DEFINE S == { k \in 0 .. MaxItems : Listed(ItemAt(m)[k]) }
<1>2. S \subseteq 0 .. MaxItems /\ \A k \in 0 .. MaxItems : k \in S <=> k < n
  BY <1>1, Arithmetic DEF Listed
<1>3. Cardinality(S) = n
  <2> HIDE DEF S
  <2> QED
    BY <1>2, InitialSegment, Arithmetic
<1> QED
  BY <1>1, <1>3 DEF Length

(* The length of a list whose items are known. *)
LEMMA LengthIs ==
  MapInv => \A m \in Slots : \A n \in 0 .. MaxItems :
    (\A k \in 0 .. MaxItems : Listed(ItemAt(m)[k]) <=> k < n) => Length(m) = n
<1> SUFFICES ASSUME NEW m \in Slots, NEW n \in 0 .. MaxItems,
                    \A k \in 0 .. MaxItems : Listed(ItemAt(m)[k]) <=> k < n
             PROVE  Length(m) = n
  OBVIOUS
<1> DEFINE S == { k \in 0 .. MaxItems : Listed(ItemAt(m)[k]) }
<1>1. S \subseteq 0 .. MaxItems /\ \A k \in 0 .. MaxItems : k \in S <=> k < n
  OBVIOUS
<1>2. Cardinality(S) = n
  <2> HIDE DEF S
  <2> QED
    BY <1>1, InitialSegment, Arithmetic
<1> QED
  BY <1>2 DEF Length

(* The parameters of a message, by the length of its list.                 *)
LEMMA ParamsAre ==
  \A m : ParamsOf(m) = [k \in 1 .. Length(m) |-> mapParam[ItemAt(m)[k - 1]]]
  BY DEF ParamsOf, Length

(* The n items of list m are g[0], ..., g[n - 1]. *)
IsList(g, n, m) ==
  /\ g = [k \in 0 .. MaxItems |-> g[k]] /\ n \in 0 .. MaxItems
  /\ g[0] = first[m] /\ \A k \in 1 .. MaxItems : g[k] = After(g[k - 1])
  /\ \A k \in 0 .. MaxItems : Listed(g[k]) <=> k < n

(* A list is what ItemAt and Length say.                                   *)
LEMMA TheList == MapInv => \A m \in Slots : IsList(ItemAt(m), Length(m), m)
<1> SUFFICES ASSUME MapInv, NEW m \in Slots PROVE IsList(ItemAt(m), Length(m), m)
  OBVIOUS
<1>1. \A k \in 0 .. MaxItems : Listed(ItemAt(m)[k]) <=> k < Length(m)
  BY LengthFacts, Arithmetic DEF Listed
<1>2. TypeOK /\ Length(m) \in 0 .. MaxItems
  BY LengthFacts DEF MapInv
<1>3. /\ ItemAt(m) = [k \in 0 .. MaxItems |-> ItemAt(m)[k]]
      /\ ItemAt(m)[0] = first[m]
      /\ \A k \in 1 .. MaxItems : ItemAt(m)[k] = After(ItemAt(m)[k - 1])
  BY <1>2, ItemAtFacts, ItemAtDef
<1> QED
  BY <1>1, <1>2, <1>3, Zenon DEF IsList

(* Nothing else is.                                                        *)
ListsDetermined ==
  \A m \in Slots : \A g, n : IsList(g, n, m) => ItemAt(m) = g /\ Length(m) = n

LEMMA OnlyList == MapInv => ListsDetermined
<1> SUFFICES ASSUME MapInv, NEW m \in Slots, NEW g, NEW n, IsList(g, n, m)
             PROVE  ItemAt(m) = g /\ Length(m) = n
  BY DEF ListsDetermined
<1>1. ItemAt(m) = g
  <2>1. TypeOK
    BY DEF MapInv
  <2> QED
    BY <2>1, ItemAtUnique, Zenon DEF IsList
<1>2. n \in 0 .. MaxItems /\ \A k \in 0 .. MaxItems : Listed(ItemAt(m)[k]) <=> k < n
  BY <1>1, Zenon DEF IsList
<1>3. Length(m) = n
  BY <1>2, LengthIs, Zenon
<1> QED
  BY <1>1, <1>3

(* What a later list is, and the parameters it maps. *)
LEMMA LaterList ==
  ASSUME MapInv', NEW m \in Slots, NEW g, NEW n, IsList(g, n, m)'
  PROVE  /\ ItemAt(m)' = g /\ Length(m)' = n
         /\ ParamsOf(m)' = [k \in 1 .. n |-> mapParam'[g[k - 1]]]
<1>1. (MapInv => ListsDetermined)'
  BY OnlyList, PTL
<1>2. ItemAt(m)' = g /\ Length(m)' = n
  BY <1>1 DEF ListsDetermined
<1> QED
  BY <1>2 DEF ParamsOf, Length

(* A walk follows the list. *)
LEMMA WalkIsList ==
  ASSUME MapInv, NEW m \in Slots, NEW k \in Item, NEW path \in Walk(m, k)
  PROVE  /\ k < Length(m) /\ path[k] = ItemAt(m)[k]
         /\ k > 0 => path[k - 1] = ItemAt(m)[k - 1]
<1>0. PICK at : at = ItemAt(m)
  OBVIOUS
<1> DEFINE S == {j \in Nat : j <= k => path[j] = at[j]}
<1>1. /\ at[0] = first[m] /\ \A j \in 1 .. MaxItems : at[j] = After(at[j - 1])
      /\ Length(m) \in 0 .. MaxItems
      /\ \A j \in 0 .. MaxItems : Listed(at[j]) <=> j < Length(m)
  BY <1>0, TheList, Zenon DEF IsList
<1>2. /\ path \in [0 .. k -> Item] /\ path[0] = first[m]
      /\ \A j \in 0 .. k : next[path[j]] # Unset
      /\ \A j \in 0 .. k - 1 : path[j + 1] = next[path[j]]
  BY DEF Walk
<1>3. k \in Nat /\ k < MaxItems
  BY Arithmetic DEF Item
<1>4. 0 \in S
  BY <1>1, <1>2
<1>5. ASSUME NEW j \in Nat, j \in S PROVE j + 1 \in S
  <2> SUFFICES ASSUME j + 1 <= k PROVE path[j + 1] = at[j + 1]
    OBVIOUS
  <2>1. /\ j + 1 \in 1 .. MaxItems /\ (j + 1) - 1 = j /\ j \in 0 .. k - 1 /\ j \in 0 .. k /\ j <= k
    BY <1>3, Arithmetic
  <2>2. path[j] = at[j] /\ path[j] \in Item
    BY <1>2, <1>5, <2>1
  <2> QED
    BY <1>1, <1>2, <2>1, <2>2 DEF After
<1>6. Nat \subseteq S
  <2> HIDE DEF S
  <2> QED
    BY <1>4, <1>5, NatSetInduction
<1>7. \A j \in 0 .. k : path[j] = at[j]
  BY <1>6
<1>8. k \in 0 .. k /\ k \in 0 .. MaxItems /\ (k > 0 => k - 1 \in 0 .. k)
  BY <1>3, Arithmetic
<1>9. Listed(at[k])
  BY <1>2, <1>7, <1>8 DEF Listed
<1> QED
  BY <1>0, <1>1, <1>7, <1>8, <1>9

(* While an item is free no list takes up the array. *)
LEMMA RoomForOne ==
  ASSUME MapInv, NEW m \in Slots, NEW i \in Item, next[i] = Unset
  PROVE  Length(m) < MaxItems
<1>0. PICK at : at = ItemAt(m)
  OBVIOUS
<1>1. /\ Length(m) \in 0 .. MaxItems
      /\ \A k \in 0 .. MaxItems : k < Length(m) => Listed(at[k])
      /\ \A j, k \in 0 .. MaxItems : Listed(at[j]) /\ at[j] = at[k] => j = k
  BY <1>0, LengthFacts, OnePlace
<1> SUFFICES ASSUME Length(m) = MaxItems PROVE FALSE
  BY <1>1, Arithmetic
<1> DEFINE f == [k \in 0 .. MaxItems |-> IF k < MaxItems THEN at[k] ELSE i]
<1>2. \A k \in 0 .. MaxItems : k < MaxItems => Listed(at[k])
  BY <1>1
<1>3. f \in [0 .. MaxItems -> Item]
  BY <1>2 DEF Listed
<1>4. \A j, k \in 0 .. MaxItems : f[j] = f[k] => j = k
  BY <1>1, <1>2, Arithmetic DEF Listed
<1>5. \E j, k \in 0 .. MaxItems : j # k /\ f[j] = f[k]
  <2> HIDE DEF f
  <2> QED
    BY <1>3, MoreThanItems, FS_PigeonHole, Zenon
<1> HIDE DEF f
<1> QED
  BY <1>4, <1>5

(* What the operations make of a list.  A list whose items are left alone  *)
(* is what it was, also under another message. *)
LEMMA SameList ==
  ASSUME MapInv, MapInv', NEW m \in Slots, NEW n \in Slots, first'[n] = first[m],
         \A k \in 0 .. MaxItems : Listed(ItemAt(m)[k]) =>
           /\ next'[ItemAt(m)[k]] = next[ItemAt(m)[k]]
           /\ mapParam'[ItemAt(m)[k]] = mapParam[ItemAt(m)[k]]
  PROVE  Length(n)' = Length(m) /\ ParamsOf(n)' = ParamsOf(m)
<1>0. PICK at, len : at = ItemAt(m) /\ len = Length(m)
  OBVIOUS
<1>1. IsList(at, len, m)
  BY <1>0, TheList
<1>2. \A k \in 0 .. MaxItems : Listed(at[k]) \/ at[k] = End
  BY <1>0, LengthFacts
<1>3. \A k \in 0 .. MaxItems :
        /\ Listed(at[k]) => next'[at[k]] = next[at[k]] /\ mapParam'[at[k]] = mapParam[at[k]]
  BY <1>0
<1>4. \A k \in 0 .. MaxItems : After(at[k])' = After(at[k]) /\ (Listed(at[k])' <=> Listed(at[k]))
  BY <1>2, <1>3, Arithmetic DEF After, Listed
<1>5. IsList(at, len, n)'
  <2>1. \A k \in 1 .. MaxItems : k - 1 \in 0 .. MaxItems
    BY Arithmetic
  <2>2. \A k \in 1 .. MaxItems : at[k] = After(at[k - 1])'
    BY <1>1, <1>4, <2>1 DEF IsList
  <2>3. \A k \in 0 .. MaxItems : Listed(at[k])' <=> k < len
    BY <1>1, <1>4 DEF IsList
  <2> QED
    BY <1>1, <2>2, <2>3, Zenon DEF IsList
<1>6. /\ Length(n)' = len
      /\ ParamsOf(n)' = [k \in 1 .. len |-> mapParam'[at[k - 1]]]
  BY <1>5, LaterList
<1>7. \A k \in 1 .. len : mapParam'[at[k - 1]] = mapParam[at[k - 1]]
  BY <1>1, <1>3, Arithmetic DEF IsList
<1>8. ParamsOf(m) = [k \in 1 .. len |-> mapParam[at[k - 1]]]
  BY <1>0, ParamsAre
<1> QED
  BY <1>0, <1>6, <1>7, <1>8

(* A list that begins. *)
LEMMA ListOfOne ==
  ASSUME MapInv', NEW m \in Slots, NEW i \in Item, first'[m] = i, next'[i] = End
  PROVE  Length(m)' = 1 /\ ParamsOf(m)' = <<mapParam'[i]>>
<1>0. PICK g : g = [k \in 0 .. MaxItems |-> IF k = 0 THEN i ELSE End]
  OBVIOUS
<1>1. g[0] = first'[m] /\ g = [k \in 0 .. MaxItems |-> g[k]] /\ 1 \in 0 .. MaxItems
  BY <1>0, Arithmetic
<1>2. ASSUME NEW k \in 1 .. MaxItems PROVE g[k] = After(g[k - 1])'
  <2>1. g[k] = End /\ k - 1 \in 0 .. MaxItems
    BY <1>0, Arithmetic
  <2>2. g[k - 1] = i \/ g[k - 1] = End
    BY <1>0, <2>1
  <2> QED
    BY <2>1, <2>2, Arithmetic DEF After
<1>3. ASSUME NEW k \in 0 .. MaxItems PROVE Listed(g[k])' <=> k < 1
  BY <1>0, Arithmetic DEF Listed
<1>4. IsList(g, 1, m)'
  BY <1>1, <1>2, <1>3, Zenon DEF IsList
<1>5. /\ Length(m)' = 1
      /\ ParamsOf(m)' = [k \in 1 .. 1 |-> mapParam'[g[k - 1]]]
  BY <1>4, LaterList
<1>6. [k \in 1 .. 1 |-> mapParam'[g[k - 1]]] = <<mapParam'[i]>>
  BY <1>0, Arithmetic
<1> QED
  BY <1>5, <1>6

(* A list that gets an item at its end. *)
LEMMA ListAppended ==
  ASSUME MapInv, MapInv', NEW m \in Slots, NEW p \in Item, NEW last \in 0 .. MaxItems,
         p = ItemAt(m)[last], next[p] = End, NEW i \in Item, next[i] = Unset, NEW param,
         first'[m] = first[m], next' = [next EXCEPT ![i] = End, ![p] = i],
         mapParam' = [mapParam EXCEPT ![i] = param]
  PROVE  Length(m)' = Length(m) + 1 /\ ParamsOf(m)' = Append(ParamsOf(m), param)
<1>0. PICK at, len : at = ItemAt(m) /\ len = Length(m)
  OBVIOUS
<1>1. /\ len \in 0 .. MaxItems /\ len < MaxItems
      /\ at[0] = first[m] /\ \A k \in 1 .. MaxItems : at[k] = After(at[k - 1])
      /\ \A k \in 0 .. MaxItems : IF k < len THEN Listed(at[k]) ELSE at[k] = End
      /\ \A j, k \in 0 .. MaxItems : Listed(at[j]) /\ at[j] = at[k] => j = k
  <2>1. IsList(at, len, m) /\ len < MaxItems
    BY <1>0, TheList, RoomForOne
  <2>2. \A k \in 0 .. MaxItems : IF k < len THEN Listed(at[k]) ELSE at[k] = End
    BY <1>0, LengthFacts
  <2>3. \A j, k \in 0 .. MaxItems : Listed(at[j]) /\ at[j] = at[k] => j = k
    BY <1>0, OnePlace
  <2> QED
    BY <2>1, <2>2, <2>3, Zenon DEF IsList
<1>2. p = at[last] /\ last < len /\ len - 1 = last /\ last < MaxItems
  <2>1. p = at[last] /\ last < len
    BY <1>0, <1>1, Arithmetic
  <2>2. last < MaxItems /\ last + 1 \in 1 .. MaxItems /\ (last + 1) - 1 = last /\ last + 1 \in 0 .. MaxItems
    BY <1>1, <2>1, Arithmetic
  <2>3. at[last + 1] = End
    BY <1>1, <2>1, <2>2 DEF After
  <2>4. ~(last + 1 < len)
    BY <1>1, <2>2, <2>3, Arithmetic DEF Listed
  <2> QED
    BY <1>1, <2>1, <2>2, <2>4, Arithmetic
<1>3. PICK g : g = [k \in 0 .. MaxItems |-> IF k < len THEN at[k] ELSE IF k = len THEN i ELSE End]
  OBVIOUS
<1>4. /\ next \in [0 .. End -> Item \cup {End, Unset}] /\ mapParam \in [0 .. End -> Params \cup {NoParam}]
      /\ i \in 0 .. End /\ p \in 0 .. End /\ i # p
  BY Arithmetic DEF MapInv, TypeOK
<1>5. /\ next'[i] = End /\ next'[p] = i
      /\ \A j \in Item : j # i /\ j # p => next'[j] = next[j]
  <2>1. \A j \in Item : j \in 0 .. End
    BY Arithmetic
  <2> QED
    BY <1>4, <2>1
<1>6. \A k \in 0 .. MaxItems : k < len => at[k] \in Item /\ at[k] # i /\ next[at[k]] # Unset
  BY <1>1 DEF Listed
<1>7. /\ g[0] = first'[m] /\ g = [k \in 0 .. MaxItems |-> g[k]] /\ len + 1 \in 0 .. MaxItems
  BY <1>1, <1>2, <1>3, Arithmetic
<1>8. ASSUME NEW k \in 1 .. MaxItems PROVE g[k] = After(g[k - 1])'
  <2>1. k - 1 \in 0 .. MaxItems /\ k \in 0 .. MaxItems
    BY Arithmetic
  <2>2. CASE k < len
    <3>1. g[k] = at[k] /\ g[k - 1] = at[k - 1] /\ at[k] = After(at[k - 1]) /\ k - 1 < len
      BY <1>1, <1>3, <2>1, <2>2, Arithmetic
    <3>2. at[k - 1] \in Item /\ at[k - 1] # i /\ Listed(at[k - 1])
      BY <1>6, <2>1, <3>1 DEF Listed
    <3>3. at[k - 1] # p
      BY <1>1, <1>2, <2>1, <2>2, <3>2, Arithmetic
    <3> QED
      BY <1>5, <3>1, <3>2, <3>3 DEF After
  <2>3. CASE k = len
    <3>1. g[k] = i /\ g[k - 1] = p
      BY <1>1, <1>2, <1>3, <2>1, <2>3, Arithmetic
    <3> QED
      BY <1>5, <3>1 DEF After
  <2>4. CASE k > len
    <3>1. g[k] = End /\ (g[k - 1] = i \/ g[k - 1] = End)
      BY <1>1, <1>3, <2>1, <2>4, Arithmetic
    <3> QED
      BY <1>5, <3>1, Arithmetic DEF After
  <2> QED
    BY <1>1, <2>2, <2>3, <2>4, Arithmetic
<1>9. ASSUME NEW k \in 0 .. MaxItems PROVE Listed(g[k])' <=> k < len + 1
  <2>1. CASE k < len
    <3>1. g[k] = at[k] /\ at[k] \in Item /\ at[k] # i /\ next[at[k]] # Unset
      BY <1>3, <1>6, <2>1
    <3>2. next'[at[k]] # Unset
      BY <1>5, <3>1, Arithmetic
    <3> QED
      BY <1>1, <2>1, <3>1, <3>2, Arithmetic DEF Listed
  <2>2. CASE k = len
    BY <1>1, <1>3, <1>5, <2>2, Arithmetic DEF Listed
  <2>3. CASE k > len
    BY <1>1, <1>3, <2>3, Arithmetic DEF Listed
  <2> QED
    BY <1>1, <2>1, <2>2, <2>3, Arithmetic
<1>10. IsList(g, len + 1, m)'
  BY <1>7, <1>8, <1>9, Zenon DEF IsList
<1>11. /\ Length(m)' = len + 1
       /\ ParamsOf(m)' = [k \in 1 .. len + 1 |-> mapParam'[g[k - 1]]]
  BY <1>10, LaterList
<1>12. ParamsOf(m) = [k \in 1 .. len |-> mapParam[at[k - 1]]]
  BY <1>0, ParamsAre
<1>13. Append(ParamsOf(m), param) = [k \in 1 .. len + 1 |-> IF k = len + 1 THEN param ELSE mapParam[at[k - 1]]]
  BY <1>1, <1>12
<1>14. \A k \in 1 .. len + 1 : mapParam'[g[k - 1]] = IF k = len + 1 THEN param ELSE mapParam[at[k - 1]]
  <2> SUFFICES ASSUME NEW k \in 1 .. len + 1
               PROVE  mapParam'[g[k - 1]] = IF k = len + 1 THEN param ELSE mapParam[at[k - 1]]
    OBVIOUS
  <2>1. k - 1 \in 0 .. MaxItems
    BY <1>1, Arithmetic
  <2>2. CASE k = len + 1
    BY <1>1, <1>3, <1>4, <2>1, <2>2, Arithmetic
  <2>3. CASE k # len + 1
    <3>1. k - 1 < len /\ g[k - 1] = at[k - 1]
      BY <1>1, <1>3, <2>1, <2>3, Arithmetic
    <3>2. at[k - 1] \in 0 .. End /\ at[k - 1] # i
      BY <1>6, <2>1, <3>1, Arithmetic
    <3> QED
      BY <1>4, <2>3, <3>1, <3>2
  <2> QED
    BY <2>2, <2>3
<1> QED
  BY <1>0, <1>11, <1>13, <1>14

(* A list that loses the item at place k. *)
LEMMA ListShortened ==
  ASSUME MapInv, MapInv', NEW m \in Slots, NEW k \in 0 .. MaxItems, k < Length(m),
         \/ /\ k = 0 /\ first'[m] = next[ItemAt(m)[k]]
            /\ next' = [next EXCEPT ![ItemAt(m)[k]] = Unset]
         \/ /\ k > 0 /\ first'[m] = first[m]
            /\ next' = [next EXCEPT ![ItemAt(m)[k - 1]] = next[ItemAt(m)[k]], ![ItemAt(m)[k]] = Unset],
         UNCHANGED mapParam
  PROVE  /\ Length(m)' = Length(m) - 1
         /\ ParamsOf(m)' = [j \in 1 .. Length(m) - 1 |->
                              ParamsOf(m)[IF j <= k THEN j ELSE j + 1]]
<1>0. PICK at, len : at = ItemAt(m) /\ len = Length(m)
  OBVIOUS
<1>1. /\ len \in 0 .. MaxItems /\ k < len
      /\ at[0] = first[m] /\ \A j \in 1 .. MaxItems : at[j] = After(at[j - 1])
      /\ \A j \in 0 .. MaxItems : IF j < len THEN Listed(at[j]) ELSE at[j] = End
      /\ \A i, j \in 0 .. MaxItems : Listed(at[i]) /\ at[i] = at[j] => i = j
  <2>1. IsList(at, len, m)
    BY <1>0, TheList
  <2>2. \A j \in 0 .. MaxItems : IF j < len THEN Listed(at[j]) ELSE at[j] = End
    BY <1>0, LengthFacts
  <2>3. \A i, j \in 0 .. MaxItems : Listed(at[i]) /\ at[i] = at[j] => i = j
    BY <1>0, OnePlace
  <2> QED
    BY <1>0, <2>1, <2>2, <2>3, Zenon DEF IsList
<1>2. PICK i : i = at[k]
  OBVIOUS
<1>3. /\ i \in Item /\ i \in 0 .. End /\ next[i] # Unset
      /\ k > 0 => /\ k - 1 \in 0 .. MaxItems /\ at[k - 1] \in Item /\ at[k - 1] \in 0 .. End
                  /\ at[k - 1] # i
  BY <1>1, <1>2, Arithmetic DEF Listed
<1>4. next \in [0 .. End -> Item \cup {End, Unset}]
  BY DEF MapInv, TypeOK
<1>5. /\ next'[i] = Unset
      /\ k > 0 => next'[at[k - 1]] = next[i] /\ first'[m] = first[m]
      /\ k = 0 => first'[m] = next[i]
      /\ \A j \in Item : j # i /\ (k > 0 => j # at[k - 1]) => next'[j] = next[j]
  <2>1. \A j \in Item : j \in 0 .. End
    BY Arithmetic
  <2> QED
    BY <1>0, <1>2, <1>3, <1>4, <2>1, Arithmetic
<1>6. PICK g : g = [j \in 0 .. MaxItems |-> IF j < k THEN at[j] ELSE After(at[j])]
  OBVIOUS
<1>7. /\ g[0] = first'[m] /\ g = [j \in 0 .. MaxItems |-> g[j]] /\ len - 1 \in 0 .. MaxItems
  <2>1. CASE k = 0
    BY <1>1, <1>2, <1>3, <1>5, <1>6, <2>1, Arithmetic DEF After
  <2>2. CASE k > 0
    BY <1>1, <1>5, <1>6, <2>2, Arithmetic
  <2> QED
    BY <2>1, <2>2, Arithmetic
<1>8. ASSUME NEW j \in 1 .. MaxItems PROVE g[j] = After(g[j - 1])'
  <2>1. j - 1 \in 0 .. MaxItems /\ j \in 0 .. MaxItems /\ at[j] = After(at[j - 1])
    BY <1>1, Arithmetic
  <2>2. CASE j < k
    <3>1. g[j] = at[j] /\ g[j - 1] = at[j - 1] /\ Listed(at[j - 1])
      BY <1>1, <1>6, <2>1, <2>2, Arithmetic
    <3>2. at[j - 1] # i /\ at[j - 1] # at[k - 1]
      BY <1>1, <1>2, <1>3, <2>1, <2>2, <3>1, Arithmetic
    <3> QED
      BY <1>5, <2>1, <3>1, <3>2 DEF After, Listed
  <2>3. CASE j = k
    <3>1. g[j] = After(at[k]) /\ g[j - 1] = at[k - 1] /\ k > 0
      BY <1>6, <2>1, <2>3, Arithmetic
    <3> QED
      BY <1>2, <1>3, <1>5, <3>1 DEF After
  <2>4. CASE j > k
    <3>1. g[j] = After(at[j]) /\ g[j - 1] = at[j]
      BY <1>6, <2>1, <2>4, Arithmetic
    <3>2. CASE at[j] = End
      BY <3>1, <3>2, Arithmetic DEF After
    <3>3. CASE Listed(at[j])
      <4>1. at[j] # i /\ (k > 0 => at[j] # at[k - 1])
        BY <1>1, <1>2, <1>3, <2>1, <2>4, <3>3, Arithmetic
      <4> QED
        BY <1>5, <3>1, <3>3, <4>1 DEF After, Listed
    <3> QED
      BY <1>1, <2>1, <3>2, <3>3
  <2> QED
    BY <2>2, <2>3, <2>4, Arithmetic
<1>9. \A j \in 0 .. MaxItems : j # k /\ j < len => Listed(at[j])'
  <2> SUFFICES ASSUME NEW j \in 0 .. MaxItems, j # k, j < len PROVE Listed(at[j])'
    OBVIOUS
  <2>1. Listed(at[j]) /\ at[j] # i
    BY <1>1, <1>2
  <2>2. CASE k > 0 /\ j = k - 1
    <3>1. at[k - 1] \in Item /\ next'[at[k - 1]] = next[i]
      BY <1>3, <1>5, <2>2
    <3>2. next[i] # Unset
      BY <1>3
    <3> QED
      BY <2>2, <3>1, <3>2 DEF Listed
  <2>3. CASE ~(k > 0 /\ j = k - 1)
    <3>1. k > 0 => at[j] # at[k - 1]
      BY <1>1, <1>3, <2>1, <2>3
    <3> QED
      BY <1>5, <2>1, <3>1 DEF Listed
  <2> QED
    BY <2>2, <2>3
<1>10. ASSUME NEW j \in 0 .. MaxItems PROVE Listed(g[j])' <=> j < len - 1
  <2>1. CASE j < k
    BY <1>1, <1>6, <1>9, <2>1, Arithmetic
  <2>2. CASE j >= k /\ j < MaxItems
    <3>1. j + 1 \in 1 .. MaxItems /\ j + 1 \in 0 .. MaxItems /\ (j + 1) - 1 = j /\ j + 1 # k
      BY <2>2, Arithmetic
    <3>2. g[j] = at[j + 1]
      BY <1>1, <1>6, <2>2, <3>1, Arithmetic
    <3>3. CASE j + 1 < len
      BY <1>1, <1>9, <3>1, <3>2, <3>3, Arithmetic
    <3>4. CASE ~(j + 1 < len)
      BY <1>1, <3>1, <3>2, <3>4, Arithmetic DEF Listed
    <3> QED
      BY <3>3, <3>4
  <2>3. CASE j = MaxItems
    <3>1. at[j] = End /\ g[j] = End
      BY <1>1, <1>6, <2>3, Arithmetic DEF After
    <3> QED
      BY <1>1, <2>3, <3>1, Arithmetic DEF Listed
  <2> QED
    BY <2>1, <2>2, <2>3, Arithmetic
<1>11. IsList(g, len - 1, m)'
  BY <1>7, <1>8, <1>10, Zenon DEF IsList
<1>12. /\ Length(m)' = len - 1
       /\ ParamsOf(m)' = [j \in 1 .. len - 1 |-> mapParam'[g[j - 1]]]
  BY <1>11, LaterList
<1>13. ParamsOf(m) = [j \in 1 .. len |-> mapParam[at[j - 1]]]
  BY <1>0, ParamsAre
<1>14. \A j \in 1 .. len - 1 : mapParam'[g[j - 1]] = ParamsOf(m)[IF j <= k THEN j ELSE j + 1]
  <2> SUFFICES ASSUME NEW j \in 1 .. len - 1
               PROVE  mapParam[g[j - 1]] = ParamsOf(m)[IF j <= k THEN j ELSE j + 1]
    OBVIOUS
  <2>1. j - 1 \in 0 .. MaxItems /\ j \in 1 .. MaxItems /\ j \in 1 .. len /\ j + 1 \in 1 .. len /\ (j + 1) - 1 = j
    BY <1>1, Arithmetic
  <2>2. CASE j <= k
    <3>1. g[j - 1] = at[j - 1]
      BY <1>6, <2>1, <2>2, Arithmetic
    <3> QED
      BY <1>13, <2>1, <2>2, <3>1
  <2>3. CASE ~(j <= k)
    <3>1. g[j - 1] = at[j]
      BY <1>1, <1>6, <2>1, <2>3, Arithmetic
    <3> QED
      BY <1>13, <2>1, <2>3, <3>1
  <2> QED
    BY <2>2, <2>3
<1> QED
  BY <1>0, <1>12, <1>14
-------------------------------------------------------------------------------
(* Tables.                                                                 *)

(* The number of messages of a map. *)
Count(dir) == Cardinality(Used(dir))

(* A map has n messages when its first n slots are used.                   *)
IsCount(n, dir) ==
  n \in 0 .. MaxMessages /\ \A m \in SlotsOf(dir) : first[m] # End <=> m < Base(dir) + n

CountsDetermined == \A dir \in Dirs : \A n : IsCount(n, dir) => Count(dir) = n

(* The slots of a map are consecutive numbers.                             *)
LEMMA SlotNumbers ==
  \A dir \in Dirs :
    /\ Base(dir) \in Nat
    /\ \A m : m \in SlotsOf(dir) <=> m \in Nat /\ Base(dir) <= m /\ m < Base(dir) + MaxMessages
    /\ \A m \in SlotsOf(dir) : m \in Slots
  BY SlotsApart, Arithmetic DEF SlotsOf, Base

(* A map has one number of messages.                                       *)
LEMMA OnlyCount == MapInv => CountsDetermined
<1> SUFFICES ASSUME MapInv, NEW dir \in Dirs, NEW n, IsCount(n, dir)
             PROVE  Count(dir) = n
  BY DEF CountsDetermined
<1>1. n \in Nat /\ n <= MaxMessages /\ Base(dir) \in Nat
  BY SlotNumbers, Arithmetic DEF IsCount
<1>2. Used(dir) = Base(dir) .. (Base(dir) + n - 1)
  <2>1. Used(dir) = { m \in SlotsOf(dir) : m < Base(dir) + n }
    BY UsedSlots DEF MapInv, IsCount
  <2>2. \A m \in Used(dir) : m \in Base(dir) .. (Base(dir) + n - 1)
    BY <1>1, <2>1, SlotNumbers
  <2>3. \A m \in Base(dir) .. (Base(dir) + n - 1) : m \in Used(dir)
    BY <1>1, <2>1, SlotNumbers, Arithmetic
  <2> QED
    BY <2>2, <2>3
<1>3. Cardinality(Base(dir) .. (Base(dir) + n - 1)) = n
  <2>1. PICK a, b : a = Base(dir) /\ b = Base(dir) + n - 1
    OBVIOUS
  <2>2. Cardinality(a .. b) = IF a > b THEN 0 ELSE b - a + 1
    <3>1. a \in Int /\ b \in Int
      BY <1>1, <2>1
    <3> QED
      BY <3>1, FS_Interval
  <2> QED
    BY <1>1, <2>1, <2>2
<1> QED
  BY <1>2, <1>3 DEF Count

(* It is the number of slots used.                                         *)
LEMMA TheCount == MapInv => \A dir \in Dirs : IsCount(Count(dir), dir)
<1> SUFFICES ASSUME MapInv, NEW dir \in Dirs PROVE IsCount(Count(dir), dir)
  OBVIOUS
<1> DEFINE T == { n \in Nat : n <= MaxMessages /\ (n < MaxMessages => first[Base(dir) + n] = End) }
<1>1. PICK n \in T : \A k \in T : n <= k
  <2>1. MaxMessages \in T
    BY Arithmetic
  <2>2. T \in SUBSET Nat /\ T # {}
    BY <2>1
  <2> HIDE DEF T
  <2> QED
    BY <2>2, NatMin
<1>2. n \in 0 .. MaxMessages /\ Base(dir) \in Nat
  BY <1>1, SlotNumbers, Arithmetic
<1>3. ASSUME NEW m \in SlotsOf(dir) PROVE first[m] # End <=> m < Base(dir) + n
  <2>1. m \in Nat /\ Base(dir) <= m /\ m < Base(dir) + MaxMessages
    BY SlotNumbers
  <2>2. CASE m < Base(dir) + n
    <3>1. m - Base(dir) \in Nat /\ ~(n <= m - Base(dir)) /\ m - Base(dir) < MaxMessages
          /\ Base(dir) + (m - Base(dir)) = m
      BY <1>2, <2>1, <2>2, Arithmetic
    <3>2. m - Base(dir) \notin T
      BY <1>1, <3>1
    <3> QED
      BY <2>2, <3>1, <3>2, Arithmetic
  <2>3. CASE ~(m < Base(dir) + n)
    <3>1. n < MaxMessages /\ first[Base(dir) + n] = End
      BY <1>1, <1>2, <2>1, <2>3, Arithmetic
    <3>2. Base(dir) + n \in SlotsOf(dir)
      BY <1>2, <3>1, SlotNumbers, Arithmetic
    <3>3. Base(dir) + n = m \/ Base(dir) + n < m
      BY <1>2, <2>1, <2>3
    <3> QED
      BY <2>3, <3>1, <3>2, <3>3 DEF MapInv, MessagesIntact, UsedFirst
  <2> QED
    BY <2>2, <2>3
<1>4. IsCount(n, dir)
  BY <1>2, <1>3 DEF IsCount
<1>5. Count(dir) = n
  BY <1>4, OnlyCount DEF CountsDetermined
<1> QED
  BY <1>4, <1>5

(* What a later table is. *)
LEMMA LaterTable ==
  ASSUME MapInv', NEW dir \in Dirs, NEW n, IsCount(n, dir)'
  PROVE  /\ Count(dir)' = n
         /\ TableOf(dir)' =
              [j \in 1 .. n |-> [id |-> canId'[Base(dir) + j - 1],
                                 params |-> ParamsOf(Base(dir) + j - 1)']]
<1>1. (MapInv => CountsDetermined)'
  BY OnlyCount, PTL
<1>2. Count(dir)' = n
  BY <1>1 DEF CountsDetermined
<1> QED
  BY <1>2 DEF TableOf, Count

(* Its messages are in the first of its slots.                             *)
LEMMA MessageSlots ==
  ASSUME MapInv, NEW dir \in Dirs, NEW j \in 1 .. Count(dir)
  PROVE  Base(dir) + j - 1 \in SlotsOf(dir) /\ first[Base(dir) + j - 1] # End
<1>1. PICK c : c = Count(dir)
  OBVIOUS
<1>2. c \in 0 .. MaxMessages /\ \A m \in SlotsOf(dir) : first[m] # End <=> m < Base(dir) + c
  BY <1>1, TheCount DEF IsCount
<1>3. j \in Nat /\ j >= 1 /\ j <= c /\ Base(dir) \in Nat
  BY <1>1, <1>2, SlotNumbers
<1>4. Base(dir) + j - 1 \in SlotsOf(dir)
  BY <1>2, <1>3, SlotNumbers, Arithmetic
<1> QED
  BY <1>2, <1>3, <1>4

(* A list nobody touches. *)
Kept(m) ==
  /\ first'[m] = first[m]
  /\ \A k \in 0 .. MaxItems : Listed(ItemAt(m)[k]) =>
       /\ next'[ItemAt(m)[k]] = next[ItemAt(m)[k]]
       /\ mapParam'[ItemAt(m)[k]] = mapParam[ItemAt(m)[k]]

(* Such a list maps the parameters it mapped.                              *)
LEMMA ListKept ==
  ASSUME MapInv, MapInv', NEW m \in Slots, Kept(m)
  PROVE  Length(m)' = Length(m) /\ ParamsOf(m)' = ParamsOf(m)
  BY SameList DEF Kept

(* A map of such lists, under their ids, is the table it was.              *)
LEMMA TableKept ==
  ASSUME MapInv, MapInv', NEW dir \in Dirs,
         \A m \in SlotsOf(dir) : Kept(m) /\ (first[m] # End => canId'[m] = canId[m])
  PROVE  TableOf(dir)' = TableOf(dir)
<1>1. PICK c : c = Count(dir)
  OBVIOUS
<1>2. IsCount(c, dir)'
  BY <1>1, TheCount DEF IsCount, Kept
<1>3. TableOf(dir)' =
        [j \in 1 .. c |-> [id |-> canId'[Base(dir) + j - 1],
                           params |-> ParamsOf(Base(dir) + j - 1)']]
  BY <1>2, LaterTable
<1>4. ASSUME NEW j \in 1 .. c
      PROVE  /\ canId'[Base(dir) + j - 1] = canId[Base(dir) + j - 1]
             /\ ParamsOf(Base(dir) + j - 1)' = ParamsOf(Base(dir) + j - 1)
  <2>1. PICK m : m = Base(dir) + j - 1
    OBVIOUS
  <2>2. m \in SlotsOf(dir) /\ first[m] # End /\ m \in Slots
    BY <1>1, <2>1, MessageSlots, SlotNumbers
  <2>3. canId'[m] = canId[m] /\ ParamsOf(m)' = ParamsOf(m)
    BY <2>2, ListKept
  <2> QED
    BY <2>1, <2>3
<1>5. TableOf(dir) =
        [j \in 1 .. c |-> [id |-> canId[Base(dir) + j - 1],
                           params |-> ParamsOf(Base(dir) + j - 1)]]
  BY <1>1 DEF TableOf, Count
<1> QED
  BY <1>3, <1>4, <1>5
-------------------------------------------------------------------------------
(* The operations on the lists are those on the tables.                    *)

(* A map without messages is the empty table.                              *)
LEMMA Empty ==
  ASSUME MapInv', NEW dir \in Dirs, IsCount(0, dir)'
  PROVE  TableOf(dir)' = <<>>
<1>1. TableOf(dir)' =
        [j \in 1 .. 0 |-> [id |-> canId'[Base(dir) + j - 1],
                           params |-> ParamsOf(Base(dir) + j - 1)']]
  BY LaterTable
<1> QED
  BY <1>1

(* At first both maps are empty.                                           *)
LEMMA StartsEmpty == Init => Table!Init
<1> SUFFICES ASSUME Init, NEW dir \in Dirs PROVE TableOf(dir) = <<>>
  BY DEF Table!Init, Table!Dirs, Dirs
<1>1. MapInv
  BY InitInv
<1>2. IsCount(0, dir)
  BY SlotNumbers, Arithmetic DEF Init, IsCount
<1>3. Count(dir) = 0
  BY <1>1, <1>2, OnlyCount DEF CountsDetermined
<1>4. TableOf(dir) =
        [j \in 1 .. 0 |-> [id |-> canId[Base(dir) + j - 1],
                           params |-> ParamsOf(Base(dir) + j - 1)]]
  BY <1>3 DEF TableOf, Count
<1> QED
  BY <1>4

(* A cleared map is an empty table, the other one is left alone.           *)
LEMMA ClearRefines == ASSUME MapInv, Clear PROVE Table!Clear
<1>1. MapInv'
  BY ClearInv
<1>2. ASSUME NEW dir \in Dirs PROVE TableOf(dir)' = <<>>
  <2>1. \A m \in SlotsOf(dir) : first'[m] = End
    BY SlotsApart DEF Clear, Cleared, Dirs
  <2>2. IsCount(0, dir)'
    BY <2>1, SlotNumbers, Arithmetic DEF IsCount
  <2> QED
    BY <1>1, <2>2, Empty
<1> QED
  BY <1>2 DEF Table!Clear, Table!Dirs, Dirs

(* A slot a message is in. *)
LEMMA MessageOfSlot ==
  ASSUME MapInv, NEW dir \in Dirs, NEW m \in SlotsOf(dir), first[m] # End
  PROVE  m - Base(dir) + 1 \in 1 .. Count(dir)
<1>1. PICK c : c = Count(dir)
  OBVIOUS
<1>2. c \in 0 .. MaxMessages /\ m < Base(dir) + c
  BY <1>1, TheCount DEF IsCount
<1>3. Base(dir) \in Nat /\ m \in Nat /\ Base(dir) <= m
  BY SlotNumbers
<1> QED
  BY <1>1, <1>2, <1>3

(* A table read entry by entry.                                            *)
LEMMA TableRead ==
  /\ \A dir : DOMAIN TableOf(dir) = 1 .. Count(dir)
  /\ \A dir : \A j \in 1 .. Count(dir) :
       TableOf(dir)[j] = [id |-> canId[Base(dir) + j - 1],
                          params |-> ParamsOf(Base(dir) + j - 1)]
  /\ \A dir : \A j \in 1 .. Count(dir) :
       /\ TableOf(dir)[j].id = canId[Base(dir) + j - 1]
       /\ TableOf(dir)[j].params = ParamsOf(Base(dir) + j - 1)
<1>1. \A dir : DOMAIN TableOf(dir) = 1 .. Count(dir)
  BY DEF TableOf, Count
<1>2. \A dir : \A j \in 1 .. Count(dir) :
        TableOf(dir)[j] = [id |-> canId[Base(dir) + j - 1],
                           params |-> ParamsOf(Base(dir) + j - 1)]
  BY DEF TableOf, Count
<1>3. \A a, b : [id |-> a, params |-> b].id = a /\ [id |-> a, params |-> b].params = b
  OBVIOUS
<1>4. ASSUME NEW dir, NEW j \in 1 .. Count(dir)
      PROVE  /\ TableOf(dir)[j].id = canId[Base(dir) + j - 1]
             /\ TableOf(dir)[j].params = ParamsOf(Base(dir) + j - 1)
  <2>1. PICK a, b : a = canId[Base(dir) + j - 1] /\ b = ParamsOf(Base(dir) + j - 1)
    OBVIOUS
  <2>2. TableOf(dir)[j] = [id |-> a, params |-> b]
    BY <1>2, <2>1
  <2> QED
    BY <2>1, <2>2
<1> QED
  BY <1>1, <1>2, <1>4

(* A sequence with one more entry at its end.                              *)
LEMMA Appended ==
  ASSUME NEW c \in Nat, NEW f, f = [j \in 1 .. c |-> f[j]], NEW x
  PROVE  Append(f, x) = [j \in 1 .. c + 1 |-> IF j = c + 1 THEN x ELSE f[j]]
<1>1. Append([j \in 1 .. c |-> f[j]], x) = [j \in 1 .. c + 1 |-> IF j = c + 1 THEN x ELSE f[j]]
  OBVIOUS
<1> QED
  BY <1>1, Zenon

(* A table has an entry per message.                                       *)
TablesSized ==
  \A dir \in Dirs : DOMAIN TableOf(dir) = 1 .. Count(dir) /\ Count(dir) \in 0 .. MaxMessages

LEMMA SizeOfTables == MapInv => TablesSized
  BY TheCount, TableRead DEF TablesSized, IsCount

(* An addition that finds no item free changes no table. *)
LEMMA AddsNothing ==
  ASSUME MapInv, MapInv', NEW dir \in Dirs, NEW id \in Ids, NEW m \in Target(dir, id),
         canId' = IF WithId(dir, id) = {} THEN [canId EXCEPT ![m] = id] ELSE canId,
         UNCHANGED <<first, next, mapParam>>
  PROVE  \A d \in Dirs : TableOf(d)' = TableOf(d)
<1> SUFFICES ASSUME NEW d \in Dirs PROVE TableOf(d)' = TableOf(d)
  OBVIOUS
<1>1. ASSUME NEW n \in SlotsOf(d)
      PROVE  Kept(n) /\ (first[n] # End => canId'[n] = canId[n])
  <2>1. Kept(n)
    BY DEF Kept
  <2>2. n \in Slots /\ canId \in [Slots -> Ids \cup {<<"unset", FALSE>>}]
    BY SlotsApart DEF MapInv, TypeOK
  <2>3. first[n] # End /\ WithId(dir, id) = {} => n # m
    BY TargetFinds
  <2> QED
    BY <2>1, <2>2, <2>3
<1> QED
  BY <1>1, TableKept

(* Lists but that of the addition. *)
LEMMA AddKeeps ==
  ASSUME MapInv, NEW m \in Slots, NEW i \in Item, next[i] = Unset, NEW param,
         mapParam' = [mapParam EXCEPT ![i] = param], AddLink(m, i),
         NEW n \in Slots, n # m
  PROVE  Kept(n)
<1>1. first'[n] = first[n]
  BY DEF AddLink, MapInv, TypeOK
<1>2. ASSUME NEW k \in 0 .. MaxItems, Listed(ItemAt(n)[k])
      PROVE  /\ next'[ItemAt(n)[k]] = next[ItemAt(n)[k]]
             /\ mapParam'[ItemAt(n)[k]] = mapParam[ItemAt(n)[k]]
  <2>1. PICK j : j = ItemAt(n)[k]
    OBVIOUS
  <2>2. j \in Item /\ next[j] # Unset /\ j # i /\ j \in 0 .. End
    BY <1>2, <2>1, Arithmetic DEF Listed
  <2>3. mapParam'[j] = mapParam[j]
    BY <2>2 DEF MapInv, TypeOK
  <2>4. ASSUME NEW p \in LastOf(m) PROVE p # j
    <3>1. PICK h \in Item : \E path \in Walk(m, h) : path[h] = p
      BY <2>4 DEF LastOf
    <3>2. p = ItemAt(m)[h] /\ h \in 0 .. MaxItems
      BY <3>1, WalkIsList, Arithmetic
    <3> QED
      BY <1>2, <2>1, <3>2, OnePlace
  <2>5. next'[j] = next[j]
    BY <2>2, <2>4 DEF AddLink, MapInv, TypeOK
  <2> QED
    BY <2>1, <2>3, <2>5
<1> QED
  BY <1>1, <1>2 DEF Kept

(* The first parameter of a message. *)
LEMMA AddStarts ==
  ASSUME MapInv, MapInv', NEW dir \in Dirs, NEW id \in Ids, NEW m \in Target(dir, id),
         NEW i \in Item, next[i] = Unset, NEW param \in Params, WithId(dir, id) = {},
         mapParam' = [mapParam EXCEPT ![i] = param],
         canId' = [canId EXCEPT ![m] = id], AddLink(m, i)
  PROVE  TableOf(dir)' = Table!Joined(TableOf(dir), param, id)
<1>1. PICK c : c = Count(dir)
  OBVIOUS
<1>2. c \in 0 .. MaxMessages /\ \A n \in SlotsOf(dir) : first[n] # End <=> n < Base(dir) + c
  BY <1>1, TheCount DEF IsCount
<1>3. /\ m \in SlotsOf(dir) /\ m \in Slots /\ first[m] = End
      /\ \A n \in SlotsOf(dir) : n < m => first[n] # End
      /\ \A n \in SlotsOf(dir) : first[n] # End => ~SameId(canId[n], id)
  BY TargetFinds
<1>4. Base(dir) \in Nat /\ m \in Nat /\ Base(dir) <= m /\ m < Base(dir) + MaxMessages
  BY <1>3, SlotNumbers
<1>5. m = Base(dir) + c
  <2>1. ~(m < Base(dir) + c)
    BY <1>2, <1>3
  <2>2. Base(dir) + c < m => Base(dir) + c \in SlotsOf(dir)
    BY <1>2, <1>4, SlotNumbers, Arithmetic
  <2>3. ~(Base(dir) + c < m)
    BY <1>2, <1>3, <1>4, <2>2
  <2> QED
    BY <1>2, <1>4, <2>1, <2>3
<1>6. first' = [first EXCEPT ![m] = i] /\ next' = [next EXCEPT ![i] = End]
  <2>1. ASSUME NEW p \in LastOf(m) PROVE FALSE
    <3>1. PICK h \in Item : \E path \in Walk(m, h) : path[h] = p
      BY <2>1 DEF LastOf
    <3>2. PICK path : path \in [0 .. h -> Item] /\ path[0] = first[m]
      BY <3>1 DEF Walk
    <3>3. 0 \in 0 .. h
      BY Arithmetic
    <3> QED
      BY <1>3, <3>2, <3>3, Arithmetic
  <2> QED
    BY <2>1 DEF AddLink
<1>7. IsCount(c + 1, dir)'
  <2>1. c + 1 \in 0 .. MaxMessages
    BY <1>2, <1>4, <1>5, Arithmetic
  <2>2. ASSUME NEW n \in SlotsOf(dir) PROVE first'[n] # End <=> n < Base(dir) + (c + 1)
    <3>1. n \in Nat /\ n \in Slots
      BY SlotNumbers
    <3>2. n # m => first'[n] = first[n]
      BY <1>6, <3>1 DEF MapInv, TypeOK
    <3>3. first'[m] = i /\ i # End
      BY <1>3, <1>6, Arithmetic DEF MapInv, TypeOK
    <3> QED
      BY <1>2, <1>4, <1>5, <3>1, <3>2, <3>3
  <2> QED
    BY <2>1, <2>2 DEF IsCount
<1>8. TableOf(dir)' =
        [j \in 1 .. c + 1 |-> [id |-> canId'[Base(dir) + j - 1],
                               params |-> ParamsOf(Base(dir) + j - 1)']]
  BY <1>7, LaterTable
<1>9. canId'[m] = id /\ ParamsOf(m)' = <<param>>
  <2>1. i \in 0 .. End
    BY Arithmetic
  <2>2. first'[m] = i /\ next'[i] = End /\ mapParam'[i] = param /\ canId'[m] = id
    BY <1>3, <1>6, <2>1 DEF MapInv, TypeOK
  <2> QED
    BY <1>3, <2>2, ListOfOne
<1>10. ASSUME NEW j \in 1 .. c
       PROVE  /\ canId'[Base(dir) + j - 1] = canId[Base(dir) + j - 1]
              /\ ParamsOf(Base(dir) + j - 1)' = ParamsOf(Base(dir) + j - 1)
  <2>1. PICK n : n = Base(dir) + j - 1
    OBVIOUS
  <2>2. n \in SlotsOf(dir) /\ first[n] # End /\ n \in Slots /\ n # m
    BY <1>1, <1>3, <2>1, MessageSlots, SlotNumbers
  <2>3. canId'[n] = canId[n]
    BY <2>2 DEF MapInv, TypeOK
  <2>4. ParamsOf(n)' = ParamsOf(n)
    BY <1>3, <2>2, AddKeeps, ListKept
  <2> QED
    BY <2>1, <2>3, <2>4
<1>11. Table!Known(TableOf(dir), id) = {}
  <2>1. ASSUME NEW n \in DOMAIN TableOf(dir) PROVE ~SameId(TableOf(dir)[n].id, id)
    <3>1. n \in 1 .. Count(dir)
      BY TableRead
    <3>2. TableOf(dir)[n].id = canId[Base(dir) + n - 1]
      BY <3>1, TableRead
    <3>3. Base(dir) + n - 1 \in SlotsOf(dir) /\ first[Base(dir) + n - 1] # End
      BY <3>1, MessageSlots
    <3> QED
      BY <1>3, <3>2, <3>3
  <2> QED
    BY <2>1 DEF Table!Known, Table!SameId, SameId
<1>12. TableOf(dir) = [j \in 1 .. c |-> [id |-> canId[Base(dir) + j - 1],
                                         params |-> ParamsOf(Base(dir) + j - 1)]]
  BY <1>1 DEF TableOf, Count
<1>13. TableOf(dir)' = Append(TableOf(dir), [id |-> id, params |-> <<param>>])
  <2>1. Base(dir) + (c + 1) - 1 = m /\ c \in Nat
    BY <1>2, <1>4, <1>5
  <2>2. PICK f, g : /\ f = [j \in 1 .. c |-> [id |-> canId[Base(dir) + j - 1],
                                         params |-> ParamsOf(Base(dir) + j - 1)]]
                    /\ g = [j \in 1 .. c + 1 |-> [id |-> canId'[Base(dir) + j - 1],
                               params |-> ParamsOf(Base(dir) + j - 1)']]
    OBVIOUS
  <2>3. g[c + 1] = [id |-> id, params |-> <<param>>]
    BY <1>9, <2>1, <2>2
  <2>4. \A j \in 1 .. c : g[j] = f[j]
    BY <1>10, <2>1, <2>2
  <2>5. DOMAIN f = 1 .. c /\ f = [j \in 1 .. c |-> f[j]] /\ g = [j \in 1 .. c + 1 |-> g[j]]
    BY <2>2
  <2>6. g = Append(f, [id |-> id, params |-> <<param>>])
    <3>1. PICK msg : msg = [id |-> id, params |-> <<param>>]
      OBVIOUS
    <3>2. g = [j \in 1 .. c + 1 |-> IF j = c + 1 THEN msg ELSE f[j]]
      <4>1. \A j \in 1 .. c + 1 : j = c + 1 \/ j \in 1 .. c
        BY <2>1
      <4>2. ASSUME NEW j \in 1 .. c + 1 PROVE g[j] = IF j = c + 1 THEN msg ELSE f[j]
        BY <2>3, <2>4, <3>1, <4>1
      <4> QED
        BY <2>5, <4>2
    <3>3. Append(f, msg) = [j \in 1 .. c + 1 |-> IF j = c + 1 THEN msg ELSE f[j]]
      BY <2>1, <2>5, Appended
    <3> QED
      BY <3>1, <3>2, <3>3
  <2> QED
    BY <1>8, <1>12, <2>2, <2>6
<1> QED
  BY <1>11, <1>13 DEF Table!Joined, Table!Message

(* One more parameter of a message. *)
LEMMA AddJoins ==
  ASSUME MapInv, MapInv', NEW dir \in Dirs, NEW id \in Ids, NEW m \in Target(dir, id),
         NEW i \in Item, next[i] = Unset, NEW param \in Params, WithId(dir, id) # {},
         mapParam' = [mapParam EXCEPT ![i] = param], UNCHANGED canId, AddLink(m, i)
  PROVE  TableOf(dir)' = Table!Joined(TableOf(dir), param, id)
<1>1. PICK c : c = Count(dir)
  OBVIOUS
<1>2. IsCount(c, dir)
  BY <1>1, TheCount
<1>3. /\ m \in SlotsOf(dir) /\ m \in Slots /\ first[m] # End /\ SameId(canId[m], id)
  BY TargetFinds DEF Target, Least, WithId
<1>4. PICK p \in LastOf(m) : next' = [next EXCEPT ![i] = End, ![p] = i] /\ first' = first
  BY <1>3 DEF AddLink
<1>5. PICK last \in 0 .. MaxItems : p = ItemAt(m)[last] /\ next[p] = End /\ p \in Item
  <2>1. PICK h \in Item : \E path \in Walk(m, h) : path[h] = p /\ next[p] = End
    BY DEF LastOf
  <2>2. h \in 0 .. MaxItems /\ p = ItemAt(m)[h]
    BY <1>3, <2>1, WalkIsList, Arithmetic
  <2> QED
    BY <2>1, <2>2 DEF LastOf
<1>6. ParamsOf(m)' = Append(ParamsOf(m), param)
  BY <1>3, <1>4, <1>5, ListAppended
<1>7. TableOf(dir)' =
        [j \in 1 .. c |-> [id |-> canId[Base(dir) + j - 1],
                           params |-> ParamsOf(Base(dir) + j - 1)']]
  <2>1. IsCount(c, dir)'
    BY <1>2, <1>4 DEF IsCount
  <2> QED
    BY <2>1, LaterTable
<1>8. ASSUME NEW j \in 1 .. c, Base(dir) + j - 1 # m
      PROVE  ParamsOf(Base(dir) + j - 1)' = ParamsOf(Base(dir) + j - 1)
  <2>1. PICK n : n = Base(dir) + j - 1
    OBVIOUS
  <2>2. n \in Slots /\ n # m
    BY <1>1, <1>8, <2>1, MessageSlots, SlotNumbers
  <2>3. ParamsOf(n)' = ParamsOf(n)
    BY <1>3, <2>2, AddKeeps, ListKept
  <2> QED
    BY <2>1, <2>3
<1>9. ASSUME NEW j \in 1 .. c
      PROVE  j \in Table!Known(TableOf(dir), id) <=> Base(dir) + j - 1 = m
  <2>1. PICK n : n = Base(dir) + j - 1
    OBVIOUS
  <2>2. n \in SlotsOf(dir) /\ first[n] # End
    BY <1>1, <2>1, MessageSlots
  <2>3. j \in DOMAIN TableOf(dir) /\ TableOf(dir)[j].id = canId[n]
    BY <1>1, <2>1, TableRead
  <2>4. j \in Table!Known(TableOf(dir), id) <=> SameId(canId[n], id)
    BY <2>3 DEF Table!Known, Table!SameId, SameId
  <2>5. SameId(canId[n], id) => n = m
    <3>1. SameId(canId[n], id) => SameId(canId[n], canId[m])
      BY <1>3 DEF SameId
    <3> QED
      BY <1>3, <2>2, <3>1 DEF MapInv, MessagesIntact, DistinctIds
  <2> QED
    BY <1>3, <2>1, <2>4, <2>5
<1>10. ASSUME NEW j \in 1 .. c
       PROVE  [id |-> canId[Base(dir) + j - 1], params |-> ParamsOf(Base(dir) + j - 1)'] =
                IF j \in Table!Known(TableOf(dir), id)
                THEN Table!Message(TableOf(dir)[j].id, Append(TableOf(dir)[j].params, param))
                ELSE TableOf(dir)[j]
  <2>1. PICK n : n = Base(dir) + j - 1
    OBVIOUS
  <2>2. /\ TableOf(dir)[j] = [id |-> canId[n], params |-> ParamsOf(n)]
        /\ TableOf(dir)[j].id = canId[n] /\ TableOf(dir)[j].params = ParamsOf(n)
    BY <1>1, <2>1, TableRead
  <2>3. CASE n = m
    BY <1>6, <1>9, <2>1, <2>2, <2>3, Zenon DEF Table!Message
  <2>4. CASE n # m
    BY <1>8, <1>9, <2>1, <2>2, <2>4, Zenon
  <2> QED
    BY <2>3, <2>4
<1>11. Table!Known(TableOf(dir), id) # {}
  BY <1>1, <1>3, <1>9, MessageOfSlot, SlotNumbers
<1>12. DOMAIN TableOf(dir) = 1 .. c
  BY <1>1, TableRead
<1> QED
  BY <1>7, <1>10, <1>11, <1>12 DEF Table!Joined

(* An item is free as long as the tables are not full. *)
PlaceOf(p) == ItemAt(Base(p[1][1]) + p[1][2] - 1)[p[2] - 1]

(* Every parameter of a table has an item of its own.                      *)
LEMMA Placed ==
  ASSUME MapInv, NEW p \in Table!Mapped
  PROVE  /\ p[1][1] \in Dirs /\ p[1][2] \in 1 .. Count(p[1][1]) /\ p[2] \in Nat \ {0}
         /\ p = << <<p[1][1], p[1][2]>>, p[2] >>
         /\ Base(p[1][1]) + p[1][2] - 1 \in SlotsOf(p[1][1])
         /\ p[2] - 1 \in 0 .. MaxItems /\ Listed(PlaceOf(p))
<1>0. PICK dir \in Dirs : \E n \in DOMAIN TableOf(dir) :
        p \in {<<dir, n>>} \X DOMAIN TableOf(dir)[n].params
  BY DEF Table!Mapped, Table!Dirs, Dirs
<1>1. PICK n \in DOMAIN TableOf(dir) : p \in {<<dir, n>>} \X DOMAIN TableOf(dir)[n].params
  BY <1>0
<1>2. PICK k \in DOMAIN TableOf(dir)[n].params : p = << <<dir, n>>, k >>
  BY <1>1
<1>3. p[1] = <<dir, n>> /\ p[2] = k /\ p[1][1] = dir /\ p[1][2] = n
  BY <1>2
<1>4. n \in 1 .. Count(dir) /\ TableOf(dir)[n].params = ParamsOf(Base(dir) + n - 1)
  BY TableRead
<1>5. PICK m : m = Base(dir) + n - 1
  OBVIOUS
<1>6. m \in SlotsOf(dir) /\ m \in Slots
  BY <1>4, <1>5, MessageSlots, SlotNumbers
<1>7. k \in 1 .. Length(m)
  BY <1>4, <1>5, ParamsAre
<1>8. k \in Nat \ {0} /\ k - 1 \in 0 .. MaxItems /\ Listed(ItemAt(m)[k - 1])
  <2>1. PICK len : len = Length(m)
    OBVIOUS
  <2>2. len \in 0 .. MaxItems
    BY <1>6, <2>1, LengthFacts
  <2>3. k \in Nat /\ k >= 1 /\ k <= len /\ k - 1 \in 0 .. MaxItems /\ k - 1 < len
    BY <1>7, <2>1, <2>2, Arithmetic
  <2> QED
    BY <1>6, <2>1, <2>3, LengthFacts
<1> QED
  BY <1>2, <1>3, <1>4, <1>5, <1>6, <1>8, Zenon DEF PlaceOf

(* The cardinality of an instance is that of FiniteSets.                   *)
LEMMA SameCardinality == \A S : Table!Cardinality(S) = Cardinality(S)
  BY DEF Table!Cardinality, Cardinality

(* So a table is full only when no item is free.                           *)
LEMMA NotFull ==
  ASSUME MapInv, NEW i \in Item, next[i] = Unset
  PROVE  ~Table!Full
<1> DEFINE f == [p \in Table!Mapped |-> PlaceOf(p)]
<1>1. ASSUME NEW p \in Table!Mapped PROVE PlaceOf(p) \in Item \ {i}
  BY <1>1, Placed DEF Listed
<1>2. ASSUME NEW p \in Table!Mapped, NEW q \in Table!Mapped, PlaceOf(p) = PlaceOf(q)
      PROVE  p = q
  <2>1. PICK a, b, c : a = p[1][1] /\ b = p[1][2] /\ c = p[2]
    OBVIOUS
  <2>2. PICK d, e, g : d = q[1][1] /\ e = q[1][2] /\ g = q[2]
    OBVIOUS
  <2>3. /\ a \in Dirs /\ Base(a) + b - 1 \in SlotsOf(a) /\ p = << <<a, b>>, c >>
        /\ c \in Nat /\ c - 1 \in 0 .. MaxItems /\ Listed(ItemAt(Base(a) + b - 1)[c - 1])
        /\ b \in 1 .. Count(a)
    BY <2>1, Placed, Zenon DEF PlaceOf
  <2>4. /\ d \in Dirs /\ Base(d) + e - 1 \in SlotsOf(d) /\ q = << <<d, e>>, g >>
        /\ g \in Nat /\ g - 1 \in 0 .. MaxItems /\ e \in 1 .. Count(d)
    BY <2>2, Placed, Zenon
  <2>5. ItemAt(Base(a) + b - 1)[c - 1] = ItemAt(Base(d) + e - 1)[g - 1]
    BY <1>2, <2>1, <2>2 DEF PlaceOf
  <2>6. PICK m, n, j, k : m = Base(a) + b - 1 /\ n = Base(d) + e - 1 /\ j = c - 1 /\ k = g - 1
    OBVIOUS
  <2>7. m \in Slots /\ n \in Slots
    BY <2>3, <2>4, <2>6, SlotNumbers
  <2>8. m = n /\ j = k
    BY <2>3, <2>4, <2>5, <2>6, <2>7, OnePlace
  <2>9. a = d
    BY <2>3, <2>4, <2>6, <2>8, SlotsApart
  <2>10. b \in Int /\ e \in Int /\ Base(a) \in Nat
    BY <2>3, <2>4, TheCount, SlotNumbers DEF IsCount
  <2> QED
    BY <2>3, <2>4, <2>6, <2>8, <2>9, <2>10
<1>3. f \in Injection(Table!Mapped, Item \ {i})
  BY <1>1, <1>2 DEF Injection, IsInjective
<1>4. IsFiniteSet(Item) /\ Cardinality(Item) = MaxItems
  BY MoreThanItems
<1>5. IsFiniteSet(Item \ {i}) /\ Cardinality(Item \ {i}) = MaxItems - 1
  BY <1>4, FS_RemoveElement
<1>6. Cardinality(Table!Mapped) <= MaxItems - 1 /\ Cardinality(Table!Mapped) \in Nat
  <2>1. PICK S, T, h : S = Table!Mapped /\ T = Item \ {i} /\ h = f
    OBVIOUS
  <2>2. h \in Injection(S, T) /\ IsFiniteSet(T)
    BY <1>3, <1>5, <2>1
  <2>3. IsFiniteSet(S) /\ Cardinality(S) <= Cardinality(T)
    BY <2>2, FS_Injection
  <2> QED
    BY <1>5, <2>1, <2>3, FS_CardinalityType
<1>7. ASSUME NEW c \in Nat, c <= MaxItems - 1 PROVE ~(c >= MaxItems)
  BY <1>7, Arithmetic
<1> QED
  <2>1. Table!Full => Cardinality(Table!Mapped) >= MaxItems
    BY SameCardinality DEF Table!Full
  <2>2. PICK c : c = Cardinality(Table!Mapped)
    OBVIOUS
  <2> QED
    BY <1>6, <1>7, <2>1, <2>2

(* Every addition is one of the table, or changes no table. *)
LEMMA AddRefines ==
  ASSUME MapInv, NEW dir \in Dirs, NEW param \in Params, NEW id \in Ids,
         Add(dir, param, id)
  PROVE  Table!Add(dir) \/ \A d \in Dirs : TableOf(d)' = TableOf(d)
<1>1. MapInv'
  BY AddInv
<1>2. PICK m \in Target(dir, id) :
        /\ canId' = IF WithId(dir, id) = {} THEN [canId EXCEPT ![m] = id] ELSE canId
        /\ \/ FreeItems = {} /\ UNCHANGED <<first, next, mapParam>>
           \/ \E i \in Least(FreeItems) :
                /\ mapParam' = [mapParam EXCEPT ![i] = param]
                /\ AddLink(m, i)
  BY DEF Add
<1>3. CASE UNCHANGED <<first, next, mapParam>>
  BY <1>1, <1>2, <1>3, AddsNothing
<1>4. ASSUME NEW i \in Least(FreeItems), mapParam' = [mapParam EXCEPT ![i] = param],
             AddLink(m, i)
      PROVE  Table!Add(dir)
  <2>1. i \in Item /\ next[i] = Unset
    BY DEF Least, FreeItems
  <2>2. m \in Slots /\ m \in SlotsOf(dir)
    BY TargetFinds
  <2>3. TableOf(dir)' = Table!Joined(TableOf(dir), param, id)
    <3>1. CASE WithId(dir, id) = {}
      BY <1>1, <1>2, <1>4, <2>1, <3>1, AddStarts
    <3>2. CASE WithId(dir, id) # {}
      BY <1>1, <1>2, <1>4, <2>1, <3>2, AddJoins
    <3> QED
      BY <3>1, <3>2
  <2>4. ASSUME NEW d \in Dirs, d # dir PROVE TableOf(d)' = TableOf(d)
    <3>1. ASSUME NEW n \in SlotsOf(d) PROVE Kept(n) /\ canId'[n] = canId[n]
      <4>1. n \in Slots /\ n # m
        BY <2>2, <2>4, SlotsApart
      <4>2. Kept(n)
        BY <1>4, <2>1, <2>2, <4>1, AddKeeps
      <4>3. canId'[n] = canId[n]
        BY <1>2, <4>1 DEF MapInv, TypeOK
      <4> QED
        BY <4>2, <4>3
    <3> QED
      BY <1>1, <3>1, TableKept
  <2>5. [d \in Dirs |-> TableOf(d)'] = Table!Put(dir, Table!Joined(TableOf(dir), param, id))
    BY <2>3, <2>4 DEF Table!Put
  <2>6. DOMAIN TableOf(dir)' = 1 .. Count(dir)' /\ Count(dir)' \in 0 .. MaxMessages
    <3>1. (MapInv => TablesSized)'
      BY SizeOfTables, PTL
    <3> QED
      BY <1>1, <3>1 DEF TablesSized
  <2>7. Len(TableOf(dir)') <= MaxMessages
    BY <2>6, Arithmetic
  <2>8. ~Table!Full
    BY <2>1, NotFull
  <2> QED
    BY <2>5, <2>7, <2>8 DEF Table!Add
<1> QED
  BY <1>2, <1>3, <1>4

(* What is left of a sequence. *)
LEMMA Removed ==
  ASSUME NEW len \in Nat, NEW k \in Nat, k < len, NEW s, s = [j \in 1 .. len |-> s[j]]
  PROVE  Table!RemoveAt(s, k + 1) = [j \in 1 .. len - 1 |-> s[IF j <= k THEN j ELSE j + 1]]
<1>1. SubSeq([j \in 1 .. len |-> s[j]], 1, k) = [j \in 1 .. k |-> s[j]]
  OBVIOUS
<1>2. PICK t : t = [j \in 1 .. len - (k + 1) |-> s[j + (k + 1)]]
  OBVIOUS
<1>3. SubSeq([j \in 1 .. len |-> s[j]], k + 2, len) = [j \in 1 .. len - (k + 1) |-> t[j]]
  BY <1>2
<1>4. Len([j \in 1 .. len |-> s[j]]) = len
  OBVIOUS
<1>5. Len(s) = len /\ (k + 1) - 1 = k /\ (k + 1) + 1 = k + 2
  BY <1>4
<1>6. Table!RemoveAt(s, k + 1) = SubSeq(s, 1, k) \o SubSeq(s, k + 2, len)
  BY <1>5, Zenon DEF Table!RemoveAt
<1>7. Table!RemoveAt(s, k + 1) = [j \in 1 .. k |-> s[j]] \o [j \in 1 .. len - (k + 1) |-> t[j]]
  BY <1>1, <1>3, <1>6, Zenon
<1>8. [j \in 1 .. k |-> s[j]] \o [j \in 1 .. len - (k + 1) |-> t[j]] =
        [j \in 1 .. k + (len - (k + 1)) |-> IF j <= k THEN s[j] ELSE t[j - k]]
  <2>1. len - (k + 1) \in Nat
    OBVIOUS
  <2> QED
    BY <2>1
<1>9. k + (len - (k + 1)) = len - 1
  OBVIOUS
<1>10. ASSUME NEW j \in 1 .. len - 1
       PROVE  (IF j <= k THEN s[j] ELSE t[j - k]) = s[IF j <= k THEN j ELSE j + 1]
  BY <1>2
<1> QED
  BY <1>7, <1>8, <1>9, <1>10

(* Lists but those of a removal. *)
LEMMA RemovedIsOurs ==
  ASSUME MapInv, NEW m \in Slots, NEW k \in 0 .. MaxItems, k < Length(m),
         NEW n \in Slots, n # m, NEW h \in 0 .. MaxItems, Listed(ItemAt(n)[h])
  PROVE  ItemAt(n)[h] # ItemAt(m)[k] /\ (k > 0 => ItemAt(n)[h] # ItemAt(m)[k - 1])
<1>1. Listed(ItemAt(m)[k])
  BY LengthFacts
<1>2. k > 0 => k - 1 \in 0 .. MaxItems
  BY Arithmetic
<1> QED
  BY <1>1, <1>2, OnePlace

(* A table that shrinks by its last message. *)
LEMMA RemoveShortens ==
  ASSUME MapInv, MapInv', NEW dir \in Dirs, NEW m \in SlotsOf(dir),
         NEW k \in 0 .. MaxItems, k < Length(m), Length(m) > 1, first[m] # End,
         \/ /\ k = 0 /\ next[ItemAt(m)[k]] # End
            /\ first' = [first EXCEPT ![m] = next[ItemAt(m)[k]]]
            /\ next' = [next EXCEPT ![ItemAt(m)[k]] = Unset]
         \/ /\ k > 0 /\ UNCHANGED first
            /\ next' = [next EXCEPT ![ItemAt(m)[k - 1]] = next[ItemAt(m)[k]], ![ItemAt(m)[k]] = Unset],
         UNCHANGED <<canId, mapParam>>
  PROVE  /\ \A d \in Dirs : d # dir => TableOf(d)' = TableOf(d)
         /\ TableOf(dir)' = Table!Shortened(TableOf(dir), m - Base(dir) + 1, k + 1)
<1>1. m \in Slots /\ first \in [Slots -> Item \cup {End}]
      /\ next \in [0 .. End -> Item \cup {End, Unset}]
  BY SlotsApart DEF MapInv, TypeOK
<1>2. first'[m] # End
  <2>1. Listed(ItemAt(m)[k])
    BY <1>1, LengthFacts
  <2>2. ItemAt(m)[k] \in 0 .. End /\ next[ItemAt(m)[k]] # Unset
    BY <2>1, Arithmetic DEF Listed
  <2> QED
    BY <1>1, <2>2, Arithmetic
<1>3. ASSUME NEW n \in Slots, n # m PROVE Kept(n)
  <2>1. first'[n] = first[n]
    BY <1>1, <1>3
  <2>2. ASSUME NEW h \in 0 .. MaxItems, Listed(ItemAt(n)[h])
        PROVE  next'[ItemAt(n)[h]] = next[ItemAt(n)[h]]
    <3>1. ItemAt(n)[h] # ItemAt(m)[k] /\ (k > 0 => ItemAt(n)[h] # ItemAt(m)[k - 1])
      BY <1>1, <1>3, <2>2, RemovedIsOurs
    <3>2. ItemAt(n)[h] \in 0 .. End
      BY <2>2, Arithmetic DEF Listed
    <3> QED
      BY <1>1, <3>1, <3>2
  <2> QED
    BY <2>1, <2>2 DEF Kept
<1>4. ASSUME NEW d \in Dirs, d # dir PROVE TableOf(d)' = TableOf(d)
  <2>1. \A n \in SlotsOf(d) : n # m /\ n \in Slots
    BY <1>4, SlotsApart
  <2>2. \A n \in SlotsOf(d) : Kept(n) /\ (first[n] # End => canId'[n] = canId[n])
    BY <1>3, <2>1
  <2> QED
    BY <2>2, TableKept
<1>5. PICK c : c = Count(dir)
  OBVIOUS
<1>6. TableOf(dir)' =
        [j \in 1 .. c |-> [id |-> canId[Base(dir) + j - 1],
                           params |-> ParamsOf(Base(dir) + j - 1)']]
  <2>1. \A n \in SlotsOf(dir) : first'[n] # End <=> first[n] # End
    <3>1. \A n \in SlotsOf(dir) : n \in Slots
      BY SlotsApart
    <3> QED
      BY <1>2, <1>3, <3>1 DEF Kept
  <2>2. IsCount(c, dir)'
    BY <1>5, <2>1, TheCount DEF IsCount
  <2> QED
    BY <2>2, LaterTable
<1>7. PICK s, len : s = ParamsOf(m) /\ len = Length(m)
  OBVIOUS
<1>8. len \in Nat /\ k \in Nat /\ k < len /\ s = [j \in 1 .. len |-> s[j]]
  <2>1. len \in 0 .. MaxItems
    BY <1>1, <1>7, LengthFacts
  <2>2. s = [j \in 1 .. len |-> s[j]]
    BY <1>7, ParamsAre
  <2> QED
    BY <1>7, <2>1, <2>2, Arithmetic
<1>9. ParamsOf(m)' = [j \in 1 .. len - 1 |-> s[IF j <= k THEN j ELSE j + 1]]
  <2>1. \/ /\ k = 0 /\ first'[m] = next[ItemAt(m)[k]]
           /\ next' = [next EXCEPT ![ItemAt(m)[k]] = Unset]
        \/ /\ k > 0 /\ first'[m] = first[m]
           /\ next' = [next EXCEPT ![ItemAt(m)[k - 1]] = next[ItemAt(m)[k]], ![ItemAt(m)[k]] = Unset]
    BY <1>1
  <2>2. /\ Length(m)' = Length(m) - 1
        /\ ParamsOf(m)' = [j \in 1 .. Length(m) - 1 |->
                              ParamsOf(m)[IF j <= k THEN j ELSE j + 1]]
    BY <1>1, <2>1, ListShortened
  <2> QED
    BY <1>7, <2>2
<1>10. ParamsOf(m)' = Table!RemoveAt(s, k + 1)
  <2>1. Table!RemoveAt(s, k + 1) = [j \in 1 .. len - 1 |-> s[IF j <= k THEN j ELSE j + 1]]
    BY <1>8, Removed
  <2> QED
    BY <1>9, <2>1, Zenon
<1>11. ASSUME NEW j \in 1 .. c
       PROVE  [id |-> canId[Base(dir) + j - 1], params |-> ParamsOf(Base(dir) + j - 1)'] =
                IF j = m - Base(dir) + 1
                THEN Table!Message(TableOf(dir)[m - Base(dir) + 1].id,
                                   Table!RemoveAt(TableOf(dir)[m - Base(dir) + 1].params, k + 1))
                ELSE TableOf(dir)[j]
  <2>1. PICK n : n = Base(dir) + j - 1
    OBVIOUS
  <2>2. /\ TableOf(dir)[j] = [id |-> canId[n], params |-> ParamsOf(n)]
        /\ TableOf(dir)[j].id = canId[n] /\ TableOf(dir)[j].params = ParamsOf(n)
    BY <1>5, <2>1, TableRead
  <2>3. n \in Slots /\ (n = m <=> j = m - Base(dir) + 1)
    <3>1. n \in SlotsOf(dir) /\ n \in Slots
      BY <1>5, <2>1, MessageSlots, SlotNumbers
    <3>2. n \in Nat /\ m \in Nat /\ Base(dir) \in Nat /\ j \in Int
      BY <3>1, SlotNumbers
    <3> QED
      BY <2>1, <3>1, <3>2
  <2>4. CASE n = m
    BY <1>7, <1>10, <2>1, <2>2, <2>3, <2>4, Zenon DEF Table!Message
  <2>5. CASE n # m
    <3>1. ParamsOf(n)' = ParamsOf(n)
      BY <1>3, <2>3, <2>5, ListKept
    <3> QED
      BY <2>1, <2>2, <2>3, <2>5, <3>1, Zenon
  <2> QED
    BY <2>4, <2>5
<1>12. DOMAIN TableOf(dir) = 1 .. c
  BY <1>5, TableRead
<1> QED
  BY <1>4, <1>6, <1>11, <1>12, Zenon DEF Table!Shortened

(* The length of a table.                                                  *)
LEMMA TableLength ==
  ASSUME NEW dir, NEW c \in Nat, DOMAIN TableOf(dir) = 1 .. c
  PROVE  Len(TableOf(dir)) = c
<1>1. PICK f : f = TableOf(dir)
  OBVIOUS
<1>2. f = [j \in 1 .. c |-> f[j]]
  BY <1>1 DEF TableOf
<1>3. Len([j \in 1 .. c |-> f[j]]) = c
  OBVIOUS
<1> QED
  BY <1>1, <1>2, <1>3

(* What the code asks to tell a message with one parameter from a longer   *)
(* one.                                                                    *)
LEMMA LongList ==
  ASSUME MapInv, NEW m \in Slots, NEW k \in 0 .. MaxItems, k < Length(m)
  PROVE  Length(m) > 1 <=> k > 0 \/ next[ItemAt(m)[k]] # End
<1>1. PICK at, len : at = ItemAt(m) /\ len = Length(m)
  OBVIOUS
<1>2. /\ len \in 0 .. MaxItems
      /\ \A j \in 0 .. MaxItems : IF j < len THEN Listed(at[j]) ELSE at[j] = End
  BY <1>1, LengthFacts
<1>3. CASE k > 0
  BY <1>1, <1>2, <1>3, Arithmetic
<1>4. CASE k = 0
  <2>1. 1 \in 0 .. MaxItems /\ 1 \in 1 .. MaxItems /\ 1 - 1 = 0 /\ 0 \in 0 .. MaxItems
    BY Arithmetic
  <2>2. at[1] = After(at[1 - 1])
    BY <1>1, <2>1, ItemAtFacts, Zenon DEF MapInv
  <2>3. Listed(at[0]) /\ at[1] = next[at[0]]
    BY <1>1, <1>2, <1>4, <2>1, <2>2 DEF After, Listed
  <2>4. 1 < len <=> at[1] # End
    BY <1>2, <2>1, Arithmetic DEF Listed
  <2> QED
    BY <1>1, <1>2, <1>4, <2>3, <2>4, Arithmetic
<1> QED
  BY <1>3, <1>4, Arithmetic

(* A message that goes: the last one takes its place. *)
LEMMA RemoveDrops ==
  ASSUME MapInv, MapInv', NEW dir \in Dirs, NEW m \in SlotsOf(dir), NEW l \in SlotsOf(dir),
         Length(m) = 1, first[m] # End, m <= l, first[l] # End,
         l + 1 \in SlotsOf(dir) => first[l + 1] = End,
         first' = [first EXCEPT ![m] = first[l], ![l] = End],
         canId' = [canId EXCEPT ![m] = canId[l]],
         next' = [next EXCEPT ![first[m]] = Unset], UNCHANGED mapParam
  PROVE  /\ \A d \in Dirs : d # dir => TableOf(d)' = TableOf(d)
         /\ TableOf(dir)' = Table!Dropped(TableOf(dir), m - Base(dir) + 1)
<1>1. /\ m \in Slots /\ l \in Slots /\ first \in [Slots -> Item \cup {End}]
      /\ next \in [0 .. End -> Item \cup {End, Unset}]
      /\ canId \in [Slots -> Ids \cup {<<"unset", FALSE>>}]
  BY SlotsApart DEF MapInv, TypeOK
<1>2. ASSUME NEW n \in Slots, n # m, NEW h \in 0 .. MaxItems, Listed(ItemAt(n)[h])
      PROVE  next'[ItemAt(n)[h]] = next[ItemAt(n)[h]]
  <2>1. ItemAt(m)[0] = first[m] /\ 0 \in 0 .. MaxItems /\ 0 < Length(m)
    BY <1>1, ItemAtFacts, Arithmetic DEF MapInv
  <2>2. ItemAt(n)[h] # first[m]
    BY <1>1, <1>2, <2>1, RemovedIsOurs
  <2>3. ItemAt(n)[h] \in 0 .. End
    BY <1>2, Arithmetic DEF Listed
  <2> QED
    BY <1>1, <2>2, <2>3
<1>3. ASSUME NEW n \in Slots, n # m, n # l PROVE Kept(n) /\ canId'[n] = canId[n]
  BY <1>1, <1>2, <1>3 DEF Kept
<1>4. ASSUME NEW d \in Dirs, d # dir PROVE TableOf(d)' = TableOf(d)
  <2>1. \A n \in SlotsOf(d) : n # m /\ n # l /\ n \in Slots
    BY <1>4, SlotsApart
  <2>2. \A n \in SlotsOf(d) : Kept(n) /\ (first[n] # End => canId'[n] = canId[n])
    BY <1>3, <2>1
  <2> QED
    BY <2>2, TableKept
<1>5. PICK c : c = Count(dir)
  OBVIOUS
<1>6. c \in 0 .. MaxMessages /\ \A n \in SlotsOf(dir) : first[n] # End <=> n < Base(dir) + c
  BY <1>5, TheCount DEF IsCount
<1>7. /\ Base(dir) \in Nat /\ m \in Nat /\ l \in Nat /\ Base(dir) <= m
      /\ l < Base(dir) + MaxMessages
  BY SlotNumbers
<1>8. l = Base(dir) + c - 1 /\ c >= 1
  <2>1. l < Base(dir) + c
    BY <1>6
  <2>2. l + 1 < Base(dir) + MaxMessages => l + 1 \in SlotsOf(dir)
    BY <1>7, SlotNumbers, Arithmetic
  <2>3. ~(l + 1 < Base(dir) + c)
    BY <1>6, <1>7, <2>2, Arithmetic
  <2> QED
    BY <1>6, <1>7, <2>1, <2>3
<1>9. IsCount(c - 1, dir)'
  <2>1. ASSUME NEW n \in SlotsOf(dir) PROVE first'[n] # End <=> n < Base(dir) + (c - 1)
    <3>1. n \in Slots /\ n \in Nat
      BY SlotNumbers
    <3>2. CASE n = l
      <4>1. first'[n] = End
        BY <1>1, <3>2
      <4> QED
        BY <1>6, <1>7, <1>8, <3>2, <4>1
    <3>3. CASE n # l
      <4>1. first'[n] # End <=> first[n] # End
        BY <1>1, <3>1, <3>3
      <4> QED
        BY <1>6, <1>7, <1>8, <3>1, <3>3, <4>1
    <3> QED
      BY <3>2, <3>3
  <2>2. c - 1 \in 0 .. MaxMessages
    BY <1>6, <1>8, Arithmetic
  <2> QED
    BY <2>1, <2>2 DEF IsCount
<1>10. TableOf(dir)' =
        [j \in 1 .. c - 1 |-> [id |-> canId'[Base(dir) + j - 1],
                               params |-> ParamsOf(Base(dir) + j - 1)']]
  BY <1>9, LaterTable
<1>11. DOMAIN TableOf(dir) = 1 .. c
  BY <1>5, TableRead
<1>12. Len(TableOf(dir)) = c
  BY <1>6, <1>11, TableLength
<1>13. Table!Last(TableOf(dir)) = [id |-> canId[l], params |-> ParamsOf(l)]
  <2>1. c \in 1 .. Count(dir)
    BY <1>5, <1>6, <1>8
  <2>2. TableOf(dir)[c] = [id |-> canId[Base(dir) + c - 1],
                           params |-> ParamsOf(Base(dir) + c - 1)]
    BY <2>1, TableRead
  <2> QED
    BY <1>8, <1>12, <2>2 DEF Table!Last
<1>14. ASSUME NEW j \in 1 .. c - 1
       PROVE  [id |-> canId'[Base(dir) + j - 1], params |-> ParamsOf(Base(dir) + j - 1)'] =
                IF j = m - Base(dir) + 1 THEN Table!Last(TableOf(dir)) ELSE TableOf(dir)[j]
  <2>1. PICK n : n = Base(dir) + j - 1
    OBVIOUS
  <2>2. j \in 1 .. c /\ j \in Int
    BY <1>6, <1>8
  <2>3. TableOf(dir)[j] = [id |-> canId[n], params |-> ParamsOf(n)]
    BY <1>5, <2>1, <2>2, TableRead
  <2>4. n \in Slots /\ n # l /\ (n = m <=> j = m - Base(dir) + 1)
    <3>1. n \in SlotsOf(dir) /\ n \in Slots
      BY <1>5, <2>1, <2>2, MessageSlots, SlotNumbers
    <3> QED
      BY <1>6, <1>7, <1>8, <2>1, <2>2, <3>1
  <2>5. CASE n = m
    <3>1. first'[m] = first[l] /\ canId'[m] = canId[l]
      BY <1>1, <2>4, <2>5
    <3>2. \A h \in 0 .. MaxItems : Listed(ItemAt(l)[h]) =>
            /\ next'[ItemAt(l)[h]] = next[ItemAt(l)[h]]
            /\ mapParam'[ItemAt(l)[h]] = mapParam[ItemAt(l)[h]]
      BY <1>1, <1>2, <2>4, <2>5
    <3>3. ParamsOf(m)' = ParamsOf(l)
      BY <1>1, <3>1, <3>2, SameList
    <3> QED
      BY <1>13, <2>1, <2>4, <2>5, <3>1, <3>3, Zenon
  <2>6. CASE n # m
    <3>1. ParamsOf(n)' = ParamsOf(n) /\ canId'[n] = canId[n]
      BY <1>3, <2>4, <2>6, ListKept
    <3> QED
      BY <2>1, <2>3, <2>4, <2>6, <3>1, Zenon
  <2> QED
    BY <2>5, <2>6
<1> QED
  BY <1>4, <1>10, <1>12, <1>14, Zenon DEF Table!Dropped

(* Every removal is one of the table. *)
LEMMA RemoveRefines ==
  ASSUME MapInv, NEW dir \in Dirs, NEW index \in 0 .. MaxMessages - 1, NEW k \in Item,
         Remove(dir, index, k)
  PROVE  Table!RemoveItem(dir)
<1>1. MapInv'
  BY RemoveInv
<1>2. PICK m : m = RemovalSlot(dir, index)
  OBVIOUS
<1>3. m \in SlotsOf(dir) /\ m \in Slots /\ first[m] # End /\ index # MaxMessages
  BY <1>2, SlotNumbers, Arithmetic DEF Remove, MayRemove, RemovalSlot
<1>4. PICK path \in Walk(m, k) :
       LET item == path[k] IN
       \/ /\ k > 0
          /\ next' = [next EXCEPT ![path[k - 1]] = next[item], ![item] = Unset]
          /\ UNCHANGED <<first, canId>>
       \/ /\ k = 0 /\ next[item] # End
          /\ first' = [first EXCEPT ![m] = next[item]]
          /\ next' = [next EXCEPT ![item] = Unset]
          /\ UNCHANGED canId
       \/ /\ k = 0 /\ next[item] = End
          /\ DropMessage(dir, index)
          /\ next' = [next EXCEPT ![item] = Unset]
  BY <1>2 DEF Remove
<1>5. /\ k \in 0 .. MaxItems /\ k < Length(m) /\ path[k] = ItemAt(m)[k]
      /\ k > 0 => path[k - 1] = ItemAt(m)[k - 1]
  BY <1>3, WalkIsList, Arithmetic
<1>6. UNCHANGED mapParam
  BY DEF Remove
<1>7. m - Base(dir) + 1 \in DOMAIN TableOf(dir)
      /\ TableOf(dir)[m - Base(dir) + 1].params = ParamsOf(m)
  <2>1. PICK n : n = m - Base(dir) + 1
    OBVIOUS
  <2>2. n \in 1 .. Count(dir)
    BY <1>3, <2>1, MessageOfSlot
  <2>3. Base(dir) + n - 1 = m
    BY <1>3, <2>1, SlotNumbers
  <2> QED
    BY <2>1, <2>2, <2>3, TableRead
<1>8. Length(m) \in 0 .. MaxItems /\ Length(m) > 0
      /\ Len(ParamsOf(m)) = Length(m) /\ DOMAIN ParamsOf(m) = 1 .. Length(m)
  <2>1. PICK len, at : len = Length(m) /\ at = ItemAt(m)
    OBVIOUS
  <2>2. len \in 0 .. MaxItems
    BY <1>3, <2>1, LengthFacts
  <2>3. ParamsOf(m) = [j \in 1 .. len |-> mapParam[at[j - 1]]]
    BY <2>1, ParamsAre
  <2>4. len \in Nat
    BY <2>2, Arithmetic
  <2>5. Len([j \in 1 .. len |-> mapParam[at[j - 1]]]) = len
    BY <2>4
  <2>6. len > 0
    BY <1>5, <2>1, <2>2, Arithmetic
  <2> QED
    BY <2>1, <2>2, <2>3, <2>5, <2>6
<1>9. Length(m) > 1 <=> k > 0 \/ next[path[k]] # End
  BY <1>3, <1>5, <1>8, LongList
<1>10. /\ \A d \in Dirs : d # dir => TableOf(d)' = TableOf(d)
       /\ TableOf(dir)' = Table!Without(TableOf(dir), m - Base(dir) + 1, k + 1)
  <2>1. CASE Length(m) > 1
    <3>1. \/ /\ k = 0 /\ next[ItemAt(m)[k]] # End
             /\ first' = [first EXCEPT ![m] = next[ItemAt(m)[k]]]
             /\ next' = [next EXCEPT ![ItemAt(m)[k]] = Unset]
          \/ /\ k > 0 /\ UNCHANGED first
             /\ next' = [next EXCEPT ![ItemAt(m)[k - 1]] = next[ItemAt(m)[k]], ![ItemAt(m)[k]] = Unset]
      BY <1>4, <1>5, <1>9, <2>1
    <3>2. UNCHANGED canId
      BY <1>4, <1>9, <2>1
    <3>3. /\ \A d \in Dirs : d # dir => TableOf(d)' = TableOf(d)
          /\ TableOf(dir)' = Table!Shortened(TableOf(dir), m - Base(dir) + 1, k + 1)
      BY <1>1, <1>3, <1>5, <1>6, <2>1, <3>1, <3>2, RemoveShortens
    <3> QED
      BY <1>7, <1>8, <2>1, <3>3 DEF Table!Without
  <2>2. CASE ~(Length(m) > 1)
    <3>1. Length(m) = 1 /\ k = 0
      BY <1>5, <1>8, <1>9, <2>2, Arithmetic
    <3>2. path[k] = first[m]
      BY <1>3, <1>5, <3>1, ItemAtFacts DEF MapInv
    <3>3. DropMessage(dir, index) /\ next' = [next EXCEPT ![first[m]] = Unset]
      BY <1>4, <1>9, <2>2, <3>1, <3>2
    <3>4. PICK l \in LastUsed(dir, index) :
            /\ first' = [first EXCEPT ![m] = first[l], ![l] = End]
            /\ canId' = [canId EXCEPT ![m] = canId[l]]
      BY <1>2, <1>3, <3>3 DEF DropMessage
    <3>5. /\ l \in SlotsOf(dir) /\ m <= l /\ first[l] # End
          /\ l + 1 \in SlotsOf(dir) => first[l + 1] = End
      <4>1. l \in m .. l
        BY <1>2, <1>3, SlotNumbers DEF LastUsed
      <4> QED
        BY <1>2, <4>1 DEF LastUsed
    <3>6. /\ \A d \in Dirs : d # dir => TableOf(d)' = TableOf(d)
          /\ TableOf(dir)' = Table!Dropped(TableOf(dir), m - Base(dir) + 1)
      BY <1>1, <1>3, <1>6, <3>1, <3>3, <3>4, <3>5, RemoveDrops
    <3> QED
      BY <1>7, <1>8, <2>2, <3>6 DEF Table!Without
  <2> QED
    BY <2>1, <2>2
<1>11. k + 1 \in DOMAIN TableOf(dir)[m - Base(dir) + 1].params
  BY <1>5, <1>7, <1>8, Arithmetic
<1>12. [d \in Dirs |-> TableOf(d)'] =
         Table!Put(dir, Table!Without(TableOf(dir), m - Base(dir) + 1, k + 1))
  BY <1>10 DEF Table!Put
<1> QED
  BY <1>7, <1>11, <1>12 DEF Table!RemoveItem

(* ImplementsTable: as tables, the lists of the map do what CanMapTable    *)
(* promises of an addition, a removal and a clear, and nothing else.       *)
THEOREM MapImplementsTable ==
  ASSUME SlotIndex \subseteq 0 .. MaxMessages - 1
  PROVE  Spec => ImplementsTable
<1>1. Init => MapInv /\ Table!Init
  BY InitInv, StartsEmpty
<1>2. ASSUME MapInv, [Next]_vars PROVE MapInv'
  <2>1. CASE Clear
    BY <1>2, <2>1, ClearInv
  <2>2. ASSUME NEW dir \in Dirs, NEW param \in Params, NEW id \in Ids, Add(dir, param, id)
        PROVE  MapInv'
    BY <1>2, <2>2, AddInv
  <2>3. ASSUME NEW dir \in Dirs, NEW index \in SlotIndex, NEW k \in Item, Remove(dir, index, k)
        PROVE  MapInv'
    BY <1>2, <2>3, RemoveInv
  <2>4. CASE UNCHANGED vars
    BY <1>2, <2>4, MapUnchanged
  <2> QED
    BY <1>2, <2>1, <2>2, <2>3, <2>4 DEF Next
<1>3. ASSUME MapInv, [Next]_vars
      PROVE  Table!Next \/ \A d \in Dirs : TableOf(d)' = TableOf(d)
  <2>1. CASE Clear
    BY <1>3, <2>1, ClearRefines DEF Table!Next
  <2>2. ASSUME NEW dir \in Dirs, NEW param \in Params, NEW id \in Ids, Add(dir, param, id)
        PROVE  Table!Next \/ \A d \in Dirs : TableOf(d)' = TableOf(d)
    BY <1>3, <2>2, AddRefines DEF Table!Next, Table!Dirs, Dirs
  <2>3. ASSUME NEW dir \in Dirs, NEW index \in SlotIndex, NEW k \in Item, Remove(dir, index, k)
        PROVE  Table!Next
    <3>1. Table!RemoveItem(dir)
      BY <1>3, <2>3, RemoveRefines
    <3> QED
      BY <3>1 DEF Table!Next, Table!Dirs, Dirs
  <2>4. ASSUME UNCHANGED vars PROVE \A d \in Dirs : TableOf(d)' = TableOf(d)
    <3>1. MapInv'
      BY <1>3, <2>4, MapUnchanged
    <3>2. \A d \in Dirs : \A n \in SlotsOf(d) : Kept(n) /\ canId'[n] = canId[n]
      BY <2>4 DEF Kept, vars
    <3> QED
      BY <1>3, <3>1, <3>2, TableKept
  <2> QED
    BY <1>3, <2>1, <2>2, <2>3, <2>4 DEF Next
<1>4. MapInv /\ [Next]_vars => [Table!Next]_[dir \in Dirs |-> TableOf(dir)]
  BY <1>3
<1> QED
  BY <1>1, <1>2, <1>4, PTL DEF Spec, ImplementsTable, Table!Spec
===============================================================================
