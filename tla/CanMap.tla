-------------------------------- MODULE CanMap --------------------------------
(***************************************************************************)
(* The CAN map: two arrays of messages, and the mapped parameters of all   *)
(* of them as singly linked lists inside one array.  Everything but        *)
(* SendAll (CanMapSend) runs in the receive interrupt, in one piece.       *)
(***************************************************************************)
EXTENDS Integers, Sequences, FiniteSets

CONSTANTS
  Params,        \* what a request can map: parameter, bit position, gain
  StdIds,        \* CAN identifiers
  MaxMessages,   \* MAX_MESSAGES
  MaxItems,      \* MAX_ITEMS
  SlotIndex      \* message indices a client puts into a removal

ASSUME MapAssumption ==
  /\ MaxMessages \in Nat \ {0} /\ MaxItems \in Nat \ {0}
  /\ SlotIndex \subseteq 0 .. 63

(* canSendMap and canRecvMap follow each other in the object.              *)
Slots == 0 .. 2 * MaxMessages - 1
Base(dir) == IF dir = "send" THEN 0 ELSE MaxMessages
SlotsOf(dir) == Base(dir) .. Base(dir) + MaxMessages - 1
Dirs == {"send", "recv"}

Item == 0 .. MaxItems - 1
End == MaxItems              \* canPosMap[MAX_ITEMS], and "no item"
Unset == MaxItems + 1         \* ITEM_UNSET
NoParam == "none"

(* An id of the receive map carries the flag that forces an extended       *)
(* filter; it does not count when ids are compared.                        *)
Ids == StdIds \X BOOLEAN
SameId(a, b) == a[1] = b[1]

VARIABLES
  canId, first,          \* canSendMap, canRecvMap: CANIDMAP
  next, mapParam         \* canPosMap: CANPOS

vars == <<canId, first, next, mapParam>>

Least(S) == { m \in S : \A k \in S : m <= k }

(* forEachCanMap stops at the first unused slot. *)
Used(dir) ==
  { m \in SlotsOf(dir) : \A k \in SlotsOf(dir) : k <= m => first[k] # End }
FreeSlots(dir) == { m \in SlotsOf(dir) : first[m] = End }
FreeItems == { i \in Item : next[i] = Unset }
WithExactId(dir, id) == { m \in Used(dir) : canId[m] = id }              \* mutant
WithId(dir, id) == { m \in Used(dir) : SameId(canId[m], id) }

(* The k-th item of a message, and how it is reached: forEachPosMap.       *)
Walk(m, k) ==
  { path \in [0 .. k -> Item] :
      /\ path[0] = first[m]
      /\ \A j \in 0 .. k : next[path[j]] # Unset
      /\ \A j \in 0 .. k - 1 : path[j + 1] = next[path[j]] }
LastOf(m) ==
  { i \in Item : \E k \in Item : \E path \in Walk(m, k) : path[k] = i /\ next[i] = End }

-----------------------------------------------------------------------------
(* ClearMap resets the items of both directions, whichever it is given.    *)
Cleared(dir, f) == [m \in Slots |-> IF m \in SlotsOf(dir) THEN End ELSE f[m]]
NoItems == [i \in 0 .. End |-> Unset]

Clear ==
  /\ first' = Cleared("recv", Cleared("send", first))
  /\ next' = NoItems
  /\ UNCHANGED <<canId, mapParam>>

(* The flag of the id survives in the receive map only: AddSend refuses it.*)
Acceptable(dir, id) == dir = "send" => ~id[2]

(* The slot a mapping goes to: the first with its id (FindById) or the     *)
(* first unused one.                                                       *)
Target(dir, id) ==
  Least(IF WithId(dir, id) # {} THEN WithId(dir, id) ELSE FreeSlots(dir))

AddLink(m, i) ==
  \/ /\ first[m] = End
     /\ first' = [first EXCEPT ![m] = i]
     /\ next' = [next EXCEPT ![i] = End]
  \/ \E preceding \in LastOf(m) :
       /\ next' = [next EXCEPT ![i] = End, ![preceding] = i]
       /\ UNCHANGED first

(* Add, for a position and length it accepts.  With no slot left nothing   *)
(* changes; with no item left the id is in the slot already.               *)
Add(dir, param, id) ==
  /\ Acceptable(dir, id)
  /\ \E m \in Target(dir, id) :
       /\ canId' = IF WithId(dir, id) = {} THEN [canId EXCEPT ![m] = id] ELSE canId
       /\ \/ FreeItems = {} /\ UNCHANGED <<first, next, mapParam>>
          \/ \E i \in Least(FreeItems) :
               /\ mapParam' = [mapParam EXCEPT ![i] = param]
               /\ AddLink(m, i)

(* The slot a removal names.  The guard lets MAX_MESSAGES pass: in the     *)
(* send map that is the first slot of the receive map.                     *)
RemovalSlot(dir, index) == Base(dir) + index
MayRemove(dir, index) ==
  index <= MaxMessages /\ RemovalSlot(dir, index) \in Slots
    /\ first[RemovalSlot(dir, index)] # End

(* The only item of a message: the last message of the map moves here.     *)
(* Past the end of the send map nothing bounds the search for it.          *)
LastUsed(dir, index) ==
  { l \in SlotsOf(dir) :
      /\ \A k \in RemovalSlot(dir, index) .. l : first[k] # End
      /\ l + 1 \in SlotsOf(dir) => first[l + 1] = End
      /\ RemovalSlot(dir, index) <= l }

DropInPlace(dir, index) ==                                    \* mutant
  /\ first' = [first EXCEPT ![RemovalSlot(dir, index)] = End]
  /\ UNCHANGED canId

DropMessage(dir, index) ==
  LET m == RemovalSlot(dir, index) IN
  \/ \E l \in LastUsed(dir, index) :
       /\ first' = [first EXCEPT ![m] = first[l], ![l] = End]
       /\ canId' = [canId EXCEPT ![m] = canId[l]]
  \/ /\ index = MaxMessages
     /\ \E junk \in Item \cup {End} : first' = [first EXCEPT ![m] = junk]
     /\ UNCHANGED canId

Remove(dir, index, k) ==
  /\ MayRemove(dir, index)
  /\ \E path \in Walk(RemovalSlot(dir, index), k) :
       LET item == path[k] IN
       \/ /\ k > 0
          /\ next' = [next EXCEPT ![path[k - 1]] = next[item], ![item] = Unset]
          /\ UNCHANGED <<first, canId>>
       \/ /\ k = 0 /\ next[item] # End
          /\ first' = [first EXCEPT ![RemovalSlot(dir, index)] = next[item]]
          /\ next' = [next EXCEPT ![item] = Unset]
          /\ UNCHANGED canId
       \/ /\ k = 0 /\ next[item] = End
          /\ DropMessage(dir, index)
          /\ next' = [next EXCEPT ![item] = Unset]
  /\ UNCHANGED mapParam

-----------------------------------------------------------------------------
(* The constructor; nothing is stored in the flash of this board.          *)
Init ==
  /\ canId = [m \in Slots |-> <<"unset", FALSE>>]
  /\ first = [m \in Slots |-> End]
  /\ next = NoItems
  /\ mapParam = [i \in 0 .. End |-> NoParam]

Next ==
  \/ Clear
  \/ \E dir \in Dirs, param \in Params, id \in Ids : Add(dir, param, id)
  \/ \E dir \in Dirs, index \in SlotIndex, k \in Item : Remove(dir, index, k)

Spec == Init /\ [][Next]_vars

-----------------------------------------------------------------------------
(* Properties. *)
TypeOK ==
  /\ canId \in [Slots -> Ids \cup {<<"unset", FALSE>>}]
  /\ first \in [Slots -> Item \cup {End}]
  /\ next \in [0 .. End -> Item \cup {End, Unset}] /\ next[End] = Unset
  /\ mapParam \in [0 .. End -> Params \cup {NoParam}]

(* Every list is made of items in use and ends, no item is in two lists or *)
(* twice in one, and no item is in use without being in a list: neither    *)
(* lost for ever nor free to be given to a second parameter.               *)
NoDangling ==
  /\ \A m \in Slots : first[m] \in Item => next[first[m]] # Unset
  /\ \A i \in Item : next[i] \in Item => next[next[i]] # Unset
NoSharing ==
  /\ \A m, n \in Slots : first[m] = first[n] /\ first[m] \in Item => m = n
  /\ \A i, j \in Item : next[i] = next[j] /\ next[i] \in Item => i = j
  /\ \A m \in Slots, i \in Item : first[m] \in Item => first[m] # next[i]
NoLeak ==
  \A i \in Item : next[i] # Unset =>
    (\E m \in Slots : first[m] = i) \/ (\E j \in Item : next[j] = i)
NoCycle ==
  \A S \in SUBSET Item : S # {} => \E i \in S : next[i] \notin S
ListsIntact == NoDangling /\ NoSharing /\ NoLeak /\ NoCycle

(* The messages in use come first, each id once: the searches end at the   *)
(* first unused slot and at the first match.                               *)
UsedFirst ==
  \A dir \in Dirs : \A m, n \in SlotsOf(dir) :
    m < n /\ first[m] = End => first[n] = End
DistinctIds ==
  \A dir \in Dirs : \A m, n \in SlotsOf(dir) :
    first[m] # End /\ first[n] # End /\ SameId(canId[m], canId[n]) => m = n
MessagesIntact == UsedFirst /\ DistinctIds

(* The lists and the messages of both directions are intact, after any mix *)
(* of additions, removals and clears of either.                            *)
MapIntact == ListsIntact /\ MessagesIntact

(* Read as tables, the lists are what CanMapTable promises.                *)
After(i) == IF i \in Item THEN next[i] ELSE End
ItemAt(m) ==
  LET at[k \in 0 .. MaxItems] == IF k = 0 THEN first[m] ELSE After(at[k - 1])
  IN  at
Listed(i) == i \in Item /\ next[i] # Unset
ParamsOf(m) ==
  LET at == ItemAt(m)
      n == Cardinality({ k \in 0 .. MaxItems : Listed(at[k]) })
  IN  [k \in 1 .. n |-> mapParam[at[k - 1]]]
TableOf(dir) ==
  [n \in 1 .. Cardinality(Used(dir)) |->
     [id |-> canId[Base(dir) + n - 1], params |-> ParamsOf(Base(dir) + n - 1)]]

Table == INSTANCE CanMapTable WITH table <- [dir \in Dirs |-> TableOf(dir)]
ImplementsTable == Table!Spec

(* A removal from the send map leaves the receive map alone.               *)
OtherDirectionKept ==
  [][\A index \in SlotIndex, k \in Item :
       Remove("send", index, k) => UNCHANGED TableOf("recv")]_vars
=============================================================================
