----------------------------- MODULE CanMapTable -----------------------------
(***************************************************************************)
(* What a CAN map promises: two tables of messages, each message an id and *)
(* the list of parameters packed into it or unpacked from it.              *)
(***************************************************************************)
EXTENDS Naturals, Sequences, SequencesExt, FiniteSets

CONSTANTS
  Params,         \* what can be mapped
  Ids,            \* ids of messages, with the flag of a forced filter
  MaxMessages,    \* messages per direction
  MaxItems        \* mapped parameters in both directions together

VARIABLE table    \* direction -> list of messages

Dirs == {"send", "recv"}
SameId(a, b) == a[1] = b[1]
Message(id, params) == [id |-> id, params |-> params]

(* Every parameter mapped, in either direction, takes up an item.          *)
Mapped ==
  UNION { UNION { {<<dir, n>>} \X DOMAIN table[dir][n].params : n \in DOMAIN table[dir] }
        : dir \in Dirs }
Full == Cardinality(Mapped) >= MaxItems

Known(messages, id) == { n \in DOMAIN messages : SameId(messages[n].id, id) }

(* A parameter joins the message of its id, or starts a new one.           *)
Joined(messages, param, id) ==
  IF Known(messages, id) = {} THEN Append(messages, Message(id, <<param>>))
  ELSE [n \in DOMAIN messages |->
          IF n \in Known(messages, id)
          THEN Message(messages[n].id, Append(messages[n].params, param))
          ELSE messages[n]]

(* A message that lost its last parameter gives its place to the last one. *)
Shortened(messages, n, k) ==
  [j \in DOMAIN messages |->
     IF j = n THEN Message(messages[n].id, RemoveAt(messages[n].params, k))
     ELSE messages[j]]
Dropped(messages, n) ==
  [j \in 1 .. Len(messages) - 1 |-> IF j = n THEN Last(messages) ELSE messages[j]]
Without(messages, n, k) ==
  IF Len(messages[n].params) > 1 THEN Shortened(messages, n, k) ELSE Dropped(messages, n)

Put(dir, messages) == [table EXCEPT ![dir] = messages]

-----------------------------------------------------------------------------
Init == table = [dir \in Dirs |-> <<>>]

Add(dir) ==
  LET messages == table[dir]
  IN  /\ ~Full
      /\ table' \in { Put(dir, Joined(messages, param, id)) : param \in Params, id \in Ids }
      /\ Len(table'[dir]) <= MaxMessages

RemoveItem(dir) ==
  LET messages == table[dir]
      Removals(n) == { Put(dir, Without(messages, n, k)) : k \in DOMAIN messages[n].params }
  IN  table' \in UNION { Removals(n) : n \in DOMAIN messages }

Clear == table' = [dir \in Dirs |-> <<>>]

Next == Clear \/ \E dir \in Dirs : Add(dir) \/ RemoveItem(dir)
Spec == Init /\ [][Next]_table
=============================================================================
