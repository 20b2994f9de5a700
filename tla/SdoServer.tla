------------------------------ MODULE SdoServer ------------------------------
(***************************************************************************)
(* What the command service of the inverter promises to a client that      *)
(* waits for each reply: requests are taken one by one, a command that was *)
(* asked for runs once, and every request gets its own reply.              *)
(***************************************************************************)
EXTENDS Integers, Sequences

CONSTANTS
  Request,      \* the frames a client may send
  MaxAsked,     \* bound: requests a client makes
  Answer(_),    \* the reply to a request
  Runs(_)       \* the commands a request runs: a sequence of at most one

VARIABLES
  asked, replies,   \* requests and replies so far
  ran,              \* number of requests whose command has run
  executed          \* the commands that have run

vars == <<asked, replies, ran, executed>>
Outstanding == Len(asked) > Len(replies)
Current == asked[Len(asked)]

Init == asked = <<>> /\ replies = <<>> /\ ran = 0 /\ executed = <<>>

Ask == /\ ~Outstanding /\ Len(asked) < MaxAsked
       /\ \E r \in Request : asked' = Append(asked, r)
       /\ UNCHANGED <<replies, ran, executed>>

Execute == /\ Outstanding /\ ran = Len(replies)
           /\ executed' = executed \o Runs(Current)
           /\ ran' = Len(asked)
           /\ UNCHANGED <<asked, replies>>

Reply == /\ Outstanding /\ ran = Len(asked)
         /\ replies' = Append(replies, Answer(Current))
         /\ UNCHANGED <<asked, ran, executed>>

(* A restart is the command that ends the wait without a reply. *)
ExecuteAndReply ==
  /\ Outstanding /\ ran = Len(replies)
  /\ executed' = executed \o Runs(Current)
  /\ ran' = Len(asked)
  /\ replies' = Append(replies, Answer(Current))
  /\ UNCHANGED asked

Next == Ask \/ Execute \/ Reply \/ ExecuteAndReply
Spec == Init /\ [][Next]_vars
=============================================================================
