------------------------------ MODULE RunQueue ------------------------------
(***************************************************************************)
(* What the queue of triggered runs promises its callers, with no word on  *)
(* how the drain works: an accepted request waits in line, the request at  *)
(* the front leaves by being started or dropped, and a waiting request may *)
(* be withdrawn.  TriggerQueue is shown to implement this specification.   *)
(***************************************************************************)
EXTENDS Naturals, Sequences, SequencesExt

CONSTANTS MaxQueue,  \* the length at which enqueue() refuses
          MaxIds     \* bound on the requests ever accepted

VARIABLES waiting,   \* accepted requests that have not left, oldest first
          outcome    \* what each request has come to

vars == <<waiting, outcome>>

Ids == 1..MaxIds

Init == /\ waiting = <<>>
        /\ outcome = [i \in Ids |-> "new"]

(* A request is accepted while there is room.  The line may exceed the cap *)
(* by the one request a drain holds.                                       *)
Accept(i) == /\ outcome[i] = "new"
             /\ Len(waiting) <= MaxQueue
             /\ waiting' = Append(waiting, i)
             /\ outcome' = [outcome EXCEPT ![i] = "queued"]

Leave(how) == /\ waiting # <<>>
              /\ waiting' = Tail(waiting)
              /\ outcome' = [outcome EXCEPT ![Head(waiting)] = how]

Start == Leave("started")
Drop  == Leave("dropped")

Withdraw(k) == /\ waiting' = RemoveAt(waiting, k)
               /\ outcome' = [outcome EXCEPT ![waiting[k]] = "removed"]

Next == \/ \E i \in Ids : Accept(i)
        \/ Start
        \/ Drop
        \/ \E k \in 1..Len(waiting) : Withdraw(k)

Safety == Init /\ [][Next]_vars

(* The line moves: a request does not stay at the front for ever.          *)
LineMoves == WF_vars(Start \/ Drop)

Spec == Safety /\ LineMoves
=============================================================================
