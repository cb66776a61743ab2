---------------------------- MODULE TriggerQueue ----------------------------
(***************************************************************************)
(* The in-memory queue of triggered runs (lib/server/trigger-queue.ts), as *)
(* wired to the engine by trigger-queue-singleton.ts, with the callers     *)
(* that share the engine: webhook and MCP calls enqueue and kick a drain,  *)
(* POST /api/run starts a run directly, and every settled run kicks a      *)
(* drain through the event bus.                                            *)
(*                                                                         *)
(* The server is one JavaScript thread.  A step is what runs between two   *)
(* awaits that wait for I/O: the two such awaits of drain() are reading    *)
(* the workflow file ("loading") and touching the trigger file             *)
(* ("touching").  The await of engineStart() waits for no I/O, so the      *)
(* check of the engine's status, the refused start, the re-prepend and the *)
(* `finally` run in one turn of the event loop.                            *)
(***************************************************************************)
EXTENDS Naturals, Sequences, SequencesExt

CONSTANTS MaxQueue,   \* TriggerQueueDeps.maxQueue: 100 in production
          MaxIds,     \* bound: requests accepted in a behaviour
          MaxDirect   \* bound: direct starts get ids of their own up to this one

ASSUME QueueAssumption == /\ MaxQueue \in Nat \ {0}
                          /\ MaxIds \in Nat
                          /\ MaxDirect \in Nat \ {0}

VARIABLES
  q,        \* the array q, head first
  nextId,   \* nextId: the queue ids are 1..nextId
  drain,    \* where the one active drain() is suspended; "idle" = not draining
  head,     \* drain()'s local `head`, or None
  running,  \* engine snapshot.status = 'running'
  runId,    \* engine snapshot.runId; None before the first run
  outcome,  \* the last trigger_* event emitted for each queue id
  runOf     \* the runId of its trigger_started event

vars == <<q, nextId, drain, head, running, runId, outcome, runOf>>

Ids  == 1..MaxIds
None == 0

Init == /\ q = <<>>
        /\ nextId = 0
        /\ drain = "idle"
        /\ head = None
        /\ running = FALSE
        /\ runId = None
        /\ outcome = [i \in Ids |-> "new"]
        /\ runOf = [i \in Ids |-> None]

-----------------------------------------------------------------------------
(* The drain loop                                                          *)

(* Slips of TakeNext: peek() in place of shift(), and pop().               *)
TakeNextPeeks(s) == /\ q' = s
                    /\ drain' = IF s = <<>> THEN "idle" ELSE "loading"
                    /\ head' = IF s = <<>> THEN None ELSE Head(s)
TakeNextPops(s) == /\ q' = IF s = <<>> THEN s ELSE Front(s)
                   /\ drain' = IF s = <<>> THEN "idle" ELSE "loading"
                   /\ head' = IF s = <<>> THEN None ELSE Last(s)

(* `while (q.length > 0)`: shift the next head and start reading its       *)
(* workflow, or leave through the `finally`.  s is the queue at that point.*)
TakeNext(s) ==
  \/ /\ s = <<>>
     /\ q' = s
     /\ drain' = "idle"
     /\ head' = None
  \/ /\ s # <<>>
     /\ q' = Tail(s)
     /\ drain' = "loading"
     /\ head' = Head(s)

(* drain(): a no-op while another drain is in progress.                    *)
Drain(s) ==
  \/ /\ drain # "idle"
     /\ q' = s
     /\ UNCHANGED <<drain, head>>
  \/ /\ drain = "idle"
     /\ TakeNext(s)

(* Slip of LoadFails: `return` in place of `continue`.                     *)
LoadFailsAndReturns ==
  /\ drain = "loading"
  /\ outcome' = [outcome EXCEPT ![head] = "dropped"]
  /\ drain' = "idle"
  /\ head' = None
  /\ UNCHANGED <<q, nextId, running, runId, runOf>>

(* loadWorkflow rejects: the workflow is gone or unreadable.               *)
LoadFails ==
  /\ drain = "loading"
  /\ outcome' = [outcome EXCEPT ![head] = "dropped"]
  /\ TakeNext(q)
  /\ UNCHANGED <<nextId, running, runId, runOf>>

(* Slips of LoadFindsBusy: push() in place of unshift(), and neither.      *)
BusyRequeues(s) ==
  /\ drain = "loading"
  /\ running
  /\ q' = s
  /\ drain' = "idle"
  /\ head' = None
  /\ UNCHANGED <<nextId, running, runId, outcome, runOf>>
BusyPushes == BusyRequeues(Append(q, head))
BusyForgets == BusyRequeues(q)

(* The adapter sees a run in progress and throws; drain() puts the head    *)
(* back and returns.                                                       *)
LoadFindsBusy ==
  /\ drain = "loading"
  /\ running
  /\ q' = <<head>> \o q
  /\ drain' = "idle"
  /\ head' = None
  /\ UNCHANGED <<nextId, running, runId, outcome, runOf>>

(* The engine is free: start() flips the status and assigns a fresh runId  *)
(* before its first await, and the adapter reads that id back.             *)
LoadStarts ==
  /\ drain = "loading"
  /\ ~running
  /\ running' = TRUE
  /\ runId' = runId + 1
  /\ outcome' = [outcome EXCEPT ![head] = "started"]
  /\ runOf' = [runOf EXCEPT ![head] = runId + 1]
  /\ drain' = "touching"
  /\ UNCHANGED <<q, nextId, head>>

(* A stored workflow without an edge list makes start() reject before it   *)
(* assigns a runId.  The adapter swallows the rejection and reads the id   *)
(* of the run before, or throws when there was none.                       *)
LoadStartRejected ==
  /\ drain = "loading"
  /\ ~running
  /\ \/ /\ runId = None
        /\ outcome' = [outcome EXCEPT ![head] = "dropped"]
        /\ TakeNext(q)
        /\ UNCHANGED runOf
     \/ /\ runId # None
        /\ outcome' = [outcome EXCEPT ![head] = "started"]
        /\ runOf' = [runOf EXCEPT ![head] = runId]
        /\ drain' = "touching"
        /\ UNCHANGED <<q, head>>
  /\ UNCHANGED <<nextId, running, runId>>

(* touchLastFired has returned (its failure is only logged): loop.         *)
Touched ==
  /\ drain = "touching"
  /\ TakeNext(q)
  /\ UNCHANGED <<nextId, running, runId, outcome, runOf>>

-----------------------------------------------------------------------------
(* The callers                                                             *)

(* Slip of Enqueue: `>` in place of `>=`.                                  *)
EnqueueOneMore ==
  /\ nextId < MaxIds
  /\ Len(q) <= MaxQueue
  /\ nextId' = nextId + 1
  /\ outcome' = [outcome EXCEPT ![nextId + 1] = "queued"]
  /\ Drain(Append(q, nextId + 1))
  /\ UNCHANGED <<running, runId, runOf>>

(* A webhook hit or an MCP workflow call: enqueue(), then drain().  A full *)
(* queue refuses the request and changes nothing.                          *)
Enqueue ==
  /\ nextId < MaxIds
  /\ Len(q) < MaxQueue
  /\ nextId' = nextId + 1
  /\ outcome' = [outcome EXCEPT ![nextId + 1] = "queued"]
  /\ Drain(Append(q, nextId + 1))
  /\ UNCHANGED <<running, runId, runOf>>

(* Slip of RemoveByQueueId: splice(idx) cuts off the whole rest.           *)
RemoveCutsTail(k) ==
  /\ q' = SubSeq(q, 1, k - 1)
  /\ outcome' = [outcome EXCEPT ![q[k]] = "removed"]
  /\ UNCHANGED <<nextId, drain, head, running, runId, runOf>>

(* removeByQueueId(); an id that is not in the array changes nothing.      *)
RemoveByQueueId(k) ==
  /\ q' = RemoveAt(q, k)
  /\ outcome' = [outcome EXCEPT ![q[k]] = "removed"]
  /\ UNCHANGED <<nextId, drain, head, running, runId, runOf>>

(* POST /api/run: refused with 409 while a run is active.  There is no end *)
(* to these starts, only to their ids: from MaxDirect on they share one.   *)
DirectStart ==
  /\ ~running
  /\ running' = TRUE
  /\ runId' = IF runId < MaxDirect THEN runId + 1 ELSE runId
  /\ UNCHANGED <<q, nextId, drain, head, outcome, runOf>>

(* Slip of Settle: nobody listens for run_finished.                        *)
SettleUnheard ==
  /\ running
  /\ running' = FALSE
  /\ UNCHANGED <<q, nextId, drain, head, runId, outcome, runOf>>

(* The active run settles: the snapshot turns terminal, then run_finished  *)
(* is emitted and its subscriber calls drain().                            *)
Settle ==
  /\ running
  /\ running' = FALSE
  /\ Drain(q)
  /\ UNCHANGED <<nextId, runId, outcome, runOf>>

-----------------------------------------------------------------------------
LoadReturns == LoadFails \/ LoadFindsBusy \/ LoadStarts \/ LoadStartRejected

Next == \/ Enqueue
        \/ \E k \in 1..Len(q) : RemoveByQueueId(k)
        \/ LoadFails
        \/ LoadFindsBusy
        \/ LoadStarts
        \/ LoadStartRejected
        \/ Touched
        \/ DirectStart
        \/ Settle

(* File reads and writes return, and an active run settles.  Callers owe   *)
(* nothing here; see CallersYield.                                         *)
Fairness == WF_vars(LoadReturns) /\ WF_vars(Touched) /\ WF_vars(Settle)

Spec == Init /\ [][Next]_vars /\ Fairness

-----------------------------------------------------------------------------
(* Properties                                                              *)

(* The accepted requests that have not left: the array, and in front of it *)
(* the request drain() shifted and may still put back.                     *)
Waiting == IF drain = "loading" THEN <<head>> \o q ELSE q

Outcomes == {"new", "queued", "started", "dropped", "removed"}

(* The types of the variables.                                             *)
TypeOK ==
  /\ q \in Seq(Ids)
  /\ nextId \in 0..MaxIds
  /\ drain \in {"idle", "loading", "touching"}
  /\ head \in Ids \cup {None}
  /\ running \in BOOLEAN
  /\ runId \in Nat
  /\ outcome \in [Ids -> Outcomes]
  /\ runOf \in [Ids -> Nat]

(* No lost wake-up: when requests wait and no drain is in progress, a run  *)
(* is active, so that a run_finished and hence another drain is to come.   *)
NoStrandedWork == (drain = "idle" /\ q # <<>>) => running

(* First in, first out: through shifts, re-prepends and removals, the      *)
(* requests wait in the order in which they were accepted.                 *)
WaitInOrder == \A j, k \in 1..Len(Waiting) : j < k => Waiting[j] < Waiting[k]

(* No request is lost or doubled: the ones last reported as queued are     *)
(* exactly the ones that wait.                                             *)
QueuedIsWaiting == \A i \in Ids : outcome[i] = "queued" <=> i \in Range(Waiting)

(* A request in drain()'s hands is not counted by enqueue(), so the line   *)
(* can exceed maxQueue, but never by more than that one request.           *)
BoundedOvershoot == Len(Waiting) <= MaxQueue + 1

(* Once reported started, dropped or removed, a request is never reported  *)
(* again: no request runs twice, or runs after it was withdrawn.           *)
OutcomeIsFinal ==
  [][\A i \in Ids : outcome[i] \in {"started", "dropped", "removed"}
                      => outcome'[i] = outcome[i] /\ runOf'[i] = runOf[i]]_vars

(* A request is only ever started ahead of requests accepted after it.     *)
StartInOrder ==
  [][\A i \in Ids : outcome[i] # "started" /\ outcome'[i] = "started"
                      => \A j \in Ids : j < i => outcome[j] # "queued"]_vars

(* From some time on no POST /api/run slips in while a drain reads the     *)
(* workflow of the head it holds.  Whoever does that again and again makes *)
(* LoadFindsBusy put the same head back for ever: the queue has no claim   *)
(* on the engine, it only tries its luck.                                  *)
CallersYield == <>[][~(DirectStart /\ drain = "loading")]_vars

(* Every accepted request is eventually started, dropped or removed,       *)
(* unless direct starts starve the queue.                                  *)
EveryRequestLeaves ==
  CallersYield => \A i \in Ids : outcome[i] = "queued" ~> outcome[i] # "queued"

(* The queue is a line in the sense of RunQueue, and one that moves unless *)
(* direct starts starve it.                                                *)
RQ == INSTANCE RunQueue WITH waiting <- Waiting
ImplementsRunQueue == RQ!Safety /\ (CallersYield => RQ!LineMoves)
=============================================================================
