----------------------------- MODULE RunStatus ------------------------------
(***************************************************************************)
(* What callers are told about runs, composed with the queue and the       *)
(* engine's snapshot of TriggerQueue: the queue history, a bounded map fed *)
(* by the event bus; the MCP tools that read it (queue-history.ts,         *)
(* mcp/utility-tools.ts); and the record that the engine saves once        *)
(* run_finished is out.                                                    *)
(***************************************************************************)
EXTENDS TriggerQueue, FiniteSets

CONSTANTS
  MaxEntries,   \* MAX_ENTRIES of the queue history: 200
  RunEnds,         \* terminal statuses of a run that is not told to stop
  MaxPolls      \* bound: calls of get_run_status

ASSUME StatusAssumption == /\ MaxEntries \in Nat \ {0} /\ MaxPolls \in Nat
                           /\ RunEnds \subseteq {"succeeded", "failed"}

VARIABLES
  history,    \* QueueHistory.map in insertion order: [id, state, run]
  evicted,    \* history: ids whose entry was pushed out
  aborted,    \* the run was told to stop
  endedAs,    \* run -> its terminal status, or "none"
  saving,     \* runs whose record is being saved
  onFile,     \* runs whose record can be read
  poll,       \* the one caller: where it is, for which queue id and run
  polls,      \* calls so far
  told        \* queue id -> the last answer

queryVars == <<poll, polls, told>>
recordVars == <<saving, onFile>>
statusVars == <<q, nextId, drain, head, running, runId, outcome, runOf, history, evicted,
                aborted, endedAs, saving, onFile, poll, polls, told>>

Runs == 1 .. MaxIds + MaxDirect
NoPoll == [pc |-> "none", id |-> None, run |-> None]

RunStatusInit ==
  /\ Init
  /\ history = <<>> /\ evicted = {}
  /\ aborted = FALSE
  /\ endedAs = [r \in Runs |-> "none"]
  /\ saving = {} /\ onFile = {}
  /\ poll = NoPoll /\ polls = 0 /\ told = [i \in Ids |-> "nothing"]

-----------------------------------------------------------------------------
(* The queue history, as it hears the events of the queue.                 *)
Has(id) == \E k \in 1 .. Len(history) : history[k].id = id
PlaceOf(id) == CHOOSE k \in 1 .. Len(history) : history[k].id = id
EntryOf(id) == history[PlaceOf(id)]

(* QueueHistory.set(): the entry becomes the newest; the oldest go.        *)
SetEntry(e) ==
  LET others == IF Has(e.id) THEN RemoveAt(history, PlaceOf(e.id)) ELSE history
      all == Append(others, e)
      full == Len(all) > MaxEntries
  IN /\ history' = IF full THEN Tail(all) ELSE all
     /\ evicted' = IF full THEN evicted \cup {Head(all).id} ELSE evicted

(* The trigger_* event of a step of the queue.  A dropped request that is  *)
(* not in the history any more is ignored.                                 *)
Heard == {i \in Ids : outcome'[i] # outcome[i]}
HistoryHears ==
  IF Heard = {} THEN UNCHANGED <<history, evicted>>
  ELSE LET i == CHOOSE j \in Heard : TRUE IN
       IF outcome'[i] = "dropped" /\ ~Has(i) THEN UNCHANGED <<history, evicted>>
       ELSE SetEntry([id |-> i, state |-> outcome'[i], run |-> runOf'[i]])

-----------------------------------------------------------------------------
(* The queue and the engine.                                               *)

(* A step of the queue that leaves the engine alone.                       *)
QueueStep ==
  /\ \/ Enqueue \/ LoadFails \/ LoadFindsBusy \/ LoadStartRejected \/ Touched
     \/ \E k \in 1 .. Len(q) : RemoveByQueueId(k)
  /\ HistoryHears
  /\ UNCHANGED <<aborted, endedAs, recordVars, queryVars>>

(* Direct starts are bounded here, so that every run has an id of its own. *)
RunStarts ==
  /\ LoadStarts \/ (runId < MaxDirect /\ DirectStart)
  /\ HistoryHears
  /\ aborted' = FALSE
  /\ UNCHANGED <<endedAs, recordVars, queryVars>>

(* The run settles: its status, run_finished, and the save of its record.  *)
RunSettles ==
  /\ Settle
  /\ \E s \in IF aborted THEN RunEnds \cup {"cancelled"} ELSE RunEnds :
       endedAs' = [endedAs EXCEPT ![runId] = s]
  /\ saving' = saving \cup {runId}
  /\ UNCHANGED <<history, evicted, aborted, onFile, queryVars>>

(* The record is on file, or could not be saved.                           *)
SaveEnds(r) ==
  /\ r \in saving
  /\ saving' = saving \ {r}
  /\ onFile' = onFile \cup {r} \/ UNCHANGED onFile
  /\ UNCHANGED <<vars, history, evicted, aborted, endedAs, queryVars>>

(* POST /api/run/stop stops whatever runs.                                 *)
StopRun ==
  /\ running /\ ~aborted
  /\ aborted' = TRUE
  /\ UNCHANGED <<vars, history, evicted, endedAs, recordVars, queryVars>>

-----------------------------------------------------------------------------
(* infinite_loop_get_run_status with a queue id.                           *)

Tell(id, answer) == /\ poll' = NoPoll
                    /\ told' = [told EXCEPT ![id] = answer]

(* cancel_run stops the run of a request if it is still the active one.    *)
CancelRun(id) ==
  /\ outcome[id] = "started" /\ running /\ runId = runOf[id] /\ ~aborted
  /\ aborted' = TRUE
  /\ UNCHANGED <<vars, history, evicted, endedAs, recordVars, queryVars>>

(* The history answers, unless the request was started.                    *)
AskStatus(id) ==
  /\ poll.pc = "none" /\ polls < MaxPolls /\ id <= nextId
  /\ polls' = polls + 1
  /\ IF ~Has(id) THEN Tell(id, "unknown")
     ELSE IF EntryOf(id).state # "started" THEN Tell(id, EntryOf(id).state)
     ELSE /\ poll' = [pc |-> "reading", id |-> id, run |-> EntryOf(id).run]
          /\ UNCHANGED told
  /\ UNCHANGED <<vars, history, evicted, aborted, endedAs, recordVars>>

(* getRun() reads the record ...                                           *)
ReadRecord ==
  /\ poll.pc = "reading"
  /\ IF poll.run \in onFile THEN Tell(poll.id, endedAs[poll.run])
     ELSE /\ poll' = [poll EXCEPT !.pc = "missing"]
          /\ UNCHANGED told
  /\ UNCHANGED <<vars, history, evicted, aborted, endedAs, recordVars, polls>>

(* Slip of AskEngine: the snapshot is not compared with the run.           *)
AskEngineForAny ==
  /\ poll.pc = "missing"
  /\ Tell(poll.id, IF running THEN "running" ELSE endedAs[runId])
  /\ UNCHANGED <<vars, history, evicted, aborted, endedAs, recordVars, polls>>

(* ... and when there is none, the engine's snapshot answers, as it is by  *)
(* then.                                                                   *)
AskEngine ==
  /\ poll.pc = "missing"
  /\ Tell(poll.id, IF runId # poll.run THEN "unknown"
                   ELSE IF running THEN "running" ELSE endedAs[runId])
  /\ UNCHANGED <<vars, history, evicted, aborted, endedAs, recordVars, polls>>

-----------------------------------------------------------------------------
RunStatusNext ==
  \/ QueueStep \/ RunStarts \/ RunSettles \/ StopRun
  \/ \E r \in saving : SaveEnds(r)
  \/ \E i \in Ids : AskStatus(i) \/ CancelRun(i)
  \/ ReadRecord \/ AskEngine

RunStatusSpec == RunStatusInit /\ [][RunStatusNext]_statusVars

-----------------------------------------------------------------------------
(* Properties                                                              *)
Statuses == {"running", "succeeded", "failed", "cancelled"}

(* The types of the variables.                                             *)
RunStatusTypeOK ==
  /\ TypeOK
  /\ \A k \in 1 .. Len(history) : /\ history[k].id \in Ids
                                  /\ history[k].state \in Outcomes \ {"new"}
  /\ Len(history) <= MaxEntries
  /\ endedAs \in [Runs -> {"none", "succeeded", "failed", "cancelled"}]
  /\ saving \subseteq Runs /\ onFile \subseteq Runs /\ saving \cap onFile = {}
  /\ poll.pc \in {"none", "reading", "missing"}
  /\ told \in [Ids -> {"nothing", "unknown", "queued", "dropped", "removed"} \cup Statuses]

(* How far an answer says a request has come.                              *)
Rank(answer) == CASE answer = "nothing" -> 0
                  [] answer = "queued" -> 1
                  [] answer = "running" -> 2
                  [] OTHER -> 3

(* Who polls a queue id is told of progress only: never that the request   *)
(* is back where it was, nor of another end than before.                   *)
(* "unknown" is the exception, and is only answered when the history has   *)
(* dropped the entry, or when the run is over: between run_finished and    *)
(* the save of the record a further run hides it, and for good when the    *)
(* save fails.                                                             *)
PollsAdvance ==
  [][\A i \in Ids :
       LET was == told[i]
           is == told'[i]
       IN was # is => IF is = "unknown"
                      THEN i \in evicted \/ (runOf[i] # None /\ endedAs[runOf[i]] # "none")
                      ELSE was = "unknown" \/ Rank(was) < Rank(is)]_statusVars
=============================================================================
