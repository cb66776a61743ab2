---------------------------- MODULE ParallelNode ----------------------------
(***************************************************************************)
(* One execution of a Parallel node: walkParallel() of workflow-engine.ts. *)
(*                                                                         *)
(* Every branch is a promise chain of two microtasks: the branch's walk    *)
(* ends and its result is computed ("walked"), and later its .then()       *)
(* callback records the result ("recorded"), settles the node's outcome    *)
(* and aborts the siblings.  Branches whose nodes do no I/O can end in the *)
(* same turn of the event loop, so that several results are computed       *)
(* before the first one is recorded.  Stop is an HTTP request: it arrives  *)
(* between turns, when no microtask is left.                               *)
(***************************************************************************)
EXTENDS Naturals, Sequences, SequencesExt, FiniteSets

CONSTANT Branches   \* the branch roots of the container

ASSUME ParallelAssumption == IsFiniteSet(Branches)

VARIABLES
  mode,       \* cfg.mode
  onError,    \* cfg.onError
  need,       \* successes that make a quorum
  pc,         \* progress of each branch's promise
  result,     \* BranchResult.status of each branch
  halted,     \* the branches whose AbortController has fired
  runAborted, \* the signal of the walk the node belongs to has fired
  winners,    \* branches that succeeded, in completion order
  failures,   \* completedFailures
  order,      \* the recorded branches in completion order (history)
  verdict,    \* the value outcomePromise was resolved with
  returned    \* what walkParallel returned

cfgVars == <<mode, onError, need>>
parallelVars == <<mode, onError, need, pc, result, halted, runAborted, winners,
                  failures, order, verdict, returned>>

Modes   == {"wait-all", "race", "quorum"}
SuccessHandle == [m \in Modes |-> CASE m = "wait-all" -> "all_done"
                                    [] m = "race"     -> "first_done"
                                    [] m = "quorum"   -> "quorum_met"]

(* saveWorkflow admits any quorum up to the number of children, which may  *)
(* exceed the number of branches.                                          *)
ParallelInit ==
  /\ mode \in Modes
  /\ onError \in {"fail-fast", "best-effort"}
  /\ need \in IF mode = "quorum" THEN 1..(Cardinality(Branches) + 1)
              ELSE {0}
  /\ pc = [b \in Branches |-> "walking"]
  /\ result = [b \in Branches |-> "none"]
  /\ halted = {}
  /\ runAborted = FALSE
  /\ winners = <<>>
  /\ failures = <<>>
  /\ order = <<>>
  /\ verdict = "none"
  /\ returned = "none"

-----------------------------------------------------------------------------
AllRecorded == \A b \in Branches : pc[b] = "recorded"

(* No microtask of this node is due.                                       *)
NothingDue == (\A b \in Branches : pc[b] # "walked") /\ ~AllRecorded

(* Slip of SettleOutcome: without the outcomeSettled flag, the last one    *)
(* wins.                                                                   *)
SettleAgain(v) == verdict' = v

(* settleOutcome(): the first verdict stands.                              *)
SettleOutcome(v) == verdict' = IF verdict = "none" THEN v ELSE verdict

(* Slip of Walked: the branch's own signal is not looked at, and a walk    *)
(* that gave up by itself is taken for a cancelled one.                    *)
WalkedNoCheck(b) ==
  /\ pc[b] = "walking"
  /\ pc' = [pc EXCEPT ![b] = "walked"]
  /\ \E r \in {"succeeded", "failed", "cancelled"} :
       result' = [result EXCEPT ![b] = r]
  /\ UNCHANGED <<cfgVars, halted, runAborted, winners, failures, order,
                 verdict, returned>>

(* The walk of branch b returned or threw; an aborted branch counts as     *)
(* cancelled whatever it did.                                              *)
Walked(b) ==
  /\ pc[b] = "walking"
  /\ pc' = [pc EXCEPT ![b] = "walked"]
  /\ \E r \in IF b \in halted THEN {"cancelled"} ELSE {"succeeded", "failed"} :
       result' = [result EXCEPT ![b] = r]
  /\ UNCHANGED <<cfgVars, halted, runAborted, winners, failures, order,
                 verdict, returned>>

(* Slip of Enough: one success too few.                                    *)
EnoughEarly(n) == mode = "race" \/ (mode = "quorum" /\ n + 1 >= need)

(* The successes with which the node succeeds before all branches ended.   *)
Enough(n) == \/ mode = "race"
             \/ mode = "quorum" /\ n >= need

(* Slip of Decide: the siblings are left running.                          *)
DecideOnly(v) == SettleOutcome(v) /\ UNCHANGED halted

Decide(v) == SettleOutcome(v) /\ halted' = Branches

(* The .then() of branch b.                                                *)
RecordBranch(b) ==
  /\ pc[b] = "walked"
  /\ pc' = [pc EXCEPT ![b] = "recorded"]
  /\ order' = Append(order, b)
  /\ \/ /\ result[b] = "succeeded"
        /\ winners' = Append(winners, b)
        /\ IF Enough(Len(winners) + 1) THEN Decide("success")
           ELSE UNCHANGED <<verdict, halted>>
        /\ UNCHANGED failures
     \/ /\ result[b] = "failed"
        /\ failures' = Append(failures, b)
        /\ IF onError = "fail-fast" THEN Decide("error")
           ELSE UNCHANGED <<verdict, halted>>
        /\ UNCHANGED winners
     \/ /\ result[b] = "cancelled"
        /\ UNCHANGED <<verdict, halted, winners, failures>>
  /\ UNCHANGED <<cfgVars, result, runAborted, returned>>

(* The verdict once every branch has ended.                                *)
FinalVerdict ==
  CASE runAborted        -> "cancelled"
    [] ~runAborted /\ mode = "wait-all" ->
         IF failures = <<>> THEN "success" ELSE "error"
    [] ~runAborted /\ mode = "race" ->
         IF winners # <<>> THEN "success" ELSE "error"
    [] ~runAborted /\ mode = "quorum" ->
         IF Len(winners) >= need THEN "success" ELSE "error"

(* The .then() of Promise.all.                                             *)
AllSettled ==
  /\ AllRecorded
  /\ verdict = "none"
  /\ SettleOutcome(FinalVerdict)
  /\ UNCHANGED <<cfgVars, pc, result, halted, runAborted, winners, failures,
                 order, returned>>

(* What walkParallel returns once the outcome is o.                        *)
Route(o) ==
  CASE runAborted \/ o = "cancelled"       -> "cancelled"
    [] ~runAborted /\ o = "success"        -> SuccessHandle[mode]
    [] ~runAborted /\ o = "error"          -> "error"

(* Slip of Return: the second await, Promise.all, is missing.              *)
ReturnEarly ==
  /\ verdict # "none"
  /\ returned = "none"
  /\ returned' = Route(verdict)
  /\ UNCHANGED <<cfgVars, pc, result, halted, runAborted, winners, failures,
                 order, verdict>>

(* Both awaits have passed: the outcome is known and every branch ended.   *)
Return ==
  /\ verdict # "none"
  /\ AllRecorded
  /\ returned = "none"
  /\ returned' = Route(verdict)
  /\ UNCHANGED <<cfgVars, pc, result, halted, runAborted, winners, failures,
                 order, verdict>>

(* The branches listed under `children` in the node's output, and the      *)
(* `winners` listed beside them (`winner` is their head in a race).        *)
ChildrenOut ==
  {b \in Branches : \/ mode = "wait-all" \/ onError = "best-effort"
                    \/ mode = "race" /\ winners # <<>> /\ b = Head(winners)
                    \/ mode = "quorum" /\ b \in Range(winners)}
FirstWinners(n) == SubSeq(winners, 1, Min({n, Len(winners)}))
WinnersOut == CASE mode = "race"     -> FirstWinners(1)
                [] mode = "quorum"   -> FirstWinners(need)
                [] mode = "wait-all" -> <<>>

(* Stop: the parent signal fires and the listeners abort every branch.     *)
ParentAborts ==
  /\ ~runAborted
  /\ NothingDue
  /\ runAborted' = TRUE
  /\ halted' = Branches
  /\ UNCHANGED <<cfgVars, pc, result, winners, failures, order, verdict,
                 returned>>

ParallelNext ==
  \/ \E b \in Branches : Walked(b)
  \/ \E b \in Branches : RecordBranch(b)
  \/ AllSettled
  \/ Return
  \/ ParentAborts

(* Microtasks run, and an aborted branch ends: its executors kill their    *)
(* child process or their request.  A branch that was not aborted may run  *)
(* for ever.                                                               *)
ParallelFairness ==
  /\ \A b \in Branches : WF_parallelVars(RecordBranch(b))
  /\ \A b \in Branches : WF_parallelVars(b \in halted /\ Walked(b))
  /\ WF_parallelVars(AllSettled)
  /\ WF_parallelVars(Return)

ParallelSpec == ParallelInit /\ [][ParallelNext]_parallelVars /\ ParallelFairness

-----------------------------------------------------------------------------
(* Properties                                                              *)

Verdicts == {"none", "success", "error", "cancelled"}
Results  == {"none", "succeeded", "failed", "cancelled"}
ReturnHandles == {"none", "all_done", "first_done", "quorum_met", "error", "cancelled"}

(* The types of the variables.                                             *)
ParallelTypeOK ==
  /\ mode \in Modes
  /\ onError \in {"fail-fast", "best-effort"}
  /\ need \in Nat
  /\ pc \in [Branches -> {"walking", "walked", "recorded"}]
  /\ result \in [Branches -> Results]
  /\ halted \in SUBSET Branches
  /\ runAborted \in BOOLEAN
  /\ winners \in Seq(Branches)
  /\ failures \in Seq(Branches)
  /\ order \in Seq(Branches)
  /\ verdict \in Verdicts
  /\ returned \in ReturnHandles

(* The branches with result r among the first n recorded ones.             *)
Among(n, r) == {k \in 1..n : result[order[k]] = r}

(* The record of the k-th branch, taken alone, decides the node.           *)
SucceedsAt(k) ==
  /\ result[order[k]] = "succeeded"
  /\ CASE mode = "race"     -> TRUE
       [] mode = "quorum"   -> Cardinality(Among(k, "succeeded")) >= need
       [] mode = "wait-all" -> FALSE
FailsAt(k) == onError = "fail-fast" /\ result[order[k]] = "failed"

(* The order in which branches end decides the node, and decides it once:  *)
(* the outcome is the verdict of the first decisive record, whatever is    *)
(* recorded after it; with none, it is the verdict over all branches.      *)
FirstDecisiveRecordWins ==
  LET decisive == {k \in 1..Len(order) : SucceedsAt(k) \/ FailsAt(k)}
  IN  /\ \A k \in decisive :
           (\A j \in decisive : k <= j)
             => verdict = IF SucceedsAt(k) THEN "success" ELSE "error"
      /\ decisive = {} /\ verdict # "none" => AllRecorded

(* The handle the workflow continues with is justified by what the         *)
(* branches did, and the winners it can then read are distinct branches    *)
(* that succeeded and whose outputs are kept.                              *)
HandleIsEarned ==
  /\ returned = "all_done"   => \A b \in Branches : result[b] = "succeeded"
  /\ returned = "first_done" => Len(WinnersOut) = 1
  /\ returned = "quorum_met" => Cardinality(Range(WinnersOut)) = need
  /\ returned \in {"first_done", "quorum_met"} =>
       \A b \in Range(WinnersOut) : b \in ChildrenOut /\ result[b] = "succeeded"
  /\ returned = "error" => \/ failures # <<>>
                           \/ mode = "quorum" /\ Len(winners) < need
                           \/ Branches = {}

(* The node returns only when no branch is running any more, and reports a *)
(* cancellation exactly when its own walk was cancelled: aborting losing   *)
(* siblings never reads as a cancelled run.                                *)
ReturnIsClean ==
  returned # "none" => /\ \A b \in Branches : pc[b] = "recorded"
                       /\ returned = "cancelled" <=> runAborted

(* No branch is cancelled without a verdict or a Stop, and an early        *)
(* verdict leaves no sibling running unaborted.                            *)
CancelledForCause ==
  /\ \A b \in Branches : result[b] = "cancelled" => runAborted \/ verdict # "none"
  /\ verdict # "none" => \A b \in Branches : pc[b] = "walking" => b \in halted

(* Once the outcome is settled or the run stopped, the node returns.       *)
SettledNodeReturns == verdict # "none" \/ runAborted ~> returned # "none"
=============================================================================
