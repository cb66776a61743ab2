------------------------------- MODULE Engine -------------------------------
(***************************************************************************)
(* One run of a workflow: start(), stop(), walkFrom(), walkLoop(),         *)
(* walkSubworkflow() and the forking side of walkParallel() of             *)
(* workflow-engine.ts.                                                     *)
(*                                                                         *)
(* A task is a chain of calls that await one another: the walk of the run  *)
(* ("main") and one per branch of a Parallel node, named by its root.  A   *)
(* task is a stack of frames, one per walkFrom and walkLoop in progress.   *)
(* The engine runs in one JavaScript thread: cpu names the task that runs, *)
(* and no other task steps before it awaits.  Files, child processes and   *)
(* requests complete between turns, when no microtask is due (Quiet).      *)
(*                                                                         *)
(* How a Parallel node picks its verdict is ParallelNode's subject: here   *)
(* it aborts siblings and chooses among the verdicts that remain possible. *)
(***************************************************************************)
EXTENDS Naturals, Sequences, SequencesExt, FiniteSets

CONSTANT Workflows
  \* a workflow, with the workflows its subworkflow nodes refer to, is
  \* [start, kind, io, edges, entry, roots, max]:
  \*   start     the Start node, or None
  \*   kind[n]   "start", "plain", "cond", "end", "endfailed", "loop",
  \*             "parallel", "sub"
  \*   io        the nodes whose executor waits for I/O
  \*   edges     the triples <<source, sourceHandle, target>>
  \*   entry[n]  first child of a loop, start node of a subworkflow, or Nil
  \*   roots[n]  the branch roots of a parallel node
  \*   max[n]    maxIterations of a loop; Forever for `infinite: true`

Main    == "main"
Nil     == "none"
Forever == 0

NodeKinds == {"start", "plain", "cond"}
EndKinds  == {"end", "endfailed"}
Kinds     == NodeKinds \cup EndKinds \cup {"loop", "parallel", "sub"}
Nodes(w)  == DOMAIN w.kind

(* Where a walk gets to from a node: along its edges, and into it.         *)
Successors(w, n) == {e[3] : e \in {x \in w.edges : x[1] = n}}
                      \cup IF n \in DOMAIN w.entry THEN {w.entry[n]} \ {Nil} ELSE {}
                      \cup IF n \in DOMAIN w.roots THEN w.roots[n] ELSE {}

(* No walk from a node of `from` gets to a node of kind k.                 *)
Avoids(w, from, k) ==
  \E region \in SUBSET Nodes(w) :
    /\ from \subseteq region
    /\ \A n \in region : w.kind[n] # k /\ Successors(w, n) \subseteq region

(* Edges and containers refer to nodes.  That no Parallel node is reached  *)
(* in a branch of another is a bound.                                      *)
WellFormed(w) ==
  /\ w.kind \in [Nodes(w) -> Kinds]
  /\ {Main, Nil} \cap Nodes(w) = {}
  /\ w.start \in Nodes(w) \cup {Nil}
  /\ \A e \in w.edges : e[3] \in Nodes(w)
  /\ \A n \in DOMAIN w.entry : w.entry[n] \in Nodes(w) \cup {Nil}
  /\ \A n \in DOMAIN w.roots : w.roots[n] \subseteq Nodes(w)
  /\ \A n \in Nodes(w) :
       /\ w.kind[n] = "loop" => n \in DOMAIN w.entry /\ w.max[n] \in Nat
       /\ w.kind[n] = "sub" => n \in DOMAIN w.entry /\ w.entry[n] # Nil
       /\ w.kind[n] = "parallel" => n \in DOMAIN w.roots /\ Avoids(w, w.roots[n], "parallel")

ASSUME EngineAssumption == \A w \in Workflows : WellFormed(w)

Tasks == {Main} \cup UNION {UNION {w.roots[p] : p \in DOMAIN w.roots} : w \in Workflows}

VARIABLES
  wf,         \* the workflow of the run
  status,     \* snapshot.status
  final,      \* start()'s finalStatus, once the walk has ended
  stack,      \* the frames of each task, innermost last
  ret,        \* what the innermost awaited call of each task returned
  cpu,        \* the task that is running, or None
  loopSignal, \* snapshot._loopSignal
  aborted,    \* the tasks whose AbortSignal has fired
  stop,       \* the user's stop request: "no", "asked", "inTime" or "late"
  unhandled,  \* history: an error of the run's own walk had no edge to follow
  broke       \* history: the loops a condition of whose body said met, in the
              \* current iteration

runVars == <<wf, status, final, stop>>
history == <<unhandled, broke>>
engineVars == <<wf, status, final, stack, ret, cpu, loopSignal, aborted, stop, unhandled,
                broke>>

Terminal == {"succeeded", "failed", "cancelled"}

(* A frame: walkFrom at node `at`, whose exec.parentNode is the loop `in`; *)
(* or walkLoop of the loop `at` in its i-th iteration (st = "loop").       *)
Frame(n, l, st, i) == [at |-> n, in |-> l, st |-> st, i |-> i]
Enter(n, l) == Frame(n, l, "visit", 0)
Inside(f)   == [f EXCEPT !.st = "inside"]

EngineInit ==
  /\ wf \in Workflows
  /\ status = "idle"
  /\ final = Nil
  /\ stack = [t \in Tasks |-> <<>>]
  /\ ret = [t \in Tasks |-> Nil]
  /\ cpu = Nil
  /\ loopSignal = Nil
  /\ aborted = {}
  /\ stop = "no"
  /\ unhandled = FALSE
  /\ broke = {}

-----------------------------------------------------------------------------
Top(t)   == Last(stack[t])
Below(t) == Front(stack[t])
In(t, st) == stack[t] # <<>> /\ Top(t).st = st
IsA(t, k) == wf.kind[Top(t).at] = k
Roots(t)  == wf.roots[Top(t).at]

(* followBranch(): the targets of the edge with this handle, if any.       *)
Follow(n, h) == {e[3] : e \in {x \in wf.edges : x[1] = n /\ x[2] = h}}

BranchResults == {"won", "lost", "dropped"}

Forked(t) == In(t, "inside") /\ IsA(t, "parallel") /\ ret[t] = Nil

(* Slip of Joinable: Promise.race in place of Promise.all.                 *)
JoinableByRace(t) == Forked(t) /\ \E r \in Roots(t) : ret[r] \in BranchResults

(* Promise.all of walkParallel has every branch's result.                  *)
Joinable(t) == Forked(t) /\ \A r \in Roots(t) : ret[r] \in BranchResults

(* A continuation of task t is in the microtask queue.                     *)
MicrotaskDue(t) == \/ ret[t] # Nil /\ ret[t] \notin BranchResults
                   \/ In(t, "visit")
                   \/ In(t, "exec") /\ Top(t).at \notin wf.io
                   \/ Joinable(t)

Quiet == cpu = Nil /\ \A t \in Tasks : ~MicrotaskDue(t)

(* Task t goes on, or awaits: with a value that its innermost call has     *)
(* just returned, or with None.                                            *)
Continue(t, s) == /\ stack' = [stack EXCEPT ![t] = s]
                  /\ ret' = [ret EXCEPT ![t] = Nil]
                  /\ cpu' = t
Await(t, s, v) == /\ stack' = [stack EXCEPT ![t] = s]
                  /\ ret' = [ret EXCEPT ![t] = v]
                  /\ cpu' = Nil

(* Slip of Unwired: the branch is returned for a status.                   *)
UnwiredRaw(h) == h

(* A walk that cannot go on returns.                                       *)
Unwired(h) == IF h = "error" THEN "failed" ELSE "succeeded"

(* The walk of the run itself, not of a branch or a subworkflow.           *)
OwnWalk(t) == t = Main /\ \A k \in 1..(Len(stack[t]) - 1) :
                            wf.kind[stack[t][k].at] # "sub"

NoteError(t, h) ==
  unhandled' = (unhandled \/ (/\ h = "error"
                              /\ Follow(Top(t).at, h) = {}
                              /\ OwnWalk(t)))

(* The walk leaves its node by handle h, and returns v if that leads       *)
(* nowhere.                                                                *)
LeaveBy(t, h, v) ==
  /\ \/ \E n \in Follow(Top(t).at, h) :
          Continue(t, Append(Below(t), Enter(n, Top(t).in)))
     \/ /\ Follow(Top(t).at, h) = {}
        /\ Await(t, Below(t), v)
  /\ NoteError(t, h)

-----------------------------------------------------------------------------
(* start() and stop()                                                      *)

Start ==
  /\ status = "idle"
  /\ status' = "running"
  /\ IF wf.start = Nil THEN Await(Main, <<>>, "threw")
     ELSE Continue(Main, <<Enter(wf.start, Nil)>>)
  /\ UNCHANGED <<wf, final, loopSignal, aborted, stop, history>>

(* The walk has returned or thrown; cleanupAll() of the worktrees starts.  *)
WalkEnds ==
  /\ cpu = Nil
  /\ stack[Main] = <<>>
  /\ ret[Main] # Nil
  /\ final' = IF ret[Main] # "threw" THEN ret[Main]
              ELSE IF Main \in aborted THEN "cancelled" ELSE "failed"
  /\ ret' = [ret EXCEPT ![Main] = Nil]
  /\ UNCHANGED <<wf, status, stack, cpu, loopSignal, aborted, stop, history>>

(* The clean-up is done: the snapshot turns terminal.                      *)
SettleRun ==
  /\ final # Nil
  /\ status = "running"
  /\ Quiet
  /\ status' = final
  /\ UNCHANGED <<wf, final, stack, ret, cpu, loopSignal, aborted, stop, history>>

AskStop ==
  /\ status = "running"
  /\ stop = "no"
  /\ stop' = "asked"
  /\ UNCHANGED <<wf, status, final, stack, ret, cpu, loopSignal, aborted, history>>

(* Slip of Stop: the branches' controllers are not chained to the run's.   *)
StopMainOnly ==
  /\ stop = "asked"
  /\ Quiet
  /\ aborted' = IF status = "running" THEN aborted \cup {Main} ELSE aborted
  /\ stop' = IF final = Nil THEN "inTime" ELSE "late"
  /\ UNCHANGED <<wf, status, final, stack, ret, cpu, loopSignal, history>>

(* stop(): the run's controller fires, and with it every branch's.         *)
Stop ==
  /\ stop = "asked"
  /\ Quiet
  /\ aborted' = IF status = "running" THEN Tasks ELSE aborted
  /\ stop' = IF final = Nil THEN "inTime" ELSE "late"
  /\ UNCHANGED <<wf, status, final, stack, ret, cpu, loopSignal, history>>

-----------------------------------------------------------------------------
(* walkFrom(): the top of its loop                                         *)

(* A branch forked by a Parallel node starts with cpu = None.              *)
Visiting(t) == cpu \in {t, Nil} /\ In(t, "visit")

VisitAborted(t) ==
  /\ Visiting(t)
  /\ t \in aborted
  /\ Await(t, Below(t), "cancelled")
  /\ UNCHANGED <<runVars, loopSignal, aborted, history>>

(* executeNode() up to the await of the executor.                          *)
VisitNode(t) ==
  /\ Visiting(t)
  /\ t \notin aborted
  /\ wf.kind[Top(t).at] \in NodeKinds \cup EndKinds
  /\ Await(t, Append(Below(t), [Top(t) EXCEPT !.st = "exec"]), Nil)
  /\ UNCHANGED <<runVars, loopSignal, aborted, history>>

VisitLoop(t) ==
  /\ Visiting(t)
  /\ t \notin aborted
  /\ IsA(t, "loop")
  /\ LET s == Append(Below(t), Inside(Top(t)))
     IN  IF wf.entry[Top(t).at] = Nil
         THEN Await(t, s, "exit")
         ELSE Continue(t, Append(s, Frame(Top(t).at, Nil, "loop", 0)))
  /\ UNCHANGED <<runVars, loopSignal, aborted, history>>

VisitSubworkflow(t) ==
  /\ Visiting(t)
  /\ t \notin aborted
  /\ IsA(t, "sub")
  /\ Await(t, Append(Below(t), [Top(t) EXCEPT !.st = "load"]), Nil)
  /\ UNCHANGED <<runVars, loopSignal, aborted, history>>

(* walkParallel() forks its branches, or succeeds at once when empty.      *)
VisitParallel(t) ==
  /\ Visiting(t)
  /\ t \notin aborted
  /\ IsA(t, "parallel")
  /\ LET s == Append(Below(t), Inside(Top(t)))
     IN  IF Roots(t) = {}
         THEN Await(t, s, "done")
         ELSE /\ stack' = [x \in Tasks |-> CASE x = t -> s
                                             [] x \in Roots(t) -> <<Enter(x, Nil)>>
                                             [] OTHER -> stack[x]]
              /\ cpu' = Nil
              /\ UNCHANGED ret
  /\ UNCHANGED <<runVars, loopSignal, aborted, history>>

-----------------------------------------------------------------------------
(* walkLoop()                                                              *)

Bounded(l) == wf.max[l] # Forever

AtCap(t) == Bounded(Top(t).at) /\ Top(t).i = wf.max[Top(t).at]

(* Slip of ResetLoopSignal: the signal of the iteration before stays.      *)
KeepLoopSignal == UNCHANGED loopSignal

ResetLoopSignal == loopSignal' = Nil

(* The head of the `for`: past the cap, aborted, or the next iteration.    *)
(* The count of an endless loop is not kept.                               *)
IterateNot(t) ==
  /\ AtCap(t) \/ t \in aborted
  /\ Await(t, Below(t), IF AtCap(t) THEN "exit" ELSE "cancelled")
  /\ UNCHANGED <<loopSignal, broke>>
IterateOnce(t) ==
  /\ ~AtCap(t)
  /\ t \notin aborted
  /\ ResetLoopSignal
  /\ broke' = broke \ {Top(t).at}
  /\ LET l == Top(t).at
         i == IF Bounded(l) THEN Top(t).i + 1 ELSE 1
     IN  Continue(t, Append(Append(Below(t), [Top(t) EXCEPT !.i = i]), Enter(wf.entry[l], l)))
Iterate(t) ==
  /\ cpu = t
  /\ In(t, "loop")
  /\ IterateNot(t) \/ IterateOnce(t)
  /\ UNCHANGED <<runVars, aborted, unhandled>>

(* Slip of BodyReturned: a body that left no signal ends the loop, not the *)
(* walk.                                                                   *)
BodyReturnedLax(t) ==
  /\ cpu = Nil
  /\ In(t, "loop")
  /\ ret[t] # Nil
  /\ CASE ret[t] = "threw"      -> Await(t, Below(t), "threw")
       [] loopSignal = "continue" -> Continue(t, stack[t])
       [] OTHER                   -> Await(t, Below(t), "exit")
  /\ UNCHANGED <<runVars, loopSignal, aborted, history>>

(* The body's walk has returned: readLoopSignal() decides.                 *)
BodyReturned(t) ==
  /\ cpu = Nil
  /\ In(t, "loop")
  /\ ret[t] # Nil
  /\ CASE ret[t] = "threw"                               -> Await(t, Below(t), "threw")
       [] ret[t] # "threw" /\ loopSignal = "break"       -> Await(t, Below(t), "exit")
       [] ret[t] # "threw" /\ loopSignal = "continue"    -> Continue(t, stack[t])
       [] ret[t] # "threw" /\ loopSignal = Nil           -> Await(t, Below(t), ret[t])
  /\ UNCHANGED <<runVars, loopSignal, aborted, history>>

-----------------------------------------------------------------------------
(* walkFrom(): after the await                                             *)

(* The branches an executor can return ("next" stands for every handle     *)
(* with no meaning of its own); "error" also when it threw.  A node killed *)
(* by an abort mostly comes back with "error", but it may have finished.   *)
Handles(k) == CASE k = "start" -> {"next"}
                [] k = "plain" -> {"next", "error"}
                [] k = "cond"  -> {"met", "not_met", "error"}

Returned(t) == /\ cpu = Nil
               /\ In(t, "exec")
               /\ ret[t] = Nil
               /\ Top(t).at \in wf.io => Quiet

(* An End node ends the walk with its outcome.                             *)
EndReached(t) ==
  /\ Returned(t)
  /\ wf.kind[Top(t).at] \in EndKinds
  /\ Await(t, Below(t), IF IsA(t, "end") THEN "succeeded" ELSE "failed")
  /\ UNCHANGED <<runVars, loopSignal, aborted, history>>

(* Outside loop bodies the branch is followed.                             *)
NodeReturned(t) ==
  /\ Returned(t)
  /\ wf.kind[Top(t).at] \in NodeKinds
  /\ Top(t).in = Nil
  /\ \E h \in Handles(wf.kind[Top(t).at]) : LeaveBy(t, h, Unwired(h))
  /\ UNCHANGED <<runVars, loopSignal, aborted, broke>>

(* In a loop body, met and not_met exit or re-enter the loop, an error     *)
(* needs an edge, and the end of the body re-enters.                       *)
BodyNodeReturned(t) ==
  /\ Returned(t)
  /\ wf.kind[Top(t).at] \in NodeKinds
  /\ Top(t).in # Nil
  /\ \E h \in Handles(wf.kind[Top(t).at]) :
       \/ /\ h \in {"met", "not_met"}
          /\ loopSignal' = IF h = "met" THEN "break" ELSE "continue"
          /\ broke' = IF h = "met" THEN broke \cup {Top(t).in} ELSE broke
          /\ Await(t, Below(t), "succeeded")
          /\ UNCHANGED unhandled
       \/ /\ h \in {"next", "error"}
          /\ loopSignal' = IF h = "next" /\ Follow(Top(t).at, h) = {} THEN "continue"
                           ELSE loopSignal
          /\ LeaveBy(t, h, Unwired(h))
          /\ UNCHANGED broke
  /\ UNCHANGED <<runVars, aborted>>

(* An executor that throws under an abort: the exception leaves the walk.  *)
NodeThrew(t) ==
  /\ Returned(t)
  /\ wf.kind[Top(t).at] \in NodeKinds
  /\ Top(t).at \in wf.io
  /\ t \in aborted
  /\ Await(t, Below(t), "threw")
  /\ UNCHANGED <<runVars, loopSignal, aborted, history>>

(* walkLoop() has returned: past the loop, or out with its status.         *)
LoopReturned(t) ==
  /\ cpu = Nil
  /\ In(t, "inside")
  /\ IsA(t, "loop")
  /\ ret[t] # Nil
  /\ IF ret[t] = "exit" THEN LeaveBy(t, "next", "succeeded")
     ELSE Await(t, Below(t), ret[t]) /\ UNCHANGED unhandled
  /\ UNCHANGED <<runVars, loopSignal, aborted, broke>>

(* The child workflow was read, or could not be.                           *)
Loaded(t) ==
  /\ Quiet
  /\ In(t, "load")
  /\ \/ LeaveBy(t, "error", "failed")
     \/ /\ Continue(t, Append(Append(Below(t), Inside(Top(t))), Enter(wf.entry[Top(t).at], Nil)))
        /\ UNCHANGED unhandled
  /\ UNCHANGED <<runVars, loopSignal, aborted, broke>>

(* The child's walk has returned or thrown.                                *)
ChildReturned(t) ==
  /\ cpu = Nil
  /\ In(t, "inside")
  /\ IsA(t, "sub")
  /\ ret[t] # Nil
  /\ \/ ret[t] = "succeeded" /\ LeaveBy(t, "next", "succeeded")
     \/ ret[t] \in {"failed", "threw"} /\ LeaveBy(t, "error", "failed")
     \/ /\ ret[t] = "cancelled"
        /\ Await(t, Below(t), "cancelled")
        /\ UNCHANGED unhandled
  /\ UNCHANGED <<runVars, loopSignal, aborted, broke>>

-----------------------------------------------------------------------------
(* walkParallel()                                                          *)

(* A branch's walk has returned or thrown.                                 *)
BranchEnds(r) ==
  /\ cpu = Nil
  /\ r # Main
  /\ stack[r] = <<>>
  /\ ret[r] \in Terminal \cup {"threw"}
  /\ ret' = [ret EXCEPT ![r] = IF r \in aborted THEN "dropped"
                               ELSE IF ret[r] = "succeeded" THEN "winner" ELSE "loser"]
  /\ UNCHANGED <<runVars, stack, cpu, loopSignal, aborted, history>>

Siblings(r) == UNION {wf.roots[p] : p \in {x \in DOMAIN wf.roots : r \in wf.roots[x]}}

(* Its .then() records the result, which may decide the node early:        *)
(* cancelAllSiblings().                                                    *)
Record(r) ==
  /\ cpu = Nil
  /\ ret[r] \in {"winner", "loser"}
  /\ ret' = [ret EXCEPT ![r] = IF ret[r] = "winner" THEN "won" ELSE "lost"]
  /\ aborted' \in {aborted, aborted \cup Siblings(r)}
  /\ UNCHANGED <<runVars, stack, cpu, loopSignal, history>>

(* Slip of Verdict: a cancelled branch makes a cancelled node.             *)
VerdictOfBranches(t, v) ==
  /\ v = "cancelled" <=> \E r \in Roots(t) : ret[r] = "dropped"
  /\ v = "done" => \E r \in Roots(t) : ret[r] = "won"

(* The verdicts that ParallelNode leaves possible.                         *)
Verdict(t, v) ==
  /\ v = "cancelled" <=> t \in aborted
  /\ v = "done" => \E r \in Roots(t) : ret[r] = "won"

(* Every branch has ended: the node's handle.                              *)
Join(t) ==
  /\ cpu = Nil
  /\ Joinable(t)
  /\ \E v \in {"done", "error", "cancelled"} :
       /\ Verdict(t, v)
       /\ ret' = [x \in Tasks |-> CASE x = t -> v
                                    [] x \in Roots(t) -> Nil
                                    [] OTHER -> ret[x]]
  /\ aborted' = IF t \in aborted THEN aborted ELSE aborted \ Roots(t)
  /\ UNCHANGED <<runVars, stack, cpu, loopSignal, history>>

ParallelReturned(t) ==
  /\ cpu = Nil
  /\ In(t, "inside")
  /\ IsA(t, "parallel")
  /\ \/ ret[t] \in {"done", "error"} /\ LeaveBy(t, ret[t], Unwired(ret[t]))
     \/ /\ ret[t] = "cancelled"
        /\ Await(t, Below(t), "cancelled")
        /\ UNCHANGED unhandled
  /\ UNCHANGED <<runVars, loopSignal, aborted, broke>>

-----------------------------------------------------------------------------
Visit(t) == \/ VisitAborted(t) \/ VisitNode(t) \/ VisitLoop(t)
            \/ VisitSubworkflow(t) \/ VisitParallel(t)

ExecutorReturns(t) == \/ EndReached(t) \/ NodeReturned(t)
                      \/ BodyNodeReturned(t) \/ NodeThrew(t)

(* The steps of task t that wait for nothing outside the engine.           *)
Microtask(t) == \/ Visit(t) \/ Iterate(t) \/ BodyReturned(t) \/ LoopReturned(t)
                \/ ChildReturned(t) \/ BranchEnds(t) \/ Record(t)
                \/ Join(t) \/ ParallelReturned(t)

EngineNext ==
  \/ Start \/ WalkEnds \/ SettleRun \/ AskStop \/ Stop
  \/ \E t \in Tasks : \/ Microtask(t)
                      \/ ExecutorReturns(t)
                      \/ Loaded(t)

(* Microtasks run in the order they are queued; reads of workflow files    *)
(* and the clean-up of worktrees come back; the executor of an in-memory   *)
(* node returns, and one that does I/O returns once it is aborted (child   *)
(* processes are killed, requests cut).  A stop request is in the event    *)
(* queue, which is served whenever the microtasks have run out.            *)
EngineFairness ==
  /\ WF_engineVars(WalkEnds) /\ WF_engineVars(SettleRun) /\ SF_engineVars(Stop)
  /\ \A t \in Tasks :
       /\ WF_engineVars(Microtask(t))
       /\ WF_engineVars(Loaded(t))
       /\ WF_engineVars(In(t, "exec") /\ (Top(t).at \notin wf.io \/ t \in aborted)
                         /\ ExecutorReturns(t))

EngineSpec == EngineInit /\ [][EngineNext]_engineVars /\ EngineFairness

-----------------------------------------------------------------------------
(* Properties                                                              *)

Values == Terminal \cup BranchResults
            \cup {Nil, "threw", "exit", "done", "error", "winner", "loser"}

(* The types of the variables.                                             *)
EngineTypeOK ==
  /\ wf \in Workflows
  /\ status \in {"idle", "running"} \cup Terminal
  /\ final \in {Nil} \cup Terminal
  /\ \A t \in Tasks : \A k \in 1..Len(stack[t]) :
       LET f == stack[t][k]
       IN  /\ f.at \in DOMAIN wf.kind
           /\ f.in \in {Nil} \cup DOMAIN wf.kind
           /\ f.st \in {"visit", "exec", "load", "inside", "loop"}
           /\ f.i \in Nat
  /\ ret \in [Tasks -> Values]
  /\ cpu \in Tasks \cup {Nil}
  /\ loopSignal \in {Nil, "break", "continue"}
  /\ aborted \subseteq Tasks
  /\ stop \in {"no", "asked", "inTime", "late"}
  /\ unhandled \in BOOLEAN
  /\ broke \subseteq DOMAIN wf.kind

(* When the walk has ended and the run's worktrees are removed, no node of *)
(* any branch is still executing.                                          *)
NothingRunsAtCleanup == final # Nil => \A t \in Tasks : stack[t] = <<>>

(* Aborting the branches that lost a race never makes a run nobody stopped *)
(* end as cancelled.                                                       *)
OnlyStopCancels == final = "cancelled" => stop = "inTime"

(* A loop is left for the node behind it only when a condition of its own  *)
(* body was met in this iteration, or when maxIterations is reached.       *)
LoopLeft(t) == /\ In(t, "loop")
               /\ Len(stack'[t]) < Len(stack[t])
               /\ ret'[t] = "exit"
LeftForCause(t) == LoopLeft(t) => Top(t).at \in broke \/ AtCap(t)

(* "If no `error` edge is wired, an error settles the run as failed."      *)
UnhandledErrorFails ==
  unhandled /\ status \in Terminal /\ stop # "inTime" => status = "failed"

(* In no run of w are two loops in progress at once: a loop is reached     *)
(* neither in the body of a loop nor in a branch of a Parallel node.       *)
LoopsAlone(w) == \A n \in Nodes(w) :
                   /\ w.kind[n] = "loop" => Avoids(w, {w.entry[n]} \ {Nil}, "loop")
                   /\ w.kind[n] = "parallel" => Avoids(w, w.roots[n], "loop")

(* An error with no edge to follow fails the run, when no two loops are in *)
(* progress at once.                                                       *)
LoneLoopErrorsFail == LoopsAlone(wf) => UnhandledErrorFails

(* A loop is left for cause, when no other loop is in progress.            *)
LoneLoopsEndForCause ==
  [][LoopsAlone(wf) => \A t \in Tasks : LeftForCause(t)]_engineVars

(* Stop ends the run: whatever loops, branches and subworkflows are in     *)
(* progress, a run that was asked to stop settles.                         *)
StopSettles == stop = "asked" ~> status \in Terminal

(* On a Stop "the engine settles the run as `cancelled` immediately after  *)
(* the active node is killed."                                             *)
StoppedIsCancelled ==
  stop = "inTime" /\ status \in Terminal => status = "cancelled"
=============================================================================
