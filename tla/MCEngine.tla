------------------------------ MODULE MCEngine ------------------------------
(***************************************************************************)
(* Small instances of what runs workflows: the queue of run requests, the  *)
(* engine on a set of workflows, and one execution of a Parallel node.  No *)
(* step of one touches another's state, so `part` names the one that moves.*)
(***************************************************************************)
EXTENDS Engine, ParallelNode, TriggerQueue, TLC

VARIABLE part

E(s, h, t) == <<s, h, t>>
NoFun == <<>>

(* start -> loop { agent -> condition } -> end                             *)
FlatLoop ==
  [start |-> "s",
   kind  |-> "s" :> "start" @@ "L" :> "loop" @@ "a" :> "plain" @@ "c" :> "cond"
             @@ "e" :> "end",
   io    |-> {"a", "c"},
   edges |-> {E("s", "next", "L"), E("a", "next", "c"), E("L", "next", "e")},
   entry |-> "L" :> "a",
   roots |-> NoFun,
   max   |-> "L" :> 2]

(* An endless loop whose agent has its error edge wired to a second agent. *)
EndlessLoop ==
  [start |-> "s",
   kind  |-> "s" :> "start" @@ "L" :> "loop" @@ "a" :> "plain" @@ "b" :> "plain"
             @@ "c" :> "cond" @@ "e" :> "end",
   io    |-> {"a", "b"},
   edges |-> {E("s", "next", "L"), E("a", "next", "c"), E("a", "error", "b"),
              E("L", "next", "e")},
   entry |-> "L" :> "a",
   roots |-> NoFun,
   max   |-> "L" :> Forever]

(* start -> parallel { agent | agent -> agent } -> end, or a failed end    *)
Fork ==
  [start |-> "s",
   kind  |-> "s" :> "start" @@ "P" :> "parallel" @@ "a" :> "plain" @@ "b" :> "plain"
             @@ "d" :> "cond" @@ "e" :> "end" @@ "f" :> "endfailed",
   io    |-> {"a", "b"},
   edges |-> {E("s", "next", "P"), E("b", "next", "d"), E("P", "done", "e"),
              E("P", "error", "f")},
   entry |-> NoFun,
   roots |-> "P" :> {"a", "b"},
   max   |-> NoFun]

(* start -> parallel { subworkflow | subworkflow }, where the one is       *)
(* start -> loop { agent } and the other start -> loop { condition }       *)
LoopsInBranches ==
  [start |-> "s",
   kind  |-> "s" :> "start" @@ "P" :> "parallel" @@ "X" :> "sub" @@ "Y" :> "sub"
             @@ "xs" :> "start" @@ "L" :> "loop" @@ "a" :> "plain"
             @@ "ys" :> "start" @@ "M" :> "loop" @@ "c" :> "cond",
   io    |-> {"a"},
   edges |-> {E("s", "next", "P"), E("xs", "next", "L"), E("ys", "next", "M")},
   entry |-> "X" :> "xs" @@ "L" :> "a" @@ "Y" :> "ys" @@ "M" :> "c",
   roots |-> "P" :> {"X", "Y"},
   max   |-> "L" :> 2 @@ "M" :> 2]

(* start -> loop { parallel { agent | agent } } -> end                     *)
ForkInLoop ==
  [start |-> "s",
   kind  |-> "s" :> "start" @@ "L" :> "loop" @@ "P" :> "parallel" @@ "a" :> "plain"
             @@ "b" :> "plain" @@ "c" :> "cond" @@ "e" :> "end",
   io    |-> {"a", "b", "c"},
   edges |-> {E("s", "next", "L"), E("P", "done", "c"), E("L", "next", "e")},
   entry |-> "L" :> "P",
   roots |-> "P" :> {"a", "b"},
   max   |-> "L" :> 2]

(* start -> loop { subworkflow -> agent } -> end, where the subworkflow    *)
(* is start -> loop { condition } -> end                                   *)
LoopInLoop ==
  [start |-> "s",
   kind  |-> "s" :> "start" @@ "L" :> "loop" @@ "X" :> "sub" @@ "a" :> "plain"
             @@ "e" :> "end" @@ "xs" :> "start" @@ "M" :> "loop" @@ "c" :> "cond"
             @@ "xe" :> "end",
   io    |-> {"a", "c"},
   edges |-> {E("s", "next", "L"), E("X", "next", "a"), E("L", "next", "e"),
              E("xs", "next", "M"), E("M", "next", "xe")},
   entry |-> "L" :> "X" @@ "X" :> "xs" @@ "M" :> "c",
   roots |-> NoFun,
   max   |-> "L" :> 2 @@ "M" :> 2]

(* start -> loop { parallel { subworkflow | agent -> agent } -> condition } *)
(* -> end, where the subworkflow is start -> loop { agent -> condition }   *)
Deep ==
  [start |-> "s",
   kind  |-> "s" :> "start" @@ "L" :> "loop" @@ "P" :> "parallel" @@ "X" :> "sub"
             @@ "a" :> "plain" @@ "b" :> "plain" @@ "c" :> "cond" @@ "e" :> "end"
             @@ "xs" :> "start" @@ "M" :> "loop" @@ "d" :> "plain" @@ "k" :> "cond",
   io    |-> {"a", "b", "d"},
   edges |-> {E("s", "next", "L"), E("a", "next", "b"), E("P", "done", "c"),
              E("L", "next", "e"), E("xs", "next", "M"), E("d", "next", "k")},
   entry |-> "L" :> "P" @@ "X" :> "xs" @@ "M" :> "d",
   roots |-> "P" :> {"X", "a"},
   max   |-> "L" :> 2 @@ "M" :> 2]

(* start -> empty loop -> empty parallel -> subworkflow with its error     *)
(* edge wired; the subworkflow is start -> agent -> failed end             *)
EmptyContainers ==
  [start |-> "s",
   kind  |-> "s" :> "start" @@ "L" :> "loop" @@ "P" :> "parallel" @@ "X" :> "sub"
             @@ "a" :> "plain" @@ "f" :> "endfailed" @@ "b" :> "plain",
   io    |-> {"a"},
   edges |-> {E("s", "next", "L"), E("L", "next", "P"), E("P", "done", "X"),
              E("X", "error", "b"), E("a", "next", "f")},
   entry |-> "L" :> Nil @@ "X" :> "a",
   roots |-> "P" :> {},
   max   |-> "L" :> 2]

(* A workflow whose Start node was deleted.                                *)
NoStart == [FlatLoop EXCEPT !.start = Nil]

(* In the runs of all but the last three no two loops are in progress at   *)
(* once.                                                                   *)
AllWorkflows == {FlatLoop, EndlessLoop, Fork, ForkInLoop, EmptyContainers, NoStart,
                 LoopsInBranches, LoopInLoop, Deep}
OnlyFlatLoop == {FlatLoop}
OnlyNestedLoops == {LoopInLoop}

-----------------------------------------------------------------------------
Parts == {"queue", "engine", "parallel"}

(* A part that does not move has one initial state.                        *)
RunsInit ==
  /\ part \in Parts
  /\ Init
  /\ EngineInit /\ (part # "engine" => wf = CHOOSE w \in Workflows : TRUE)
  /\ ParallelInit /\ (part # "parallel" => mode = "race" /\ onError = "fail-fast")

Still(moving) ==
  /\ UNCHANGED part
  /\ IF moving = "queue" THEN TRUE ELSE UNCHANGED vars
  /\ IF moving = "engine" THEN TRUE ELSE UNCHANGED engineVars
  /\ IF moving = "parallel" THEN TRUE ELSE UNCHANGED parallelVars

RunsNext ==
  \/ part = "queue" /\ Next /\ Still("queue")
  \/ part = "engine" /\ EngineNext /\ Still("engine")
  \/ part = "parallel" /\ ParallelNext /\ Still("parallel")

runsVars == <<part, vars, engineVars, parallelVars>>

(* Each part owes what it owes alone; at rest none owes anything.          *)
RunsSpec == /\ RunsInit /\ [][RunsNext]_runsVars
            /\ Fairness /\ EngineFairness /\ ParallelFairness

(* The engine alone.                                                       *)
EngineRun == RunsInit /\ part = "engine" /\ [][RunsNext]_runsVars
=============================================================================
