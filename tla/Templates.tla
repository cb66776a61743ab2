------------------------------ MODULE Templates ------------------------------
(***************************************************************************)
(* What a template {{node.field}} finds when a workflow runs, and what the *)
(* editor's lint says of it beforehand (template-refs.ts).  The walk is    *)
(* the engine's, reduced to what it does to the scope: which fields each   *)
(* node's outputs have, which scope they are written to, and which scope   *)
(* the next node's templates are resolved in.                              *)
(*                                                                         *)
(* The branches of a Parallel node have scopes of their own, so that none  *)
(* sees what another writes: the walk follows one of them, any one.        *)
(* Stops, and the race between the branches, are left out: they are the    *)
(* subjects of Engine and ParallelNode.                                    *)
(***************************************************************************)
EXTENDS Naturals, Sequences, SequencesExt

CONSTANTS
  Flows,   \* workflow id -> [nodes, edges, globals, inputs]:
           \*   nodes    id -> [kind, in, first, extra]: `in` the container or
           \*            NoNode; `first` the first child of a loop, if any, a
           \*            mode for a parallel, a workflow id for a subworkflow; `extra`
           \*            the declared outputs of a script, or those of a
           \*            subworkflow as a function to references of the child
           \*   edges    triples <<source, handle, target>>
           \*   globals  names;  inputs  name -> [type, default]
  Mains,   \* the workflows that are run
  NoNode,
  MaxIterations  \* maxIterations of every loop

(* A value of an input is the kind that coerce() takes it for.             *)
Texts == {"text", "numeral", "boolword", "blank", "empty"}
Values == Texts \cup {"number", "bool", "null"}

(* A workflow as it is loaded: containers are nested, edges join nodes, and*)
(* there is a Start (validateWorkflow).                                    *)
Kinds == {"start", "end", "sidenote", "agent", "script", "condition", "branch", "judge", "loop",
          "parallel", "subworkflow"}
Nodes(w) == DOMAIN Flows[w].nodes
Node(w, n) == Flows[w].nodes[n]
Parents(w, S) == {Node(w, n).in : n \in S} \ {NoNode}
Starts(w) == {n \in Nodes(w) : Node(w, n).kind = "start" /\ Node(w, n).in = NoNode}

(* The containers around each node of each workflow: the least set with    *)
(* the container of the node and of each of its members.                   *)
Around ==
  [w \in DOMAIN Flows |-> [n \in Nodes(w) |->
     {c \in Nodes(w) : \A R \in SUBSET Nodes(w) : Parents(w, R \cup {n}) \subseteq R => c \in R}]]

WellFormed(w) ==
  /\ NoNode \notin Nodes(w) /\ Starts(w) # {}
  /\ \A e \in Flows[w].edges : e[1] \in Nodes(w) /\ e[3] \in Nodes(w)
  /\ \A n \in Nodes(w) :
       /\ Node(w, n).kind \in Kinds
       /\ Node(w, n).in \in Nodes(w) \cup {NoNode}
       /\ n \notin Around[w][n]
       /\ Node(w, n).kind = "loop" =>
            LET x == Node(w, n).first IN x = NoNode \/ (x \in Nodes(w) /\ Node(w, x).in = n)
  /\ \A x \in DOMAIN Flows[w].inputs :
       /\ Flows[w].inputs[x].type \in {"string", "number", "boolean"}
       /\ Flows[w].inputs[x].default \in Values \cup {NoNode}

ASSUME TemplatesAssumption ==
  /\ Mains \subseteq DOMAIN Flows /\ MaxIterations \in Nat
  /\ NoNode \notin Values \cup {"refused", "succeeded", "failed", "break", "continue"}
  /\ \A w \in DOMAIN Flows : WellFormed(w)

VARIABLES
  run,     \* "new", "refused", "walking" or "over"
  given,   \* resolvedInputs
  frames,  \* the walks in progress, innermost last: [wf, at, in, state, i]
  scopes,  \* the scopes in use, innermost last
  normal,  \* history, per workflow in progress: the nodes, loops among
           \* them, that last left by a handle other than "error"
  signal,  \* snapshot._loopSignal
  result   \* what the innermost walkFrom() has just returned, or NoNode

templateVars == <<run, given, frames, scopes, normal, signal, result>>

(* A scope maps node ids, "globals", "inputs" and "__inputs" to the names  *)
(* that are set under them.                                                *)
StartOf(w) == CHOOSE n \in Starts(w) : TRUE
Inner == Last(frames)
Kind(f) == Node(f.wf, f.at).kind
Walk(w, n, c) == [wf |-> w, at |-> n, in |-> c, state |-> "visit", i |-> 0]

TemplatesInit ==
  /\ run = "new" /\ given = <<>>
  /\ frames = <<>> /\ scopes = <<>> /\ normal = <<>>
  /\ signal = NoNode /\ result = NoNode

-----------------------------------------------------------------------------
(* The lint.                                                               *)
Streams == {"stdout", "stderr", "exitCode", "durationMs", "timedOut"}

StaticOutputs(kind) ==
  CASE kind = "agent" -> Streams
    [] kind = "script" -> Streams \cup {"language"}
    [] kind = "condition" -> {"met", "detail"}
    [] kind = "branch" -> {"result", "lhs", "rhs", "op"}
    [] kind = "loop" -> {"iterations", "broke"}
    [] kind = "parallel" -> {"mode", "completed", "failed", "children", "winner", "winners"}
    [] kind = "judge" -> {"winner_index", "winner", "scores", "reasoning"}
    [] kind = "subworkflow" -> {"status", "errorMessage"}
    [] OTHER -> {}

DynamicOutputs(w, n) ==
  CASE Node(w, n).kind = "script" -> Node(w, n).extra
    [] Node(w, n).kind = "subworkflow" -> DOMAIN Node(w, n).extra
    [] OTHER -> {}

Available(w, n) == StaticOutputs(Node(w, n).kind) \cup DynamicOutputs(w, n)

(* The nodes of S and those from which edges lead to them.                 *)
Sources(w, S) == {e[1] : e \in {x \in Flows[w].edges : x[3] \in S}}
Upstream(w, S) ==
  {m \in Nodes(w) : \A R \in SUBSET Nodes(w) : S \cup Sources(w, R) \subseteq R => m \in R}

(* reachablePredecessors(): against the edges from each node and from the  *)
(* containers around it, which do not count themselves.                    *)
Predecessors ==
  [w \in DOMAIN Flows |-> [n \in Nodes(w) |->
     Upstream(w, {n} \cup Around[w][n]) \ ({n} \cup Around[w][n])]]

(* classifyRef(), of the reference <<head, name>> in a field of node n.    *)
Classify(w, n, ref) ==
  IF ref[1] = n THEN "self-ref"
  ELSE IF ref[1] = "__inputs" THEN "fine"
  ELSE IF ref[1] = "globals" THEN IF ref[2] \in Flows[w].globals THEN "fine" ELSE "missing-global"
  ELSE IF ref[1] = "inputs" THEN IF ref[2] \in DOMAIN Flows[w].inputs THEN "fine" ELSE "missing-input"
  ELSE IF ref[1] \notin Nodes(w) \/ Available(w, ref[1]) = {} THEN "unknown"
  ELSE IF ref[2] \notin Available(w, ref[1]) THEN "missing-field"
  ELSE IF ref[1] \notin Predecessors[w][n] THEN "out-of-scope"
  ELSE "fine"

-----------------------------------------------------------------------------
(* Inputs.                                                                 *)
Refused == "refused"

(* coerce(): a number may be text that Number() takes, which blanks are.   *)
Coerce(type, v) ==
  CASE type = "string" -> IF v \in Texts THEN v ELSE Refused
    [] type = "number" -> IF v \in {"number", "numeral", "blank"} THEN "number" ELSE Refused
    [] type = "boolean" -> IF v \in {"bool", "boolword"} THEN "bool" ELSE Refused

(* resolveRunInputs(); a value that is not supplied is NoNode.             *)
ResolveRunInputs(w, supplied) ==
  [x \in DOMAIN Flows[w].inputs |->
     LET d == Flows[w].inputs[x]
         raw == IF supplied[x] = NoNode THEN d.default ELSE supplied[x]
     IN IF raw = NoNode THEN Refused ELSE Coerce(d.type, raw)]

InputNames == UNION {DOMAIN Flows[w].inputs : w \in DOMAIN Flows}

(* resolve(): a reference that finds nothing becomes the empty text.       *)
Resolves(scope, ref) == ref[1] \in DOMAIN scope /\ ref[2] \in scope[ref[1]]

(* start() with resolved inputs: the walk begins with the seed scope.      *)
Begin(w, supplied) ==
  /\ run = "new"
  /\ given' = ResolveRunInputs(w, supplied)
  /\ IF Refused \in Range(given')
     THEN run' = "refused" /\ UNCHANGED <<frames, scopes, normal>>
     ELSE /\ run' = "walking"
          /\ frames' = <<Walk(w, StartOf(w), NoNode)>>
          /\ scopes' = <<[k \in {"globals", "inputs"} |->
                            IF k = "globals" THEN Flows[w].globals ELSE DOMAIN given']>>
          /\ normal' = <<{}>>
  /\ UNCHANGED <<signal, result>>

-----------------------------------------------------------------------------
(* The walk.                                                               *)
Visiting(kinds) == run = "walking" /\ result = NoNode /\ Inner.state = "visit" /\ Kind(Inner) \in kinds
Returned(kind) == result # NoNode /\ frames # <<>> /\ Kind(Inner) = kind
Written(s, n, fields) == [k \in DOMAIN s \cup {n} |-> IF k = n THEN fields ELSE s[k]]
Noted(no, n, handle) == [no EXCEPT ![Len(no)] = IF handle = "error" THEN @ \ {n} ELSE @ \cup {n}]

Targets(f, handle) == {e[3] : e \in {x \in Flows[f.wf].edges : x[1] = f.at /\ x[2] = handle}}

ReturnWith(value) == result' = value /\ frames' = Front(frames)

(* The next node in the same walk, or the value that the walk returns.     *)
Follow(handle, value) ==
  IF Targets(Inner, handle) = {} THEN ReturnWith(value)
  ELSE /\ \E n \in Targets(Inner, handle) :
            frames' = Append(Front(frames), Walk(Inner.wf, n, Inner.in))
       /\ result' = NoNode

(* What the executors set, and the handle they choose.                     *)
Failure(fields) == [fields |-> fields, handle |-> "error"]
Outputs(w, n) ==
  LET k == Node(w, n).kind
      all == StaticOutputs(k)
  IN CASE k \in {"agent", "script"} ->
            {[fields |-> all \cup more, handle |-> h] :
               more \in IF k = "script" THEN {{}, DynamicOutputs(w, n)} ELSE {{}, {"worktreePath"}},
               h \in {"next", "error"}}
            \cup {Failure({"errorMessage"}), Failure(all \ {"exitCode"})}
       [] k = "condition" -> {[fields |-> all, handle |-> h] : h \in {"met", "not_met", "error"}}
       [] k = "branch" -> {[fields |-> all, handle |-> h] : h \in {"true", "false"}}
                          \cup {Failure({"error"} \cup f) : f \in {{}, {"lhs", "rhs", "op"}}}
       [] k = "judge" -> {[fields |-> all, handle |-> "next"]}
                         \cup {Failure({"errorMessage"} \cup f) : f \in {{}, {"raw"}}}
       [] OTHER -> {[fields |-> {}, handle |-> "next"]}

(* executeNode(), and where walkFrom() goes from there.                    *)
InLoop(f) == f.in # NoNode /\ Node(f.wf, f.in).kind = "loop"
Execute ==
  /\ Visiting({"start", "end", "sidenote", "agent", "script", "condition", "branch", "judge"})
  /\ \E o \in Outputs(Inner.wf, Inner.at) :
       /\ scopes' = Append(Front(scopes), Written(Last(scopes), Inner.at, o.fields))
       /\ normal' = Noted(normal, Inner.at, o.handle)
       /\ IF Kind(Inner) = "end"
          THEN UNCHANGED signal /\ \E v \in {"succeeded", "failed"} : ReturnWith(v)
          ELSE IF InLoop(Inner) /\ o.handle \in {"met", "not_met"}
          THEN /\ signal' = IF o.handle = "met" THEN "break" ELSE "continue"
               /\ ReturnWith("succeeded")
          ELSE /\ signal' = IF InLoop(Inner) /\ o.handle # "error" /\ Targets(Inner, o.handle) = {}
                            THEN "continue" ELSE signal
               /\ Follow(o.handle, IF o.handle = "error" THEN "failed" ELSE "succeeded")
  /\ UNCHANGED <<run, given>>

Waiting(f) == [f EXCEPT !.state = "inside", !.i = @ + 1]
Push(f) == frames' = Append(Append(Front(frames), Waiting(Inner)), f)

(* walkLoop(): the body shares the scope, in which nothing is written under*)
(* the loop's own name.                                                    *)
EnterLoop ==
  /\ Visiting({"loop"})
  /\ IF Node(Inner.wf, Inner.at).first = NoNode
     THEN Follow("next", "succeeded") /\ normal' = Noted(normal, Inner.at, "next") /\ UNCHANGED signal
     ELSE /\ Push(Walk(Inner.wf, Node(Inner.wf, Inner.at).first, Inner.at))
          /\ signal' = NoNode /\ UNCHANGED <<normal, result>>
  /\ UNCHANGED <<run, given, scopes>>

LoopReturns ==
  /\ Returned("loop")
  /\ IF signal = "continue" /\ Inner.i < MaxIterations
     THEN Push(Walk(Inner.wf, Node(Inner.wf, Inner.at).first, Inner.at)) /\ signal' = NoNode
          /\ result' = NoNode /\ UNCHANGED normal
     ELSE /\ UNCHANGED signal
          /\ IF signal = NoNode THEN ReturnWith(result) /\ UNCHANGED normal
             ELSE Follow("next", "succeeded") /\ normal' = Noted(normal, Inner.at, "next")
  /\ UNCHANGED <<run, given, scopes>>

(* identifyBranchRoots(): the children no other child leads to.            *)
Members(w, n) == {m \in Nodes(w) : Node(w, m).in = n}
Roots(w, n) ==
  {m \in Members(w, n) : ~\E e \in Flows[w].edges : e[3] = m /\ e[1] \in Members(w, n)}

(* Slip of Snapshot: a branch starts with nothing.                         *)
EmptySnapshot(scope) == <<>>

(* snapshotScope().                                                        *)
Snapshot(scope) == scope

Tally == {"mode", "completed", "failed", "children"}
SuccessHandle(mode) ==
  IF mode = "race" THEN "first_done" ELSE IF mode = "quorum" THEN "quorum_met" ELSE "all_done"

(* walkParallel(): a branch gets a copy of the scope, and of what earlier  *)
(* branches did it knows nothing.  Without children there is nothing to do.*)
EnterParallel ==
  /\ Visiting({"parallel"})
  /\ IF Members(Inner.wf, Inner.at) = {}
     THEN LET h == SuccessHandle(Node(Inner.wf, Inner.at).first) IN
          /\ scopes' = Append(Front(scopes), Written(Last(scopes), Inner.at, Tally))
          /\ normal' = Noted(normal, Inner.at, h)
          /\ Follow(h, "succeeded")
     ELSE /\ \E root \in Roots(Inner.wf, Inner.at) : Push(Walk(Inner.wf, root, Inner.at))
          /\ scopes' = Append(scopes, Snapshot(Last(scopes)))
          /\ normal' = [normal EXCEPT ![Len(normal)] =
                           {n \in @ : Inner.at \notin Around[Inner.wf][n]}]
          /\ UNCHANGED result
  /\ UNCHANGED <<run, given, signal>>

(* The branch's scope goes; what the node itself sets depends on its mode. *)
ParallelReturns ==
  LET mode == Node(Inner.wf, Inner.at).first
      ours == Front(scopes)
  IN
  /\ Returned("parallel")
  /\ \E h \in {SuccessHandle(mode), "error"} :
       /\ mode = "wait-all" /\ result = "failed" => h = "error"
       /\ \E extra \in IF mode = "quorum" THEN {{"winners"}}
                       ELSE IF mode # "race" THEN {{}}
                       ELSE IF h # "error" THEN {{"winner"}} ELSE {{}, {"winner"}} :
            scopes' = Append(Front(ours), Written(Last(ours), Inner.at, Tally \cup extra))
       /\ normal' = Noted(normal, Inner.at, h)
       /\ Follow(h, IF h = "error" THEN "failed" ELSE "succeeded")
  /\ UNCHANGED <<run, given, signal>>

(* walkSubworkflow(): the child's scope has its inputs and nothing else; a *)
(* child that cannot be loaded is an error at once.                        *)
EnterSubworkflow ==
  /\ Visiting({"subworkflow"})
  /\ \/ LET child == Node(Inner.wf, Inner.at).first
        IN \E names \in SUBSET InputNames :
             /\ child \in DOMAIN Flows
             /\ Push(Walk(child, StartOf(child), NoNode))
             /\ scopes' = Append(scopes, [k \in {"inputs", "__inputs"} |-> names])
             /\ normal' = Append(normal, {})
             /\ UNCHANGED result
     \/ /\ scopes' = Append(Front(scopes), Written(Last(scopes), Inner.at, {"status", "errorMessage"}))
        /\ normal' = Noted(normal, Inner.at, "error")
        /\ Follow("error", "failed")
  /\ UNCHANGED <<run, given, signal>>

(* The declared outputs are looked up in the child's scope.                *)
SubworkflowReturns ==
  LET extra == Node(Inner.wf, Inner.at).extra
      h == IF result = "succeeded" THEN "next" ELSE "error"
      ours == Front(scopes)
      set == IF h = "error" THEN {"status", "errorMessage"}
             ELSE {"status"} \cup {x \in DOMAIN extra : Resolves(Last(scopes), extra[x])}
  IN
  /\ Returned("subworkflow")
  /\ scopes' = Append(Front(ours), Written(Last(ours), Inner.at, set))
  /\ normal' = Noted(Front(normal), Inner.at, h)
  /\ Follow(h, IF h = "error" THEN "failed" ELSE "succeeded")
  /\ UNCHANGED <<run, given, signal>>

WalkReturns == /\ run = "walking" /\ frames = <<>> /\ run' = "over"
               /\ UNCHANGED <<given, frames, scopes, normal, signal, result>>

Supplies(w) == [DOMAIN Flows[w].inputs -> Values \cup {NoNode}]
TemplatesNext ==
  \/ \E w \in Mains : \E supplied \in Supplies(w) : Begin(w, supplied)
  \/ Execute \/ EnterLoop \/ LoopReturns \/ EnterParallel \/ ParallelReturns
  \/ EnterSubworkflow \/ SubworkflowReturns \/ WalkReturns

TemplatesSpec == TemplatesInit /\ [][TemplatesNext]_templateVars

-----------------------------------------------------------------------------
(* Properties                                                              *)

(* TEXT_CONFIG_FIELDS, and the inputs of scripts and subworkflows: the     *)
(* fields in which the engine resolves templates.                          *)
TextConfigFields(kind) ==
  CASE kind = "agent" -> {"prompt", "cwd", "worktreeRef"}
    [] kind = "condition" -> {"against"}
    [] kind = "branch" -> {"lhs", "rhs"}
    [] kind = "script" -> {"cwd", "inputs"}
    [] kind = "subworkflow" -> {"inputs"}
    [] OTHER -> {}

TemplatesTypeOK ==
  /\ run \in {"new", "refused", "walking", "over"}
  /\ \A x \in DOMAIN given : given[x] \in Values \cup {Refused}
  /\ Len(normal) <= Len(scopes)
  /\ run = "walking" => \A k \in 1 .. Len(frames) : /\ frames[k].at \in Nodes(frames[k].wf)
                                                    /\ frames[k].state = "visit" => k = Len(frames)
  /\ signal \in {NoNode, "break", "continue"} /\ result \in {NoNode, "succeeded", "failed"}

References ==
  [w \in DOMAIN Flows |->
     {<<n, f>> : n \in Nodes(w), f \in UNION {Available(w, m) : m \in Nodes(w)}}
     \cup {<<"globals", g>> : g \in UNION {Flows[v].globals : v \in DOMAIN Flows}}
     \cup {<<"inputs", x>> : x \in InputNames}]

(* lintWorkflowTemplates(), of every reference in a field of every node.   *)
Lint == [w \in DOMAIN Flows |-> [n \in Nodes(w) |-> [ref \in References[w] |-> Classify(w, n, ref)]]]

InSubworkflow == Len(normal) > 1

(* The outputs that a node need not set although it ends without an error: *)
(* the winners of a Parallel of another mode, or of one without children;  *)
(* the error message of a subworkflow, and the declared outputs that its   *)
(* child did not set; those of a script whose run() returned no object.    *)
Occasional(w, n) ==
  LET node == Node(w, n)
      always == IF Members(w, n) = {} THEN {}
                ELSE IF node.first = "race" THEN {"winner"}
                ELSE IF node.first = "quorum" THEN {"winners"} ELSE {}
  IN CASE node.kind = "parallel" -> {"winner", "winners"} \ always
       [] node.kind = "subworkflow" -> {"errorMessage"} \cup DOMAIN node.extra
       [] node.kind = "script" -> node.extra
       [] OTHER -> {}

Promised(w, n) == Available(w, n) \ Occasional(w, n)

IsLoop(w, ref) == ref[1] \in Nodes(w) /\ Node(w, ref[1]).kind = "loop"

(* What the reference should find: an output that a node sets whenever it  *)
(* ends without an error, of one that last did; or what start() seeds, for *)
(* the workflow it starts.                                                 *)
Expected(w, ref) ==
  IF ref[1] \in {"globals", "inputs"} THEN ~InSubworkflow
  ELSE ref[1] \in Last(normal) /\ ref[2] \in Promised(w, ref[1])

(* As the workflows in the library are, which nothing enforces: edges join *)
(* nodes of one container, and no node has the name of another part of the *)
(* scope.                                                                  *)
Orderly(w) == /\ Nodes(w) \cap {"globals", "inputs", "__inputs"} = {}
              /\ \A e \in Flows[w].edges : Node(w, e[1]).in = Node(w, e[3]).in

(* The walk may come to the node again: in a loop, or along edges.         *)
Repeats(w, n) == \/ \E c \in Around[w][n] : Node(w, c).kind = "loop"
                 \/ n \in Upstream(w, Sources(w, {n}))

(* A reference is about to be resolved: the innermost walk stands at a node*)
(* with templates, in a workflow that is Orderly.                          *)
Resolving == /\ run = "walking" /\ result = NoNode
             /\ TextConfigFields(Kind(Inner)) # {} /\ Orderly(Inner.wf)

(* A reference that the lint accepts to a node that last ended without an  *)
(* error finds its value.  Three kinds of references are not part of this: *)
(* to the outputs of a loop, which are never set (LoopOutputsResolve), to  *)
(* Occasional outputs, and, in a subworkflow, to globals and inputs, which *)
(* are its caller's affair.  A reference that the lint flags (other than   *)
(* for its field) finds nothing, unless the walk may come to its source    *)
(* again, or the caller of a subworkflow passes an input that it does not  *)
(* declare.  And the inputs of a run that starts are there, with the types *)
(* declared.                                                               *)
TemplatesResolve ==
  /\ Resolving =>
       LET w == Inner.wf
           flagged == {"self-ref", "unknown", "out-of-scope", "missing-global", "missing-input"}
       IN \A ref \in References[w] :
            LET says == Lint[w][Inner.at][ref]
                found == Resolves(Last(scopes), ref)
            IN /\ says = "fine" /\ Expected(w, ref) /\ ~IsLoop(w, ref) => found
               /\ says \in flagged /\ found => \/ ref[1] \in Nodes(w) /\ Repeats(w, ref[1])
                                               \/ ref[1] = "inputs" /\ InSubworkflow
  /\ run \in {"walking", "over"} => Refused \notin Range(given)

(* The outputs of a Loop that are in scope: "`iterations`, `broke`"        *)
(* (docs/workflow-format.md:49), as the lint has them (template-refs.ts:76 *)
(* to 79): a reference that it accepts to a loop that was left by `next`   *)
(* finds its value.                                                        *)
LoopOutputsResolve ==
  Resolving =>
    \A ref \in References[Inner.wf] :
      /\ Lint[Inner.wf][Inner.at][ref] = "fine"
      /\ IsLoop(Inner.wf, ref) /\ Expected(Inner.wf, ref) => Resolves(Last(scopes), ref)

(* "Resolve `criteria` and each entry of `candidates[]` against scope"     *)
(* (specs/multi-agent-orchestration.md:173), so that the judge of the Team *)
(* preset "reads all three": when a judge is reached, references in its    *)
(* candidates to what the branches before it printed are resolved.         *)
JudgeReadsCandidates ==
  run = "walking" /\ result = NoNode /\ Kind(Inner) = "judge" =>
    \A n \in Last(normal) :
      Node(Inner.wf, n).kind = "agent" /\ Node(Inner.wf, n).in # NoNode =>
        "candidates" \in TextConfigFields("judge") /\ Resolves(Last(scopes), <<n, "stdout">>)

(* What the lint says of a reference, and what the reference finds, and the*)
(* types.                                                                  *)
LintIsRight == TemplatesTypeOK /\ TemplatesResolve
=============================================================================
