---------------------------- MODULE EngineProofs ----------------------------
(***************************************************************************)
(* Proofs about Engine, for every set of well-formed workflows.            *)
(*                                                                         *)
(* The walks of a task return a value, turn to another node, or call a     *)
(* walk further in (StepForms); the other steps fork, end, record and join *)
(* the branches of a Parallel node.                                        *)
(***************************************************************************)
EXTENDS Engine, SequenceTheorems, TLAPS

States == {"visit", "exec", "load", "inside", "loop"}
Frames == [at : Nodes(wf), in : Nodes(wf) \cup {Nil}, st : States, i : Nat]

Types ==
  /\ wf \in Workflows
  /\ status \in {"idle", "running"} \cup Terminal
  /\ final \in {Nil} \cup Terminal
  /\ stack \in [Tasks -> Seq(Frames)]
  /\ ret \in [Tasks -> Values]
  /\ cpu \in Tasks \cup {Nil}
  /\ loopSignal \in {Nil, "break", "continue"}
  /\ aborted \subseteq Tasks
  /\ stop \in {"no", "asked", "inTime", "late"}
  /\ unhandled \in BOOLEAN
  /\ broke \subseteq Nodes(wf)

(* Which frame can be above which, and what nodes they are at.             *)
Lowest(g) == g.st # "loop" /\ g.in = Nil
OnTop(f, g) ==
  \/ g.st = "loop" /\ f.st = "inside" /\ wf.kind[f.at] = "loop" /\ g.at = f.at /\ g.in = Nil
  \/ g.st # "loop" /\ f.st = "loop" /\ g.in = f.at
  \/ g.st # "loop" /\ f.st = "inside" /\ wf.kind[f.at] = "sub" /\ g.in = Nil
Proper(f) ==
  /\ f.st = "load" => wf.kind[f.at] = "sub"
  /\ f.st = "inside" => wf.kind[f.at] \in {"loop", "sub", "parallel"}
  /\ f.st = "loop" => wf.kind[f.at] = "loop" /\ wf.entry[f.at] # Nil
Chain(s) == \A k \in 1 .. Len(s) :
              /\ Proper(s[k])
              /\ IF k = 1 THEN Lowest(s[k]) ELSE OnTop(s[k - 1], s[k])

(* What the innermost call of a task can have returned, by its caller.     *)
Outs == Terminal \cup {"threw"}
Returnable(s) ==
  IF s = <<>> THEN Outs \cup {Nil, "winner", "loser"} \cup BranchResults
  ELSE LET f == Last(s) IN
       IF f.st \in {"visit", "exec", "load"} THEN {Nil}
       ELSE IF f.st = "loop" \/ wf.kind[f.at] = "sub" THEN Outs \cup {Nil}
       ELSE IF wf.kind[f.at] = "loop" THEN Outs \cup {Nil, "exit"}
       ELSE {Nil, "done", "error", "cancelled"}

(* The tasks one by one.                                                   *)
TasksProper == \A t \in Tasks : Chain(stack[t]) /\ ret[t] \in Returnable(stack[t])
MainIsNoBranch == ret[Main] \notin BranchResults \cup {"winner", "loser"}
CpuClear == cpu # Nil => ret[cpu] = Nil

(* Branches: they fork none themselves, and are in progress only while the *)
(* run's walk waits for them.                                              *)
AllAvoid(s, k) == \A j \in 1 .. Len(s) : Avoids(wf, {s[j].at}, k)
BranchesFlat == \A t \in Tasks \ {Main} : AllAvoid(stack[t], "parallel")
BranchesForked == \A t \in Tasks \ {Main} :
                    stack[t] # <<>> \/ ret[t] # Nil => Forked(Main) /\ t \in Roots(Main)

(* Loops, when no two are in progress at once.                             *)
OneLoop(s) == \A j, k \in 1 .. Len(s) :
                j < k /\ s[j].st = "loop" => Avoids(wf, {s[k].at}, "loop")
LoneLoops == LoopsAlone(wf) => /\ OneLoop(stack[Main])
                               /\ \A t \in Tasks \ {Main} : AllAvoid(stack[t], "loop")

(* The phases of a run, and its stop.                                      *)
Phases ==
  /\ status = "idle" => stack[Main] = <<>> /\ ret[Main] = Nil /\ final = Nil
  /\ final # Nil => stack[Main] = <<>> /\ ret[Main] = Nil /\ status # "idle"
  /\ status \in Terminal => status = final
StopStands ==
  /\ Main \in aborted => stop = "inTime" \/ (stop = "late" /\ final # Nil)
  /\ ret[Main] = "cancelled" => Main \in aborted
  /\ final = "cancelled" => stop = "inTime"

(* What an error of the run's own walk leads to, and what a break of a     *)
(* loop comes from, when no two loops are in progress at once.             *)
HasLoop(s) == \E k \in 1 .. Len(s) : s[k].st = "loop"
Outward(s) == \A k \in 1 .. Len(s) :
                s[k].st \in {"inside", "loop"} /\ wf.kind[s[k].at] = "loop"
SignalFresh == HasLoop(Below(Main)) => loopSignal = Nil
ErrorStands == unhandled => \/ final = "failed"
                            \/ /\ final = Nil /\ ret[Main] = "failed"
                               /\ Outward(stack[Main])
                               /\ HasLoop(stack[Main]) => loopSignal = Nil
BreakNoted == In(Main, "loop") /\ ret[Main] # Nil /\ loopSignal = "break"
                => Top(Main).at \in broke
LInv == LoopsAlone(wf) => SignalFresh /\ ErrorStands /\ BreakNoted

IInv == /\ Types /\ TasksProper /\ MainIsNoBranch /\ CpuClear
        /\ BranchesFlat /\ BranchesForked /\ LoneLoops /\ Phases /\ StopStands

-----------------------------------------------------------------------------
(* Stacks                                                                  *)

(* A stack without its top.                                                *)
LEMMA Lowered ==
  ASSUME NEW S, NEW s \in Seq(S), s # <<>>
  PROVE  /\ Front(s) \in Seq(S)
         /\ Len(s) \in Nat \ {0}
         /\ Len(Front(s)) = Len(s) - 1
         /\ \A k \in 1 .. Len(s) - 1 : Front(s)[k] = s[k]
         /\ Last(s) = s[Len(s)] /\ Last(s) \in S
         /\ s = Append(Front(s), Last(s))
         /\ Len(s) = 1 <=> Front(s) = <<>>
         /\ Len(s) > 1 => Last(Front(s)) = s[Len(s) - 1]
  <1>1. Len(s) \in Nat \ {0} /\ Last(s) = s[Len(s)] /\ Last(s) \in S
    BY DEF Last
  <1>2. /\ Front(s) \in Seq(S) /\ Len(Front(s)) = Len(s) - 1
        /\ \A k \in 1 .. Len(s) - 1 : Front(s)[k] = s[k]
    <2>1. \A i \in 1 .. Len(s) - 1 : s[i] \in S
      BY <1>1
    <2> DEFINE n == Len(s) - 1
    <2>2. n \in Nat
      BY <1>1
    <2> HIDE DEF n
    <2>3. (IF 1 <= n THEN n - 1 + 1 ELSE 0) = n /\ n - 1 + 1 = n
      BY <2>2
    <2>4. /\ SubSeq(s, 1, n) \in Seq(S)
          /\ Len(SubSeq(s, 1, n)) = IF 1 <= n THEN n - 1 + 1 ELSE 0
          /\ \A i \in 1 .. n - 1 + 1 : SubSeq(s, 1, n)[i] = s[1 + i - 1]
      BY <2>1, <2>2, SubSeqProperties DEF n
    <2>5. \A i \in 1 .. n : 1 + i - 1 = i
      BY <2>2
    <2> QED  BY <2>2, <2>3, <2>4, <2>5 DEF Front, n
  <1>3. s = Append(Front(s), Last(s))
    <2> DEFINE a == Append(Front(s), Last(s))
    <2> HIDE DEF a
    <2>1. a \in Seq(S) /\ Len(a) = Len(s) /\ \A k \in 1 .. Len(s) : a[k] = s[k]
      BY <1>1, <1>2 DEF a
    <2>2. a = s
      BY <2>1, SeqEqual
    <2> QED  BY <2>2 DEF a
  <1>4. Len(s) = 1 <=> Front(s) = <<>>
    BY <1>1, <1>2, EmptySeq
  <1>5. Len(s) > 1 => Last(Front(s)) = s[Len(s) - 1]
    BY <1>1, <1>2 DEF Last
  <1> QED  BY <1>1, <1>2, <1>3, <1>4, <1>5

(* A stack with one more frame.                                            *)
LEMMA Raised ==
  ASSUME NEW S, NEW s \in Seq(S), NEW e \in S
  PROVE  /\ Append(s, e) \in Seq(S)
         /\ Append(s, e) # <<>>
         /\ Len(Append(s, e)) = Len(s) + 1
         /\ \A k \in 1 .. Len(s) : Append(s, e)[k] = s[k]
         /\ Append(s, e)[Len(s) + 1] = e
         /\ Last(Append(s, e)) = e
         /\ Front(Append(s, e)) = s
  BY DEF Front, Last

(* A return: the caller waits for what a walk, or a loop, can return.      *)
LEMMA PopChain ==
  ASSUME NEW s \in Seq(Frames), s # <<>>, Chain(s)
  PROVE  /\ Chain(Front(s))
         /\ Outs \subseteq Returnable(Front(s))
         /\ Last(s).st = "loop" => "exit" \in Returnable(Front(s))
  <1>1. Chain(Front(s))
    <2>1. /\ Len(s) \in Nat \ {0} /\ Len(Front(s)) = Len(s) - 1
          /\ \A k \in 1 .. Len(s) - 1 : Front(s)[k] = s[k]
      BY Lowered
    <2> QED  BY <2>1 DEF Chain
  <1>2. CASE Front(s) = <<>>
    <2>1. Len(s) = 1 /\ Lowest(Last(s))
      BY <1>2, Lowered DEF Chain
    <2> QED  BY <1>1, <1>2, <2>1 DEF Returnable, Lowest
  <1>3. CASE Front(s) # <<>>
    <2> DEFINE f == Last(Front(s))
               g == Last(s)
    <2>1. OnTop(f, g) /\ f \in Frames /\ g \in Frames
      <3>1. Len(s) > 1 /\ f = s[Len(s) - 1] /\ g = s[Len(s)]
        BY <1>3, Lowered
      <3> QED  BY <3>1, Lowered DEF Chain
    <2>2. f.st \in {"loop", "inside"}
      BY <2>1 DEF OnTop
    <2>3. Returnable(Front(s)) =
            IF f.st = "loop" \/ wf.kind[f.at] = "sub" THEN Outs \cup {Nil}
            ELSE IF wf.kind[f.at] = "loop" THEN Outs \cup {Nil, "exit"}
            ELSE {Nil, "done", "error", "cancelled"}
      BY <1>3, <2>2 DEF Returnable
    <2> QED  BY <1>1, <2>1, <2>3 DEF OnTop
  <1> QED  BY <1>2, <1>3

(* The innermost walk turns to another node, or goes on at its own.        *)
LEMMA SwapChain ==
  ASSUME NEW s \in Seq(Frames), s # <<>>, Chain(s),
         NEW f \in Frames, Proper(f), f.in = Last(s).in,
         f.st = "loop" <=> Last(s).st = "loop",
         f.st = "loop" => f.at = Last(s).at
  PROVE  Append(Front(s), f) \in Seq(Frames) /\ Chain(Append(Front(s), f))
  <1> DEFINE n == Append(Front(s), f)
  <1>1. /\ n \in Seq(Frames) /\ Len(n) = Len(s) /\ n[Len(s)] = f
        /\ \A k \in 1 .. Len(s) - 1 : n[k] = s[k]
    BY Lowered, Raised
  <1>2. ASSUME NEW k \in 1 .. Len(n)
        PROVE  Proper(n[k]) /\ IF k = 1 THEN Lowest(n[k]) ELSE OnTop(n[k - 1], n[k])
    <2>1. CASE k < Len(s)
      BY <1>1, <2>1 DEF Chain
    <2>2. CASE k = Len(s)
      <3>1. s[k] = Last(s)
        BY <2>2, Lowered
      <3>2. CASE k = 1
        BY <1>1, <2>2, <3>1, <3>2 DEF Chain, Lowest
      <3>3. CASE k > 1
        <4>1. OnTop(s[k - 1], s[k]) /\ n[k - 1] = s[k - 1] /\ n[k] = f
          BY <1>1, <1>2, <2>2, <3>3 DEF Chain
        <4> QED  BY <3>1, <3>3, <4>1 DEF OnTop
      <3> QED  BY <1>2, <3>2, <3>3
    <2> QED  BY <1>1, <1>2, <2>1, <2>2
  <1> QED  BY <1>1, <1>2 DEF Chain

(* It calls a walk, or a loop, further in.                                 *)
LEMMA PushChain ==
  ASSUME NEW s \in Seq(Frames), s # <<>>, Chain(s),
         NEW g \in Frames, Proper(g), OnTop(Last(s), g)
  PROVE  Append(s, g) \in Seq(Frames) /\ Chain(Append(s, g))
  <1> DEFINE n == Append(s, g)
  <1>1. /\ n \in Seq(Frames) /\ Len(n) = Len(s) + 1 /\ n[Len(s) + 1] = g
        /\ \A k \in 1 .. Len(s) : n[k] = s[k]
    BY Raised
  <1>0. Last(s) = s[Len(s)] /\ Len(s) \in Nat \ {0}
    BY Lowered
  <1>2. ASSUME NEW k \in 1 .. Len(n)
        PROVE  Proper(n[k]) /\ IF k = 1 THEN Lowest(n[k]) ELSE OnTop(n[k - 1], n[k])
    <2>1. CASE k <= Len(s)
      BY <1>0, <1>1, <2>1 DEF Chain
    <2>2. CASE k = Len(s) + 1
      BY <1>0, <1>1, <2>2
    <2> QED  BY <1>0, <1>1, <1>2, <2>1, <2>2
  <1> QED  BY <1>1, <1>2 DEF Chain

LEMMA ChainTop ==
  ASSUME NEW s \in Seq(Frames), s # <<>>, Chain(s)
  PROVE  Proper(Last(s)) /\ Last(s) \in Frames
  <1>1. Len(s) \in Nat \ {0} /\ Last(s) = s[Len(s)] /\ Last(s) \in Frames
    BY Lowered
  <1> QED  BY <1>1 DEF Chain

(* A node from which no walk gets to a kind.                               *)
LEMMA AvoidsOne ==
  ASSUME NEW w, NEW S, NEW k, Avoids(w, S, k), NEW n \in S
  PROVE  Avoids(w, {n}, k)
  BY DEF Avoids
LEMMA AvoidsOn ==
  ASSUME NEW w, NEW n, NEW k, Avoids(w, {n}, k)
  PROVE  w.kind[n] # k /\ \A m \in Successors(w, n) : Avoids(w, {m}, k)
  BY DEF Avoids

(* What all the nodes of a stack avoid.                                    *)
LEMMA AvoidPop ==
  ASSUME NEW s \in Seq(Frames), s # <<>>, NEW c, AllAvoid(s, c)
  PROVE  AllAvoid(Front(s), c) /\ Avoids(wf, {Last(s).at}, c)
  <1>1. /\ Len(s) \in Nat \ {0} /\ Len(Front(s)) = Len(s) - 1
        /\ \A k \in 1 .. Len(s) - 1 : Front(s)[k] = s[k]
        /\ Last(s) = s[Len(s)]
    BY Lowered
  <1> QED  BY <1>1 DEF AllAvoid
LEMMA AvoidPush ==
  ASSUME NEW s \in Seq(Frames), NEW f \in Frames, NEW c,
         AllAvoid(s, c), Avoids(wf, {f.at}, c)
  PROVE  AllAvoid(Append(s, f), c)
  <1> DEFINE r == Append(s, f)
  <1>1. /\ Len(r) = Len(s) + 1 /\ r[Len(s) + 1] = f
        /\ \A k \in 1 .. Len(s) : r[k] = s[k]
        /\ Len(s) \in Nat
    BY Raised
  <1> HIDE DEF r
  <1>2. ASSUME NEW k \in 1 .. Len(r)
        PROVE  Avoids(wf, {r[k].at}, c)
    <2>1. k \in 1 .. Len(s) \/ k = Len(s) + 1
      BY <1>1
    <2> QED  BY <1>1, <2>1 DEF AllAvoid
  <1> QED  BY <1>2 DEF AllAvoid, r

(* A loop in progress stays alone.                                         *)
LEMMA OneLoopPop ==
  ASSUME NEW s \in Seq(Frames), s # <<>>, OneLoop(s)
  PROVE  /\ OneLoop(Front(s))
         /\ (\E j \in 1 .. Len(Front(s)) : Front(s)[j].st = "loop")
              => Avoids(wf, {Last(s).at}, "loop")
  <1>1. /\ Len(s) \in Nat \ {0} /\ Len(Front(s)) = Len(s) - 1
        /\ \A k \in 1 .. Len(s) - 1 : Front(s)[k] = s[k]
        /\ Last(s) = s[Len(s)]
    BY Lowered
  <1> QED  BY <1>1 DEF OneLoop
LEMMA OneLoopPush ==
  ASSUME NEW s \in Seq(Frames), NEW f \in Frames, OneLoop(s),
         (\E j \in 1 .. Len(s) : s[j].st = "loop") => Avoids(wf, {f.at}, "loop")
  PROVE  OneLoop(Append(s, f))
  <1> DEFINE r == Append(s, f)
  <1>1. /\ Len(r) = Len(s) + 1 /\ r[Len(s) + 1] = f
        /\ \A k \in 1 .. Len(s) : r[k] = s[k]
        /\ Len(s) \in Nat
    BY Raised
  <1> HIDE DEF r
  <1>2. ASSUME NEW j \in 1 .. Len(r), NEW k \in 1 .. Len(r), j < k, r[j].st = "loop"
        PROVE  Avoids(wf, {r[k].at}, "loop")
    <2>1. j \in 1 .. Len(s) /\ r[j] = s[j]
      BY <1>1, <1>2
    <2>2. CASE k <= Len(s)
      BY <1>1, <1>2, <2>1, <2>2 DEF OneLoop
    <2>3. CASE k = Len(s) + 1
      BY <1>1, <1>2, <2>1, <2>3
    <2> QED  BY <1>1, <2>2, <2>3
  <1> QED  BY <1>2 DEF OneLoop, r

(* A task is the run's walk or the root of a branch.                       *)
LEMMA TaskNames ==
  /\ Nil \notin Tasks /\ Main \in Tasks /\ Nil # Main
  /\ \A w \in Workflows : \A p \in DOMAIN w.roots :
       w.roots[p] \subseteq Tasks \cap Nodes(w) /\ Main \notin w.roots[p]
  BY EngineAssumption DEF WellFormed, Tasks, Main, Nil

-----------------------------------------------------------------------------
(* The steps of one walk                                                   *)

(* A step that only task t takes part in: what it leaves of the task.      *)
Carries(t, s, v) ==
  /\ stack[t] # <<>> /\ ~Forked(t)
  /\ s \in Seq(Frames) /\ Chain(s)
  /\ \A c \in Kinds : AllAvoid(stack[t], c) => AllAvoid(s, c)
  /\ LoopsAlone(wf) /\ OneLoop(stack[t]) => OneLoop(s)
  /\ v \in Returnable(s) \cap (Outs \cup {Nil, "exit", "done"})
  /\ v = "cancelled" => t \in aborted \/ ret[t] = "cancelled"
Shape(t, s, v) ==
  \/ s = Below(t)
  \/ \E f \in Frames : s = Append(Below(t), f) /\ (v # Nil => f.st # "loop")
  \/ \E f, g \in Frames :
       s = Append(Append(Below(t), f), g) /\ v = Nil /\ (f.st = "loop" => Top(t).st = "loop")
Steps(t, s, v) ==
  /\ Carries(t, s, v) /\ Shape(t, s, v)
  /\ stack' = [stack EXCEPT ![t] = s]
  /\ ret' = [ret EXCEPT ![t] = v]
  /\ cpu' \in {t, Nil} /\ (cpu' = t => v = Nil)
Notes == /\ loopSignal' \in {Nil, "break", "continue"}
         /\ unhandled' \in BOOLEAN
         /\ broke' \subseteq Nodes(wf)
StepsAlone(t) == /\ \E s, v : Steps(t, s, v)
                 /\ Notes /\ UNCHANGED <<runVars, aborted>>

(* It returns from the innermost call,                                     *)
LEMMA Returning ==
  ASSUME IInv, NEW t \in Tasks, stack[t] # <<>>, ~Forked(t),
         NEW v \in Outs \cup {"exit"},
         v = "exit" => Top(t).st = "loop",
         v = "cancelled" => t \in aborted \/ ret[t] = "cancelled",
         Await(t, Below(t), v)
  PROVE  Steps(t, Below(t), v)
  <1>1. stack[t] \in Seq(Frames) /\ Chain(stack[t])
    BY DEF IInv, Types, TasksProper
  <1>2. /\ Below(t) \in Seq(Frames) /\ Chain(Below(t))
        /\ Outs \subseteq Returnable(Below(t))
        /\ Top(t).st = "loop" => "exit" \in Returnable(Below(t))
    BY <1>1, Lowered, PopChain DEF Below, Top
  <1>3. /\ \A c \in Kinds : AllAvoid(stack[t], c) => AllAvoid(Below(t), c)
        /\ OneLoop(stack[t]) => OneLoop(Below(t))
    BY <1>1, AvoidPop, OneLoopPop DEF Below
  <1>4. Carries(t, Below(t), v)
    BY <1>2, <1>3 DEF Carries
  <1>5. t # Nil
    BY TaskNames
  <1> QED  BY <1>4, <1>5 DEF Steps, Shape, Await

(* turns to another node, or goes on at its own,                           *)
LEMMA Turning ==
  ASSUME IInv, NEW t \in Tasks, stack[t] # <<>>, ~Forked(t),
         NEW f \in Frames, Proper(f), f.in = Top(t).in,
         f.st = "loop" <=> Top(t).st = "loop",
         f.at = Top(t).at \/ (f.st # "loop" /\ f.at \in Successors(wf, Top(t).at)),
         NEW v \in {Nil, "exit", "done"},
         v = "exit" => f.st = "inside" /\ wf.kind[f.at] = "loop",
         v = "done" => f.st = "inside" /\ wf.kind[f.at] = "parallel",
         stack' = [stack EXCEPT ![t] = Append(Below(t), f)],
         ret' = [ret EXCEPT ![t] = v],
         cpu' \in {t, Nil}, cpu' = t => v = Nil
  PROVE  Steps(t, Append(Below(t), f), v)
  <1> DEFINE s == Append(Below(t), f)
  <1>1. stack[t] \in Seq(Frames) /\ Chain(stack[t])
    BY DEF IInv, Types, TasksProper
  <1>2. s \in Seq(Frames) /\ Chain(s)
    BY <1>1, SwapChain DEF Below, Top
  <1>3. Below(t) \in Seq(Frames)
    BY <1>1, Lowered DEF Below
  <1>4. ASSUME NEW c \in Kinds, AllAvoid(stack[t], c)  PROVE AllAvoid(s, c)
    <2>1. AllAvoid(Below(t), c) /\ Avoids(wf, {Top(t).at}, c)
      BY <1>1, <1>4, AvoidPop DEF Below, Top
    <2>2. Avoids(wf, {f.at}, c)
      BY <2>1, AvoidsOn
    <2> QED  BY <1>3, <2>1, <2>2, AvoidPush
  <1>5. ASSUME OneLoop(stack[t])  PROVE OneLoop(s)
    <2>1. /\ OneLoop(Below(t))
          /\ (\E j \in 1 .. Len(Below(t)) : Below(t)[j].st = "loop")
               => Avoids(wf, {Top(t).at}, "loop")
      BY <1>1, <1>5, OneLoopPop DEF Below, Top
    <2>2. Avoids(wf, {Top(t).at}, "loop") => Avoids(wf, {f.at}, "loop")
      BY AvoidsOn
    <2> QED  BY <1>3, <2>1, <2>2, OneLoopPush
  <1>6. v \in Returnable(s)
    <2>1. s # <<>> /\ Last(s) = f
      BY <1>3, Raised
    <2> QED  BY <2>1 DEF Returnable, Nil, Frames, States
  <1>7. Carries(t, s, v)
    BY <1>2, <1>4, <1>5, <1>6 DEF Carries, Nil
  <1> QED  BY <1>7 DEF Steps, Shape

(* or calls a walk, or a loop, further in.                                 *)
LEMMA Calling ==
  ASSUME IInv, NEW t \in Tasks, stack[t] # <<>>, ~Forked(t),
         NEW f \in Frames, Proper(f), f.in = Top(t).in, f.at = Top(t).at,
         f.st = "loop" <=> Top(t).st = "loop",
         NEW g \in Frames, Proper(g), OnTop(f, g),
         g.at = f.at \/ g.at \in Successors(wf, f.at),
         f.st = "loop" => g.at = wf.entry[f.at],
         Continue(t, Append(Append(Below(t), f), g))
  PROVE  Steps(t, Append(Append(Below(t), f), g), Nil)
  <1> DEFINE r == Append(Below(t), f)
             s == Append(r, g)
  <1>1. stack[t] \in Seq(Frames) /\ Chain(stack[t])
    BY DEF IInv, Types, TasksProper
  <1>2. r \in Seq(Frames) /\ Chain(r)
    BY <1>1, SwapChain DEF Below, Top
  <1>3. Below(t) \in Seq(Frames) /\ r # <<>> /\ Last(r) = f /\ Front(r) = Below(t)
    <2>1. Below(t) \in Seq(Frames)
      BY <1>1, Lowered DEF Below
    <2> QED  BY <2>1, Raised
  <1>4. s \in Seq(Frames) /\ Chain(s)
    BY <1>2, <1>3, PushChain
  <1>5. ASSUME NEW c \in Kinds, AllAvoid(stack[t], c)  PROVE AllAvoid(s, c)
    <2>1. AllAvoid(Below(t), c) /\ Avoids(wf, {f.at}, c)
      BY <1>1, <1>5, AvoidPop DEF Below, Top
    <2>2. AllAvoid(r, c)
      BY <1>3, <2>1, AvoidPush
    <2>3. Avoids(wf, {g.at}, c)
      BY <2>1, AvoidsOn
    <2> QED  BY <1>2, <2>2, <2>3, AvoidPush
  <1>6. Nil \in Returnable(s)
    <2>1. r \in Seq(Frames)
      BY <1>2
    <2> HIDE DEF r
    <2>2. s # <<>> /\ Last(s) = g
      BY <2>1, Raised
    <2> QED  BY <2>2 DEF Returnable, Outs
  <1>7. ASSUME LoopsAlone(wf), OneLoop(stack[t])  PROVE OneLoop(s)
    <2> DEFINE Loop(q) == \E j \in 1 .. Len(q) : q[j].st = "loop"
    <2>1. OneLoop(Below(t)) /\ (Loop(Below(t)) => Avoids(wf, {f.at}, "loop"))
      BY <1>1, <1>7, OneLoopPop DEF Below, Top
    <2>2. OneLoop(r)
      BY <1>3, <2>1, OneLoopPush
    <2>3. f.st = "loop" => Avoids(wf, {g.at}, "loop")
      <3> SUFFICES ASSUME f.st = "loop"  PROVE Avoids(wf, {wf.entry[f.at]}, "loop")
        OBVIOUS
      <3>1. wf.kind[f.at] = "loop" /\ f.at \in Nodes(wf) /\ wf.entry[f.at] # Nil
        BY DEF Proper, Frames
      <3>2. Avoids(wf, {wf.entry[f.at]} \ {Nil}, "loop")
        BY <1>7, <3>1 DEF LoopsAlone
      <3> QED  BY <3>1, <3>2, AvoidsOne
    <2>4. Loop(r) => Loop(Below(t)) \/ f.st = "loop"
      <3>1. /\ Len(r) = Len(Below(t)) + 1 /\ r[Len(Below(t)) + 1] = f
            /\ \A k \in 1 .. Len(Below(t)) : r[k] = Below(t)[k]
            /\ Len(Below(t)) \in Nat
        BY <1>3, Raised
      <3> QED  BY <3>1
    <2>5. Loop(r) => Avoids(wf, {g.at}, "loop")
      BY <2>1, <2>3, <2>4, AvoidsOn
    <2> QED  BY <1>2, <2>2, <2>5, OneLoopPush
  <1>8. Carries(t, s, Nil)
    BY <1>4, <1>5, <1>6, <1>7 DEF Carries, Nil
  <1> QED  BY <1>8 DEF Steps, Shape, Continue

-----------------------------------------------------------------------------
(* The steps of a task, one by one                                         *)

LEMMA Follows ==
  ASSUME IInv
  PROVE  /\ WellFormed(wf)
         /\ \A n, h : Follow(n, h) \subseteq Nodes(wf) \cap Successors(wf, n)
  <1>1. WellFormed(wf)
    BY EngineAssumption DEF IInv, Types
  <1> QED  BY <1>1 DEF WellFormed, Follow, Successors

LEMMA TopIs ==
  ASSUME IInv, NEW t \in Tasks, stack[t] # <<>>
  PROVE  /\ Top(t) \in Frames /\ Proper(Top(t))
         /\ Top(t).st \in {"visit", "exec", "load"} => ret[t] = Nil
         /\ Top(t).st = "loop" => ret[t] \in Outs \cup {Nil}
         /\ Top(t).st = "inside" /\ IsA(t, "sub") => ret[t] \in Outs \cup {Nil}
         /\ Top(t).st = "inside" /\ IsA(t, "loop") => ret[t] \in Outs \cup {Nil, "exit"}
         /\ Top(t).st = "inside" /\ IsA(t, "parallel")
              => ret[t] \in {Nil, "done", "error", "cancelled"}
  <1>1. stack[t] \in Seq(Frames) /\ Chain(stack[t]) /\ ret[t] \in Returnable(stack[t])
    BY DEF IInv, Types, TasksProper
  <1>2. Top(t) \in Frames /\ Proper(Top(t))
    BY <1>1, ChainTop DEF Top
  <1>3. ret[t] \in LET f == Top(t) IN
                  IF f.st \in {"visit", "exec", "load"} THEN {Nil}
                  ELSE IF f.st = "loop" \/ wf.kind[f.at] = "sub" THEN Outs \cup {Nil}
                  ELSE IF wf.kind[f.at] = "loop" THEN Outs \cup {Nil, "exit"}
                  ELSE {Nil, "done", "error", "cancelled"}
    BY <1>1 DEF Returnable, Top
  <1> QED  BY <1>2, <1>3 DEF IsA

(* The frames that steps make.                                             *)
LEMMA Restated ==
  ASSUME NEW f \in Frames, NEW st \in States
  PROVE  LET g == [f EXCEPT !.st = st] IN
         g \in Frames /\ g.st = st /\ g.at = f.at /\ g.in = f.in
  BY DEF Frames
LEMMA Recounted ==
  ASSUME NEW f \in Frames, NEW i \in Nat
  PROVE  LET g == [f EXCEPT !.i = i] IN
         g \in Frames /\ g.st = f.st /\ g.at = f.at /\ g.in = f.in
  BY DEF Frames
LEMMA Framed ==
  ASSUME NEW n \in Nodes(wf), NEW l \in Nodes(wf) \cup {Nil}, NEW st \in States
  PROVE  LET g == Frame(n, l, st, 0) IN
         g \in Frames /\ g.at = n /\ g.in = l /\ g.st = st
  BY DEF Frames, Frame

(* A walk leaves its node.                                                 *)
LEMMA Leaving ==
  ASSUME IInv, NEW t \in Tasks, stack[t] # <<>>, ~Forked(t), Top(t).st # "loop",
         NEW h, NEW v \in {"succeeded", "failed"}, LeaveBy(t, h, v)
  PROVE  (\E s, u : Steps(t, s, u)) /\ unhandled' \in BOOLEAN
  <1>1. unhandled' \in BOOLEAN
    BY DEF LeaveBy, NoteError, IInv, Types
  <1>2. CASE Await(t, Below(t), v)
    <2>1. v \in Outs /\ v # "exit" /\ v # "cancelled"
      BY DEF Outs, Terminal
    <2> QED  BY <1>1, <1>2, <2>1, Returning
  <1>3. ASSUME NEW n \in Follow(Top(t).at, h),
               Continue(t, Append(Below(t), Enter(n, Top(t).in)))
        PROVE  \E s, u : Steps(t, s, u)
    <2> DEFINE f == Enter(n, Top(t).in)
    <2>1. Top(t) \in Frames
      BY TopIs
    <2>2. n \in Nodes(wf) /\ n \in Successors(wf, Top(t).at)
      BY <1>3, Follows
    <2>3. f \in Frames /\ f.at = n /\ f.in = Top(t).in /\ f.st = "visit"
      BY <2>1, <2>2, Framed DEF Frames, States, Enter
    <2>4. Proper(f)
      BY <2>3 DEF Proper
    <2> HIDE DEF f
    <2>5. /\ stack' = [stack EXCEPT ![t] = Append(Below(t), f)]
          /\ ret' = [ret EXCEPT ![t] = Nil] /\ cpu' = t
      BY <1>3 DEF Continue, f
    <2>6. Nil # "exit" /\ Nil # "done"
      BY DEF Nil
    <2> QED  BY <2>2, <2>3, <2>4, <2>5, <2>6, Turning
  <1> QED  BY <1>1, <1>2, <1>3 DEF LeaveBy

LEMMA NoNotes ==
  ASSUME IInv, UNCHANGED <<loopSignal, history>>
  PROVE  Notes
  BY DEF IInv, Types, Notes, history

LEMMA VisitAbortedSteps ==
  ASSUME IInv, NEW t \in Tasks, VisitAborted(t)
  PROVE  StepsAlone(t)
  <1>1. stack[t] # <<>> /\ ~Forked(t) /\ Await(t, Below(t), "cancelled") /\ t \in aborted
    BY DEF VisitAborted, Visiting, In, Forked
  <1>2. \E s, v : Steps(t, s, v)
    BY <1>1, Returning DEF Outs, Terminal
  <1> QED  BY <1>2, NoNotes DEF VisitAborted, StepsAlone

LEMMA VisitNodeSteps ==
  ASSUME IInv, NEW t \in Tasks, VisitNode(t) \/ VisitSubworkflow(t)
  PROVE  StepsAlone(t)
  <1>1. stack[t] # <<>> /\ ~Forked(t) /\ Top(t).st = "visit"
    BY DEF VisitNode, VisitSubworkflow, Visiting, In, Forked
  <1>2. PICK st \in {"exec", "load"} :
          /\ Await(t, Append(Below(t), [Top(t) EXCEPT !.st = st]), Nil)
          /\ st = "load" => IsA(t, "sub")
    BY DEF VisitNode, VisitSubworkflow
  <1> DEFINE f == [Top(t) EXCEPT !.st = st]
  <1>3. f \in Frames /\ f.st = st /\ f.at = Top(t).at /\ f.in = Top(t).in
    <2>1. Top(t) \in Frames /\ st \in States
      BY <1>1, TopIs DEF States
    <2> QED  BY <2>1, Restated
  <1>4. Proper(f)
    BY <1>2, <1>3 DEF Proper, IsA
  <1> HIDE DEF f
  <1>5. /\ stack' = [stack EXCEPT ![t] = Append(Below(t), f)]
        /\ ret' = [ret EXCEPT ![t] = Nil] /\ cpu' = Nil
    BY <1>2 DEF Await, f
  <1>6. \E s, v : Steps(t, s, v)
    BY <1>1, <1>3, <1>4, <1>5, Turning DEF Nil
  <1> QED  BY <1>6, NoNotes DEF VisitNode, VisitSubworkflow, StepsAlone

LEMMA VisitLoopSteps ==
  ASSUME IInv, NEW t \in Tasks, VisitLoop(t)
  PROVE  StepsAlone(t)
  <1> DEFINE f == Inside(Top(t))
             l == Top(t).at
  <1>1. stack[t] # <<>> /\ ~Forked(t) /\ Top(t).st = "visit" /\ wf.kind[l] = "loop"
    BY DEF VisitLoop, Visiting, In, Forked, IsA
  <1>2. Top(t) \in Frames /\ l \in Nodes(wf)
    BY <1>1, TopIs DEF Frames
  <1>3. f \in Frames /\ f.st = "inside" /\ f.at = l /\ f.in = Top(t).in
    BY <1>2, Restated DEF States, Inside
  <1>4. Proper(f)
    BY <1>1, <1>3 DEF Proper
  <1> HIDE DEF f
  <1>5. CASE wf.entry[l] = Nil
    <2>1. Await(t, Append(Below(t), f), "exit")
      BY <1>5 DEF VisitLoop, f
    <2>2. /\ stack' = [stack EXCEPT ![t] = Append(Below(t), f)]
          /\ ret' = [ret EXCEPT ![t] = "exit"] /\ cpu' = Nil /\ t # Nil
      BY <2>1, TaskNames DEF Await
    <2>3. \E s, v : Steps(t, s, v)
      BY <1>1, <1>3, <1>4, <2>2, Turning
    <2> QED  BY <2>3, NoNotes DEF VisitLoop, StepsAlone
  <1>6. CASE wf.entry[l] # Nil
    <2> DEFINE g == Frame(l, Nil, "loop", 0)
    <2>1. Continue(t, Append(Append(Below(t), f), g))
      BY <1>6 DEF VisitLoop, f
    <2>2. g \in Frames /\ g.at = l /\ g.in = Nil /\ g.st = "loop"
      BY <1>2, Framed DEF States
    <2>3. Proper(g) /\ OnTop(f, g)
      BY <1>1, <1>3, <1>6, <2>2 DEF Proper, OnTop
    <2> HIDE DEF g
    <2>4. \E s, v : Steps(t, s, v)
      BY <1>1, <1>3, <1>4, <2>1, <2>2, <2>3, Calling
    <2> QED  BY <2>4, NoNotes DEF VisitLoop, StepsAlone
  <1> QED  BY <1>5, <1>6

(* A Parallel node without branches.                                       *)
LEMMA VisitEmptyParallelSteps ==
  ASSUME IInv, NEW t \in Tasks, VisitParallel(t), Roots(t) = {}
  PROVE  StepsAlone(t)
  <1> DEFINE f == Inside(Top(t))
  <1>1. stack[t] # <<>> /\ ~Forked(t) /\ Top(t).st = "visit" /\ IsA(t, "parallel")
    BY DEF VisitParallel, Visiting, In, Forked
  <1>2. f \in Frames /\ f.st = "inside" /\ f.at = Top(t).at /\ f.in = Top(t).in
    BY <1>1, TopIs, Restated DEF States, Inside
  <1>3. Proper(f)
    BY <1>1, <1>2 DEF Proper, IsA
  <1> HIDE DEF f
  <1>4. Await(t, Append(Below(t), f), "done")
    BY DEF VisitParallel, f
  <1>5. /\ stack' = [stack EXCEPT ![t] = Append(Below(t), f)]
        /\ ret' = [ret EXCEPT ![t] = "done"] /\ cpu' = Nil /\ t # Nil
    BY <1>4, TaskNames DEF Await
  <1>6. \E s, v : Steps(t, s, v)
    BY <1>1, <1>2, <1>3, <1>5, Turning DEF Nil, IsA
  <1> QED  BY <1>6, NoNotes DEF VisitParallel, StepsAlone

LEMMA IterateSteps ==
  ASSUME IInv, NEW t \in Tasks, Iterate(t)
  PROVE  StepsAlone(t)
  <1> DEFINE l == Top(t).at
  <1>1. stack[t] # <<>> /\ ~Forked(t) /\ Top(t).st = "loop"
    BY DEF Iterate, In, Forked
  <1>2. Top(t) \in Frames /\ Proper(Top(t)) /\ l \in Nodes(wf)
    BY <1>1, TopIs DEF Frames
  <1>3. CASE IterateNot(t)
    <2>1. PICK v \in {"exit", "cancelled"} :
            Await(t, Below(t), v) /\ (v = "cancelled" => t \in aborted)
      BY <1>3 DEF IterateNot
    <2>2. \E s, u : Steps(t, s, u)
      BY <1>1, <2>1, Returning DEF Outs, Terminal
    <2> QED  BY <1>3, <2>2 DEF Iterate, IterateNot, StepsAlone, Notes, IInv, Types
  <1>4. CASE IterateOnce(t)
    <2>1. /\ wf.kind[l] = "loop" /\ wf.entry[l] \in Nodes(wf) /\ l \in DOMAIN wf.entry
          /\ wf.entry[l] # Nil
      BY <1>1, <1>2, Follows DEF Proper, WellFormed
    <2> DEFINE g == Enter(wf.entry[l], l)
    <2>2. PICK i \in Nat :
            Continue(t, Append(Append(Below(t), [Top(t) EXCEPT !.i = i]), g))
      BY <1>2, <1>4 DEF IterateOnce, Frames
    <2> DEFINE f == [Top(t) EXCEPT !.i = i]
    <2>3. f \in Frames /\ f.st = "loop" /\ f.at = l /\ f.in = Top(t).in
      BY <1>1, <1>2, Recounted
    <2>4. g \in Frames /\ g.at = wf.entry[l] /\ g.in = l /\ g.st = "visit"
      BY <1>2, <2>1, Framed DEF States, Enter
    <2>5. Proper(f) /\ Proper(g) /\ OnTop(f, g)
      BY <1>1, <1>2, <2>3, <2>4 DEF Proper, OnTop
    <2>6. wf.entry[l] \in Successors(wf, l)
      BY <2>1 DEF Successors
    <2> HIDE DEF f, g
    <2>7. Continue(t, Append(Append(Below(t), f), g))
      BY <2>2 DEF f
    <2>8. \E s, v : Steps(t, s, v)
      BY <1>1, <2>3, <2>4, <2>5, <2>6, <2>7, Calling
    <2>9. Notes
      BY <1>4 DEF IterateOnce, Iterate, ResetLoopSignal, Notes, IInv, Types
    <2> QED  BY <2>8, <2>9 DEF Iterate, StepsAlone
  <1> QED  BY <1>3, <1>4 DEF Iterate

LEMMA BodyReturnedSteps ==
  ASSUME IInv, NEW t \in Tasks, BodyReturned(t)
  PROVE  StepsAlone(t)
  <1>1. /\ stack[t] # <<>> /\ ~Forked(t) /\ Top(t).st = "loop" /\ ret[t] # Nil
        /\ loopSignal \in {Nil, "break", "continue"}
    BY DEF BodyReturned, In, Forked, IInv, Types
  <1>2. ret[t] \in Outs
    BY <1>1, TopIs
  <1>3. \E s, v : Steps(t, s, v)
    <2>1. CASE \E v \in {"threw", "exit", ret[t]} : Await(t, Below(t), v)
      BY <1>1, <1>2, <2>1, Returning DEF Outs
    <2>2. CASE Continue(t, stack[t])
      <3> DEFINE f == Top(t)
      <3>1. f \in Frames /\ Proper(f)
        BY <1>1, TopIs
      <3>2. stack[t] = Append(Below(t), f)
        BY <1>1, Lowered DEF IInv, Types, Below, Top
      <3>3. /\ stack' = [stack EXCEPT ![t] = Append(Below(t), f)]
            /\ ret' = [ret EXCEPT ![t] = Nil] /\ cpu' = t
        BY <2>2, <3>2 DEF Continue
      <3> QED  BY <1>1, <3>1, <3>3, Turning DEF Nil
    <2> QED  BY <1>1, <2>1, <2>2 DEF BodyReturned
  <1> QED  BY <1>3, NoNotes DEF BodyReturned, StepsAlone

LEMMA EndReachedSteps ==
  ASSUME IInv, NEW t \in Tasks, EndReached(t) \/ NodeThrew(t)
  PROVE  StepsAlone(t)
  <1>1. stack[t] # <<>> /\ ~Forked(t)
    BY DEF EndReached, NodeThrew, Returned, In, Forked
  <1>2. PICK v \in {"succeeded", "failed", "threw"} : Await(t, Below(t), v)
    BY DEF EndReached, NodeThrew
  <1>3. \E s, u : Steps(t, s, u)
    BY <1>1, <1>2, Returning DEF Outs, Terminal
  <1> QED  BY <1>3, NoNotes DEF EndReached, NodeThrew, StepsAlone

LEMMA NodeReturnedSteps ==
  ASSUME IInv, NEW t \in Tasks, NodeReturned(t)
  PROVE  StepsAlone(t)
  <1>1. stack[t] # <<>> /\ ~Forked(t) /\ Top(t).st # "loop"
    BY DEF NodeReturned, Returned, In, Forked
  <1>2. PICK h : LeaveBy(t, h, Unwired(h))
    BY DEF NodeReturned
  <1>3. (\E s, v : Steps(t, s, v)) /\ unhandled' \in BOOLEAN
    BY <1>1, <1>2, Leaving DEF Unwired
  <1> QED  BY <1>3 DEF NodeReturned, StepsAlone, Notes, IInv, Types

LEMMA BodyNodeReturnedSteps ==
  ASSUME IInv, NEW t \in Tasks, BodyNodeReturned(t)
  PROVE  StepsAlone(t)
  <1>1. /\ stack[t] # <<>> /\ ~Forked(t) /\ Top(t).st # "loop"
        /\ Top(t).in # Nil /\ UNCHANGED <<runVars, aborted>>
    BY DEF BodyNodeReturned, Returned, In, Forked
  <1>2. Top(t).in \in Nodes(wf)
    BY <1>1, TopIs DEF Frames
  <1>3. PICK h :
          \/ /\ Await(t, Below(t), "succeeded") /\ UNCHANGED unhandled
             /\ loopSignal' \in {"break", "continue"}
             /\ broke' \in {broke, broke \cup {Top(t).in}}
          \/ /\ LeaveBy(t, h, Unwired(h)) /\ UNCHANGED broke
             /\ loopSignal' \in {loopSignal, "continue"}
    BY DEF BodyNodeReturned
  <1>4. CASE Await(t, Below(t), "succeeded") /\ UNCHANGED unhandled
    <2>1. \E s, v : Steps(t, s, v)
      BY <1>1, <1>4, Returning DEF Outs, Terminal
    <2>2. unhandled' \in BOOLEAN
      BY <1>4 DEF IInv, Types
    <2> QED  BY <1>1, <1>2, <1>3, <2>1, <2>2 DEF StepsAlone, Notes, IInv, Types
  <1>5. CASE LeaveBy(t, h, Unwired(h))
    <2>1. (\E s, v : Steps(t, s, v)) /\ unhandled' \in BOOLEAN
      BY <1>1, <1>5, Leaving DEF Unwired
    <2> QED  BY <1>1, <1>2, <1>3, <2>1 DEF StepsAlone, Notes, IInv, Types
  <1> QED  BY <1>3, <1>4, <1>5

LEMMA LoopReturnedSteps ==
  ASSUME IInv, NEW t \in Tasks, LoopReturned(t)
  PROVE  StepsAlone(t)
  <1>1. /\ stack[t] # <<>> /\ ~Forked(t) /\ Top(t).st = "inside" /\ IsA(t, "loop")
        /\ ret[t] # Nil
    BY DEF LoopReturned, In, Forked
  <1>2. ret[t] \in Outs \cup {"exit"}
    BY <1>1, TopIs
  <1>3. (\E s, v : Steps(t, s, v)) /\ unhandled' \in BOOLEAN
    <2>1. CASE LeaveBy(t, "next", "succeeded")
      BY <1>1, <2>1, Leaving
    <2>2. CASE ret[t] # "exit" /\ Await(t, Below(t), ret[t]) /\ UNCHANGED unhandled
      <3>1. \E s, v : Steps(t, s, v)
        BY <1>1, <1>2, <2>2, Returning
      <3> QED  BY <2>2, <3>1 DEF IInv, Types
    <2> QED  BY <2>1, <2>2 DEF LoopReturned
  <1> QED  BY <1>3 DEF LoopReturned, StepsAlone, Notes, IInv, Types

LEMMA LoadedSteps ==
  ASSUME IInv, NEW t \in Tasks, Loaded(t)
  PROVE  StepsAlone(t)
  <1> DEFINE n == Top(t).at
  <1>1. stack[t] # <<>> /\ ~Forked(t) /\ Top(t).st = "load"
    BY DEF Loaded, In, Forked
  <1>2. Top(t) \in Frames /\ n \in Nodes(wf) /\ wf.kind[n] = "sub"
    BY <1>1, TopIs DEF Frames, Proper
  <1>3. CASE LeaveBy(t, "error", "failed")
    <2>1. (\E s, v : Steps(t, s, v)) /\ unhandled' \in BOOLEAN
      BY <1>1, <1>3, Leaving
    <2> QED  BY <2>1 DEF Loaded, StepsAlone, Notes, IInv, Types
  <1> DEFINE f == Inside(Top(t))
             g == Enter(wf.entry[n], Nil)
  <1>4. CASE Continue(t, Append(Append(Below(t), f), g)) /\ UNCHANGED unhandled
    <2>1. wf.entry[n] \in Nodes(wf) /\ wf.entry[n] \in Successors(wf, n)
      BY <1>2, Follows DEF WellFormed, Successors
    <2>2. f \in Frames /\ f.st = "inside" /\ f.at = n /\ f.in = Top(t).in
      BY <1>2, Restated DEF States, Inside
    <2>3. g \in Frames /\ g.at = wf.entry[n] /\ g.in = Nil /\ g.st = "visit"
      BY <2>1, Framed DEF States, Enter
    <2>4. Proper(f) /\ Proper(g) /\ OnTop(f, g)
      BY <1>2, <2>2, <2>3 DEF Proper, OnTop
    <2> HIDE DEF f, g
    <2>5. \E s, v : Steps(t, s, v)
      BY <1>1, <1>4, <2>1, <2>2, <2>3, <2>4, Calling
    <2> QED  BY <1>4, <2>5 DEF Loaded, StepsAlone, Notes, IInv, Types
  <1> QED  BY <1>3, <1>4 DEF Loaded

LEMMA ChildReturnedSteps ==
  ASSUME IInv, NEW t \in Tasks, ChildReturned(t) \/ ParallelReturned(t)
  PROVE  StepsAlone(t)
  <1>1. stack[t] # <<>> /\ ~Forked(t) /\ Top(t).st # "loop"
    BY DEF ChildReturned, ParallelReturned, In, Forked, Nil
  <1>2. (\E s, v : Steps(t, s, v)) /\ unhandled' \in BOOLEAN
    <2>1. ASSUME NEW h, NEW v \in {"succeeded", "failed"}, LeaveBy(t, h, v)
          PROVE  (\E s, u : Steps(t, s, u)) /\ unhandled' \in BOOLEAN
      BY <1>1, <2>1, Leaving
    <2>2. CASE /\ ret[t] = "cancelled" /\ Await(t, Below(t), "cancelled")
               /\ UNCHANGED unhandled
      <3>1. \E s, v : Steps(t, s, v)
        BY <1>1, <2>2, Returning DEF Outs, Terminal
      <3> QED  BY <2>2, <3>1 DEF IInv, Types
    <2> QED  BY <2>1, <2>2 DEF ChildReturned, ParallelReturned, Unwired
  <1> QED  BY <1>2 DEF ChildReturned, ParallelReturned, StepsAlone, Notes, IInv, Types

-----------------------------------------------------------------------------
(* The invariant                                                           *)

(* What a step that keeps the workflow leaves true of a stack.             *)
LEMMA SameWorkflow ==
  ASSUME wf' = wf, NEW s
  PROVE  /\ Frames' = Frames
         /\ Chain(s)' <=> Chain(s)
         /\ Returnable(s)' = Returnable(s)
         /\ \A c : AllAvoid(s, c)' <=> AllAvoid(s, c)
         /\ OneLoop(s)' <=> OneLoop(s)
         /\ LoopsAlone(wf)' <=> LoopsAlone(wf)
  <1>1. Frames' = Frames
    BY DEF Frames, Nodes
  <1>2. Chain(s)' <=> Chain(s)
    BY DEF Chain, Proper, Lowest, OnTop
  <1>3. Returnable(s)' = Returnable(s)
    BY DEF Returnable
  <1>4. \A c : AllAvoid(s, c)' <=> AllAvoid(s, c)
    BY DEF AllAvoid
  <1>5. OneLoop(s)' <=> OneLoop(s)
    BY DEF OneLoop
  <1>6. LoopsAlone(wf)' <=> LoopsAlone(wf)
    OBVIOUS
  <1> QED  BY <1>1, <1>2, <1>3, <1>4, <1>5, <1>6

LEMMA AloneKeeps ==
  ASSUME IInv, NEW t \in Tasks, StepsAlone(t)
  PROVE  IInv'
  <1>1. PICK s, v : Steps(t, s, v)
    BY DEF StepsAlone
  <1>2. /\ wf' = wf /\ status' = status /\ final' = final /\ stop' = stop
        /\ aborted' = aborted
    BY DEF StepsAlone, runVars
  <1>3. /\ stack \in [Tasks -> Seq(Frames)] /\ ret \in [Tasks -> Values]
        /\ stack' = [stack EXCEPT ![t] = s] /\ ret' = [ret EXCEPT ![t] = v]
        /\ s \in Seq(Frames)
    BY <1>1 DEF Steps, Carries, IInv, Types
  <1>4. /\ stack'[t] = s /\ ret'[t] = v
        /\ \A u \in Tasks \ {t} : stack'[u] = stack[u] /\ ret'[u] = ret[u]
    BY <1>3
  <1>5. Types'
    <2>1. v \in Values
      BY <1>1 DEF Steps, Carries, Outs, Values
    <2>2. stack' \in [Tasks -> Seq(Frames)] /\ ret' \in [Tasks -> Values]
      BY <1>3, <2>1
    <2> QED  BY <1>1, <1>2, <2>2, SameWorkflow
              DEF StepsAlone, Notes, Steps, IInv, Types, Nodes
  <1>6. TasksProper'
    <2>1. ASSUME NEW u \in Tasks
          PROVE  Chain(stack'[u]) /\ ret'[u] \in Returnable(stack'[u])
      BY <1>1, <1>4 DEF Steps, Carries, IInv, TasksProper
    <2> QED  BY <1>2, <2>1, SameWorkflow DEF TasksProper
  <1>7. MainIsNoBranch'
    <2>1. ret'[Main] \notin BranchResults \cup {"winner", "loser"}
      BY <1>1, <1>4, TaskNames
         DEF Steps, Carries, IInv, MainIsNoBranch, Outs, Terminal, Nil, BranchResults
    <2> QED  BY <2>1 DEF MainIsNoBranch, BranchResults
  <1>8. CpuClear'
    BY <1>1, <1>4 DEF Steps, CpuClear
  <1>9. BranchesFlat' /\ LoneLoops'
    <2>1. /\ AllAvoid(stack[t], "parallel") => AllAvoid(s, "parallel")
          /\ AllAvoid(stack[t], "loop") => AllAvoid(s, "loop")
          /\ LoopsAlone(wf) /\ OneLoop(stack[t]) => OneLoop(s)
      BY <1>1 DEF Steps, Carries, Kinds
    <2>2. \A u \in Tasks \ {Main} : AllAvoid(stack'[u], "parallel")
      BY <1>4, <2>1 DEF IInv, BranchesFlat
    <2>3. LoopsAlone(wf) => /\ OneLoop(stack'[Main])
                            /\ \A u \in Tasks \ {Main} : AllAvoid(stack'[u], "loop")
      BY <1>4, <2>1, TaskNames DEF IInv, LoneLoops
    <2> QED  BY <1>2, <2>2, <2>3, SameWorkflow DEF BranchesFlat, LoneLoops
  <1>10. BranchesForked'
    <2>1. stack[t] # <<>> /\ ~Forked(t)
      BY <1>1 DEF Steps, Carries
    <2>2. ASSUME NEW u \in Tasks \ {Main}, stack'[u] # <<>> \/ ret'[u] # Nil
          PROVE  Forked(Main)' /\ u \in Roots(Main)'
      <3>1. stack[u] # <<>> \/ ret[u] # Nil
        BY <1>4, <2>1, <2>2
      <3>2. Forked(Main) /\ u \in Roots(Main)
        BY <3>1 DEF IInv, BranchesForked
      <3>3. t # Main
        BY <2>1, <3>2
      <3>4. stack'[Main] = stack[Main] /\ ret'[Main] = ret[Main]
        BY <1>4, <3>3, TaskNames
      <3> QED  BY <1>2, <3>2, <3>4 DEF Forked, In, IsA, Top, Roots
    <2> QED  BY <2>2 DEF BranchesForked
  <1>11. Phases' /\ StopStands'
    <2>1. stack[t] # <<>> /\ ~Forked(t)
      BY <1>1 DEF Steps, Carries
    <2>2. CASE t = Main
      <3>1. v = "cancelled" => Main \in aborted
        BY <1>1, <2>2 DEF Steps, Carries, IInv, StopStands
      <3> QED  BY <1>2, <1>4, <2>1, <2>2, <3>1 DEF IInv, Phases, StopStands
    <2>3. CASE t # Main
      <3>1. stack'[Main] = stack[Main] /\ ret'[Main] = ret[Main]
        BY <1>4, <2>3, TaskNames
      <3> QED  BY <1>2, <3>1 DEF IInv, Phases, StopStands
    <2> QED  BY <2>2, <2>3
  <1> QED  BY <1>5, <1>6, <1>7, <1>8, <1>9, <1>10, <1>11 DEF IInv

(* Only the run's walk waits for branches.                                 *)
LEMMA OnlyMainForks ==
  ASSUME IInv, NEW t \in Tasks, stack[t] # <<>>, IsA(t, "parallel")
  PROVE  t = Main
  <1>1. SUFFICES ASSUME t # Main  PROVE FALSE
    OBVIOUS
  <1>2. stack[t] \in Seq(Frames) /\ AllAvoid(stack[t], "parallel")
    BY <1>1 DEF IInv, Types, BranchesFlat
  <1>3. Avoids(wf, {Top(t).at}, "parallel")
    BY <1>2, AvoidPop DEF Top
  <1> QED  BY <1>3, AvoidsOn DEF IsA

(* A walk of one node.                                                     *)
LEMMA WalkOfOne ==
  ASSUME NEW f \in Frames, f.in = Nil, f.st = "visit"
  PROVE  /\ <<f>> \in Seq(Frames) /\ <<f>> # <<>> /\ Chain(<<f>>)
         /\ Returnable(<<f>>) = {Nil} /\ OneLoop(<<f>>)
         /\ \A c : Avoids(wf, {f.at}, c) => AllAvoid(<<f>>, c)
  <1>1. <<f>> \in Seq(Frames) /\ Len(<<f>>) = 1 /\ <<f>>[1] = f /\ <<f>> # <<>>
    OBVIOUS
  <1>2. Proper(f) /\ Lowest(f)
    BY DEF Proper, Lowest
  <1>3. Chain(<<f>>)
    BY <1>1, <1>2 DEF Chain
  <1>4. Last(<<f>>) = f
    BY <1>1 DEF Last
  <1>5. Returnable(<<f>>) = {Nil}
    BY <1>1, <1>4 DEF Returnable
  <1>6. OneLoop(<<f>>) /\ \A c : Avoids(wf, {f.at}, c) => AllAvoid(<<f>>, c)
    BY <1>1 DEF OneLoop, AllAvoid
  <1> QED  BY <1>1, <1>3, <1>5, <1>6

LEMMA ForkKeeps ==
  ASSUME IInv, NEW t \in Tasks, VisitParallel(t), Roots(t) # {}
  PROVE  IInv'
  <1> DEFINE f == Inside(Top(t))
             s == Append(Below(t), f)
             p == Top(t).at
  <1>1. /\ stack[t] # <<>> /\ Top(t).st = "visit" /\ IsA(t, "parallel")
        /\ UNCHANGED <<runVars, loopSignal, aborted, history, ret>> /\ cpu' = Nil
        /\ stack' = [x \in Tasks |-> CASE x = t -> s
                                       [] x \in Roots(t) -> <<Enter(x, Nil)>>
                                       [] OTHER -> stack[x]]
    BY DEF VisitParallel, Visiting, In
  <1>2. t = Main
    BY <1>1, OnlyMainForks
  <1>3. /\ stack[Main] \in Seq(Frames) /\ Chain(stack[Main])
        /\ Top(t) \in Frames /\ ret[Main] = Nil
    BY <1>1, <1>2, TopIs DEF IInv, Types, TasksProper
  <1>4. f \in Frames /\ f.st = "inside" /\ f.at = p /\ f.in = Top(t).in
    BY <1>3, Restated DEF States, Inside
  <1>5. Proper(f) /\ wf.kind[p] = "parallel"
    BY <1>1, <1>4 DEF Proper, IsA
  <1> HIDE DEF f
  <1>6. s \in Seq(Frames) /\ Chain(s)
    BY <1>1, <1>2, <1>3, <1>4, <1>5, SwapChain DEF Below, Top
  <1>7. s # <<>> /\ Last(s) = f
    <2>1. Below(t) \in Seq(Frames)
      BY <1>1, <1>2, <1>3, Lowered DEF Below
    <2> QED  BY <1>4, <2>1, Raised
  <1>8. LoopsAlone(wf) => OneLoop(s)
    <2>1. Below(t) \in Seq(Frames)
      BY <1>1, <1>2, <1>3, Lowered DEF Below
    <2> QED  BY <1>1, <1>2, <1>3, <1>4, <2>1, OneLoopPop, OneLoopPush
              DEF IInv, LoneLoops, Below, Top
  <1>9. /\ p \in Nodes(wf) /\ Roots(t) \subseteq Tasks \cap Nodes(wf) /\ Main \notin Roots(t)
        /\ Avoids(wf, Roots(t), "parallel")
        /\ LoopsAlone(wf) => Avoids(wf, Roots(t), "loop")
    <2>1. p \in Nodes(wf) /\ wf \in Workflows
      BY <1>2, <1>3 DEF Frames, IInv, Types
    <2>2. p \in DOMAIN wf.roots /\ Avoids(wf, wf.roots[p], "parallel")
      BY <1>5, <2>1, Follows DEF WellFormed
    <2>3. LoopsAlone(wf) => Avoids(wf, wf.roots[p], "loop")
      BY <1>5, <2>1 DEF LoopsAlone
    <2> QED  BY <2>1, <2>2, <2>3, TaskNames DEF Roots
  <1>10. ~Forked(Main)
    BY <1>1, <1>2 DEF Forked, In
  <1>11. \A u \in Tasks \ {Main} : stack[u] = <<>> /\ ret[u] = Nil
    BY <1>10 DEF IInv, BranchesForked
  <1>12. stack'[Main] = s
    <2>1. t \notin Roots(t)
      BY <1>2, <1>9
    <2>2. stack'[t] = s
      BY <1>1, <2>1
    <2> QED  BY <1>2, <2>2
  <1>13. ASSUME NEW u \in Roots(t)
         PROVE  /\ stack'[u] \in Seq(Frames) /\ stack'[u] # <<>> /\ Chain(stack'[u])
                /\ Returnable(stack'[u]) = {Nil} /\ AllAvoid(stack'[u], "parallel")
                /\ LoopsAlone(wf) => AllAvoid(stack'[u], "loop")
    <2>1. stack'[u] = <<Enter(u, Nil)>>
      BY <1>1, <1>2, <1>9, <1>13
    <2>2. u \in Nodes(wf) /\ Avoids(wf, {u}, "parallel")
          /\ (LoopsAlone(wf) => Avoids(wf, {u}, "loop"))
      BY <1>9, AvoidsOne
    <2>3. /\ Enter(u, Nil) \in Frames /\ Enter(u, Nil).at = u
          /\ Enter(u, Nil).in = Nil /\ Enter(u, Nil).st = "visit"
      BY <2>2, Framed DEF Enter, States
    <2> QED  BY <2>1, <2>2, <2>3, WalkOfOne
  <1>14. \A u \in Tasks \ (Roots(t) \cup {Main}) : stack'[u] = stack[u]
    BY <1>1, <1>2
  <1>15. wf' = wf
    BY <1>1 DEF runVars
  <1>16. Types'
    <2>1. stack' \in [Tasks -> Seq(Frames)]
      <3>1. \A u \in Tasks : stack'[u] \in Seq(Frames)
        BY <1>6, <1>12, <1>13, <1>14 DEF IInv, Types
      <3> QED  BY <1>1, <3>1
    <2> QED  BY <1>1, <1>15, <2>1, SameWorkflow DEF IInv, Types, Nodes, runVars, history
  <1>17. TasksProper'
    <2>1. ASSUME NEW u \in Tasks
          PROVE  Chain(stack'[u]) /\ ret'[u] \in Returnable(stack'[u])
      <3>1. CASE u = Main
        <4>1. Nil \in Returnable(s)
          BY <1>4, <1>5, <1>7 DEF Returnable
        <4> QED  BY <1>1, <1>3, <1>6, <1>12, <3>1, <4>1
      <3>2. CASE u \in Roots(t)
        BY <1>1, <1>9, <1>11, <1>13, <3>2
      <3>3. CASE u \notin Roots(t) /\ u # Main
        BY <1>1, <1>14, <3>3 DEF IInv, TasksProper
      <3> QED  BY <3>1, <3>2, <3>3
    <2> QED  BY <1>15, <2>1, SameWorkflow DEF TasksProper
  <1>18. MainIsNoBranch' /\ CpuClear'
    BY <1>1 DEF IInv, MainIsNoBranch, CpuClear, BranchResults
  <1>19. BranchesFlat' /\ LoneLoops'
    <2>1. ASSUME NEW u \in Tasks \ {Main}
          PROVE  /\ AllAvoid(stack'[u], "parallel")
                 /\ LoopsAlone(wf) => AllAvoid(stack'[u], "loop")
      BY <1>13, <1>14 DEF IInv, BranchesFlat, LoneLoops
    <2> QED  BY <1>8, <1>12, <1>15, <2>1, SameWorkflow DEF BranchesFlat, LoneLoops
  <1>20. BranchesForked'
    <2>1. Forked(Main)' /\ Roots(Main)' = Roots(t)
      BY <1>1, <1>3, <1>4, <1>5, <1>7, <1>12, <1>15 DEF Forked, In, IsA, Top, Roots
    <2> QED  BY <1>1, <1>11, <1>14, <2>1 DEF BranchesForked
  <1>21. Phases' /\ StopStands'
    BY <1>1, <1>2, <1>3 DEF IInv, Phases, StopStands, runVars, Nil
  <1> QED  BY <1>16, <1>17, <1>18, <1>19, <1>20, <1>21 DEF IInv

(* A branch in progress has a stack, or a result to hand in.               *)
LEMMA NoBranchResult ==
  ASSUME IInv, NEW r \in Tasks, ret[r] \in BranchResults \cup {"winner", "loser"}
  PROVE  r # Main /\ stack[r] = <<>>
  <1>1. ret[r] \notin {Nil, "exit", "done", "error"} \cup Outs
    BY DEF BranchResults, Nil, Outs, Terminal
  <1> QED  BY <1>1 DEF IInv, MainIsNoBranch, TasksProper, Returnable, Outs, Terminal

(* A step that changes no stack.                                           *)
LEMMA StacksStay ==
  ASSUME IInv, UNCHANGED <<wf, stack>>
  PROVE  /\ (\A t \in Tasks : ret'[t] \in Returnable(stack[t])) => TasksProper'
         /\ BranchesFlat' /\ LoneLoops'
         /\ stack' \in [Tasks -> Seq(Frames')]
         /\ Roots(Main)' = Roots(Main)
         /\ (ret'[Main] = ret[Main]) => (Forked(Main)' <=> Forked(Main))
  <1>1. wf' = wf /\ stack' = stack
    OBVIOUS
  <1>2. (\A t \in Tasks : ret'[t] \in Returnable(stack[t])) => TasksProper'
    BY <1>1, SameWorkflow DEF IInv, TasksProper
  <1>3. BranchesFlat' /\ LoneLoops'
    BY <1>1, SameWorkflow DEF IInv, BranchesFlat, LoneLoops
  <1>4. stack' \in [Tasks -> Seq(Frames')]
    BY <1>1, SameWorkflow DEF IInv, Types
  <1>5. /\ Roots(Main)' = Roots(Main)
        /\ (ret'[Main] = ret[Main]) => (Forked(Main)' <=> Forked(Main))
    BY <1>1 DEF Roots, Forked, In, IsA, Top
  <1> QED  BY <1>2, <1>3, <1>4, <1>5

LEMMA BranchEndsKeeps ==
  ASSUME IInv, NEW r \in Tasks, BranchEnds(r) \/ Record(r)
  PROVE  IInv'
  <1>1. /\ UNCHANGED <<runVars, stack, cpu, loopSignal, history>> /\ cpu = Nil
        /\ ret' = [ret EXCEPT ![r] = ret'[r]]
        /\ ret'[r] \in {"winner", "loser"} \cup BranchResults /\ ret[r] # Nil
    BY DEF BranchEnds, Record, BranchResults, IInv, Types, Terminal, Nil
  <1>2. r # Main /\ stack[r] = <<>>
    BY NoBranchResult DEF BranchEnds, Record
  <1>3. aborted' \subseteq Tasks /\ (Main \in aborted' <=> Main \in aborted)
    <2>1. aborted' \in {aborted, aborted \cup Siblings(r)}
      BY DEF BranchEnds, Record
    <2>2. Siblings(r) \subseteq Tasks /\ Main \notin Siblings(r)
      BY TaskNames DEF Siblings, IInv, Types
    <2> QED  BY <2>1, <2>2 DEF IInv, Types
  <1>4. ret \in [Tasks -> Values] /\ ret'[Main] = ret[Main]
    BY <1>1, <1>2, TaskNames DEF IInv, Types
  <1>5. Types'
    <2>1. ret' \in [Tasks -> Values]
      BY <1>1, <1>4 DEF Values, BranchResults
    <2> QED  BY <1>1, <1>3, <2>1, StacksStay DEF IInv, Types, runVars, history, Nodes
  <1>6. TasksProper'
    <2>1. \A u \in Tasks : ret'[u] \in Returnable(stack[u])
      BY <1>1, <1>2, <1>4 DEF IInv, TasksProper, Returnable
    <2> QED  BY <1>1, <2>1, StacksStay DEF runVars
  <1>7. MainIsNoBranch' /\ CpuClear' /\ BranchesFlat' /\ LoneLoops'
    BY <1>1, <1>4, StacksStay DEF IInv, MainIsNoBranch, CpuClear, BranchResults, runVars
  <1>8. BranchesForked'
    <2>1. \A u \in Tasks \ {Main} : ret'[u] # Nil => ret[u] # Nil
      BY <1>1, <1>4
    <2> QED  BY <1>1, <1>4, <2>1, StacksStay DEF IInv, BranchesForked, runVars
  <1>9. Phases' /\ StopStands'
    BY <1>1, <1>3, <1>4 DEF IInv, Phases, StopStands, runVars
  <1> QED  BY <1>5, <1>6, <1>7, <1>8, <1>9 DEF IInv

LEMMA JoinKeeps ==
  ASSUME IInv, NEW t \in Tasks, Join(t)
  PROVE  IInv'
  <1>1. /\ UNCHANGED <<runVars, stack, cpu, loopSignal, history>> /\ cpu = Nil
        /\ Forked(t) /\ stack[t] # <<>> /\ \A r \in Roots(t) : ret[r] \in BranchResults
    BY DEF Join, Joinable, Forked, In
  <1>2. t = Main
    BY <1>1, OnlyMainForks DEF Forked
  <1>3. Roots(t) \subseteq Tasks /\ Main \notin Roots(t)
    <2>1. Top(t) \in Frames /\ wf.kind[Top(t).at] = "parallel"
      BY <1>1, TopIs DEF Forked, IsA
    <2>2. Top(t).at \in DOMAIN wf.roots
      BY <2>1, Follows DEF WellFormed, Frames
    <2> QED  BY <2>2, TaskNames DEF Roots, IInv, Types
  <1>4. PICK v \in {"done", "error", "cancelled"} :
          /\ Verdict(t, v)
          /\ ret' = [x \in Tasks |-> CASE x = t -> v
                                       [] x \in Roots(t) -> Nil
                                       [] OTHER -> ret[x]]
    BY DEF Join
  <1>5. /\ ret'[Main] = v
        /\ \A u \in Roots(t) : ret'[u] = Nil
        /\ \A u \in Tasks \ (Roots(t) \cup {Main}) : ret'[u] = ret[u]
    <2>1. t \notin Roots(t) /\ t \in Tasks
      BY <1>2, <1>3
    <2>2. ret'[t] = v
      BY <1>4, <2>1
    <2> QED  BY <1>2, <1>3, <1>4, <2>2
  <1>6. aborted' \subseteq Tasks /\ (Main \in aborted' <=> Main \in aborted)
    BY <1>2, <1>3 DEF Join, IInv, Types
  <1>7. v = "cancelled" => Main \in aborted
    BY <1>2, <1>4 DEF Verdict
  <1>8. Types'
    <2>1. ret' \in [Tasks -> Values]
      <3>1. \A u \in Tasks : ret'[u] \in Values
        BY <1>3, <1>5 DEF IInv, Types, Values, Terminal
      <3> QED  BY <1>4, <3>1
    <2> QED  BY <1>1, <1>6, <2>1, StacksStay DEF IInv, Types, runVars, history, Nodes
  <1>9. \A r \in Roots(t) : stack[r] = <<>>
    BY <1>1, <1>3, NoBranchResult
  <1>10. TasksProper'
    <2>1. ASSUME NEW u \in Tasks  PROVE ret'[u] \in Returnable(stack[u])
      <3>1. CASE u = Main
        <4>1. Top(t).st = "inside" /\ wf.kind[Top(t).at] = "parallel"
          BY <1>1 DEF Forked, In, IsA
        <4> QED  BY <1>1, <1>2, <1>5, <3>1, <4>1 DEF Returnable, Top
      <3>2. CASE u \in Roots(t)
        BY <1>5, <1>9, <3>2 DEF Returnable
      <3>3. CASE u \notin Roots(t) /\ u # Main
        BY <1>5, <3>3 DEF IInv, TasksProper
      <3> QED  BY <3>1, <3>2, <3>3
    <2> QED  BY <1>1, <2>1, StacksStay DEF runVars
  <1>11. MainIsNoBranch' /\ CpuClear' /\ BranchesFlat' /\ LoneLoops'
    BY <1>1, <1>5, StacksStay DEF IInv, MainIsNoBranch, CpuClear, BranchResults, runVars
  <1>12. BranchesForked'
    <2>1. ASSUME NEW u \in Tasks \ {Main}  PROVE stack'[u] = <<>> /\ ret'[u] = Nil
      <3>1. CASE u \in Roots(t)
        BY <1>1, <1>5, <1>9, <3>1
      <3>2. CASE u \notin Roots(t)
        BY <1>1, <1>2, <1>5, <3>2 DEF IInv, BranchesForked
      <3> QED  BY <3>1, <3>2
    <2> QED  BY <2>1 DEF BranchesForked
  <1>13. Phases' /\ StopStands'
    BY <1>1, <1>2, <1>5, <1>6, <1>7 DEF IInv, Phases, StopStands, runVars
  <1> QED  BY <1>8, <1>10, <1>11, <1>12, <1>13 DEF IInv

LEMMA StartKeeps ==
  ASSUME IInv, Start
  PROVE  IInv'
  <1>1. /\ status = "idle" /\ status' = "running" /\ final = Nil
        /\ UNCHANGED <<wf, final, loopSignal, aborted, stop, history>>
        /\ stack[Main] = <<>> /\ ret[Main] = Nil
    BY DEF Start, IInv, Phases
  <1>2. PICK s, v : /\ s \in Seq(Frames) /\ Chain(s) /\ OneLoop(s)
                    /\ v \in {Nil, "threw"} /\ v \in Returnable(s)
                    /\ stack' = [stack EXCEPT ![Main] = s]
                    /\ ret' = [ret EXCEPT ![Main] = v]
                    /\ cpu' \in {Main, Nil} /\ (cpu' = Main => v = Nil)
    <2>1. CASE wf.start = Nil
      <3>1. Await(Main, <<>>, "threw")
        BY <2>1 DEF Start
      <3>2. /\ <<>> \in Seq(Frames) /\ Chain(<<>>) /\ OneLoop(<<>>)
            /\ "threw" \in Returnable(<<>>)
        BY DEF Chain, OneLoop, Returnable, Outs
      <3> QED  BY <3>1, <3>2, TaskNames DEF Await
    <2>2. CASE wf.start # Nil
      <3> DEFINE f == Enter(wf.start, Nil)
      <3>1. Continue(Main, <<f>>)
        BY <2>2 DEF Start
      <3>2. f \in Frames /\ f.in = Nil /\ f.st = "visit"
        <4>1. wf.start \in Nodes(wf)
          BY <2>2, Follows DEF WellFormed
        <4> QED  BY <4>1, Framed DEF Enter, States
      <3> HIDE DEF f
      <3> QED  BY <3>1, <3>2, WalkOfOne DEF Continue
    <2> QED  BY <2>1, <2>2
  <1>3. /\ stack \in [Tasks -> Seq(Frames)] /\ ret \in [Tasks -> Values] /\ Main \in Tasks
        /\ stack'[Main] = s /\ ret'[Main] = v
        /\ \A u \in Tasks \ {Main} : stack'[u] = stack[u] /\ ret'[u] = ret[u]
    BY <1>2, TaskNames DEF IInv, Types
  <1>4. ~Forked(Main)
    BY <1>1 DEF Forked, In
  <1>5. \A u \in Tasks \ {Main} : stack'[u] = <<>> /\ ret'[u] = Nil
    BY <1>3, <1>4 DEF IInv, BranchesForked
  <1>6. Types'
    <2>1. stack' \in [Tasks -> Seq(Frames)] /\ ret' \in [Tasks -> Values]
      BY <1>2, <1>3 DEF Values
    <2> QED  BY <1>1, <1>2, <1>3, <2>1, SameWorkflow DEF IInv, Types, Nodes, history
  <1>7. TasksProper'
    <2>1. \A u \in Tasks : Chain(stack'[u]) /\ ret'[u] \in Returnable(stack'[u])
      BY <1>2, <1>3 DEF IInv, TasksProper
    <2> QED  BY <1>1, <2>1, SameWorkflow DEF TasksProper
  <1>8. MainIsNoBranch' /\ CpuClear'
    BY <1>2, <1>3, TaskNames DEF MainIsNoBranch, CpuClear, BranchResults, Nil
  <1>9. BranchesFlat' /\ LoneLoops'
    <2>1. ASSUME NEW u \in Tasks \ {Main}
          PROVE  /\ AllAvoid(stack'[u], "parallel")
                 /\ LoopsAlone(wf) => AllAvoid(stack'[u], "loop")
      BY <1>3 DEF IInv, BranchesFlat, LoneLoops
    <2>2. OneLoop(stack'[Main])
      BY <1>2, <1>3
    <2>3. wf' = wf
      BY <1>1
    <2> QED  BY <2>1, <2>2, <2>3, SameWorkflow DEF BranchesFlat, LoneLoops
  <1>10. BranchesForked'
    BY <1>5 DEF BranchesForked
  <1>11. Phases' /\ StopStands'
    BY <1>1, <1>2, <1>3 DEF IInv, Phases, StopStands, Terminal, Nil
  <1> QED  BY <1>6, <1>7, <1>8, <1>9, <1>10, <1>11 DEF IInv

LEMMA WalkEndsKeeps ==
  ASSUME IInv, WalkEnds
  PROVE  IInv'
  <1>1. /\ cpu = Nil /\ stack[Main] = <<>> /\ ret[Main] # Nil
        /\ ret' = [ret EXCEPT ![Main] = Nil]
        /\ UNCHANGED <<wf, status, stack, cpu, loopSignal, aborted, stop, history>>
    BY DEF WalkEnds
  <1>2. ret[Main] \in Outs
    BY <1>1, TaskNames DEF IInv, TasksProper, MainIsNoBranch, Returnable
  <1>3. final' \in Terminal /\ (final' = "cancelled" => Main \in aborted)
    BY <1>2 DEF WalkEnds, Outs, Terminal, IInv, StopStands
  <1>4. final = Nil /\ status \notin {"idle"} \cup Terminal
    BY <1>1 DEF IInv, Phases, Terminal, Nil
  <1>5. /\ ret \in [Tasks -> Values] /\ Main \in Tasks /\ ret'[Main] = Nil
        /\ \A u \in Tasks \ {Main} : ret'[u] = ret[u]
    BY <1>1, TaskNames DEF IInv, Types
  <1>6. Types'
    <2>1. ret' \in [Tasks -> Values]
      BY <1>1, <1>5 DEF Values
    <2> QED  BY <1>1, <1>3, <2>1, StacksStay DEF IInv, Types, history, Nodes
  <1>7. TasksProper'
    <2>1. \A u \in Tasks : ret'[u] \in Returnable(stack[u])
      BY <1>1, <1>5 DEF IInv, TasksProper, Returnable
    <2> QED  BY <1>1, <2>1, StacksStay
  <1>8. MainIsNoBranch' /\ CpuClear' /\ BranchesFlat' /\ LoneLoops'
    BY <1>1, <1>5, StacksStay DEF MainIsNoBranch, CpuClear, BranchResults, Nil
  <1>9. BranchesForked'
    <2>1. ~Forked(Main)
      BY <1>1 DEF Forked, In
    <2> QED  BY <1>1, <1>5, <2>1 DEF IInv, BranchesForked
  <1>10. Phases' /\ StopStands'
    BY <1>1, <1>3, <1>4, <1>5 DEF IInv, Phases, StopStands, Nil
  <1> QED  BY <1>6, <1>7, <1>8, <1>9, <1>10 DEF IInv

(* The clean-up, and the user's Stop: the walk stands still.               *)
LEMMA RunKeeps ==
  ASSUME IInv, SettleRun \/ AskStop \/ Stop
  PROVE  IInv'
  <1>1. UNCHANGED <<wf, final, stack, ret, cpu, loopSignal, history>>
    BY DEF SettleRun, AskStop, Stop
  <1>2. Types'
    <2>1. /\ aborted' \subseteq Tasks /\ stop' \in {"no", "asked", "inTime", "late"}
          /\ status' \in {"idle", "running"} \cup Terminal
      BY DEF SettleRun, AskStop, Stop, IInv, Types
    <2> QED  BY <1>1, <2>1, StacksStay DEF IInv, Types, history, Nodes
  <1>3. TasksProper' /\ MainIsNoBranch' /\ CpuClear' /\ BranchesFlat' /\ LoneLoops'
    BY <1>1, StacksStay DEF IInv, TasksProper, MainIsNoBranch, CpuClear, BranchResults
  <1>4. BranchesForked'
    BY <1>1, StacksStay DEF IInv, BranchesForked
  <1>5. Phases' /\ StopStands'
    <2>1. CASE SettleRun
      BY <1>1, <2>1 DEF SettleRun, IInv, Types, Phases, StopStands, Terminal, Nil
    <2>2. CASE AskStop
      BY <1>1, <2>2 DEF AskStop, IInv, Phases, StopStands
    <2>3. CASE Stop
      BY <1>1, <2>3 DEF Stop, IInv, Phases, StopStands
    <2> QED  BY <2>1, <2>2, <2>3
  <1> QED  BY <1>2, <1>3, <1>4, <1>5 DEF IInv

LEMMA Initially ==
  ASSUME EngineInit
  PROVE  IInv
  <1>1. Chain(<<>>) /\ Nil \in Returnable(<<>>) /\ OneLoop(<<>>)
        /\ \A c : AllAvoid(<<>>, c)
    BY DEF Chain, Returnable, OneLoop, AllAvoid
  <1>2. /\ \A t \in Tasks : stack[t] = <<>> /\ ret[t] = Nil
        /\ Main \in Tasks
    BY TaskNames DEF EngineInit
  <1>3. Types
    <2>1. stack \in [Tasks -> Seq(Frames)] /\ ret \in [Tasks -> Values]
      BY DEF EngineInit, Values
    <2> QED  BY <2>1 DEF EngineInit, Types
  <1>4. TasksProper /\ MainIsNoBranch /\ CpuClear
    BY <1>1, <1>2 DEF EngineInit, TasksProper, MainIsNoBranch, CpuClear, BranchResults, Nil
  <1>5. BranchesFlat /\ BranchesForked /\ LoneLoops
    BY <1>1, <1>2 DEF BranchesFlat, BranchesForked, LoneLoops
  <1>6. Phases /\ StopStands
    BY <1>2 DEF EngineInit, Phases, StopStands, Terminal, Nil
  <1> QED  BY <1>3, <1>4, <1>5, <1>6 DEF IInv

(* The steps of one walk, all of them.                                     *)
WalkStep(t) ==
  \/ VisitAborted(t) \/ VisitNode(t) \/ VisitSubworkflow(t) \/ VisitLoop(t)
  \/ VisitParallel(t) /\ Roots(t) = {}
  \/ Iterate(t) \/ BodyReturned(t) \/ LoopReturned(t)
  \/ ChildReturned(t) \/ ParallelReturned(t) \/ Loaded(t)
  \/ ExecutorReturns(t)

LEMMA WalkStepsAlone ==
  ASSUME IInv, NEW t \in Tasks, WalkStep(t)
  PROVE  StepsAlone(t)
  BY VisitAbortedSteps, VisitNodeSteps, VisitLoopSteps, VisitEmptyParallelSteps,
     IterateSteps, BodyReturnedSteps, LoopReturnedSteps, ChildReturnedSteps, LoadedSteps,
     EndReachedSteps, NodeReturnedSteps, BodyNodeReturnedSteps
     DEF WalkStep, ExecutorReturns

(* Who steps.                                                              *)
LEMMA StepForms ==
  ASSUME EngineNext
  PROVE  \/ Start \/ WalkEnds \/ SettleRun \/ AskStop \/ Stop
         \/ \E t \in Tasks : \/ VisitParallel(t) /\ Roots(t) # {}
                             \/ BranchEnds(t) \/ Record(t) \/ Join(t)
                             \/ WalkStep(t)
  BY DEF EngineNext, Microtask, Visit, WalkStep

LEMMA StepKeeps ==
  ASSUME IInv, [EngineNext]_engineVars
  PROVE  IInv'
  <1>1. CASE UNCHANGED engineVars
    <2>1. UNCHANGED <<wf, stack, ret>>
      BY <1>1 DEF engineVars
    <2> QED  BY <1>1, <2>1, StacksStay
              DEF engineVars, IInv, Types, TasksProper, MainIsNoBranch, CpuClear, BranchesForked,
                  Phases, StopStands, Nodes, BranchResults
  <1>2. CASE Start
    BY <1>2, StartKeeps
  <1>3. CASE WalkEnds
    BY <1>3, WalkEndsKeeps
  <1>4. CASE SettleRun \/ AskStop \/ Stop
    BY <1>4, RunKeeps
  <1>5. ASSUME NEW t \in Tasks, VisitParallel(t), Roots(t) # {}  PROVE IInv'
    BY <1>5, ForkKeeps
  <1>6. ASSUME NEW t \in Tasks, BranchEnds(t) \/ Record(t) \/ Join(t)  PROVE IInv'
    BY <1>6, BranchEndsKeeps, JoinKeeps
  <1>7. ASSUME NEW t \in Tasks, WalkStep(t)  PROVE IInv'
    BY <1>7, WalkStepsAlone, AloneKeeps
  <1> QED  BY <1>1, <1>2, <1>3, <1>4, <1>5, <1>6, <1>7, StepForms

(* The inductive invariant of the runs of every workflow.                  *)
THEOREM Invariance == EngineSpec => []IInv
  <1> QED  BY Initially, StepKeeps, PTL DEF EngineSpec

(* The engine's snapshot and the call stacks of its walks have their types. *)
THEOREM TypeCorrect == EngineSpec => []EngineTypeOK
  <1>1. ASSUME IInv  PROVE EngineTypeOK
    <2>1. ASSUME NEW t \in Tasks, NEW k \in 1 .. Len(stack[t])
          PROVE  stack[t][k] \in Frames
      BY <1>1, <2>1 DEF IInv, Types
    <2> QED  BY <1>1, <2>1 DEF IInv, Types, EngineTypeOK, Frames, States, Nodes
  <1> QED  BY <1>1, Invariance, PTL

(* Once the walk of a run has ended, and start() removes its worktrees, no *)
(* node of any branch is in progress.                                      *)
THEOREM QuietAtCleanup == EngineSpec => []NothingRunsAtCleanup
  <1>1. ASSUME IInv  PROVE NothingRunsAtCleanup
    <2>1. ASSUME final # Nil, NEW t \in Tasks  PROVE stack[t] = <<>>
      <3>1. stack[Main] = <<>>
        BY <1>1, <2>1 DEF IInv, Phases
      <3>2. ~Forked(Main)
        BY <3>1 DEF Forked, In
      <3> QED  BY <1>1, <3>1, <3>2 DEF IInv, BranchesForked
    <2> QED  BY <2>1 DEF NothingRunsAtCleanup
  <1> QED  BY <1>1, Invariance, PTL

(* A run ends as cancelled only when its user stopped it.                  *)
THEOREM CancelledByStop == EngineSpec => []OnlyStopCancels
  <1>1. IInv => OnlyStopCancels
    BY DEF IInv, StopStands, OnlyStopCancels
  <1> QED  BY <1>1, Invariance, PTL

-----------------------------------------------------------------------------
(* Loops, when no two are in progress at once                              *)

LEMMA FrontOfOne == Front(<<>>) = <<>> /\ \A f : Front(<<f>>) = <<>>
  <1>1. Front(<<>>) = <<>>
    BY SubSeqEmpty DEF Front
  <1>2. ASSUME NEW f  PROVE Front(<<f>>) = <<>>
    <2>1. Len(<<f>>) = 1
      OBVIOUS
    <2>2. SubSeq(<<f>>, 1, 0) = <<>>
      BY SubSeqEmpty
    <2> QED  BY <2>1, <2>2 DEF Front
  <1> QED  BY <1>1, <1>2

LEMMA LoopsOf ==
  ASSUME NEW s \in Seq(Frames)
  PROVE  /\ HasLoop(Front(s)) => HasLoop(s)
         /\ s # <<>> /\ Last(s).st = "loop" => HasLoop(s)
         /\ \A f \in Frames : HasLoop(Append(s, f)) => HasLoop(s) \/ f.st = "loop"
  <1>1. CASE s = <<>>
    <2>1. Front(s) = <<>>
      BY <1>1, SubSeqEmpty DEF Front
    <2>2. ~HasLoop(<<>>)
      BY DEF HasLoop
    <2>3. ASSUME NEW f \in Frames, HasLoop(Append(s, f))  PROVE f.st = "loop"
      BY <1>1, <2>3 DEF HasLoop
    <2> QED  BY <1>1, <2>1, <2>2, <2>3
  <1>2. CASE s # <<>>
    <2>1. /\ Len(s) \in Nat \ {0} /\ Len(Front(s)) = Len(s) - 1
          /\ \A k \in 1 .. Len(s) - 1 : Front(s)[k] = s[k]
          /\ Last(s) = s[Len(s)]
      BY <1>2, Lowered
    <2>2. HasLoop(Front(s)) => HasLoop(s)
      BY <2>1 DEF HasLoop
    <2>3. Last(s).st = "loop" => HasLoop(s)
      BY <2>1 DEF HasLoop
    <2>4. ASSUME NEW f \in Frames, HasLoop(Append(s, f))  PROVE HasLoop(s) \/ f.st = "loop"
      <3> DEFINE r == Append(s, f)
      <3>1. /\ Len(r) = Len(s) + 1 /\ r[Len(s) + 1] = f
            /\ \A k \in 1 .. Len(s) : r[k] = s[k]
        BY Raised
      <3> HIDE DEF r
      <3>2. PICK k \in 1 .. Len(r) : r[k].st = "loop"
        BY <2>4 DEF HasLoop, r
      <3>3. k \in 1 .. Len(s) \/ k = Len(s) + 1
        BY <2>1, <3>1
      <3> QED  BY <3>1, <3>2, <3>3 DEF HasLoop
    <2> QED  BY <2>2, <2>3, <2>4
  <1> QED  BY <1>1, <1>2

(* The loop that a walk is in the body of waits below it.                  *)
LEMMA BodyOfLoop ==
  ASSUME IInv, NEW t \in Tasks, stack[t] # <<>>, Top(t).in # Nil
  PROVE  /\ Below(t) # <<>> /\ Below(t) \in Seq(Frames) /\ Chain(Below(t))
         /\ Last(Below(t)).st = "loop" /\ Last(Below(t)).at = Top(t).in
  <1>1. stack[t] \in Seq(Frames) /\ Chain(stack[t])
    BY DEF IInv, Types, TasksProper
  <1>2. /\ Len(stack[t]) \in Nat \ {0} /\ Top(t) = stack[t][Len(stack[t])]
        /\ (Len(stack[t]) = 1 <=> Below(t) = <<>>)
        /\ (Len(stack[t]) > 1 => Last(Below(t)) = stack[t][Len(stack[t]) - 1])
        /\ Below(t) \in Seq(Frames)
    BY <1>1, Lowered DEF Top, Below
  <1>3. Len(stack[t]) > 1
    BY <1>1, <1>2 DEF Chain, Lowest
  <1>4. OnTop(Last(Below(t)), Top(t))
    BY <1>1, <1>2, <1>3 DEF Chain
  <1>5. Chain(Below(t))
    BY <1>1, PopChain DEF Below
  <1> QED  BY <1>2, <1>3, <1>4, <1>5 DEF OnTop

LEMMA AloneInBody ==
  ASSUME NEW s \in Seq(Frames), s # <<>>, Chain(s), OneLoop(s), Last(s).st = "loop"
  PROVE  ~HasLoop(Front(s))
  <1>1. wf.kind[Last(s).at] = "loop"
    BY ChainTop DEF Proper
  <1>2. HasLoop(Front(s)) => Avoids(wf, {Last(s).at}, "loop")
    BY OneLoopPop DEF HasLoop
  <1> QED  BY <1>1, <1>2, AvoidsOn

(* A branch is in no loop.                                                 *)
LEMMA NoLoopInBranch ==
  ASSUME IInv, LoopsAlone(wf), NEW t \in Tasks \ {Main}, stack[t] # <<>>
  PROVE  Top(t).st # "loop" /\ Top(t).in = Nil
  <1>1. /\ stack[t] \in Seq(Frames) /\ Chain(stack[t]) /\ AllAvoid(stack[t], "loop")
    BY DEF IInv, Types, TasksProper, LoneLoops
  <1>2. Avoids(wf, {Top(t).at}, "loop") /\ AllAvoid(Below(t), "loop")
    BY <1>1, AvoidPop DEF Top, Below
  <1>3. Top(t).st # "loop"
    <2>1. Proper(Top(t))
      BY <1>1, ChainTop DEF Top
    <2> QED  BY <1>2, <2>1, AvoidsOn DEF Proper
  <1>4. ASSUME Top(t).in # Nil  PROVE FALSE
    <2>1. /\ Below(t) # <<>> /\ Below(t) \in Seq(Frames) /\ Chain(Below(t))
          /\ Last(Below(t)).st = "loop"
      BY <1>4, BodyOfLoop
    <2>2. Avoids(wf, {Last(Below(t)).at}, "loop")
      BY <1>2, <2>1, AvoidPop
    <2> QED  BY <2>1, <2>2, ChainTop, AvoidsOn DEF Proper
  <1> QED  BY <1>3, <1>4

(* The steps of a branch concern no loop, and no error of the run's walk.  *)
LEMMA BranchLeaves ==
  ASSUME IInv, NEW t \in Tasks \ {Main}, NEW h, NEW v, LeaveBy(t, h, v)
  PROVE  unhandled' = unhandled
  <1>1. ~OwnWalk(t)
    BY DEF OwnWalk
  <1>2. unhandled' = (unhandled \/ FALSE)
    BY <1>1 DEF LeaveBy, NoteError
  <1>3. unhandled \in BOOLEAN
    BY DEF IInv, Types
  <1> QED  BY <1>2, <1>3

LEMMA BranchSilent ==
  ASSUME IInv, LoopsAlone(wf), NEW t \in Tasks \ {Main}, WalkStep(t)
  PROVE  UNCHANGED <<loopSignal, unhandled, broke>>
  <1>1. stack[t] # <<>>
    BY DEF WalkStep, ExecutorReturns, VisitAborted, VisitNode, VisitSubworkflow, VisitLoop,
           VisitParallel, Visiting, Iterate, BodyReturned, LoopReturned, ChildReturned,
           ParallelReturned, Loaded, EndReached, NodeReturned, BodyNodeReturned, NodeThrew,
           Returned, In
  <1>2. ~Iterate(t) /\ ~BodyReturned(t) /\ ~BodyNodeReturned(t)
    BY <1>1, NoLoopInBranch DEF Iterate, BodyReturned, BodyNodeReturned, In
  <1>3. CASE \/ VisitAborted(t) \/ VisitNode(t) \/ VisitSubworkflow(t) \/ VisitLoop(t)
             \/ VisitParallel(t) \/ EndReached(t) \/ NodeThrew(t)
    BY <1>3 DEF VisitAborted, VisitNode, VisitSubworkflow, VisitLoop, VisitParallel,
                EndReached, NodeThrew, history
  <1>4. CASE \/ LoopReturned(t) \/ ChildReturned(t) \/ ParallelReturned(t) \/ Loaded(t)
             \/ NodeReturned(t)
    <2>1. loopSignal' = loopSignal /\ broke' = broke
      BY <1>4 DEF LoopReturned, ChildReturned, ParallelReturned, Loaded, NodeReturned
    <2>2. (\E h, v : LeaveBy(t, h, v)) \/ UNCHANGED unhandled
      BY <1>4 DEF LoopReturned, ChildReturned, ParallelReturned, Loaded, NodeReturned
    <2> QED  BY <2>1, <2>2, BranchLeaves
  <1> QED  BY <1>2, <1>3, <1>4 DEF WalkStep, ExecutorReturns

(* The run's walk: a step that leaves the signal and the record of breaks. *)
LEMMA SignalStays ==
  ASSUME IInv, LInv, LoopsAlone(wf), stack[Main] # <<>>, StepsAlone(Main),
         UNCHANGED <<loopSignal, broke>>,
         Top(Main).st = "loop" => stack'[Main] \in {Below(Main), stack[Main]}
  PROVE  SignalFresh' /\ BreakNoted'
  <1>1. PICK s, v : Steps(Main, s, v)
    BY DEF StepsAlone
  <1>2. stack'[Main] = s /\ ret'[Main] = v /\ Shape(Main, s, v) /\ s \in Seq(Frames)
    BY <1>1, TaskNames DEF Steps, Carries, IInv, Types
  <1>3. /\ stack[Main] \in Seq(Frames) /\ Below(Main) \in Seq(Frames)
        /\ Len(Below(Main)) + 1 = Len(stack[Main]) /\ Len(Below(Main)) \in Nat
    <2>1. stack[Main] \in Seq(Frames)
      BY TaskNames DEF IInv, Types
    <2> QED  BY <2>1, Lowered DEF Below
  <1>4. HasLoop(Below(Main)) => loopSignal = Nil
    BY DEF LInv, SignalFresh
  <1>5. SUFFICES /\ HasLoop(Front(s)) => HasLoop(Below(Main))
                 /\ s # <<>> /\ Last(s).st = "loop" /\ v # Nil => HasLoop(Below(Main))
    <2>1. (SignalFresh)' <=> (HasLoop(Front(s)) => loopSignal' = Nil)
      BY <1>2 DEF SignalFresh, Below, HasLoop
    <2>2. /\ HasLoop(Front(s)) => loopSignal = Nil
          /\ s # <<>> /\ Last(s).st = "loop" /\ v # Nil => loopSignal = Nil
      BY <1>4, <1>5
    <2>3. SignalFresh'
      BY <2>1, <2>2
    <2>4. BreakNoted'
      BY <1>2, <2>2 DEF BreakNoted, In, Top, Nil
    <2> QED  BY <2>3, <2>4
  <1>6. CASE s = Below(Main)
    BY <1>3, <1>6, LoopsOf
  <1>7. ASSUME NEW f \in Frames, s = Append(Below(Main), f), v # Nil => f.st # "loop"
        PROVE  /\ HasLoop(Front(s)) => HasLoop(Below(Main))
               /\ s # <<>> /\ Last(s).st = "loop" /\ v # Nil => HasLoop(Below(Main))
    <2>1. Front(s) = Below(Main) /\ Last(s) = f
      BY <1>3, <1>7, Raised
    <2> QED  BY <1>7, <2>1
  <1>8. ASSUME NEW f \in Frames, NEW g \in Frames, v = Nil,
               s = Append(Append(Below(Main), f), g), f.st = "loop" => Top(Main).st = "loop"
        PROVE  /\ HasLoop(Front(s)) => HasLoop(Below(Main))
               /\ s # <<>> /\ Last(s).st = "loop" /\ v # Nil => HasLoop(Below(Main))
    <2> DEFINE r == Append(Below(Main), f)
    <2>1. r \in Seq(Frames) /\ Len(r) = Len(stack[Main])
      BY <1>3, Raised
    <2>2. (HasLoop(r) => HasLoop(Below(Main)) \/ f.st = "loop")
      BY <1>3, LoopsOf
    <2>3. s = Append(r, g)
      BY <1>8
    <2> HIDE DEF r
    <2>4. Front(s) = r /\ Len(s) = Len(stack[Main]) + 1
      BY <1>3, <2>1, <2>3, Raised
    <2>5. s \notin {Below(Main), stack[Main]}
      BY <1>3, <2>4
    <2>6. f.st # "loop"
      BY <1>2, <1>8, <2>5
    <2> QED  BY <1>8, <2>2, <2>4, <2>6
  <1>9. CASE \E f \in Frames : s = Append(Below(Main), f) /\ (v # Nil => f.st # "loop")
    <2>1. PICK f \in Frames : s = Append(Below(Main), f) /\ (v # Nil => f.st # "loop")
      BY <1>9
    <2> QED  BY <1>7, <2>1
  <1>10. CASE \E f, g \in Frames :
                /\ s = Append(Append(Below(Main), f), g) /\ v = Nil
                /\ f.st = "loop" => Top(Main).st = "loop"
    <2>1. PICK f \in Frames, g \in Frames :
            /\ s = Append(Append(Below(Main), f), g) /\ v = Nil
            /\ f.st = "loop" => Top(Main).st = "loop"
      BY <1>10
    <2> QED  BY <1>8, <2>1
  <1> QED  BY <1>2, <1>6, <1>9, <1>10 DEF Shape

(* An error of the run's own walk has not gone unhandled yet.              *)
LEMMA NoErrorYet ==
  ASSUME IInv, LInv, LoopsAlone(wf), stack[Main] # <<>>,
         ret[Main] = Nil \/ ~IsA(Main, "loop")
  PROVE  unhandled = FALSE
  <1>1. SUFFICES ASSUME unhandled  PROVE FALSE
    BY DEF IInv, Types
  <1>2. final = Nil
    BY DEF IInv, Phases
  <1>3. ret[Main] = "failed" /\ Outward(stack[Main])
    BY <1>1, <1>2 DEF LInv, ErrorStands, Nil
  <1>4. stack[Main] \in Seq(Frames)
    BY TaskNames DEF IInv, Types
  <1>5. Len(stack[Main]) \in Nat \ {0} /\ Top(Main) = stack[Main][Len(stack[Main])]
    BY <1>4, Lowered DEF Top
  <1>6. IsA(Main, "loop")
    BY <1>3, <1>5 DEF Outward, IsA
  <1> QED  BY <1>3, <1>6 DEF Nil

LEMMA NoNewError ==
  ASSUME IInv, unhandled = FALSE, UNCHANGED unhandled
  PROVE  ErrorStands'
  BY DEF ErrorStands

LEMMA OutwardPops ==
  ASSUME IInv, stack[Main] # <<>>, Outward(stack[Main]), wf' = wf,
         stack'[Main] = Below(Main)
  PROVE  Outward(stack[Main])'
  <1>1. stack[Main] \in Seq(Frames)
    BY TaskNames DEF IInv, Types
  <1>2. /\ Len(Below(Main)) = Len(stack[Main]) - 1 /\ Len(stack[Main]) \in Nat \ {0}
        /\ \A k \in 1 .. Len(stack[Main]) - 1 : Below(Main)[k] = stack[Main][k]
    BY <1>1, Lowered DEF Below
  <1> QED  BY <1>2 DEF Outward

(* The run's walk leaves a node, by an error or not.                       *)
LEMMA ErrorLeaves ==
  ASSUME IInv, LInv, LoopsAlone(wf), stack[Main] # <<>>, unhandled = FALSE,
         UNCHANGED <<wf, final>>, NEW h, NEW v, h = "error" => v = "failed",
         LeaveBy(Main, h, v), h = "error" => loopSignal' = loopSignal
  PROVE  ErrorStands'
  <1>1. SUFFICES ASSUME unhandled'  PROVE ErrorStands'
    BY DEF ErrorStands
  <1>2. h = "error" /\ Follow(Top(Main).at, h) = {} /\ OwnWalk(Main)
    BY <1>1 DEF LeaveBy, NoteError
  <1>3. Await(Main, Below(Main), "failed")
    BY <1>2 DEF LeaveBy
  <1>4. stack'[Main] = Below(Main) /\ ret'[Main] = "failed" /\ final' = Nil
    BY <1>3, TaskNames DEF Await, IInv, Types, Phases
  <1>5. stack[Main] \in Seq(Frames) /\ Chain(stack[Main])
    BY TaskNames DEF IInv, Types, TasksProper
  <1>6. /\ Len(stack[Main]) \in Nat \ {0} /\ Len(Below(Main)) = Len(stack[Main]) - 1
        /\ \A k \in 1 .. Len(stack[Main]) - 1 : Below(Main)[k] = stack[Main][k]
        /\ Below(Main) \in Seq(Frames)
    BY <1>5, Lowered DEF Below
  <1>7. ASSUME NEW k \in 1 .. Len(Below(Main))
        PROVE  /\ Below(Main)[k].st \in {"inside", "loop"}
               /\ wf.kind[Below(Main)[k].at] = "loop"
    <2>1. /\ k \in 1 .. Len(stack[Main]) /\ k + 1 \in 1 .. Len(stack[Main]) /\ k + 1 # 1
          /\ Below(Main)[k] = stack[Main][k] /\ k + 1 - 1 = k
      BY <1>6
    <2>2. Proper(stack[Main][k]) /\ OnTop(stack[Main][k], stack[Main][k + 1])
      BY <1>5, <2>1 DEF Chain
    <2>3. wf.kind[stack[Main][k].at] # "sub"
      BY <1>2, <1>6, <2>1 DEF OwnWalk
    <2> QED  BY <2>1, <2>2, <2>3 DEF OnTop, Proper
  <1>8. Outward(stack[Main])'
    BY <1>4, <1>7 DEF Outward
  <1>9. HasLoop(Below(Main)) => loopSignal' = Nil
    BY <1>2 DEF LInv, SignalFresh
  <1>10. HasLoop(stack[Main])' => loopSignal' = Nil
    BY <1>4, <1>9 DEF HasLoop
  <1> QED  BY <1>4, <1>8, <1>10 DEF ErrorStands

LEMMA QuietSteps ==
  ASSUME IInv, LInv, LoopsAlone(wf),
         \/ VisitAborted(Main) \/ VisitNode(Main) \/ VisitSubworkflow(Main) \/ VisitLoop(Main)
         \/ (VisitParallel(Main) /\ Roots(Main) = {}) \/ EndReached(Main) \/ NodeThrew(Main)
  PROVE  SignalFresh' /\ ErrorStands' /\ BreakNoted'
  <1>1. /\ stack[Main] # <<>> /\ Top(Main).st \in {"visit", "exec"}
        /\ UNCHANGED <<loopSignal, history>>
    BY DEF VisitAborted, VisitNode, VisitSubworkflow, VisitLoop, VisitParallel, EndReached,
           NodeThrew, Visiting, Returned, In
  <1>2. ret[Main] = Nil
    BY <1>1, TaskNames, TopIs
  <1>3. StepsAlone(Main)
    BY TaskNames, WalkStepsAlone DEF WalkStep, ExecutorReturns
  <1>4. SignalFresh' /\ BreakNoted'
    BY <1>1, <1>3, SignalStays DEF history
  <1>5. ErrorStands'
    BY <1>1, <1>2, NoErrorYet, NoNewError DEF history
  <1> QED  BY <1>4, <1>5

LEMMA IterateLoops ==
  ASSUME IInv, LInv, LoopsAlone(wf), Iterate(Main)
  PROVE  SignalFresh' /\ ErrorStands' /\ BreakNoted'
  <1>1. stack[Main] # <<>> /\ cpu = Main /\ UNCHANGED unhandled
    BY DEF Iterate, In
  <1>2. ret[Main] = Nil
    BY <1>1, TaskNames DEF IInv, CpuClear
  <1>3. ErrorStands'
    BY <1>1, <1>2, NoErrorYet, NoNewError
  <1>4. CASE IterateNot(Main)
    <2>1. stack'[Main] = Below(Main) /\ UNCHANGED <<loopSignal, broke>>
      BY <1>4, TaskNames DEF IterateNot, Await, IInv, Types
    <2>2. StepsAlone(Main)
      BY TaskNames, IterateSteps
    <2> QED  BY <1>1, <1>3, <2>1, <2>2, SignalStays
  <1>5. CASE IterateOnce(Main)
    <2>1. loopSignal' = Nil
      BY <1>5 DEF IterateOnce, ResetLoopSignal
    <2> QED  BY <1>3, <2>1 DEF SignalFresh, BreakNoted, Nil
  <1> QED  BY <1>4, <1>5 DEF Iterate

(* An unhandled error leaves the loop whose body it ends, and its node.    *)
LEMMA LoopEnds ==
  ASSUME IInv, LInv, LoopsAlone(wf), BodyReturned(Main)
  PROVE  SignalFresh' /\ ErrorStands' /\ BreakNoted'
  <1>1. /\ stack[Main] # <<>> /\ Top(Main).st = "loop" /\ ret[Main] # Nil
        /\ UNCHANGED <<runVars, loopSignal, history>>
    BY DEF BodyReturned, In
  <1>2. stack \in [Tasks -> Seq(Frames)] /\ Main \in Tasks /\ ret \in [Tasks -> Values]
    BY TaskNames DEF IInv, Types
  <1>3. stack'[Main] \in {Below(Main), stack[Main]}
    BY <1>1, <1>2 DEF BodyReturned, Await, Continue, IInv, Types
  <1>4. StepsAlone(Main)
    BY <1>2, BodyReturnedSteps
  <1>5. SignalFresh' /\ BreakNoted'
    BY <1>1, <1>3, <1>4, SignalStays DEF history
  <1>6. ErrorStands'
    <2>1. CASE unhandled = FALSE
      BY <1>1, <2>1, NoNewError DEF history
    <2>2. CASE unhandled = TRUE
      <3>1. final = Nil
        BY <1>1 DEF IInv, Phases
      <3>2. /\ ret[Main] = "failed" /\ Outward(stack[Main])
            /\ HasLoop(stack[Main]) => loopSignal = Nil
        BY <2>2, <3>1 DEF LInv, ErrorStands, Nil
      <3>3. loopSignal = Nil
        BY <1>1, <1>2, <3>2, LoopsOf DEF Top
      <3>4. Await(Main, Below(Main), "failed")
        BY <1>1, <3>2, <3>3 DEF BodyReturned, Nil
      <3>5. stack'[Main] = Below(Main) /\ ret'[Main] = "failed"
        BY <1>2, <3>4 DEF Await
      <3> QED  BY <1>1, <1>2, <3>1, <3>2, <3>3, <3>5, OutwardPops
                DEF ErrorStands, runVars, HasLoop
    <2> QED  BY <2>1, <2>2 DEF IInv, Types
  <1> QED  BY <1>5, <1>6

LEMMA LoopNodeEnds ==
  ASSUME IInv, LInv, LoopsAlone(wf), LoopReturned(Main)
  PROVE  SignalFresh' /\ ErrorStands' /\ BreakNoted'
  <1>1. /\ stack[Main] # <<>> /\ Top(Main).st = "inside" /\ ret[Main] # Nil
        /\ UNCHANGED <<runVars, loopSignal, aborted, broke>>
    BY DEF LoopReturned, In
  <1>2. stack \in [Tasks -> Seq(Frames)] /\ Main \in Tasks /\ ret \in [Tasks -> Values]
    BY TaskNames DEF IInv, Types
  <1>3. SignalFresh' /\ BreakNoted'
    BY <1>1, <1>2, LoopReturnedSteps, SignalStays
  <1>4. ErrorStands'
    <2>1. CASE unhandled = FALSE /\ LeaveBy(Main, "next", "succeeded")
      BY <1>1, <2>1, ErrorLeaves DEF runVars
    <2>2. CASE unhandled = FALSE /\ UNCHANGED unhandled
      BY <2>2, NoNewError
    <2>3. CASE unhandled = TRUE
      <3>1. final = Nil
        BY <1>1 DEF IInv, Phases
      <3>2. /\ ret[Main] = "failed" /\ Outward(stack[Main])
            /\ HasLoop(stack[Main]) => loopSignal = Nil
        BY <2>3, <3>1 DEF LInv, ErrorStands, Nil
      <3>3. Await(Main, Below(Main), "failed")
        BY <3>2 DEF LoopReturned
      <3>4. stack'[Main] = Below(Main) /\ ret'[Main] = "failed"
        BY <1>2, <3>3 DEF Await
      <3>5. HasLoop(Below(Main)) => loopSignal = Nil
        BY <1>2, <3>2, LoopsOf DEF Below
      <3> QED  BY <1>1, <1>2, <3>1, <3>2, <3>4, <3>5, OutwardPops
                DEF ErrorStands, runVars, HasLoop
    <2> QED  BY <2>1, <2>2, <2>3 DEF LoopReturned, IInv, Types
  <1> QED  BY <1>3, <1>4

LEMMA NodeEnds ==
  ASSUME IInv, LInv, LoopsAlone(wf),
         NodeReturned(Main) \/ ChildReturned(Main) \/ ParallelReturned(Main) \/ Loaded(Main)
  PROVE  SignalFresh' /\ ErrorStands' /\ BreakNoted'
  <1>1. /\ stack[Main] # <<>> /\ Top(Main).st # "loop"
        /\ UNCHANGED <<runVars, loopSignal, aborted, broke>>
        /\ \/ Top(Main).st \in {"exec", "load"}
           \/ Top(Main).st = "inside" /\ ~IsA(Main, "loop")
    BY DEF NodeReturned, ChildReturned, ParallelReturned, Loaded, Returned, In, IsA
  <1>2. StepsAlone(Main)
    BY TaskNames, WalkStepsAlone DEF WalkStep, ExecutorReturns
  <1>3. SignalFresh' /\ BreakNoted'
    BY <1>1, <1>2, SignalStays
  <1>4. unhandled = FALSE
    BY <1>1, TaskNames, TopIs, NoErrorYet
  <1>5. \/ \E h, v : LeaveBy(Main, h, v) /\ (h = "error" => v = "failed")
        \/ UNCHANGED unhandled
    <2>1. CASE NodeReturned(Main)
      BY <2>1 DEF NodeReturned, Unwired
    <2>2. CASE ChildReturned(Main)
      BY <2>2 DEF ChildReturned
    <2>3. CASE ParallelReturned(Main)
      BY <2>3 DEF ParallelReturned, Unwired
    <2>4. CASE Loaded(Main)
      BY <2>4 DEF Loaded
    <2> QED  BY <2>1, <2>2, <2>3, <2>4
  <1>6. ErrorStands'
    BY <1>1, <1>4, <1>5, ErrorLeaves, NoNewError DEF runVars
  <1> QED  BY <1>3, <1>6

(* A break comes from a condition in the body of the loop it ends.         *)
LEMMA BodyNodeEnds ==
  ASSUME IInv, LInv, LoopsAlone(wf), BodyNodeReturned(Main)
  PROVE  SignalFresh' /\ ErrorStands' /\ BreakNoted'
  <1>1. /\ stack[Main] # <<>> /\ Top(Main).st = "exec" /\ Top(Main).in # Nil
        /\ ret[Main] = Nil /\ UNCHANGED <<runVars, aborted>>
    BY DEF BodyNodeReturned, Returned, In
  <1>2. stack \in [Tasks -> Seq(Frames)] /\ Main \in Tasks /\ ret \in [Tasks -> Values]
    BY TaskNames DEF IInv, Types
  <1>3. StepsAlone(Main)
    BY <1>2, BodyNodeReturnedSteps
  <1>4. unhandled = FALSE
    BY <1>1, NoErrorYet
  <1>5. /\ Below(Main) # <<>> /\ Last(Below(Main)).at = Top(Main).in
        /\ ~HasLoop(Front(Below(Main)))
    <2>1. /\ Below(Main) # <<>> /\ Below(Main) \in Seq(Frames) /\ Chain(Below(Main))
          /\ Last(Below(Main)).st = "loop" /\ Last(Below(Main)).at = Top(Main).in
      BY <1>1, <1>2, BodyOfLoop
    <2>2. OneLoop(Below(Main))
      BY <1>1, <1>2, OneLoopPop DEF IInv, LoneLoops, Below
    <2> QED  BY <2>1, <2>2, AloneInBody
  <1>6. PICK h \in Handles(wf.kind[Top(Main).at]) :
          \/ /\ h \in {"met", "not_met"}
             /\ loopSignal' = IF h = "met" THEN "break" ELSE "continue"
             /\ broke' = IF h = "met" THEN broke \cup {Top(Main).in} ELSE broke
             /\ Await(Main, Below(Main), "succeeded")
             /\ UNCHANGED unhandled
          \/ /\ h \in {"next", "error"}
             /\ loopSignal' = IF h = "next" /\ Follow(Top(Main).at, h) = {} THEN "continue"
                              ELSE loopSignal
             /\ LeaveBy(Main, h, Unwired(h))
             /\ UNCHANGED broke
    BY DEF BodyNodeReturned
  <1>7. ASSUME stack'[Main] = Below(Main), loopSignal' = "break" => Top(Main).in \in broke'
        PROVE  SignalFresh' /\ BreakNoted'
    <2>1. ~HasLoop(Below(Main))'
      BY <1>5, <1>7 DEF Below, HasLoop
    <2>2. Top(Main)'.at = Top(Main).in
      BY <1>5, <1>7 DEF Top
    <2> QED  BY <1>7, <2>1, <2>2 DEF SignalFresh, BreakNoted
  <1>8. CASE h \in {"met", "not_met"}
    <2>1. stack'[Main] = Below(Main) /\ UNCHANGED unhandled
      BY <1>2, <1>6, <1>8 DEF Await
    <2>2. loopSignal' = "break" => Top(Main).in \in broke'
      BY <1>6, <1>8
    <2> QED  BY <1>4, <1>7, <2>1, <2>2, NoNewError
  <1>9. CASE h \in {"next", "error"}
    <2>1. LeaveBy(Main, h, Unwired(h)) /\ UNCHANGED broke
      BY <1>6, <1>9
    <2>2. ErrorStands'
      BY <1>1, <1>4, <1>6, <1>9, <2>1, ErrorLeaves DEF Unwired, runVars
    <2>3. CASE h = "next" /\ Follow(Top(Main).at, h) = {}
      <3>1. stack'[Main] = Below(Main) /\ loopSignal' = "continue"
        BY <1>2, <1>6, <1>9, <2>1, <2>3 DEF LeaveBy, Await
      <3> QED  BY <1>7, <2>2, <3>1
    <2>4. CASE ~(h = "next" /\ Follow(Top(Main).at, h) = {})
      <3>1. loopSignal' = loopSignal
        BY <1>6, <1>9, <2>4
      <3> QED  BY <1>1, <1>3, <2>1, <2>2, <3>1, SignalStays
    <2> QED  BY <2>3, <2>4
  <1> QED  BY <1>6, <1>8, <1>9

LEMMA MainSteps ==
  ASSUME IInv, LInv, LoopsAlone(wf), WalkStep(Main)
  PROVE  SignalFresh' /\ ErrorStands' /\ BreakNoted'
  BY QuietSteps, IterateLoops, LoopEnds, LoopNodeEnds, NodeEnds, BodyNodeEnds
     DEF WalkStep, ExecutorReturns

(* A step that leaves the run's walk as it is.                             *)
LEMMA MainStands ==
  ASSUME LInv, LoopsAlone(wf), wf' = wf, stack'[Main] = stack[Main], ret'[Main] = ret[Main],
         UNCHANGED <<final, loopSignal, unhandled, broke>>
  PROVE  SignalFresh' /\ ErrorStands' /\ BreakNoted'
  <1>1. SignalFresh /\ ErrorStands /\ BreakNoted
    BY DEF LInv
  <1>2. SignalFresh'
    BY <1>1 DEF SignalFresh, Below, HasLoop
  <1>3. ErrorStands'
    BY <1>1 DEF ErrorStands, Outward, HasLoop
  <1>4. BreakNoted'
    BY <1>1 DEF BreakNoted, In, Top
  <1> QED  BY <1>2, <1>3, <1>4

LEMMA LoopStepKeeps ==
  ASSUME IInv, LInv, LoopsAlone(wf), [EngineNext]_engineVars
  PROVE  SignalFresh' /\ ErrorStands' /\ BreakNoted'
  <1>1. CASE UNCHANGED engineVars
    BY <1>1, MainStands DEF engineVars
  <1>2. CASE Start
    <2>1. unhandled = FALSE /\ UNCHANGED <<loopSignal, history>>
      BY <1>2 DEF Start, IInv, Types, Phases, LInv, ErrorStands, Nil
    <2>2. ErrorStands'
      BY <2>1, NoNewError DEF history
    <2>3. /\ Main \in Tasks /\ stack \in [Tasks -> Seq(Frames)] /\ ret \in [Tasks -> Values]
      BY TaskNames DEF IInv, Types
    <2>4. stack'[Main] = <<>> \/ (ret'[Main] = Nil /\ stack'[Main] = <<Enter(wf.start, Nil)>>)
      BY <1>2, <2>3 DEF Start, Await, Continue
    <2>5. Front(stack'[Main]) = <<>>
      BY <2>4, FrontOfOne
    <2>6. SignalFresh' /\ BreakNoted'
      BY <2>4, <2>5 DEF SignalFresh, BreakNoted, Below, HasLoop, In
    <2> QED  BY <2>2, <2>6
  <1>3. CASE WalkEnds
    <2>1. /\ stack[Main] = <<>> /\ ret'[Main] = Nil /\ ret[Main] # Nil
          /\ UNCHANGED <<wf, stack, loopSignal, history>>
      BY <1>3, TaskNames DEF WalkEnds, IInv, Types
    <2>2. SignalFresh' /\ BreakNoted'
      BY <2>1 DEF LInv, SignalFresh, BreakNoted, Below, HasLoop
    <2>3. ErrorStands'
      <3>1. final = Nil
        BY <2>1 DEF IInv, Phases
      <3>2. unhandled => ret[Main] = "failed"
        BY <3>1 DEF LInv, ErrorStands, Nil
      <3> QED  BY <1>3, <2>1, <3>2 DEF WalkEnds, ErrorStands, history
    <2> QED  BY <2>2, <2>3
  <1>4. CASE SettleRun \/ AskStop \/ Stop
    <2>1. UNCHANGED <<wf, final, stack, ret, loopSignal, history>>
      BY <1>4 DEF SettleRun, AskStop, Stop
    <2> QED  BY <2>1, MainStands DEF history
  <1>5. ASSUME NEW t \in Tasks, VisitParallel(t), Roots(t) # {}
        PROVE  SignalFresh' /\ ErrorStands' /\ BreakNoted'
    <2>1. /\ stack[t] # <<>> /\ Top(t).st = "visit" /\ IsA(t, "parallel")
          /\ UNCHANGED <<runVars, loopSignal, history, ret>>
      BY <1>5 DEF VisitParallel, Visiting, In
    <2>2. t = Main
      BY <2>1, OnlyMainForks
    <2>3. unhandled = FALSE /\ ret[Main] = Nil
      BY <2>1, <2>2, TopIs, NoErrorYet
    <2>4. ErrorStands'
      BY <2>1, <2>3, NoNewError DEF history
    <2>5. stack'[Main] = Append(Below(Main), Inside(Top(Main)))
      <3>1. Main \notin Roots(Main)
        <4>1. Top(Main).at \in Nodes(wf) /\ wf.kind[Top(Main).at] = "parallel"
          BY <2>1, <2>2, TopIs DEF IsA, Frames
        <4> QED  BY <4>1, Follows, TaskNames DEF WellFormed, Roots, IInv, Types
      <3> QED  BY <1>5, <2>2, <3>1 DEF VisitParallel
    <2>6. stack[Main] \in Seq(Frames) /\ Top(Main) \in Frames
      BY <2>1, <2>2, TopIs DEF IInv, Types
    <2>7. Below(Main) \in Seq(Frames) /\ Inside(Top(Main)) \in Frames
      BY <2>1, <2>2, <2>6, Lowered, Restated DEF Below, Inside, States
    <2>8. Front(stack'[Main]) = Below(Main)
      BY <2>5, <2>7, Raised
    <2> QED  BY <2>1, <2>3, <2>4, <2>8 DEF LInv, SignalFresh, BreakNoted, Below, HasLoop
  <1>6. ASSUME NEW t \in Tasks, BranchEnds(t) \/ Record(t)
        PROVE  SignalFresh' /\ ErrorStands' /\ BreakNoted'
    <2>1. UNCHANGED <<runVars, stack, loopSignal, history>>
      BY <1>6 DEF BranchEnds, Record
    <2>2. t # Main
      BY <1>6, NoBranchResult DEF BranchEnds, Record
    <2>3. ret'[Main] = ret[Main]
      BY <1>6, <2>2, TaskNames DEF BranchEnds, Record, IInv, Types
    <2> QED  BY <2>1, <2>3, MainStands DEF runVars, history
  <1>7. ASSUME NEW t \in Tasks, Join(t)
        PROVE  SignalFresh' /\ ErrorStands' /\ BreakNoted'
    <2>1. /\ UNCHANGED <<runVars, stack, loopSignal, history>>
          /\ stack[t] # <<>> /\ IsA(t, "parallel") /\ Top(t).st = "inside" /\ ret[t] = Nil
      BY <1>7 DEF Join, Joinable, Forked, In
    <2>2. t = Main
      BY <2>1, OnlyMainForks
    <2>3. ErrorStands'
      BY <2>1, <2>2, NoErrorYet, NoNewError DEF history
    <2> QED  BY <2>1, <2>2, <2>3
              DEF LInv, SignalFresh, BreakNoted, Below, HasLoop, In, Top
  <1>8. ASSUME NEW t \in Tasks \ {Main}, WalkStep(t)
        PROVE  SignalFresh' /\ ErrorStands' /\ BreakNoted'
    <2>1. UNCHANGED <<loopSignal, unhandled, broke>>
      BY <1>8, BranchSilent
    <2>2. StepsAlone(t)
      BY <1>8, WalkStepsAlone
    <2>3. UNCHANGED <<wf, final>> /\ stack'[Main] = stack[Main] /\ ret'[Main] = ret[Main]
      BY <2>2, TaskNames DEF StepsAlone, Steps, runVars, IInv, Types
    <2> QED  BY <2>1, <2>3, MainStands
  <1> QED  BY <1>1, <1>2, <1>3, <1>4, <1>5, <1>6, <1>7, <1>8, StepForms, MainSteps, TaskNames

LEMMA LoopsInitially ==
  ASSUME EngineInit
  PROVE  LInv
  <1>1. stack[Main] = <<>> /\ unhandled = FALSE /\ loopSignal = Nil
    BY TaskNames DEF EngineInit
  <1> QED  BY <1>1 DEF LInv, SignalFresh, ErrorStands, BreakNoted, In

LEMMA LoopsKept ==
  ASSUME IInv, LInv, [EngineNext]_engineVars
  PROVE  LInv'
  <1>1. wf' = wf
    BY DEF EngineNext, Microtask, Visit, ExecutorReturns, engineVars, runVars, Start, WalkEnds, SettleRun,
           AskStop, Stop, VisitAborted, VisitNode, VisitSubworkflow, VisitLoop, VisitParallel,
           Iterate, BodyReturned, LoopReturned, ChildReturned, ParallelReturned, Loaded,
           EndReached, NodeReturned, BodyNodeReturned, NodeThrew, BranchEnds, Record, Join
  <1>2. LoopsAlone(wf)' <=> LoopsAlone(wf)
    BY <1>1, SameWorkflow
  <1> QED  BY <1>2, LoopStepKeeps DEF LInv

LEMMA LoopInvariance == EngineSpec => [](IInv /\ LInv)
  <1> QED  BY Initially, StepKeeps, LoopsInitially, LoopsKept, PTL DEF EngineSpec

(* "If no `error` edge is wired, an error settles the run as failed", as   *)
(* long as no two loops are in progress at once.                           *)
THEOREM LoneLoopErrors == EngineSpec => []LoneLoopErrorsFail
  <1>1. ASSUME IInv, LInv, LoopsAlone(wf)  PROVE UnhandledErrorFails
    <2>1. SUFFICES ASSUME unhandled, status \in Terminal  PROVE status = "failed"
      BY DEF UnhandledErrorFails
    <2>2. status = final /\ final # Nil
      BY <1>1, <2>1 DEF IInv, Phases, Terminal, Nil
    <2> QED  BY <1>1, <2>1, <2>2 DEF LInv, ErrorStands
  <1> QED  BY <1>1, LoopInvariance, PTL DEF LoneLoopErrorsFail

(* walkLoop() leaves a loop by its `next` edge only for a condition met in *)
(* its own body, or at maxIterations, when no other loop is in progress.   *)
THEOREM LoneLoopEnds == EngineSpec => LoneLoopsEndForCause
  <1>1. ASSUME IInv, LInv, [EngineNext]_engineVars, LoopsAlone(wf), NEW t \in Tasks, LoopLeft(t)
        PROVE  Top(t).at \in broke \/ AtCap(t)
    <2>1. /\ stack[t] # <<>> /\ Top(t).st = "loop" /\ ret'[t] = "exit"
          /\ Len(stack'[t]) < Len(stack[t])
      BY <1>1 DEF LoopLeft, In
    <2>2. t = Main
      BY <1>1, <2>1, NoLoopInBranch
    <2>3. /\ stack \in [Tasks -> Seq(Frames)] /\ ret \in [Tasks -> Values]
          /\ Len(stack[t]) \in Nat /\ stack'[t] # stack[t]
      BY <1>1, <2>1 DEF IInv, Types
    <2>4. PICK u \in Tasks : \/ VisitParallel(u) /\ Roots(u) # {}
                             \/ BranchEnds(u) \/ Record(u) \/ Join(u) \/ WalkStep(u)
      <3>1. ~UNCHANGED engineVars /\ ~WalkEnds /\ ~SettleRun /\ ~AskStop /\ ~Stop
        BY <2>3 DEF engineVars, WalkEnds, SettleRun, AskStop, Stop
      <3>2. ~Start
        BY <1>1, <2>1, <2>2 DEF Start, IInv, Phases
      <3> QED  BY <1>1, <3>1, <3>2, StepForms
    <2>5. ~(VisitParallel(u) /\ Roots(u) # {}) /\ ~BranchEnds(u) /\ ~Record(u) /\ ~Join(u)
      <3>1. ~BranchEnds(u) /\ ~Record(u) /\ ~Join(u)
        BY <2>3 DEF BranchEnds, Record, Join
      <3>2. ASSUME VisitParallel(u)  PROVE FALSE
        <4>1. stack[u] # <<>> /\ Top(u).st = "visit" /\ IsA(u, "parallel")
          BY <3>2 DEF VisitParallel, Visiting, In
        <4> QED  BY <1>1, <2>1, <2>2, <4>1, OnlyMainForks
      <3> QED  BY <3>1, <3>2
    <2>6. WalkStep(u) /\ u = t
      <3>1. StepsAlone(u)
        BY <1>1, <2>4, <2>5, WalkStepsAlone
      <3>2. PICK s, v : stack' = [stack EXCEPT ![u] = s]
        BY <3>1 DEF StepsAlone, Steps
      <3> QED  BY <2>3, <2>4, <2>5, <3>2
    <2>7. Iterate(t) \/ BodyReturned(t)
      BY <2>1, <2>6
         DEF WalkStep, ExecutorReturns, VisitAborted, VisitNode, VisitSubworkflow, VisitLoop,
             VisitParallel, Visiting, LoopReturned, ChildReturned, ParallelReturned, Loaded,
             EndReached, NodeReturned, BodyNodeReturned, NodeThrew, Returned, In
    <2>8. CASE Iterate(t)
      <3>1. CASE IterateNot(t)
        BY <2>1, <2>3, <3>1 DEF IterateNot, Await
      <3>2. CASE IterateOnce(t)
        BY <2>1, <2>3, <3>2 DEF IterateOnce, Continue, Nil
      <3> QED  BY <2>8, <3>1, <3>2 DEF Iterate
    <2>9. CASE BodyReturned(t)
      <3>1. ret[t] \in Outs /\ loopSignal \in {Nil, "break", "continue"}
        BY <1>1, <2>1, <2>9, TopIs DEF BodyReturned, IInv, Types
      <3>2. ret[t] # "exit"
        BY <3>1 DEF Outs, Terminal
      <3>3. loopSignal = "break"
        BY <2>1, <2>3, <2>9, <3>1, <3>2 DEF BodyReturned, Await, Continue, Nil
      <3> QED  BY <1>1, <2>1, <2>2, <2>9, <3>3 DEF BodyReturned, LInv, BreakNoted, In
    <2> QED  BY <2>7, <2>8, <2>9
  <1>2. ASSUME IInv, LInv, [EngineNext]_engineVars
        PROVE  [LoopsAlone(wf) => \A t \in Tasks : LeftForCause(t)]_engineVars
    BY <1>1, <1>2 DEF LeftForCause
  <1> QED  BY <1>2, LoopInvariance, PTL DEF LoneLoopsEndForCause, EngineSpec
=============================================================================
