------------------------- MODULE ChildProcessProofs -------------------------
(***************************************************************************)
(* Proofs about ChildProcess, for every number of calls, HttpCall, for     *)
(* every set of event streams, and Providers, for every set of files,      *)
(* writers and fetches.                                                    *)
(*                                                                         *)
(* A child that runs belongs to a pending call, and the copy of the        *)
(* registry that the spawn sites use lists it (Registered) and no call     *)
(* that is not pending (ListedPend).  A timer, too, belongs to a pending   *)
(* call (TimersPend).                                                      *)
(***************************************************************************)
EXTENDS ChildProcess, HttpCall, Providers, SequenceTheorems, FiniteSetTheorems,
        WellFoundedInduction, TLAPS

(* A child that runs is one of a pending, registered call.                 *)
Registered ==
  \A c \in ChildCalls : Leader(c) \in up => pc[c] = "pending" /\ c \in active["bundles"]

(* A registered call is pending.                                           *)
ListedPend == \A c \in active["bundles"] : pc[c] = "pending"

(* A timer that is armed belongs to a pending call.                        *)
TimersPend ==
  \A c \in ChildCalls : alarm[c] = "armed" \/ killer[c] = "armed" => pc[c] = "pending"

IInv == ChildTypeOK /\ Registered /\ ListedPend /\ TimersPend

-----------------------------------------------------------------------------
LEMMA InitInv == ChildInit => IInv
<1> SUFFICES ASSUME ChildInit PROVE IInv
  OBVIOUS
<1> QED BY DEF ChildInit, IInv, ChildTypeOK, Registered, ListedPend, TimersPend, Timers, Copies

(* The members of a group are told apart.                                  *)
LEMMA Members2 ==
  ASSUME NEW c \in ChildCalls, NEW d \in ChildCalls
  PROVE  /\ Leader(c) \in Procs /\ Helper(c) \in Procs
         /\ Leader(c) # Helper(d)
         /\ Leader(c) = Leader(d) => c = d
         /\ \A cs \in SUBSET ChildCalls : Leader(c) \in Groups(cs) <=> c \in cs
BY DEF Leader, Helper, Procs, Members, Groups

LEMMA TypeStep == IInv /\ [ChildNext]_childVars => ChildTypeOK'
<1> SUFFICES ASSUME IInv, [ChildNext]_childVars PROVE ChildTypeOK'
  OBVIOUS
<1> USE DEF IInv, ChildTypeOK, Timers, Copies
<1>1. ASSUME NEW c \in ChildCalls, Spawn(c) PROVE ChildTypeOK'
  <2>1. Leader(c) \in Procs
    BY Members2
  <2> QED BY <1>1, <2>1 DEF Spawn, ScheduleSigkill
<1>2. ASSUME NEW c \in ChildCalls, NoChild(c) PROVE ChildTypeOK'
  BY <1>2 DEF NoChild, os
<1>3. ASSUME NEW c \in ChildCalls, Abort(c) PROVE ChildTypeOK'
  BY <1>3 DEF Abort, Terminate, Sigterm, ScheduleSigkill
<1>4. ASSUME NEW c \in ChildCalls, OnTimeout(c) PROVE ChildTypeOK'
  BY <1>4 DEF OnTimeout, Terminate, Sigterm, ScheduleSigkill
<1>5. ASSUME NEW c \in ChildCalls, KillTimerFires(c) PROVE ChildTypeOK'
  BY <1>5 DEF KillTimerFires, Sigkill
<1>6. ASSUME NEW c \in ChildCalls, Close(c) PROVE ChildTypeOK'
  BY <1>6 DEF Close, Finish, os
<1>7. ASSUME NEW c \in ChildCalls, Fork(c) PROVE ChildTypeOK'
  <2>1. Helper(c) \in Procs
    BY Members2
  <2> QED BY <1>7, <2>1 DEF Fork, js
<1>8. ASSUME NEW p \in Procs, ProcessEnds(p) PROVE ChildTypeOK'
  BY <1>8 DEF ProcessEnds, js
<1>9. CASE Shutdown
  BY <1>9 DEF Shutdown, Sigterm, js
<1>10. CASE ForceExit
  BY <1>10 DEF ForceExit, Sigkill, js
<1>11. CASE EarlyExit
  BY <1>11 DEF EarlyExit, os, js
<1>12. CASE UNCHANGED childVars
  BY <1>12 DEF childVars, os, js
<1> QED BY <1>1, <1>2, <1>3, <1>4, <1>5, <1>6, <1>7, <1>8, <1>9, <1>10, <1>11, <1>12
        DEF ChildNext

(* No step starts a leader, takes a call off the registry or unsettles it  *)
(* except as Registered allows.                                            *)
LEMMA RegisteredStep == IInv /\ [ChildNext]_childVars => Registered'
<1> SUFFICES ASSUME IInv, [ChildNext]_childVars, NEW x \in ChildCalls, (Leader(x) \in up)'
             PROVE  (pc[x] = "pending" /\ x \in active["bundles"])'
  BY DEF Registered
<1> USE DEF IInv, ChildTypeOK, Registered, Copies
<1>1. ASSUME NEW c \in ChildCalls, Spawn(c) PROVE (pc[x] = "pending" /\ x \in active["bundles"])'
  BY <1>1, Members2 DEF Spawn
<1>2. ASSUME NEW c \in ChildCalls, NoChild(c) PROVE (pc[x] = "pending" /\ x \in active["bundles"])'
  BY <1>2 DEF NoChild, os
<1>3. ASSUME NEW c \in ChildCalls, Abort(c) \/ OnTimeout(c) \/ KillTimerFires(c)
      PROVE  (pc[x] = "pending" /\ x \in active["bundles"])'
  BY <1>3 DEF Abort, OnTimeout, KillTimerFires
<1>4. ASSUME NEW c \in ChildCalls, Close(c) PROVE (pc[x] = "pending" /\ x \in active["bundles"])'
  <2>1. Leader(c) \notin up
    BY <1>4 DEF Close, Closed
  <2>2. x # c
    BY <1>4, <2>1 DEF Close, os
  <2> QED BY <1>4, <2>2 DEF Close, Finish, os
<1>5. ASSUME NEW c \in ChildCalls, Fork(c) PROVE (pc[x] = "pending" /\ x \in active["bundles"])'
  BY <1>5, Members2 DEF Fork, js
<1>6. ASSUME NEW p \in Procs, ProcessEnds(p) PROVE (pc[x] = "pending" /\ x \in active["bundles"])'
  BY <1>6 DEF ProcessEnds, js
<1>7. CASE Shutdown \/ ForceExit \/ EarlyExit \/ UNCHANGED childVars
  BY <1>7 DEF Shutdown, ForceExit, EarlyExit, childVars, os, js
<1> QED BY <1>1, <1>2, <1>3, <1>4, <1>5, <1>6, <1>7 DEF ChildNext

(* A timer is armed by a step of a pending call, and finish() clears both. *)
LEMMA TimersStep == IInv /\ [ChildNext]_childVars => TimersPend'
<1> SUFFICES ASSUME IInv, [ChildNext]_childVars, NEW x \in ChildCalls,
                    (alarm[x] = "armed" \/ killer[x] = "armed")'
             PROVE  (pc[x] = "pending")'
  BY DEF TimersPend
<1> USE DEF IInv, ChildTypeOK, Timers, TimersPend
<1>1. ASSUME NEW c \in ChildCalls, Spawn(c) PROVE (pc[x] = "pending")'
  BY <1>1 DEF Spawn, ScheduleSigkill
<1>2. ASSUME NEW c \in ChildCalls, NoChild(c) PROVE (pc[x] = "pending")'
  <2>1. pc[c] # "pending"
    BY <1>2 DEF NoChild
  <2> QED BY <1>2, <2>1 DEF NoChild, os
<1>3. ASSUME NEW c \in ChildCalls, Abort(c) PROVE (pc[x] = "pending")'
  BY <1>3 DEF Abort, Terminate, ScheduleSigkill
<1>4. ASSUME NEW c \in ChildCalls, OnTimeout(c) PROVE (pc[x] = "pending")'
  BY <1>4 DEF OnTimeout, Terminate, ScheduleSigkill
<1>5. ASSUME NEW c \in ChildCalls, KillTimerFires(c) PROVE (pc[x] = "pending")'
  BY <1>5 DEF KillTimerFires
<1>6. ASSUME NEW c \in ChildCalls, Close(c) PROVE (pc[x] = "pending")'
  BY <1>6 DEF Close, Finish
<1>7. ASSUME NEW c \in ChildCalls, Fork(c) PROVE (pc[x] = "pending")'
  BY <1>7 DEF Fork, js
<1>8. ASSUME NEW p \in Procs, ProcessEnds(p) PROVE (pc[x] = "pending")'
  BY <1>8 DEF ProcessEnds, js
<1>9. CASE Shutdown \/ ForceExit \/ EarlyExit \/ UNCHANGED childVars
  BY <1>9 DEF Shutdown, ForceExit, EarlyExit, childVars, os, js
<1> QED BY <1>1, <1>2, <1>3, <1>4, <1>5, <1>6, <1>7, <1>8, <1>9 DEF ChildNext

(* Only a spawn registers a call, and what settles one takes it off.       *)
LEMMA ListedStep == IInv /\ [ChildNext]_childVars => ListedPend'
<1> SUFFICES ASSUME IInv, [ChildNext]_childVars, NEW x \in (active["bundles"])'
             PROVE  (pc[x] = "pending")'
  BY DEF ListedPend
<1>0. x \in ChildCalls
  BY TypeStep DEF ChildTypeOK, Copies
<1> USE DEF IInv, ChildTypeOK, ListedPend, Copies
<1>1. ASSUME NEW c \in ChildCalls, Spawn(c) PROVE (pc[x] = "pending")'
  BY <1>0, <1>1 DEF Spawn
<1>2. ASSUME NEW c \in ChildCalls, NoChild(c) PROVE (pc[x] = "pending")'
  <2>1. c \notin active["bundles"]
    BY <1>2 DEF NoChild
  <2> QED BY <1>2, <2>1 DEF NoChild
<1>3. ASSUME NEW c \in ChildCalls, Abort(c) \/ OnTimeout(c) \/ KillTimerFires(c)
      PROVE  (pc[x] = "pending")'
  BY <1>3 DEF Abort, OnTimeout, KillTimerFires
<1>4. ASSUME NEW c \in ChildCalls, Close(c) PROVE (pc[x] = "pending")'
  BY <1>4 DEF Close, Finish
<1>5. ASSUME NEW c \in ChildCalls, Fork(c) PROVE (pc[x] = "pending")'
  BY <1>5 DEF Fork, js
<1>6. ASSUME NEW p \in Procs, ProcessEnds(p) PROVE (pc[x] = "pending")'
  BY <1>6 DEF ProcessEnds, js
<1>7. CASE Shutdown \/ ForceExit \/ EarlyExit \/ UNCHANGED childVars
  BY <1>7 DEF Shutdown, ForceExit, EarlyExit, childVars, js
<1> QED BY <1>1, <1>2, <1>3, <1>4, <1>5, <1>6, <1>7 DEF ChildNext

LEMMA Invariance == ChildSpec => []IInv
<1>1. IInv /\ [ChildNext]_childVars => IInv'
  BY TypeStep, RegisteredStep, ListedStep, TimersStep DEF IInv
<1> QED BY InitInv, <1>1, PTL DEF ChildSpec

-----------------------------------------------------------------------------
(* The variables keep their types; in particular only a process that runs  *)
(* is ever signalled.                                                      *)
THEOREM TypeCorrect == ChildSpec => []ChildTypeOK
<1>1. IInv => ChildTypeOK
  BY DEF IInv
<1> QED BY <1>1, Invariance, PTL

(* No timer survives the call it belongs to, however abort, timeout, close *)
(* and the grace period are ordered.                                       *)
THEOREM TimersEndWithCalls == ChildSpec => []NoStrayTimer
<1>1. IInv => NoStrayTimer
  BY DEF IInv, TimersPend, NoStrayTimer
<1> QED BY <1>1, Invariance, PTL

(* Every child that runs can be found in the copy of the registry that the *)
(* spawn sites write, at every moment up to the exit of the server, and no *)
(* call that has returned: were it the copy that server.ts reads, its two  *)
(* rounds of signals would reach every child and nothing else.             *)
THEOREM RegistryCorrect == ChildSpec => []RegistryIsExact
<1>1. IInv => RegistryIsExact
  <2> SUFFICES ASSUME IInv, NEW c \in ChildCalls
               PROVE  /\ Leader(c) \in up => c \in active["bundles"]
                      /\ c \in active["bundles"] => pc[c] = "pending"
    BY DEF RegistryIsExact
  <2> QED BY DEF IInv, Registered, ListedPend
<1> QED BY <1>1, Invariance, PTL

-----------------------------------------------------------------------------
(* HTTP calls                                                              *)

Whatever == {"0", "1", "null"}
InFlight == {"fetching", "errorBody", "reading", "cancelling"}
DonesBy(n) == {i \in 1 .. n : stream[i] = "done"}
DeltasBy(n) == {i \in 1 .. n : stream[i] = "delta"}

(* The events handled are those that arrived whole, up to the first [DONE].*)
HandledTo(h, n) == IF DonesBy(n) = {} THEN h = n
                   ELSE h \in DonesBy(n) /\ \A j \in DonesBy(n) : h <= j

HttpInv ==
  /\ HttpTypeOK /\ HttpLeavesNothing
  /\ got \in 0 .. 2 * Len(stream)
  /\ HandledTo(handled, got \div 2)
  /\ Lists(out, DeltasBy(handled))
  /\ hphase = "reading" => DonesBy(got \div 2) = {}
  /\ hphase = "idle" => ~timer
  /\ hphase \in {"idle", "fetching"} => got = 0
  /\ hresult.exit # "none" => hphase = "returned"
  /\ hresult.exit = "0" => ~httpTimedOut /\ ~hresult.timedOut

-----------------------------------------------------------------------------
LEMMA NatSetInduction ==
  ASSUME NEW P, 0 \in P, \A n \in Nat : n \in P => n + 1 \in P
  PROVE  Nat \subseteq P
<1> DEFINE T == Nat \ P
<1>1. SUFFICES ASSUME T # {} PROVE FALSE
  OBVIOUS
<1>2. \E x \in T : \A y \in T : ~(<<y, x>> \in OpToRel(<, Nat))
  BY <1>1, NatLessThanWellFounded, WFMin
<1>3. PICK x \in T : \A y \in T : ~(<<y, x>> \in OpToRel(<, Nat))
  BY <1>2
<1>4. x # 0 /\ x - 1 \in Nat /\ x - 1 + 1 = x
  <2>1. x \in Nat /\ x \notin P
    OBVIOUS
  <2> QED  BY <2>1
<1>5. x - 1 \notin P
  BY <1>3, <1>4
<1>6. <<x - 1, x>> \in OpToRel(<, Nat)
  BY <1>3, <1>4 DEF OpToRel
<1> QED  BY <1>3, <1>4, <1>5, <1>6

(* Lists of numbers: one may be appended to another, and there is one of   *)
(* every finite set.                                                       *)
LEMMA ListsJoin ==
  ASSUME NEW i \in Nat, NEW A \in SUBSET (1 .. i), NEW B \in SUBSET (Nat \ (0 .. i)),
         NEW p \in Seq(Nat), NEW q \in Seq(Nat), Lists(p, A), Lists(q, B)
  PROVE  p \o q \in Seq(Nat) /\ Lists(p \o q, A \cup B)
<1>c. PICK c : c = p \o q
  OBVIOUS
<1>1. /\ Len(p) \in Nat /\ Len(q) \in Nat /\ DOMAIN p = 1 .. Len(p) /\ DOMAIN q = 1 .. Len(q)
  BY LenProperties
<1>2. /\ c \in Seq(Nat) /\ DOMAIN c = 1 .. Len(p) + Len(q)
      /\ \A m \in 1 .. Len(p) + Len(q) : c[m] = IF m <= Len(p) THEN p[m] ELSE q[m - Len(p)]
  BY <1>c, ConcatProperties, LenProperties
<1>3. \A m \in 1 .. Len(p) : p[m] \in A
  BY <1>1 DEF Lists
<1>4. \A m \in 1 .. Len(q) : q[m] \in B
  BY <1>1 DEF Lists
<1>5. \A m \in DOMAIN c : \/ m \in 1 .. Len(p) /\ c[m] = p[m]
                          \/ m - Len(p) \in 1 .. Len(q) /\ c[m] = q[m - Len(p)] /\ m > Len(p)
  BY <1>1, <1>2
<1>6. \A m \in 1 .. Len(p) : m \in DOMAIN c /\ c[m] = p[m]
  BY <1>1, <1>2
<1>7. \A m \in 1 .. Len(q) : m + Len(p) \in DOMAIN c /\ c[m + Len(p)] = q[m]
  <2> TAKE m \in 1 .. Len(q)
  <2>1. m + Len(p) \in 1 .. Len(p) + Len(q) /\ ~(m + Len(p) <= Len(p)) /\ (m + Len(p)) - Len(p) = m
    BY <1>1
  <2> QED  BY <1>2, <2>1
<1>8. {c[m] : m \in DOMAIN c} = A \cup B
  <2>1. \A x : (\E m \in DOMAIN c : c[m] = x) => x \in A \cup B
    BY <1>3, <1>4, <1>5
  <2>2. \A x \in A : \E m \in DOMAIN c : c[m] = x
    BY <1>1, <1>6 DEF Lists
  <2>3. \A x \in B : \E m \in DOMAIN c : c[m] = x
    BY <1>1, <1>7 DEF Lists
  <2> QED  BY <2>1, <2>2, <2>3
<1>9. ASSUME NEW m \in DOMAIN c, NEW n \in DOMAIN c, m < n  PROVE  c[m] < c[n]
  <2>1. m \in Nat /\ n \in Nat
    BY <1>1, <1>2
  <2>2. CASE m \in 1 .. Len(p) /\ n \in 1 .. Len(p)
    BY <1>1, <1>6, <1>9, <2>2 DEF Lists
  <2>3. CASE m \in 1 .. Len(p) /\ n \notin 1 .. Len(p)
    <3>1. c[m] \in A /\ c[n] \in B
      BY <1>3, <1>4, <1>5, <1>6, <2>3
    <3>2. c[m] \in 1 .. i /\ c[n] \in Nat \ (0 .. i)
      BY <3>1
    <3> QED  BY <3>2
  <2>4. CASE m \notin 1 .. Len(p)
    <3>1. /\ m - Len(p) \in 1 .. Len(q) /\ c[m] = q[m - Len(p)]
          /\ n - Len(p) \in 1 .. Len(q) /\ c[n] = q[n - Len(p)] /\ m - Len(p) < n - Len(p)
      BY <1>1, <1>5, <1>9, <2>1, <2>4
    <3> QED  BY <1>1, <3>1 DEF Lists
  <2> QED  BY <2>2, <2>3, <2>4
<1> QED  BY <1>c, <1>2, <1>8, <1>9 DEF Lists

Listed(T) == /\ IsFiniteSet(T) /\ Cardinality(T) \in Nat
             /\ \E q \in Seq(T) : Lists(q, T) /\ Len(q) = Cardinality(T)

LEMMA ListGrows ==
  ASSUME NEW m \in Nat, \A R \in SUBSET (1 .. m) : Listed(R), NEW T \in SUBSET (1 .. m + 1)
  PROVE  Listed(T)
<1>r. PICK R : R = T \ {m + 1}
  OBVIOUS
<1>1. R \in SUBSET (1 .. m) /\ Listed(R) /\ R \subseteq Nat
  <2>1. R \in SUBSET (1 .. m)
    BY <1>r
  <2> QED  BY <2>1
<1>2. CASE m + 1 \notin T
  <2>1. R = T
    BY <1>r, <1>2
  <2> QED  BY <1>1, <2>1
<1>3. CASE m + 1 \in T
  <2>1. T = R \cup {m + 1} /\ m + 1 \notin R /\ R \subseteq T
    BY <1>r, <1>3
  <2>2. PICK q \in Seq(R) : Lists(q, R) /\ Len(q) = Cardinality(R)
    BY <1>1 DEF Listed
  <2>3. IsFiniteSet(T) /\ Cardinality(T) = Cardinality(R) + 1 /\ Cardinality(R) \in Nat
    BY <1>1, <2>1, FS_AddElement DEF Listed
  <2>4. q \in Seq(Nat) /\ q \in Seq(T)
    BY <1>1, <2>1, <2>2, SeqMonotonic
  <2>5. PICK p : p = <<m + 1>>
    OBVIOUS
  <2>6. p \in Seq(Nat) /\ p \in Seq(T) /\ Len(p) = 1
    BY <1>3, <2>5
  <2>7. Lists(p, {m + 1}) /\ {m + 1} \in SUBSET (Nat \ (0 .. m))
    BY <2>5 DEF Lists
  <2>8. Lists(q \o p, T)
    BY <1>1, <2>1, <2>2, <2>4, <2>6, <2>7, ListsJoin
  <2>9. q \o p \in Seq(T) /\ Len(q \o p) = Cardinality(T)
    <3>1. q \o p \in Seq(T) /\ Len(q \o p) = Len(q) + Len(p)
      BY <2>4, <2>6, ConcatProperties
    <3> QED  BY <2>2, <2>3, <2>6, <3>1
  <2>10. Cardinality(T) \in Nat
    BY <2>3
  <2> QED  BY <2>3, <2>8, <2>9, <2>10, Zenon DEF Listed
<1> QED  BY <1>2, <1>3

LEMMA ListExists ==
  ASSUME NEW n \in Nat, NEW S \in SUBSET (1 .. n)
  PROVE  \E q \in [1 .. Cardinality(S) -> S] : q \in Seq(S) /\ Lists(q, S)
<1> DEFINE P == {m \in Nat : \A T \in SUBSET (1 .. m) : Listed(T)}
<1>1. 0 \in P
  <2>1. \A T \in SUBSET (1 .. 0) : T = {}
    OBVIOUS
  <2>2. <<>> \in Seq({}) /\ Lists(<<>>, {}) /\ Len(<<>>) = 0
    BY DEF Lists
  <2>3. Listed({})
    <3>1. IsFiniteSet({}) /\ Cardinality({}) = 0 /\ 0 \in Nat
      BY FS_EmptySet
    <3> QED  BY <2>2, <3>1, Zenon DEF Listed
  <2> QED  BY <2>1, <2>3
<1>2. ASSUME NEW m \in Nat, m \in P  PROVE  m + 1 \in P
  BY <1>2, ListGrows
<1>3. n \in P
  <2> HIDE DEF P
  <2> QED  BY <1>1, <1>2, NatSetInduction
<1>4. Listed(S)
  BY <1>3
<1>5. PICK q \in Seq(S) : Lists(q, S) /\ Len(q) = Cardinality(S)
  BY <1>4 DEF Listed
<1>6. q \in [1 .. Cardinality(S) -> S]
  BY <1>5
<1> QED  BY <1>5, <1>6

LEMMA PositionsListed ==
  ASSUME NEW i \in Nat, NEW j \in Nat, NEW k
  PROVE  /\ Positions(k, i, j) \in Seq({p \in i + 1 .. j : stream[p] = k})
         /\ Lists(Positions(k, i, j), {p \in i + 1 .. j : stream[p] = k})
<1>s. PICK S : S = {p \in i + 1 .. j : stream[p] = k}
  OBVIOUS
<1>1. S \in SUBSET (1 .. j)
  BY <1>s
<1>2. \E q \in [1 .. Cardinality(S) -> S] : q \in Seq(S) /\ Lists(q, S)
  BY <1>1, ListExists
<1>3. Positions(k, i, j) = CHOOSE q \in [1 .. Cardinality(S) -> S] : Lists(q, S)
  BY <1>s DEF Positions
<1>4. Positions(k, i, j) \in [1 .. Cardinality(S) -> S] /\ Lists(Positions(k, i, j), S)
  BY <1>2, <1>3
<1>5. Cardinality(S) \in Nat
  <2>1. IsFiniteSet(S)
    <3>1. 1 \in Int /\ j \in Int
      OBVIOUS
    <3>2. IsFiniteSet(1 .. j)
      BY <3>1, FS_Interval
    <3> QED  BY <1>1, <3>2, FS_Subset
  <2> QED  BY <2>1, FS_CardinalityType
<1>6. Positions(k, i, j) \in Seq(S)
  BY <1>4, <1>5, SeqDef
<1> QED  BY <1>s, <1>4, <1>6

(* Handling one event after the other, up to [DONE].                       *)
LEMMA HandledOn ==
  ASSUME HttpInv, hphase = "reading", NEW n \in got + 1 .. 2 * Len(stream)
  PROVE  /\ HandledBy(n) \in handled .. Len(stream)
         /\ HandledTo(HandledBy(n), n \div 2)
         /\ DonesBy(n \div 2) # {} => HandledBy(n) > 0 /\ stream[HandledBy(n)] = "done"
<1>1. /\ Len(stream) \in Nat /\ got \in Nat /\ n \in Nat /\ DonesBy(got \div 2) = {}
      /\ handled = got \div 2
  <2>1. Len(stream) \in Nat
    BY HttpAssumption, LenProperties DEF HttpInv, HttpTypeOK
  <2> QED  BY <2>1 DEF HttpInv, HandledTo, HttpTypeOK
<1>m. PICK m : m = n \div 2
  OBVIOUS
<1>2. m \in handled .. Len(stream) /\ handled \in Nat
  BY <1>1, <1>m
<1>3. FirstDone(m) = DonesBy(m)
  <2>1. \A i \in 1 .. m : stream[i] = "done" => i \notin 1 .. handled
    BY <1>1 DEF DonesBy
  <2> QED  BY <1>2, <2>1 DEF FirstDone, DonesBy
<1>4. HandledBy(n) = UpTo(m)
  BY <1>m DEF HandledBy
<1>5. CASE DonesBy(m) = {}
  BY <1>2, <1>3, <1>4, <1>5, <1>m DEF UpTo, HandledTo
<1>6. CASE DonesBy(m) # {}
  <2>1. \E i \in DonesBy(m) : \A j \in DonesBy(m) : ~(<<j, i>> \in OpToRel(<, Nat))
    <3>1. DonesBy(m) \subseteq Nat
      BY DEF DonesBy
    <3> QED  BY <1>6, <3>1, NatLessThanWellFounded, WFMin
  <2>2. \A i, j \in DonesBy(m) : i \in Nat /\ (<<j, i>> \in OpToRel(<, Nat) \/ i <= j)
    BY DEF DonesBy, OpToRel
  <2>3. \E i \in DonesBy(m) : \A j \in DonesBy(m) : i <= j
    BY <2>1, <2>2
  <2>4. UpTo(m) = CHOOSE i \in DonesBy(m) : \A j \in DonesBy(m) : i <= j
    BY <1>3, <1>6 DEF UpTo
  <2>5. UpTo(m) \in DonesBy(m) /\ \A j \in DonesBy(m) : UpTo(m) <= j
    BY <2>3, <2>4
  <2>6. UpTo(m) \in 1 .. m /\ stream[UpTo(m)] = "done" /\ UpTo(m) \in handled + 1 .. m
    BY <1>3, <2>5 DEF DonesBy, FirstDone
  <2>7. HandledTo(UpTo(m), m)
    BY <1>6, <2>5 DEF HandledTo
  <2> QED  BY <1>2, <1>4, <1>m, <2>6, <2>7
<1> QED  BY <1>5, <1>6

LEMMA HttpStarts == HttpInit => HttpInv
<1> SUFFICES ASSUME HttpInit  PROVE  HttpInv
  OBVIOUS
<1>1. Len(stream) \in Nat
  BY HttpAssumption, LenProperties DEF HttpInit
<1>2. HttpTypeOK
  <2>1. <<>> \in Seq(1 .. Len(stream)) /\ 0 \in 0 .. Len(stream)
    BY <1>1
  <2>2. NoResult \in [exit : {"none", "0", "1", "null"}, timedOut : BOOLEAN]
    BY DEF NoResult
  <2> QED  BY <2>1, <2>2 DEF HttpInit, HttpTypeOK
<1>3. Lists(out, DeltasBy(handled))
  <2>1. DeltasBy(0) = {}
    BY DEF DeltasBy
  <2> QED  BY <2>1 DEF HttpInit, Lists
<1>4. DonesBy(0) = {} /\ 0 \div 2 = 0
  BY DEF DonesBy
<1> QED  BY <1>1, <1>2, <1>3, <1>4 DEF HttpInit, HttpInv, HttpLeavesNothing, HandledTo, NoResult

LEMMA ChunkArrivesKeeps == HttpInv /\ ChunkArrives => HttpInv'
<1> SUFFICES ASSUME HttpInv, ChunkArrives  PROVE  HttpInv'
  OBVIOUS
<1>n. PICK n \in got + 1 .. 2 * Len(stream) : ChunkArrives!2!(n)
  BY DEF ChunkArrives
<1>h. PICK h : h = HandledBy(n)
  OBVIOUS
<1>1. /\ hphase = "reading" /\ got' = n /\ handled' = h
      /\ out' = out \o Positions("delta", handled, h)
      /\ junk' = junk \o Positions("junk", handled, h)
      /\ hphase' = IF h > 0 /\ stream[h] = "done" THEN "cancelling" ELSE "reading"
      /\ UNCHANGED <<httpCtl, callerAborted, httpTimedOut, controllerAborted, timer, listening,
                     hresult>>
  BY <1>n, <1>h DEF ChunkArrives
<1>2. /\ h \in handled .. Len(stream) /\ HandledTo(h, n \div 2)
      /\ DonesBy(n \div 2) # {} => h > 0 /\ stream[h] = "done"
  BY <1>1, <1>h, HandledOn
<1>3. /\ HttpTypeOK /\ HttpLeavesNothing /\ Lists(out, DeltasBy(handled))
      /\ handled \in Nat /\ Len(stream) \in Nat /\ h \in Nat /\ n \in 0 .. 2 * Len(stream)
      /\ got \in Nat /\ hresult.exit = "none"
  <2>1. Len(stream) \in Nat
    BY HttpAssumption, LenProperties DEF HttpInv, HttpTypeOK
  <2> QED  BY <1>1, <1>2, <2>1 DEF HttpInv, HttpTypeOK
<1>4. /\ out' \in Seq(1 .. Len(stream)) /\ junk' \in Seq(1 .. Len(stream))
      /\ Lists(out', DeltasBy(h))
  <2>1. ASSUME NEW k
        PROVE  /\ Positions(k, handled, h) \in Seq(1 .. Len(stream))
               /\ Lists(Positions(k, handled, h), {p \in handled + 1 .. h : stream[p] = k})
    <3>1. {p \in handled + 1 .. h : stream[p] = k} \subseteq 1 .. Len(stream)
      BY <1>2, <1>3
    <3> QED  BY <1>3, <3>1, PositionsListed, SeqMonotonic
  <2>2. out \in Seq(1 .. Len(stream)) /\ junk \in Seq(1 .. Len(stream))
    BY <1>3 DEF HttpTypeOK
  <2>3. out' \in Seq(1 .. Len(stream)) /\ junk' \in Seq(1 .. Len(stream))
    BY <1>1, <2>1, <2>2, ConcatProperties
  <2>4. PICK D : D = {p \in handled + 1 .. h : stream[p] = "delta"}
    OBVIOUS
  <2>5. PICK E : E = DeltasBy(handled)
    OBVIOUS
  <2>6. D \in SUBSET (Nat \ (0 .. handled)) /\ E \in SUBSET (1 .. handled)
    BY <1>3, <2>4, <2>5 DEF DeltasBy
  <2>7. DeltasBy(h) = E \cup D
    BY <1>2, <1>3, <2>4, <2>5 DEF DeltasBy
  <2>8. out \in Seq(Nat) /\ Positions("delta", handled, h) \in Seq(Nat)
    <3>1. 1 .. Len(stream) \subseteq Nat
      OBVIOUS
    <3> QED  BY <2>1, <2>2, <3>1, SeqMonotonic
  <2>9. Lists(out \o Positions("delta", handled, h), E \cup D)
    BY <1>3, <2>1, <2>4, <2>5, <2>6, <2>8, ListsJoin
  <2> QED  BY <1>1, <2>3, <2>7, <2>9
<1>5. HttpTypeOK'
  BY <1>1, <1>2, <1>3, <1>4 DEF HttpTypeOK, httpCtl
<1>6. HttpLeavesNothing'
  BY <1>1, <1>3 DEF HttpLeavesNothing
<1>7. stream' = stream /\ (\A x : DonesBy(x)' = DonesBy(x)) /\ \A x : DeltasBy(x)' = DeltasBy(x)
  BY <1>1 DEF httpCtl, DonesBy, DeltasBy
<1>8. HandledTo(handled, got \div 2)'
  BY <1>1, <1>2, <1>7 DEF HandledTo
<1>9. Lists(out, DeltasBy(handled))'
  <2>1. DeltasBy(handled)' = DeltasBy(h)
    BY <1>1, <1>7 DEF DeltasBy
  <2> QED  BY <1>4, <2>1 DEF Lists
<1>10. (hphase = "reading" => DonesBy(got \div 2) = {})'
  <2>1. DonesBy(got \div 2)' = DonesBy(n \div 2)
    BY <1>1, <1>7 DEF DonesBy
  <2> QED  BY <1>1, <1>2, <2>1
<1>11. /\ (got \in 0 .. 2 * Len(stream))' /\ (hphase = "idle" => ~timer)'
       /\ (hphase \in {"idle", "fetching"} => got = 0)'
       /\ (hresult.exit # "none" => hphase = "returned")'
       /\ (hresult.exit = "0" => ~httpTimedOut /\ ~hresult.timedOut)'
  BY <1>1, <1>3, <1>7
<1> QED  BY <1>5, <1>6, <1>8, <1>9, <1>10, <1>11 DEF HttpInv

(* The call returns, whichever way.                                        *)
LEMMA ReturnKeeps ==
  ASSUME HttpInv, hphase # "returned", NEW e \in Whatever, Return(e),
         e = "0" => ~httpTimedOut
  PROVE  HttpInv'
<1>1. /\ hphase' = "returned" /\ hresult' = Result(e, httpTimedOut)
      /\ timer' = FALSE /\ listening' = FALSE
      /\ UNCHANGED <<httpCtl, callerAborted, httpTimedOut, controllerAborted, got, handled,
                     out, junk>>
  BY DEF Return, Cleanup, Cleaned
<1>2. hresult' \in [exit : {"none", "0", "1", "null"}, timedOut : BOOLEAN]
  BY <1>1 DEF Result, Whatever, HttpInv, HttpTypeOK
<1>3. HttpTypeOK'
  BY <1>1, <1>2 DEF HttpInv, HttpTypeOK, httpCtl
<1>4. HttpLeavesNothing'
  BY <1>1 DEF HttpLeavesNothing
<1>5. /\ HandledTo(handled, got \div 2)' /\ Lists(out, DeltasBy(handled))'
      /\ (got \in 0 .. 2 * Len(stream))'
  BY <1>1 DEF HttpInv, httpCtl, HandledTo, DonesBy, DeltasBy, Lists
<1>6. (hresult.exit = "0" => ~httpTimedOut /\ ~hresult.timedOut)'
  BY <1>1 DEF Result, HttpInv, HttpTypeOK
<1> QED  BY <1>1, <1>3, <1>4, <1>5, <1>6 DEF HttpInv

(* A step that reads nothing and does not end the call.                    *)
LEMMA QuietKeeps ==
  ASSUME HttpInv, UNCHANGED <<httpCtl, got, handled, out, junk, hresult>>,
         hphase' = "reading" => DonesBy(got \div 2) = {},
         hphase' = "idle" => ~timer',
         hphase' \in {"idle", "fetching"} => hphase \in {"idle", "fetching"},
         hphase = "returned" => hphase' = "returned",
         hresult.exit = "0" => httpTimedOut' = httpTimedOut,
         HttpLeavesNothing', hphase' \in {"idle", "returned"} \cup InFlight,
         {callerAborted', httpTimedOut', controllerAborted', timer', listening'} \subseteq BOOLEAN
  PROVE  HttpInv'
<1>1. HttpTypeOK'
  BY DEF HttpInv, HttpTypeOK, httpCtl, InFlight
<1>2. /\ HandledTo(handled, got \div 2)' /\ Lists(out, DeltasBy(handled))'
      /\ (got \in 0 .. 2 * Len(stream))' /\ (hphase = "reading" => DonesBy(got \div 2) = {})'
  BY DEF HttpInv, httpCtl, HandledTo, DonesBy, DeltasBy, Lists
<1> QED  BY <1>1, <1>2 DEF HttpInv

LEMMA HttpKeeps == HttpInv /\ [HttpNext]_httpVars => HttpInv'
<1> SUFFICES ASSUME HttpInv, [HttpNext]_httpVars  PROVE  HttpInv'
  OBVIOUS
<1>1. HttpTypeOK /\ HttpLeavesNothing
  BY DEF HttpInv
<1>2. CASE RefuseCall
  BY <1>2, ReturnKeeps DEF RefuseCall, Whatever
<1>3. CASE SendRequest
  BY <1>1, <1>3, QuietKeeps DEF SendRequest, HttpLeavesNothing, HttpTypeOK, InFlight
<1>4. CASE CallerAborts
  BY <1>1, <1>4, QuietKeeps DEF CallerAborts, HttpLeavesNothing, HttpTypeOK, HttpInv, InFlight
<1>5. CASE TimerFires
  BY <1>1, <1>5, QuietKeeps DEF TimerFires, HttpLeavesNothing, HttpTypeOK, HttpInv, InFlight
<1>6. CASE FetchFails
  BY <1>6, ReturnKeeps DEF FetchFails, Whatever
<1>7. CASE HeadersArrive
  <2>1. DonesBy(got \div 2) = {}
    BY <1>7 DEF HeadersArrive, HttpInv, DonesBy
  <2> QED  BY <1>1, <1>7, <2>1, QuietKeeps
           DEF HeadersArrive, HttpLeavesNothing, HttpTypeOK, HttpInv, InFlight
<1>8. CASE ErrorBodyEnds
  BY <1>8, ReturnKeeps DEF ErrorBodyEnds, Whatever
<1>9. CASE ChunkArrives
  BY <1>9, ChunkArrivesKeeps
<1>10. CASE StreamCloses \/ CancelReader \/ ReaderCancelled
  <2>1. hphase \in {"reading", "cancelling"} /\ Return(Outcome)
    BY <1>10 DEF StreamCloses, CancelReader, ReaderCancelled
  <2>2. Outcome \in Whatever /\ (Outcome = "0" => ~httpTimedOut)
    BY DEF Outcome, Whatever
  <2> QED  BY <2>1, <2>2, ReturnKeeps
<1>11. CASE ReadRejects
  BY <1>11, ReturnKeeps DEF ReadRejects, Whatever
<1>12. CASE UNCHANGED httpVars
  BY <1>1, <1>12, QuietKeeps DEF httpVars, httpCtl, HttpLeavesNothing, HttpTypeOK, HttpInv, InFlight
<1> QED  BY <1>2, <1>3, <1>4, <1>5, <1>6, <1>7, <1>8, <1>9, <1>10, <1>11, <1>12 DEF HttpNext

LEMMA HttpSaid == HttpInv => HttpEndsWell
<1> SUFFICES ASSUME HttpInv, hresult.exit = "0"
             PROVE  /\ ~httpTimedOut /\ ~hresult.timedOut
                    /\ LET whole == got \div 2
                           dones == {i \in 1 .. whole : stream[i] = "done"}
                           last  == IF dones = {} THEN whole
                                    ELSE CHOOSE i \in dones : \A j \in dones : i <= j
                       IN Lists(out, {i \in 1 .. last : stream[i] = "delta"})
  BY DEF HttpInv, HttpEndsWell, HttpSuccessIsWhole
<1>w. PICK w : w = got \div 2
  OBVIOUS
<1> DEFINE last == IF DonesBy(w) = {} THEN w
                   ELSE CHOOSE i \in DonesBy(w) : \A j \in DonesBy(w) : i <= j
<1>1. last = handled
  <2>1. \A i, j \in DonesBy(w) : i <= j /\ j <= i => i = j
    BY DEF DonesBy
  <2>2. HandledTo(handled, w)
    BY <1>w DEF HttpInv
  <2> QED  BY <2>1, <2>2 DEF HandledTo
<1>2. Lists(out, {i \in 1 .. last : stream[i] = "delta"})
  BY <1>1 DEF HttpInv, DeltasBy
<1> QED  BY <1>w, <1>2 DEF DonesBy, HttpInv

(* A successful HTTP answer is whole and in order, and no timer and no     *)
(* listener is left by any call, for every stream of events.               *)
THEOREM HttpCallsEndWell == HttpSpec => []HttpEndsWell
  BY HttpStarts, HttpKeeps, HttpSaid, PTL DEF HttpSpec

-----------------------------------------------------------------------------
(* Provider lists                                                          *)

Held == [Range(ConnIds) -> Contents \cup {Absent, Broken}]
PlacedOf(found) == FromBuiltins \cup UNION {Expand(n, found[ConnIds[n]]) : n \in DOMAIN ConnIds}
Loads == [on : BOOLEAN, todo : SUBSET DOMAIN ConnIds, got : Held \cup {NoLoad.got},
          changed : BOOLEAN]
ProviderLists == {ManifestsOf(found) : found \in Held} \cup {{}}

ListTypes ==
  /\ ProvidersTypeOK
  /\ load \in [Fetches -> Loads]
  /\ \A f \in Fetches : load[f].on => load[f].got \in Held /\ fpc[f] = "loading"
  /\ spoiled \in BOOLEAN
  /\ answer \in [Fetches -> ProviderLists \cup {NoValue}]
  /\ seenList \in ProviderLists \cup {NoValue}

(* What a load has read of the files is still there, as long as none has   *)
(* changed.                                                                *)
LoadsRead ==
  \A f \in Fetches : load[f].on /\ ~load[f].changed =>
    \A n \in DOMAIN ConnIds \ load[f].todo : load[f].got[ConnIds[n]] = files[ConnIds[n]]
CacheStands == (cache # NoValue /\ ~tainted /\ ~Changing) => cache = files

(* A list that is out of date is being made up for: a change is not over,  *)
(* or the browser has yet to refresh, or has asked again.                  *)
Dated(list) == list # ManifestsOf(files) /\ ~Changing /\ toRefresh = {}
SentLater(f) == \E i, j \in 1 .. Len(sent) : i < j /\ sent[i] = f /\ sent[j] # f
AnswersStand ==
  \A f \in Fetches : fpc[f] = "answered" /\ ~spoiled /\ Dated(answer[f]) => SentLater(f)
SeenStands ==
  seenList # NoValue /\ ~spoiled /\ Dated(seenList) =>
    \E f \in Fetches : fpc[f] \in {"loading", "answered"}
SentKnown == \A f \in Fetches : fpc[f] # "unused" <=> \E i \in 1 .. Len(sent) : sent[i] = f

ListInv == ListTypes /\ LoadsRead /\ CacheStands /\ AnswersStand /\ SeenStands /\ SentKnown

-----------------------------------------------------------------------------
(* Of each id a list has one manifest, that of providers/ if there is one. *)
LEMMA FirstIsOnly ==
  ASSUME NEW found \in Held, NEW m \in ManifestsOf(found), m.from # "providers"
  PROVE  /\ m.id \notin {PlainId(b.name) : b \in {x \in Range(Builtins) : ValidManifest(x.manifest)}}
         /\ \A n \in ManifestsOf(found) : n.id = m.id => n = m
<1>a. PICK all : all = PlacedOf(found)
  OBVIOUS
<1>1. \A x \in FromBuiltins :
        \E k \in Int : x = Placed(0, k, PlainId(Builtins[k].name), "providers")
  BY ProvidersAssumption DEF FromBuiltins
<1>2. \A n \in DOMAIN ConnIds : \A x \in Expand(n, found[ConnIds[n]]) :
        \E k \in Int : x = Placed(n, k, PortId(ConnIds[n], found[ConnIds[n]].ports[k]), ConnIds[n])
  <2> TAKE n \in DOMAIN ConnIds
  <2> TAKE x \in Expand(n, found[ConnIds[n]])
  <2>1. found[ConnIds[n]] \in Contents \cup {Absent, Broken}
    BY DEF Held, Range
  <2>2. found[ConnIds[n]] \in Contents
    BY <2>1 DEF Expand
  <2>3. \A k \in DOMAIN found[ConnIds[n]].ports : k \in Int
    BY <2>2, ProvidersAssumption
  <2>4. PICK k \in DOMAIN found[ConnIds[n]].ports :
          x = Placed(n, k, PortId(ConnIds[n], found[ConnIds[n]].ports[k]), ConnIds[n])
    BY <2>2 DEF Expand
  <2> QED  BY <2>3, <2>4
<1>3. \A x \in all : \/ x \in FromBuiltins
                     \/ \E n \in DOMAIN ConnIds : x \in Expand(n, found[ConnIds[n]])
  BY <1>a DEF PlacedOf
<1>4. \A n \in DOMAIN ConnIds : n \in Int /\ n > 0
  BY ProvidersAssumption
<1>5. \A n, k, id, from : LET p == Placed(n, k, id, from)
                         IN /\ p.at[1] = n /\ p.at[2] = k
                            /\ p.is.id = id /\ p.is.from = from
  BY DEF Placed
<1>6. \A x \in all : /\ x.at[1] \in Int /\ x.at[2] \in Int /\ x.at[1] >= 0
                     /\ x.at[1] = 0 => x \in FromBuiltins /\ x.is.from = "providers"
                     /\ x.at[1] # 0 => \E n \in DOMAIN ConnIds : x \in Expand(n, found[ConnIds[n]])
  <2> TAKE x \in all
  <2>1. CASE x \in FromBuiltins
    <3>1. PICK k \in Int : x = Placed(0, k, PlainId(Builtins[k].name), "providers")
      BY <1>1, <2>1
    <3>2. x.at[1] = 0 /\ x.at[2] = k /\ x.is.from = "providers"
      BY <1>5, <3>1
    <3> QED  BY <2>1, <3>2
  <2>2. ASSUME NEW n \in DOMAIN ConnIds, x \in Expand(n, found[ConnIds[n]])
        PROVE  x.at[1] = n /\ x.at[2] \in Int
    <3>1. PICK k \in Int : x = Placed(n, k, PortId(ConnIds[n], found[ConnIds[n]].ports[k]), ConnIds[n])
      BY <1>2, <2>2
    <3> QED  BY <1>5, <3>1
  <2> QED  BY <1>3, <1>4, <2>1, <2>2
<1>7. \A x, y \in all : x.at[1] = y.at[1] /\ x.at[2] = y.at[2] => x = y
  <2> SUFFICES ASSUME NEW x \in all, NEW y \in all, x.at[1] = y.at[1], x.at[2] = y.at[2]
               PROVE  x = y
    OBVIOUS
  <2>1. CASE x.at[1] = 0
    <3>1. x \in FromBuiltins /\ y \in FromBuiltins
      BY <1>6, <2>1
    <3>2. PICK k \in Int : x = Placed(0, k, PlainId(Builtins[k].name), "providers")
      BY <1>1, <3>1
    <3>3. PICK l \in Int : y = Placed(0, l, PlainId(Builtins[l].name), "providers")
      BY <1>1, <3>1
    <3>4. k = l
      BY <1>5, <3>2, <3>3
    <3> QED  BY <3>2, <3>3, <3>4
  <2>2. CASE x.at[1] # 0
    <3>1. PICK n \in DOMAIN ConnIds : x \in Expand(n, found[ConnIds[n]])
      BY <1>6, <2>2
    <3>2. PICK p \in DOMAIN ConnIds : y \in Expand(p, found[ConnIds[p]])
      BY <1>6, <2>2
    <3>3. PICK k \in Int : x = Placed(n, k, PortId(ConnIds[n], found[ConnIds[n]].ports[k]), ConnIds[n])
      BY <1>2, <3>1
    <3>4. PICK l \in Int : y = Placed(p, l, PortId(ConnIds[p], found[ConnIds[p]].ports[l]), ConnIds[p])
      BY <1>2, <3>2
    <3>5. n = p /\ k = l
      BY <1>5, <3>3, <3>4
    <3> QED  BY <3>3, <3>4, <3>5
  <2> QED  BY <2>1, <2>2
<1>8. \A n : n \in ManifestsOf(found) <=>
        \E x \in all : n = x.is /\ \A y \in all : y.is.id = x.is.id => ~Before(y.at, x.at)
  BY <1>a DEF ManifestsOf, PlacedOf, FirstWins
<1>9. PICK x \in all : m = x.is /\ \A y \in all : y.is.id = x.is.id => ~Before(y.at, x.at)
  BY <1>8
<1>10. x.at[1] # 0 /\ x.at[1] > 0
  BY <1>6, <1>9
<1>11. ASSUME NEW n \in ManifestsOf(found), n.id = m.id  PROVE  n = m
  <2>1. PICK y \in all : n = y.is /\ \A z \in all : z.is.id = y.is.id => ~Before(z.at, y.at)
    BY <1>8
  <2>2. ~Before(x.at, y.at) /\ ~Before(y.at, x.at)
    BY <1>9, <1>11, <2>1
  <2>3. x.at[1] = y.at[1] /\ x.at[2] = y.at[2]
    BY <1>6, <2>2 DEF Before
  <2> QED  BY <1>7, <1>9, <2>1, <2>3
<1>12. ASSUME NEW b \in Range(Builtins), ValidManifest(b.manifest), m.id = PlainId(b.name)
       PROVE  FALSE
  <2>1. PICK k \in DOMAIN Builtins : b = Builtins[k]
    BY DEF Range
  <2>2. PICK y : y = Placed(0, k, PlainId(b.name), "providers")
    OBVIOUS
  <2>3. y \in all
    BY <1>a, <1>12, <2>1, <2>2 DEF PlacedOf, FromBuiltins
  <2>4. y.is.id = x.is.id /\ y.at[1] = 0
    BY <1>5, <1>9, <1>12, <2>2
  <2>5. Before(y.at, x.at)
    BY <1>6, <1>10, <2>4 DEF Before
  <2> QED  BY <1>9, <2>3, <2>4, <2>5
<1> QED  BY <1>11, <1>12

LEMMA ListsStart == ProvidersInit => ListInv
<1> SUFFICES ASSUME ProvidersInit  PROVE  ListInv
  OBVIOUS
<1>1. NoLoad \in Loads /\ NoLoad.on = FALSE /\ NoLoad.todo = {}
  BY DEF NoLoad, Loads
<1>2. ProvidersTypeOK
  <2>1. files \in [Range(ConnIds) -> Contents \cup {Absent, Broken}]
    BY DEF ProvidersInit
  <2>2. \A f \in Fetches : load[f].todo \subseteq DOMAIN ConnIds
    BY <1>1 DEF ProvidersInit
  <2>3. <<>> \in Seq(Fetches)
    OBVIOUS
  <2> QED  BY <2>1, <2>2, <2>3 DEF ProvidersInit, ProvidersTypeOK
<1>3. ListTypes
  BY <1>1, <1>2 DEF ProvidersInit, ListTypes
<1>4. SentKnown
  BY DEF ProvidersInit, SentKnown
<1> QED  BY <1>1, <1>3, <1>4
         DEF ProvidersInit, ListInv, LoadsRead, CacheStands, AnswersStand, SeenStands

(* A load that has read every file has read what is there.                 *)
LEMMA LoadedAll ==
  ASSUME ListInv, NEW f \in Fetches, load[f].on, load[f].todo = {}, ~load[f].changed
  PROVE  load[f].got = files
<1>1. load[f].got \in Held /\ files \in Held
  BY DEF ListInv, ListTypes, ProvidersTypeOK, Held
<1>2. \A c \in Range(ConnIds) : \E n \in DOMAIN ConnIds : c = ConnIds[n]
  BY DEF Range
<1>3. \A n \in DOMAIN ConnIds : load[f].got[ConnIds[n]] = files[ConnIds[n]]
  BY DEF ListInv, LoadsRead
<1> QED  BY <1>1, <1>2, <1>3 DEF Held

(* A load starts, goes on and ends.                                        *)
LEMMA LoadCachedKeeps == ASSUME ListInv, NEW f \in Fetches, LoadCached(f)  PROVE ListInv'
<1>1. /\ ListTypes /\ ProvidersTypeOK /\ LoadsRead /\ CacheStands /\ AnswersStand /\ SeenStands
      /\ SentKnown
  BY DEF ListInv, ListTypes
<1>2. /\ fpc[f] = "loading" /\ ~load[f].on /\ cache # NoValue
      /\ fpc' = [fpc EXCEPT ![f] = "answered"]
      /\ answer' = [answer EXCEPT ![f] = ManifestsOf(cache)]
      /\ spoiled' = (spoiled \/ tainted)
      /\ files' = files /\ cache' = cache /\ tainted' = tainted /\ load' = load /\ wpc' = wpc
      /\ reply' = reply /\ seenList' = seenList /\ inFlight' = inFlight /\ sent' = sent
      /\ toRefresh' = toRefresh
  BY DEF LoadCached, serverVars
<1>3. ManifestsOf(cache) \in ProviderLists
  BY <1>1, <1>2 DEF ProvidersTypeOK, ProviderLists, Held
<1>4. ListTypes'
  BY <1>1, <1>2, <1>3 DEF ListTypes, ProvidersTypeOK
<1>5. Changing' <=> Changing
  BY <1>2 DEF Changing
<1>6. LoadsRead' /\ CacheStands'
  BY <1>1, <1>2, <1>5 DEF LoadsRead, CacheStands
<1>7. \A g : SentLater(g)' <=> SentLater(g)
  BY <1>2 DEF SentLater
<1>8. AnswersStand'
  <2> SUFFICES ASSUME NEW g \in Fetches, fpc'[g] = "answered", ~spoiled',
                      answer'[g] # ManifestsOf(files), ~Changing, toRefresh = {}
               PROVE  SentLater(g)
    BY <1>2, <1>5, <1>7 DEF AnswersStand, Dated
  <2>1. CASE g = f
    <3>1. answer'[g] = ManifestsOf(cache) /\ cache = files
      BY <1>1, <1>2, <2>1 DEF CacheStands, ListTypes
    <3> QED  BY <3>1
  <2>2. CASE g # f
    BY <1>1, <1>2, <2>2 DEF AnswersStand, Dated, ListTypes, ProvidersTypeOK
  <2> QED  BY <2>1, <2>2
<1>9. SeenStands' /\ SentKnown'
  BY <1>1, <1>2, <1>5 DEF SeenStands, Dated, SentKnown, ProvidersTypeOK
<1> QED  BY <1>4, <1>6, <1>8, <1>9 DEF ListInv

LEMMA ReadsKeep ==
  ASSUME ListInv, NEW f \in Fetches, ListFiles(f) \/ ReadFile(f)
  PROVE  ListInv'
<1>1. /\ ListTypes /\ ProvidersTypeOK /\ LoadsRead /\ CacheStands /\ AnswersStand /\ SeenStands
      /\ SentKnown
  BY DEF ListInv, ListTypes
<1>2. /\ files' = files /\ cache' = cache /\ tainted' = tainted /\ wpc' = wpc /\ fpc' = fpc
      /\ reply' = reply /\ seenList' = seenList /\ inFlight' = inFlight /\ sent' = sent
      /\ toRefresh' = toRefresh /\ answer' = answer /\ spoiled' = spoiled
  BY DEF ListFiles, ReadFile, browserVars
<1>3. Changing' <=> Changing
  BY <1>2 DEF Changing
<1>4. files \in Held
  BY <1>1 DEF ProvidersTypeOK, Held
<1>5. /\ load' \in [Fetches -> Loads] /\ LoadsRead'
      /\ \A g \in Fetches : load'[g].on => load'[g].got \in Held /\ fpc[g] = "loading"
  <2>1. CASE ListFiles(f)
    <3>a. PICK l : l = [on |-> TRUE, todo |-> {n \in DOMAIN ConnIds : files[ConnIds[n]] # Absent},
                        got |-> [c \in Range(ConnIds) |-> Absent], changed |-> FALSE]
      OBVIOUS
    <3>1. load' = [load EXCEPT ![f] = l] /\ fpc[f] = "loading"
      BY <2>1, <3>a DEF ListFiles
    <3>2. l \in Loads /\ l.got \in Held
      BY <3>a DEF Loads, Held
    <3>3. \A n \in DOMAIN ConnIds \ l.todo : l.got[ConnIds[n]] = files[ConnIds[n]]
      BY <3>a DEF Range
    <3> QED  BY <1>1, <1>2, <3>1, <3>2, <3>3 DEF ListTypes, LoadsRead
  <2>2. CASE ReadFile(f)
    <3>1. PICK n \in load[f].todo :
            load' = [load EXCEPT ![f].todo = @ \ {n}, ![f].got[ConnIds[n]] = files[ConnIds[n]]]
      BY <2>2 DEF ReadFile
    <3>a. PICK l : l = load'[f]
      OBVIOUS
    <3>2. load[f] \in Loads /\ load[f].on /\ load[f].got \in Held /\ fpc[f] = "loading"
      BY <1>1, <2>2 DEF ReadFile, ListTypes
    <3>3. l = [load[f] EXCEPT !.todo = @ \ {n}, !.got[ConnIds[n]] = files[ConnIds[n]]]
      BY <1>1, <3>1, <3>a DEF ListTypes
    <3>4. /\ l.on = load[f].on /\ l.changed = load[f].changed /\ l.todo = load[f].todo \ {n}
          /\ l.got = [load[f].got EXCEPT ![ConnIds[n]] = files[ConnIds[n]]]
          /\ l = [on |-> l.on, todo |-> l.todo, got |-> l.got, changed |-> l.changed]
      BY <3>2, <3>3 DEF Loads
    <3>5. /\ n \in DOMAIN ConnIds /\ ConnIds[n] \in Range(ConnIds)
          /\ files[ConnIds[n]] \in Contents \cup {Absent, Broken}
      BY <1>4, <3>2 DEF Loads, Range, Held
    <3>6. l.got \in Held
      BY <3>2, <3>4, <3>5 DEF Held
    <3>7. l \in Loads
      BY <3>2, <3>4, <3>6 DEF Loads
    <3>8. ~l.changed => \A k \in DOMAIN ConnIds \ l.todo : l.got[ConnIds[k]] = files[ConnIds[k]]
      <4> SUFFICES ASSUME ~l.changed, NEW k \in DOMAIN ConnIds, k \notin l.todo
                   PROVE  l.got[ConnIds[k]] = files[ConnIds[k]]
        OBVIOUS
      <4>1. ConnIds[k] \in Range(ConnIds)
        BY DEF Range
      <4>2. k \notin load[f].todo => load[f].got[ConnIds[k]] = files[ConnIds[k]]
        BY <1>1, <3>2, <3>4 DEF LoadsRead
      <4> QED  BY <3>2, <3>4, <4>1, <4>2 DEF Held
    <3>9. \A g \in Fetches : load'[g] = IF g = f THEN l ELSE load[g]
      BY <1>1, <3>1, <3>a DEF ListTypes
    <3>10. load' \in [Fetches -> Loads]
      <4>1. DOMAIN load' = Fetches /\ load' = [g \in Fetches |-> load'[g]]
        BY <1>1, <3>1 DEF ListTypes
      <4> QED  BY <1>1, <3>7, <3>9, <4>1 DEF ListTypes
    <3>11. LoadsRead'
      <4> SUFFICES ASSUME NEW g \in Fetches, load'[g].on, ~load'[g].changed,
                          NEW k \in DOMAIN ConnIds \ load'[g].todo
                   PROVE  load'[g].got[ConnIds[k]] = files[ConnIds[k]]
        BY <1>2 DEF LoadsRead
      <4>1. CASE g = f
        BY <3>8, <3>9, <4>1
      <4>2. CASE g # f
        BY <1>1, <3>9, <4>2 DEF LoadsRead
      <4> QED  BY <4>1, <4>2
    <3>12. \A g \in Fetches : load'[g].on => load'[g].got \in Held /\ fpc[g] = "loading"
      BY <1>1, <3>2, <3>6, <3>9 DEF ListTypes
    <3> QED  BY <3>10, <3>11, <3>12
  <2> QED  BY <2>1, <2>2
<1>6. ListTypes'
  <2>1. \A g \in Fetches : load'[g].todo \subseteq DOMAIN ConnIds
    BY <1>5 DEF Loads
  <2> QED  BY <1>1, <1>2, <1>5, <2>1 DEF ListTypes, ProvidersTypeOK
<1>7. CacheStands'
  BY <1>1, <1>2, <1>3 DEF CacheStands
<1>8. AnswersStand' /\ SeenStands' /\ SentKnown'
  BY <1>1, <1>2, <1>3 DEF AnswersStand, SentLater, Dated, SeenStands, SentKnown
<1> QED  BY <1>5, <1>6, <1>7, <1>8 DEF ListInv

LEMMA FillCacheKeeps == ASSUME ListInv, NEW f \in Fetches, FillCache(f)  PROVE ListInv'
<1>1. /\ ListTypes /\ ProvidersTypeOK /\ LoadsRead /\ CacheStands /\ AnswersStand /\ SeenStands
      /\ SentKnown
  BY DEF ListInv, ListTypes
<1>2. /\ load[f].on /\ load[f].todo = {} /\ fpc[f] = "loading" /\ load[f].got \in Held
      /\ cache' = load[f].got /\ tainted' = load[f].changed
      /\ load' = [load EXCEPT ![f] = NoLoad]
      /\ fpc' = [fpc EXCEPT ![f] = "answered"]
      /\ answer' = [answer EXCEPT ![f] = ManifestsOf(load[f].got)]
      /\ spoiled' = (spoiled \/ load[f].changed)
      /\ files' = files /\ wpc' = wpc /\ reply' = reply /\ seenList' = seenList
      /\ inFlight' = inFlight /\ sent' = sent /\ toRefresh' = toRefresh
  BY <1>1 DEF FillCache, ListTypes
<1>3. ManifestsOf(load[f].got) \in ProviderLists
  BY <1>2 DEF ProviderLists
<1>4. NoLoad \in Loads /\ NoLoad.on = FALSE /\ NoLoad.todo = {}
  BY DEF NoLoad, Loads
<1>5. load[f].changed \in BOOLEAN
  BY <1>1 DEF ListTypes, Loads
<1>6. /\ load' \in [Fetches -> Loads]
      /\ \A g \in Fetches : load'[g] = IF g = f THEN NoLoad ELSE load[g]
  BY <1>1, <1>2, <1>4 DEF ListTypes
<1>7. ListTypes'
  <2>1. \A g \in Fetches : load'[g].on => load'[g].got \in Held /\ fpc'[g] = "loading"
    BY <1>1, <1>2, <1>4, <1>6 DEF ListTypes, ProvidersTypeOK
  <2>2. \A g \in Fetches : load'[g].todo \subseteq DOMAIN ConnIds
    BY <1>6 DEF Loads
  <2>3. fpc' \in [Fetches -> {"unused", "loading", "answered", "over"}]
    BY <1>1, <1>2 DEF ProvidersTypeOK
  <2>4. answer' \in [Fetches -> ProviderLists \cup {NoValue}] /\ spoiled' \in BOOLEAN
    BY <1>1, <1>2, <1>3, <1>5 DEF ListTypes
  <2> QED  BY <1>1, <1>2, <1>5, <1>6, <2>1, <2>2, <2>3, <2>4 DEF ListTypes, ProvidersTypeOK, Held
<1>8. Changing' <=> Changing
  BY <1>2 DEF Changing
<1>9. LoadsRead'
  BY <1>1, <1>2, <1>4, <1>6 DEF LoadsRead
<1>10. CacheStands'
  BY <1>2, LoadedAll DEF CacheStands
<1>11. \A g : SentLater(g)' <=> SentLater(g)
  BY <1>2 DEF SentLater
<1>12. AnswersStand'
  <2> SUFFICES ASSUME NEW g \in Fetches, fpc'[g] = "answered", ~spoiled',
                      answer'[g] # ManifestsOf(files), ~Changing, toRefresh = {}
               PROVE  SentLater(g)
    BY <1>2, <1>8, <1>11 DEF AnswersStand, Dated
  <2>1. CASE g = f
    <3>1. load[f].got = files
      BY <1>2, LoadedAll
    <3> QED  BY <1>1, <1>2, <2>1, <3>1 DEF ListTypes
  <2>2. CASE g # f
    BY <1>1, <1>2, <2>2 DEF AnswersStand, Dated, ListTypes, ProvidersTypeOK
  <2> QED  BY <2>1, <2>2
<1>13. SeenStands' /\ SentKnown'
  BY <1>1, <1>2, <1>8 DEF SeenStands, Dated, SentKnown, ProvidersTypeOK
<1> QED  BY <1>7, <1>9, <1>10, <1>12, <1>13 DEF ListInv

(* A request that changes no file.                                         *)
LEMMA WriterRests ==
  ASSUME ListInv, NEW w \in Writers, Quietly, UNCHANGED <<files, cache, tainted, load>>,
         NEW s \in {"validating", "choosing", "reading", "writing", "unlinking", "over"},
         wpc[w] \notin {"filling", "written"}, wpc' = [wpc EXCEPT ![w] = s],
         toRefresh' = toRefresh, reply' \in [Writers -> {0, 200, 400, 404, 409}]
  PROVE  ListInv'
<1>1. /\ ListTypes /\ ProvidersTypeOK /\ LoadsRead /\ CacheStands /\ AnswersStand /\ SeenStands
      /\ SentKnown
  BY DEF ListInv, ListTypes
<1>2. /\ files' = files /\ cache' = cache /\ tainted' = tainted /\ fpc' = fpc /\ load' = load
      /\ seenList' = seenList /\ inFlight' = inFlight /\ sent' = sent /\ answer' = answer
      /\ spoiled' = spoiled
  BY DEF Quietly
<1>3. wpc' \in [Writers -> {"new", "validating", "choosing", "reading", "writing", "filling",
                           "written", "unlinking", "over"}]
  BY <1>1 DEF ProvidersTypeOK
<1>4. Changing' <=> Changing
  BY <1>1 DEF Changing, ProvidersTypeOK
<1>5. ListTypes'
  BY <1>1, <1>2, <1>3 DEF ListTypes, ProvidersTypeOK
<1>6. LoadsRead' /\ CacheStands'
  BY <1>1, <1>2, <1>4 DEF LoadsRead, CacheStands
<1>7. AnswersStand' /\ SeenStands' /\ SentKnown'
  BY <1>1, <1>2, <1>4 DEF AnswersStand, SentLater, Dated, SeenStands, SentKnown
<1> QED  BY <1>5, <1>6, <1>7 DEF ListInv

(* A request that changes one.                                             *)
LEMMA FileChanges ==
  ASSUME ListInv, NEW w \in Writers, NEW c \in Range(ConnIds),
         NEW k \in Contents \cup {Absent, Broken}, Touch(c, k),
         NEW s \in {"filling", "written"}, wpc' = [wpc EXCEPT ![w] = s],
         Quietly, UNCHANGED <<cache, tainted, reply, toRefresh>>
  PROVE  ListInv'
<1>1. /\ ListTypes /\ ProvidersTypeOK /\ SentKnown
  BY DEF ListInv, ListTypes
<1>2. /\ cache' = cache /\ tainted' = tainted /\ fpc' = fpc /\ reply' = reply
      /\ seenList' = seenList /\ inFlight' = inFlight /\ sent' = sent /\ answer' = answer
      /\ spoiled' = spoiled /\ toRefresh' = toRefresh
      /\ load' = [f \in Fetches |-> [load[f] EXCEPT !.changed = load[f].on]]
  BY DEF Quietly, Touch
<1>3. /\ wpc' \in [Writers -> {"new", "validating", "choosing", "reading", "writing", "filling",
                              "written", "unlinking", "over"}]
      /\ Changing'
  BY <1>1 DEF ProvidersTypeOK, Changing
<1>4. files' \in [Range(ConnIds) -> Contents \cup {Absent, Broken}]
  BY <1>1 DEF Touch, ProvidersTypeOK
<1>5. \A f \in Fetches : /\ load'[f] \in Loads /\ load'[f].changed = load[f].on
                         /\ load'[f].on = load[f].on /\ load'[f].todo = load[f].todo
                         /\ load'[f].got = load[f].got
  <2> TAKE f \in Fetches
  <2>1. load[f] \in Loads /\ load'[f] = [load[f] EXCEPT !.changed = load[f].on]
    BY <1>1, <1>2 DEF ListTypes
  <2> QED  BY <2>1 DEF Loads
<1>6. load' \in [Fetches -> Loads]
  BY <1>2, <1>5
<1>7. ListTypes'
  <2>1. \A f \in Fetches : load'[f].on => load'[f].got \in Held /\ fpc'[f] = "loading"
    BY <1>1, <1>2, <1>5 DEF ListTypes
  <2>2. \A f \in Fetches : load'[f].todo \subseteq DOMAIN ConnIds
    BY <1>1, <1>5 DEF ProvidersTypeOK
  <2>3. ProvidersTypeOK'
    BY <1>1, <1>2, <1>3, <1>4, <2>2 DEF ProvidersTypeOK
  <2> QED  BY <1>1, <1>2, <1>6, <2>1, <2>3 DEF ListTypes
<1>8. LoadsRead'
  BY <1>5 DEF LoadsRead
<1>9. CacheStands' /\ AnswersStand' /\ SeenStands' /\ SentKnown'
  BY <1>1, <1>2, <1>3 DEF CacheStands, AnswersStand, SentLater, Dated, SeenStands, SentKnown
<1> QED  BY <1>7, <1>8, <1>9 DEF ListInv

LEMMA WritersKeepLists ==
  ASSUME ListInv, NEW w \in Writers,
         \/ Begin(w) \/ Validate(w) \/ ChooseId(w) \/ ReadExisting(w)
         \/ OpenFile(w) \/ FillFile(w) \/ Unlink(w)
  PROVE  ListInv'
<1>1. ProvidersTypeOK
  BY DEF ListInv, ListTypes
<1>2. /\ Job(w).op \in {"create", "update", "delete"} /\ Job(w).id \in Range(ConnIds)
      /\ Job(w).content \in Contents
  BY ProvidersAssumption
<1>3. \A r \in {400, 404, 409} :
        Answer(w, r) => /\ wpc' = [wpc EXCEPT ![w] = "over"] /\ toRefresh' = toRefresh
                        /\ reply' \in [Writers -> {0, 200, 400, 404, 409}]
  BY <1>1 DEF Answer, Step, ProvidersTypeOK
<1>4. reply \in [Writers -> {0, 200, 400, 404, 409}]
  BY <1>1 DEF ProvidersTypeOK
<1>5. CASE Begin(w)
  <2>1. PICK s \in {"validating", "reading", "unlinking"} : wpc' = [wpc EXCEPT ![w] = s]
    BY <1>2, <1>5 DEF Begin, Step
  <2>2. /\ wpc[w] = "new" /\ Quietly /\ toRefresh' = toRefresh /\ reply' = reply
        /\ UNCHANGED <<files, cache, tainted, load>>
    BY <1>5 DEF Begin, browserVars, Quietly
  <2>3. /\ s \in {"validating", "choosing", "reading", "writing", "unlinking", "over"}
        /\ wpc[w] \notin {"filling", "written"}
    BY <2>1, <2>2
  <2>4. Quietly /\ UNCHANGED <<files, cache, tainted, load>> /\ toRefresh' = toRefresh
        /\ reply' \in [Writers -> {0, 200, 400, 404, 409}]
    BY <1>4, <2>2
  <2> QED  BY <2>1, <2>3, <2>4, WriterRests
<1>6. CASE Validate(w)
  <2>1. PICK s \in {"choosing", "writing", "over"} : wpc' = [wpc EXCEPT ![w] = s]
    BY <1>3, <1>6 DEF Validate, Step
  <2>2. /\ wpc[w] = "validating" /\ Quietly /\ toRefresh' = toRefresh
        /\ reply' \in [Writers -> {0, 200, 400, 404, 409}]
        /\ UNCHANGED <<files, cache, tainted, load>>
    BY <1>3, <1>4, <1>6 DEF Validate
  <2>3. /\ s \in {"validating", "choosing", "reading", "writing", "unlinking", "over"}
        /\ wpc[w] \notin {"filling", "written"}
    BY <2>1, <2>2
  <2>4. Quietly /\ UNCHANGED <<files, cache, tainted, load>> /\ toRefresh' = toRefresh
        /\ reply' \in [Writers -> {0, 200, 400, 404, 409}]
    BY <1>4, <2>2
  <2> QED  BY <2>1, <2>3, <2>4, WriterRests
<1>7. CASE ChooseId(w)
  <2>1. PICK s \in {"writing", "over"} : wpc' = [wpc EXCEPT ![w] = s]
    BY <1>3, <1>7 DEF ChooseId, Step
  <2>2. /\ wpc[w] = "choosing" /\ Quietly /\ toRefresh' = toRefresh
        /\ reply' \in [Writers -> {0, 200, 400, 404, 409}]
        /\ UNCHANGED <<files, cache, tainted, load>>
    BY <1>3, <1>4, <1>7 DEF ChooseId
  <2>3. /\ s \in {"validating", "choosing", "reading", "writing", "unlinking", "over"}
        /\ wpc[w] \notin {"filling", "written"}
    BY <2>1, <2>2
  <2>4. Quietly /\ UNCHANGED <<files, cache, tainted, load>> /\ toRefresh' = toRefresh
        /\ reply' \in [Writers -> {0, 200, 400, 404, 409}]
    BY <1>4, <2>2
  <2> QED  BY <2>1, <2>3, <2>4, WriterRests
<1>8. CASE ReadExisting(w)
  <2>1. PICK s \in {"validating", "over"} : wpc' = [wpc EXCEPT ![w] = s]
    BY <1>3, <1>8 DEF ReadExisting, Step
  <2>2. /\ wpc[w] = "reading" /\ Quietly /\ toRefresh' = toRefresh
        /\ reply' \in [Writers -> {0, 200, 400, 404, 409}]
        /\ UNCHANGED <<files, cache, tainted, load>>
    BY <1>3, <1>4, <1>8 DEF ReadExisting
  <2>3. /\ s \in {"validating", "choosing", "reading", "writing", "unlinking", "over"}
        /\ wpc[w] \notin {"filling", "written"}
    BY <2>1, <2>2
  <2>4. Quietly /\ UNCHANGED <<files, cache, tainted, load>> /\ toRefresh' = toRefresh
        /\ reply' \in [Writers -> {0, 200, 400, 404, 409}]
    BY <1>4, <2>2
  <2> QED  BY <2>1, <2>3, <2>4, WriterRests
<1>9. CASE OpenFile(w)
  BY <1>2, <1>9, FileChanges DEF OpenFile, Step, Quietly, browserVars
<1>10. CASE FillFile(w)
  BY <1>2, <1>10, FileChanges DEF FillFile, Step, Quietly, browserVars
<1>11. CASE Unlink(w)
  <2>1. CASE files[Job(w).id] = Absent
    BY <1>3, <1>11, <2>1, WriterRests DEF Unlink
  <2>2. CASE files[Job(w).id] # Absent
    BY <1>2, <1>11, <2>2, FileChanges DEF Unlink, Step
  <2> QED  BY <2>1, <2>2
<1> QED  BY <1>5, <1>6, <1>7, <1>8, <1>9, <1>10, <1>11

LEMMA ResetCacheKeeps == ASSUME ListInv, NEW w \in Writers, ResetCache(w)  PROVE ListInv'
<1>1. /\ ListTypes /\ ProvidersTypeOK /\ LoadsRead /\ SentKnown
  BY DEF ListInv, ListTypes
<1>2. /\ cache' = NoValue /\ tainted' = FALSE /\ files' = files /\ load' = load /\ fpc' = fpc
      /\ seenList' = seenList /\ inFlight' = inFlight /\ sent' = sent /\ answer' = answer
      /\ spoiled' = spoiled /\ wpc' = [wpc EXCEPT ![w] = "over"]
      /\ reply' = [reply EXCEPT ![w] = 200] /\ toRefresh' = toRefresh \cup {w}
  BY DEF ResetCache, Quietly, Answer, Step
<1>3. ListTypes'
  <2>1. \A g \in Fetches : load'[g].on => load'[g].got \in Held /\ fpc'[g] = "loading"
    BY <1>1, <1>2 DEF ListTypes
  <2>2. /\ wpc' \in [Writers -> {"new", "validating", "choosing", "reading", "writing",
                                  "filling", "written", "unlinking", "over"}]
        /\ reply' \in [Writers -> {0, 200, 400, 404, 409}]
        /\ toRefresh' \subseteq Writers
    BY <1>1, <1>2 DEF ProvidersTypeOK
  <2>3. ProvidersTypeOK'
    BY <1>1, <1>2, <2>2 DEF ProvidersTypeOK
  <2> QED  BY <1>1, <1>2, <2>1, <2>3 DEF ListTypes
<1>4. LoadsRead' /\ CacheStands' /\ AnswersStand' /\ SeenStands' /\ SentKnown'
  BY <1>1, <1>2 DEF LoadsRead, CacheStands, AnswersStand, Dated, SeenStands, SentKnown
<1> QED  BY <1>3, <1>4 DEF ListInv

(* The browser asks: whatever it had asked before is overtaken.            *)
LEMMA SendKeeps ==
  ASSUME ListInv, NEW f \in Fetches, fpc[f] = "unused", Send(f), seenList' = NoValue,
         toRefresh' \subseteq Writers, toRefresh' \subseteq toRefresh,
         UNCHANGED <<serverVars, answer, spoiled>>
  PROVE  ListInv'
<1>1. /\ ListTypes /\ ProvidersTypeOK /\ LoadsRead /\ CacheStands /\ SentKnown
  BY DEF ListInv, ListTypes
<1>2. /\ files' = files /\ cache' = cache /\ tainted' = tainted /\ load' = load /\ wpc' = wpc
      /\ reply' = reply /\ answer' = answer /\ spoiled' = spoiled /\ inFlight' = f
      /\ fpc' = [fpc EXCEPT ![f] = "loading"] /\ sent' = Append(sent, f)
  BY DEF Send, serverVars
<1>3. /\ sent' \in Seq(Fetches) /\ Len(sent') = Len(sent) + 1 /\ sent'[Len(sent) + 1] = f
      /\ Len(sent) \in Nat /\ \A i \in 1 .. Len(sent) : sent'[i] = sent[i]
  BY <1>1, <1>2 DEF ProvidersTypeOK
<1>4. ListTypes'
  <2>1. \A g \in Fetches : load'[g].on => load'[g].got \in Held /\ fpc'[g] = "loading"
    BY <1>1, <1>2 DEF ListTypes, ProvidersTypeOK
  <2>2. /\ fpc' \in [Fetches -> {"unused", "loading", "answered", "over"}]
        /\ inFlight' \in Fetches \cup {NoValue}
    BY <1>1, <1>2 DEF ProvidersTypeOK
  <2>3. ProvidersTypeOK'
    BY <1>1, <1>2, <1>3, <2>2 DEF ProvidersTypeOK
  <2> QED  BY <1>1, <1>2, <2>1, <2>3 DEF ListTypes
<1>5. LoadsRead' /\ CacheStands' /\ SeenStands'
  BY <1>1, <1>2 DEF LoadsRead, CacheStands, SeenStands, Changing
<1>6. SentKnown'
  <2> SUFFICES ASSUME NEW g \in Fetches
               PROVE  fpc'[g] # "unused" <=> \E i \in 1 .. Len(sent') : sent'[i] = g
    BY DEF SentKnown
  <2>1. (\E i \in 1 .. Len(sent') : sent'[i] = g)
          <=> g = f \/ \E i \in 1 .. Len(sent) : sent[i] = g
    <3>1. \A i \in 1 .. Len(sent') : i \in 1 .. Len(sent) \/ i = Len(sent) + 1
      BY <1>3
    <3>2. Len(sent) + 1 \in 1 .. Len(sent') /\ \A i \in 1 .. Len(sent) : i \in 1 .. Len(sent')
      BY <1>3
    <3> QED  BY <1>3, <3>1, <3>2
  <2> QED  BY <1>1, <1>2, <2>1 DEF SentKnown, ProvidersTypeOK
<1>7. ASSUME NEW g \in Fetches, fpc'[g] = "answered"  PROVE SentLater(g)'
  <2>1. g # f /\ fpc[g] = "answered"
    BY <1>1, <1>2, <1>7 DEF ProvidersTypeOK
  <2>2. PICK i \in 1 .. Len(sent) : sent[i] = g
    BY <1>1, <2>1 DEF SentKnown
  <2>3. /\ i \in 1 .. Len(sent') /\ Len(sent) + 1 \in 1 .. Len(sent') /\ i < Len(sent) + 1
        /\ sent'[i] = g
    BY <1>3, <2>2
  <2> QED  BY <1>3, <2>1, <2>3 DEF SentLater
<1>8. AnswersStand'
  BY <1>7 DEF AnswersStand
<1> QED  BY <1>4, <1>5, <1>6, <1>8 DEF ListInv

(* A fetch is over: its answer is the list, or nothing is.                 *)
LEMMA FetchEndsKeeps ==
  ASSUME ListInv, NEW f \in Fetches, Arrive(f) \/ FetchBreaks(f)
  PROVE  ListInv'
<1>1. /\ ListTypes /\ ProvidersTypeOK /\ LoadsRead /\ CacheStands /\ AnswersStand /\ SentKnown
  BY DEF ListInv, ListTypes
<1>2. /\ files' = files /\ cache' = cache /\ tainted' = tainted /\ load' = load /\ wpc' = wpc
      /\ reply' = reply /\ answer' = answer /\ sent' = sent /\ toRefresh' = toRefresh
      /\ fpc[f] \in {"loading", "answered"} /\ ~load[f].on
      /\ fpc' = [fpc EXCEPT ![f] = "over"] /\ inFlight' = NoValue
  BY <1>1 DEF Arrive, FetchBreaks, serverVars, ListTypes, Loads
<1>3. /\ spoiled' \in BOOLEAN
      /\ spoiled => spoiled'
      /\ seenList' \in ProviderLists \cup {NoValue}
  BY <1>1 DEF Arrive, FetchBreaks, ListTypes, ProviderLists
<1>4. ListTypes'
  <2>1. \A g \in Fetches : load'[g].on => load'[g].got \in Held /\ fpc'[g] = "loading"
    BY <1>1, <1>2 DEF ListTypes, ProvidersTypeOK
  <2>2. /\ fpc' \in [Fetches -> {"unused", "loading", "answered", "over"}]
        /\ inFlight' \in Fetches \cup {NoValue}
    BY <1>1, <1>2 DEF ProvidersTypeOK
  <2>3. ProvidersTypeOK'
    BY <1>1, <1>2, <2>2 DEF ProvidersTypeOK
  <2> QED  BY <1>1, <1>2, <1>3, <2>1, <2>3 DEF ListTypes
<1>5. LoadsRead' /\ CacheStands' /\ SentKnown'
  BY <1>1, <1>2 DEF LoadsRead, CacheStands, Changing, SentKnown, ProvidersTypeOK
<1>6. AnswersStand'
  <2> SUFFICES ASSUME NEW g \in Fetches, fpc'[g] = "answered", ~spoiled', Dated(answer[g])'
               PROVE  SentLater(g)'
    BY DEF AnswersStand
  <2>1. fpc[g] = "answered" /\ ~spoiled
    <3>1. fpc[g] = "answered"
      BY <1>1, <1>2 DEF ProvidersTypeOK
    <3> QED  BY <1>3, <3>1
  <2>2. ManifestsOf(files)' = ManifestsOf(files)
    BY <1>2 DEF ManifestsOf
  <2>3. Dated(answer[g])
    BY <1>2, <2>2 DEF Dated, Changing
  <2>4. SentLater(g)
    BY <1>1, <2>1, <2>3 DEF AnswersStand
  <2> QED  BY <1>2, <2>4 DEF SentLater
<1>7. SeenStands'
  <2> SUFFICES ASSUME ~spoiled', seenList' # ManifestsOf(files), ~Changing, toRefresh = {}
               PROVE  \E g \in Fetches : fpc'[g] \in {"loading", "answered"}
    BY <1>2 DEF SeenStands, Dated, Changing
  <2>1. Arrive(f)
    BY DEF FetchBreaks
  <2>2. fpc[f] = "answered" /\ seenList' = answer[f] /\ ~spoiled /\ ~Later(f)
    BY <1>1, <2>1 DEF Arrive, ListTypes
  <2>3. SentLater(f)
    BY <1>1, <2>2 DEF AnswersStand, Dated
  <2>4. PICK i, j \in 1 .. Len(sent) : i < j /\ sent[i] = f /\ sent[j] # f
    BY <2>3 DEF SentLater
  <2>5. sent[j] \in Fetches /\ DOMAIN sent = 1 .. Len(sent)
    BY <1>1, ElementOfSeq, LenProperties DEF ProvidersTypeOK
  <2>6. fpc[sent[j]] # "over" /\ fpc[sent[j]] # "unused"
    BY <1>1, <2>2, <2>4, <2>5 DEF Later, SentKnown
  <2>7. fpc'[sent[j]] \in {"loading", "answered"}
    BY <1>1, <1>2, <2>4, <2>5, <2>6 DEF ProvidersTypeOK
  <2> QED  BY <2>5, <2>7
<1> QED  BY <1>4, <1>5, <1>6, <1>7 DEF ListInv

LEMMA ListsKeep == ListInv /\ [ProvidersNext]_providerVars => ListInv'
<1> SUFFICES ASSUME ListInv, [ProvidersNext]_providerVars  PROVE ListInv'
  OBVIOUS
<1>1. ASSUME NEW f \in Fetches, LoadCached(f) \/ ListFiles(f) \/ ReadFile(f) \/ FillCache(f)
      PROVE  ListInv'
  BY <1>1, LoadCachedKeeps, ReadsKeep, FillCacheKeeps
<1>2. ASSUME NEW w \in Writers, \/ Begin(w) \/ Validate(w) \/ ChooseId(w) \/ ReadExisting(w)
                                \/ OpenFile(w) \/ FillFile(w) \/ Unlink(w) \/ ResetCache(w)
      PROVE  ListInv'
  BY <1>2, WritersKeepLists, ResetCacheKeeps
<1>3. ASSUME NEW f \in Fetches, Mount(f)  PROVE ListInv'
  <2>1. toRefresh \subseteq Writers
    BY DEF ListInv, ListTypes, ProvidersTypeOK
  <2> QED  BY <1>3, <2>1, SendKeeps DEF Mount
<1>4. ASSUME NEW f \in Fetches, Arrive(f) \/ FetchBreaks(f)  PROVE ListInv'
  BY <1>4, FetchEndsKeeps
<1>5. ASSUME NEW w \in Writers, NEW f \in Fetches, Refresh(w, f)  PROVE ListInv'
  <2>1. toRefresh \subseteq Writers
    BY DEF ListInv, ListTypes, ProvidersTypeOK
  <2> QED  BY <1>5, <2>1, SendKeeps DEF Refresh
<1>6. CASE UNCHANGED providerVars
  <2>1. /\ files' = files /\ cache' = cache /\ tainted' = tainted /\ load' = load /\ wpc' = wpc
        /\ reply' = reply /\ answer' = answer /\ sent' = sent /\ toRefresh' = toRefresh
        /\ fpc' = fpc /\ inFlight' = inFlight /\ spoiled' = spoiled /\ seenList' = seenList
    BY <1>6 DEF providerVars
  <2>2. ListTypes' /\ LoadsRead' /\ CacheStands'
    BY <2>1 DEF ListInv, ListTypes, ProvidersTypeOK, LoadsRead, CacheStands, Changing
  <2>3. AnswersStand' /\ SeenStands' /\ SentKnown'
    BY <2>1 DEF ListInv, AnswersStand, SentLater, Dated, Changing, SeenStands, SentKnown
  <2> QED  BY <2>2, <2>3 DEF ListInv
<1> QED  BY <1>1, <1>2, <1>3, <1>4, <1>5, <1>6 DEF ProvidersNext

LEMMA ListsSaid == ListInv => ListsAreFresh
<1> SUFFICES ASSUME ListInv  PROVE ListsAreFresh
  OBVIOUS
<1>1. ListTypes /\ ProvidersTypeOK /\ CacheStands /\ SeenStands
  BY DEF ListInv, ListTypes
<1>2. (/\ seenList # NoValue /\ ~spoiled /\ ~Changing /\ toRefresh = {}
       /\ \A f \in Fetches : fpc[f] \in {"unused", "over"})
      => seenList = ManifestsOf(files)
  BY <1>1 DEF SeenStands, Dated
<1>3. ASSUME seenList # NoValue, NEW m \in seenList, m.from # "providers"
      PROVE  /\ m.id \notin {PlainId(b.name) : b \in {x \in Range(Builtins) : ValidManifest(x.manifest)}}
             /\ \A n \in seenList : n.id = m.id => n = m
  <2>1. PICK found \in Held : seenList = ManifestsOf(found)
    BY <1>1, <1>3 DEF ListTypes, ProviderLists
  <2> QED  BY <1>3, <2>1, FirstIsOnly
<1> QED  BY <1>1, <1>2, <1>3 DEF ListsAreFresh, ProviderListFresh, CacheStands

(* The server's cache and the browser's list are what is on disk, and of   *)
(* each id they name one manifest, for every set of files and requests.    *)
THEOREM ProviderListsAreFresh == ProvidersSpec => []ListsAreFresh
  BY ListsStart, ListsKeep, ListsSaid, PTL DEF ProvidersSpec
=============================================================================
