------------------------- MODULE TriggerQueueProofs -------------------------
(***************************************************************************)
(* Proofs about TriggerQueue, for every capacity and number of requests.   *)
(* Every step of the module either leaves the line of waiting requests     *)
(* alone or changes it in one of three ways (StepShape); the safety        *)
(* properties of the line, and the refinement of RunQueue, follow from the *)
(* shape of the step and not from the step itself.                         *)
(***************************************************************************)
EXTENDS TriggerQueue, SequenceTheorems, TLAPS

-----------------------------------------------------------------------------
(* Sequences                                                               *)

(* Removing the k-th element closes the gap and keeps the rest.            *)
LEMMA RemoveAtProperties ==
  ASSUME NEW S, NEW s \in Seq(S), NEW k \in 1..Len(s)
  PROVE  /\ RemoveAt(s, k) \in Seq(S)
         /\ Len(RemoveAt(s, k)) = Len(s) - 1
         /\ \A j \in 1..(Len(s) - 1) :
              RemoveAt(s, k)[j] = IF j < k THEN s[j] ELSE s[j + 1]
<1> DEFINE a == SubSeq(s, 1, k - 1)
           b == SubSeq(s, k + 1, Len(s))
<1>1. /\ a \in Seq(S)
      /\ Len(a) = k - 1
      /\ \A j \in 1..(k - 1) : a[j] = s[j]
  <2>1. \A j \in 1..(k - 1) : s[j] \in S
    BY ElementOfSeq
  <2> QED BY <2>1, SubSeqProperties, LenProperties
<1>2. /\ b \in Seq(S)
      /\ Len(b) = Len(s) - k
      /\ \A j \in 1..(Len(s) - k) : b[j] = s[k + j]
  <2>1. \A j \in (k + 1)..Len(s) : s[j] \in S
    BY ElementOfSeq
  <2> QED BY <2>1, SubSeqProperties, LenProperties
<1> HIDE DEF a, b
<1>3. /\ a \o b \in Seq(S)
      /\ Len(a \o b) = Len(s) - 1
      /\ \A j \in 1..(Len(s) - 1) :
           (a \o b)[j] = IF j < k THEN s[j] ELSE s[j + 1]
  <2>1. /\ a \o b \in Seq(S)
        /\ Len(a \o b) = Len(a) + Len(b)
        /\ \A j \in 1..(Len(a) + Len(b)) :
             (a \o b)[j] = IF j <= Len(a) THEN a[j] ELSE b[j - Len(a)]
    BY <1>1, <1>2, ConcatProperties
  <2> DEFINE c == a \o b
  <2> HIDE DEF c
  <2>2. /\ c \in Seq(S)
        /\ Len(c) = Len(s) - 1
        /\ \A j \in 1..(Len(s) - 1) :
             c[j] = IF j <= k - 1 THEN a[j] ELSE b[j - (k - 1)]
    BY <1>1, <1>2, <2>1, LenProperties DEF c
  <2>3. Len(s) \in Nat
    BY LenProperties
  <2>4. ASSUME NEW j \in 1..(Len(s) - 1)
        PROVE  c[j] = IF j < k THEN s[j] ELSE s[j + 1]
    <3>1. CASE j < k
      BY <1>1, <2>2, <2>3, <3>1
    <3>2. CASE ~(j < k)
      <4>1. j - (k - 1) \in 1..(Len(s) - k) /\ k + (j - (k - 1)) = j + 1
        BY <2>3, <3>2
      <4> QED BY <1>2, <2>2, <2>3, <3>2, <4>1
    <3> QED BY <3>1, <3>2
  <2> QED BY <2>2, <2>4 DEF c
<1> QED BY <1>3 DEF RemoveAt, a, b

(* Prepending an element shifts the rest by one place.                     *)
LEMMA PrependProperties ==
  ASSUME NEW S, NEW e \in S, NEW s \in Seq(S)
  PROVE  /\ <<e>> \o s \in Seq(S)
         /\ Len(<<e>> \o s) = Len(s) + 1
         /\ \A j \in 1..(Len(s) + 1) :
              (<<e>> \o s)[j] = IF j = 1 THEN e ELSE s[j - 1]
         /\ Head(<<e>> \o s) = e
         /\ Tail(<<e>> \o s) = s
<1>1. <<e>> \in Seq(S) /\ Len(<<e>>) = 1 /\ <<e>>[1] = e
  OBVIOUS
<1> DEFINE t == <<e>> \o s
<1>2. /\ t \in Seq(S)
      /\ Len(t) = Len(s) + 1
      /\ \A j \in 1..(Len(s) + 1) : t[j] = IF j = 1 THEN e ELSE s[j - 1]
  BY <1>1, ConcatProperties, LenProperties
<1> HIDE DEF t
<1>3. t # <<>> /\ Head(t) = e
  BY <1>2, LenProperties
<1>4. /\ Tail(t) \in Seq(S)
      /\ Len(Tail(t)) = Len(s)
      /\ \A j \in 1..Len(s) : Tail(t)[j] = s[j]
  BY <1>2, <1>3, HeadTailProperties, LenProperties
<1>5. Tail(t) = s
  BY <1>4, SeqEqual
<1> QED BY <1>2, <1>3, <1>5 DEF t

(* Removing behind a prepended element.                                    *)
LEMMA PrependRemoves ==
  ASSUME NEW S, NEW e \in S, NEW s \in Seq(S), NEW k \in 1..Len(s)
  PROVE  <<e>> \o RemoveAt(s, k) = RemoveAt(<<e>> \o s, k + 1)
<1> DEFINE u == <<e>> \o RemoveAt(s, k)
           t == <<e>> \o s
           v == RemoveAt(t, k + 1)
<1>1. /\ u \in Seq(S)
      /\ Len(u) = Len(s)
      /\ \A j \in 1..Len(s) :
           u[j] = IF j = 1 THEN e ELSE IF j - 1 < k THEN s[j - 1] ELSE s[j]
  <2> DEFINE r == RemoveAt(s, k)
  <2>1. /\ r \in Seq(S)
        /\ Len(r) = Len(s) - 1
        /\ \A j \in 1..(Len(s) - 1) : r[j] = IF j < k THEN s[j] ELSE s[j + 1]
    BY RemoveAtProperties
  <2> HIDE DEF r
  <2>2. /\ <<e>> \o r \in Seq(S)
        /\ Len(<<e>> \o r) = Len(r) + 1
        /\ \A j \in 1..(Len(r) + 1) :
             (<<e>> \o r)[j] = IF j = 1 THEN e ELSE r[j - 1]
    BY <2>1, PrependProperties
  <2>3. u = <<e>> \o r
    BY DEF r
  <2> HIDE DEF u
  <2> QED BY <2>1, <2>2, <2>3, LenProperties
<1>2. /\ t \in Seq(S)
      /\ Len(t) = Len(s) + 1
      /\ \A j \in 1..(Len(s) + 1) : t[j] = IF j = 1 THEN e ELSE s[j - 1]
  BY PrependProperties
<1> HIDE DEF t
<1>3. k + 1 \in 1..Len(t)
  BY <1>2, LenProperties
<1>4. /\ v \in Seq(S)
      /\ Len(v) = Len(s)
      /\ \A j \in 1..Len(s) : v[j] = IF j < k + 1 THEN t[j] ELSE t[j + 1]
  <2>1. /\ RemoveAt(t, k + 1) \in Seq(S)
        /\ Len(RemoveAt(t, k + 1)) = Len(t) - 1
        /\ \A j \in 1..(Len(t) - 1) :
             RemoveAt(t, k + 1)[j] = IF j < k + 1 THEN t[j] ELSE t[j + 1]
    BY <1>2, <1>3, RemoveAtProperties
  <2>2. Len(t) - 1 = Len(s)
    BY <1>2, LenProperties
  <2> QED BY <2>1, <2>2
<1> HIDE DEF u, v
<1>5. \A j \in 1..Len(s) : u[j] = v[j]
  <2> SUFFICES ASSUME NEW j \in 1..Len(s)
               PROVE  u[j] = v[j]
    OBVIOUS
  <2>1. Len(s) \in Nat
    BY LenProperties
  <2>2. CASE j < k + 1
    BY <1>1, <1>2, <1>4, <2>1, <2>2
  <2>3. CASE ~(j < k + 1)
    <3>1. j + 1 \in 1..(Len(s) + 1) /\ j # 1 /\ ~(j - 1 < k)
      BY <2>1, <2>3
    <3>2. v[j] = s[j]
      BY <1>2, <1>4, <2>1, <2>3, <3>1
    <3>3. u[j] = s[j]
      BY <1>1, <3>1
    <3> QED BY <3>2, <3>3
  <2> QED BY <2>2, <2>3
<1>6. u = v
  BY <1>1, <1>4, <1>5, SeqEqual
<1> QED BY <1>6 DEF u, v, t

(* Appending behind a prepended element.                                   *)
LEMMA PrependAppends ==
  ASSUME NEW S, NEW e \in S, NEW s \in Seq(S), NEW x \in S
  PROVE  <<e>> \o Append(s, x) = Append(<<e>> \o s, x)
<1>1. <<e>> \in Seq(S) /\ <<x>> \in Seq(S)
  OBVIOUS
<1>2. <<e>> \o (s \o <<x>>) = (<<e>> \o s) \o <<x>>
  BY <1>1, ConcatAssociative
<1>3. <<e>> \o s \in Seq(S)
  BY PrependProperties
<1>4. \A w \in Seq(S) : Append(w, x) = w \o <<x>>
  BY AppendIsConcat
<1> QED BY <1>2, <1>3, <1>4

(* A non-empty sequence is its head in front of its tail.                  *)
LEMMA HeadAndTail ==
  ASSUME NEW S, NEW s \in Seq(S), s # <<>>
  PROVE  <<Head(s)>> \o Tail(s) = s
<1> DEFINE t == <<Head(s)>> \o Tail(s)
<1>1. /\ Head(s) \in S
      /\ Tail(s) \in Seq(S)
      /\ Len(Tail(s)) = Len(s) - 1
      /\ \A i \in 1..Len(Tail(s)) : Tail(s)[i] = s[i + 1]
  BY HeadTailProperties
<1>2. /\ t \in Seq(S)
      /\ Len(t) = Len(Tail(s)) + 1
      /\ \A j \in 1..(Len(Tail(s)) + 1) :
           t[j] = IF j = 1 THEN Head(s) ELSE Tail(s)[j - 1]
  BY <1>1, PrependProperties
<1> HIDE DEF t
<1>3. Len(s) \in Nat \ {0} /\ Head(s) = s[1]
  BY EmptySeq
<1>4. ASSUME NEW j \in 1..Len(s)
      PROVE  t[j] = s[j]
  <2>1. CASE j = 1
    BY <1>1, <1>2, <1>3, <2>1
  <2>2. CASE j # 1
    <3>1. j - 1 \in 1..Len(Tail(s)) /\ (j - 1) + 1 = j
      BY <1>1, <1>3, <2>2
    <3> QED BY <1>1, <1>2, <1>3, <2>2, <3>1
  <2> QED BY <2>1, <2>2
<1>5. Len(t) = Len(s)
  BY <1>1, <1>2, <1>3
<1>6. t = s
  BY <1>2, <1>4, <1>5, SeqEqual
<1> QED BY <1>6 DEF t

-----------------------------------------------------------------------------
(* The inductive invariant                                                 *)

(* A drain that loads a workflow holds a request.                          *)
HeadHeld == drain = "loading" => head \in Ids

(* Exactly the ids that were not handed out have had no event.             *)
Fresh == \A i \in Ids : outcome[i] = "new" <=> i > nextId

IInv == /\ TypeOK
        /\ HeadHeld
        /\ Fresh
        /\ NoStrandedWork
        /\ WaitInOrder
        /\ QueuedIsWaiting
        /\ BoundedOvershoot

(* The four things a step can do to the line of waiting requests.          *)
Rests == /\ Waiting' = Waiting
         /\ UNCHANGED <<nextId, outcome, runOf>>

Accepts == /\ nextId + 1 \in Ids
           /\ Len(Waiting) <= MaxQueue
           /\ nextId' = nextId + 1
           /\ Waiting' = Append(Waiting, nextId + 1)
           /\ outcome' = [outcome EXCEPT ![nextId + 1] = "queued"]
           /\ UNCHANGED runOf

Leaves(how) == /\ Waiting # <<>>
               /\ Waiting' = Tail(Waiting)
               /\ outcome' = [outcome EXCEPT ![Head(Waiting)] = how]
               /\ \A i \in Ids : i # Head(Waiting) => runOf'[i] = runOf[i]
               /\ UNCHANGED nextId

Withdraws(k) == /\ Waiting' = RemoveAt(Waiting, k)
                /\ outcome' = [outcome EXCEPT ![Waiting[k]] = "removed"]
                /\ UNCHANGED <<nextId, runOf>>

Shape == \/ Rests
         \/ Accepts
         \/ Leaves("started")
         \/ Leaves("dropped")
         \/ \E k \in 1..Len(Waiting) : Withdraws(k)

(* What the drain leaves behind it: the parts of the invariant that are    *)
(* about q, drain and head.                                                *)
DrainState == /\ q \in Seq(Ids)
              /\ drain \in {"idle", "loading", "touching"}
              /\ head \in Ids \cup {None}
              /\ HeadHeld

LEMMA WaitingIsSeq ==
  ASSUME DrainState
  PROVE  Waiting \in Seq(Ids)
<1>1. CASE drain = "loading"
  BY <1>1, PrependProperties DEF DrainState, HeadHeld, Waiting
<1>2. CASE drain # "loading"
  BY <1>2 DEF DrainState, Waiting
<1> QED BY <1>1, <1>2

(* Taking the next head changes the array and not the line.                *)
LEMMA TakeNextKeepsLine ==
  ASSUME NEW s \in Seq(Ids), TakeNext(s)
  PROVE  /\ Waiting' = s
         /\ DrainState'
         /\ drain' = "idle" => q' = <<>>
<1>1. CASE s = <<>> /\ q' = s /\ drain' = "idle" /\ head' = None
  BY <1>1 DEF Waiting, DrainState, HeadHeld
<1>2. CASE s # <<>> /\ q' = Tail(s) /\ drain' = "loading" /\ head' = Head(s)
  <2>1. Head(s) \in Ids /\ Tail(s) \in Seq(Ids)
    BY <1>2, HeadTailProperties
  <2>2. <<Head(s)>> \o Tail(s) = s
    BY <1>2, HeadAndTail
  <2> QED BY <1>2, <2>1, <2>2 DEF Waiting, DrainState, HeadHeld
<1> QED BY <1>1, <1>2 DEF TakeNext

(* A drain() call changes the array and not the line.                      *)
LEMMA DrainKeepsLine ==
  ASSUME DrainState, NEW s \in Seq(Ids), Drain(s)
  PROVE  /\ Waiting' = IF drain = "loading" THEN <<head>> \o s ELSE s
         /\ DrainState'
         /\ drain' = "idle" => q' = <<>>
<1>1. CASE drain # "idle" /\ q' = s /\ UNCHANGED <<drain, head>>
  BY <1>1 DEF Waiting, DrainState, HeadHeld
<1>2. CASE drain = "idle" /\ TakeNext(s)
  BY <1>2, TakeNextKeepsLine
<1> QED BY <1>1, <1>2 DEF Drain

-----------------------------------------------------------------------------
(* Every step has one of the four shapes                                   *)

(* What a step establishes beside its shape.                               *)
StepState == TypeOK /\ HeadHeld /\ NoStrandedWork

LEMMA InitInv == Init => IInv
<1> SUFFICES ASSUME Init PROVE IInv
  OBVIOUS
<1>1. TypeOK
  <2>1. q \in Seq(Ids)
    BY EmptySeq DEF Init
  <2>2. /\ outcome \in [Ids -> Outcomes]
        /\ runOf \in [Ids -> Nat]
    BY DEF Init, Outcomes, None
  <2>3. nextId \in 0..MaxIds /\ runId \in Nat
    BY QueueAssumption DEF Init, None
  <2>4. head \in Ids \cup {None}
    BY DEF Init
  <2>5. drain \in {"idle", "loading", "touching"} /\ running \in BOOLEAN
    BY DEF Init
  <2> QED BY <2>1, <2>2, <2>3, <2>4, <2>5 DEF TypeOK
<1>2. Waiting = <<>> /\ Len(Waiting) = 0
  BY DEF Init, Waiting
<1>3. HeadHeld /\ Fresh /\ NoStrandedWork
  BY QueueAssumption DEF Init, HeadHeld, Fresh, NoStrandedWork, Ids
<1>4. WaitInOrder /\ BoundedOvershoot
  BY <1>2, QueueAssumption DEF WaitInOrder, BoundedOvershoot
<1>5. QueuedIsWaiting
  BY <1>2 DEF Init, QueuedIsWaiting, Range
<1> QED BY <1>1, <1>3, <1>4, <1>5 DEF IInv

LEMMA StepShape ==
  ASSUME IInv, [Next]_vars
  PROVE  Shape /\ StepState'
<1> USE DEF StepState
<1>0. /\ TypeOK /\ HeadHeld /\ NoStrandedWork /\ DrainState
      /\ Waiting \in Seq(Ids) /\ q \in Seq(Ids)
  BY WaitingIsSeq DEF IInv, DrainState, TypeOK
(* The head in a drain's hands is the front of the line.                   *)
<1>h. ASSUME drain = "loading"
      PROVE  /\ Waiting # <<>> /\ Head(Waiting) = head /\ Tail(Waiting) = q
             /\ head \in Ids
  <2>1. head \in Ids /\ Waiting = <<head>> \o q
    BY <1>0, <1>h DEF HeadHeld, Waiting
  <2>2. Head(Waiting) = head /\ Tail(Waiting) = q /\ Len(Waiting) = Len(q) + 1
    BY <1>0, <2>1, PrependProperties
  <2>3. Waiting # <<>>
    BY <1>0, <2>2, LenProperties, EmptySeq
  <2> QED BY <2>1, <2>2, <2>3
<1>1. CASE Enqueue
  <2>1. nextId + 1 \in Ids /\ nextId + 1 \in 0..MaxIds
    BY <1>0, <1>1, QueueAssumption DEF Enqueue, TypeOK, Ids
  <2>2. Append(q, nextId + 1) \in Seq(Ids)
    BY <1>0, <2>1
  <2>3. /\ Waiting' = IF drain = "loading" THEN <<head>> \o Append(q, nextId + 1)
                      ELSE Append(q, nextId + 1)
        /\ DrainState'
        /\ drain' = "idle" => q' = <<>>
    BY <1>0, <1>1, <2>2, DrainKeepsLine DEF Enqueue
  <2>4. Waiting' = Append(Waiting, nextId + 1)
    <3>1. CASE drain = "loading"
      <4>1. <<head>> \o Append(q, nextId + 1) = Append(<<head>> \o q, nextId + 1)
        BY <1>0, <1>h, <2>1, <3>1, PrependAppends
      <4>2. Waiting = <<head>> \o q
        BY <3>1 DEF Waiting
      <4>3. Waiting' = <<head>> \o Append(q, nextId + 1)
        BY <2>3, <3>1
      <4> QED BY <2>1, <4>1, <4>2, <4>3
    <3>2. CASE drain # "loading"
      BY <2>3, <3>2 DEF Waiting
    <3> QED BY <3>1, <3>2
  <2>5. Len(Waiting) <= MaxQueue
    <3>1. Len(Waiting) = Len(q) \/ Len(Waiting) = Len(q) + 1
      BY <1>0, PrependProperties DEF Waiting, HeadHeld
    <3> QED BY <1>0, <1>1, <3>1, QueueAssumption, LenProperties DEF Enqueue
  <2>6. Accepts
    BY <1>1, <2>1, <2>4, <2>5 DEF Accepts, Enqueue
  <2>7. StepState'
    BY <1>0, <1>1, <2>1, <2>3
       DEF Enqueue, TypeOK, DrainState, NoStrandedWork, Outcomes
  <2> QED BY <2>6, <2>7 DEF Shape
<1>2. ASSUME NEW k \in 1..Len(q), RemoveByQueueId(k)
      PROVE  Shape /\ StepState'
  <2>1. RemoveAt(q, k) \in Seq(Ids) /\ q[k] \in Ids /\ q # <<>>
    BY <1>0, RemoveAtProperties, ElementOfSeq
  <2>2. \E j \in 1..Len(Waiting) : Withdraws(j)
    <3>1. CASE drain = "loading"
      <4>1. Waiting' = <<head>> \o RemoveAt(q, k)
        BY <1>2, <3>1 DEF RemoveByQueueId, Waiting
      <4>2. Waiting' = RemoveAt(Waiting, k + 1)
        <5>1. <<head>> \o RemoveAt(q, k) = RemoveAt(<<head>> \o q, k + 1)
          <6>1. head \in Ids /\ q \in Seq(Ids) /\ k \in 1..Len(q)
            BY <1>0, <1>h, <3>1
          <6> QED BY <6>1, PrependRemoves
        <5>2. Waiting = <<head>> \o q
          BY <3>1 DEF Waiting
        <5> QED BY <4>1, <5>1, <5>2
      <4>3. k + 1 \in 1..Len(Waiting) /\ Waiting[k + 1] = q[k]
        <5>1. /\ Len(Waiting) = Len(q) + 1
              /\ \A j \in 1..(Len(q) + 1) :
                   Waiting[j] = IF j = 1 THEN head ELSE q[j - 1]
          BY <1>0, <1>h, <3>1, PrependProperties DEF Waiting
        <5>2. Len(q) \in Nat
          BY <1>0, LenProperties
        <5> QED BY <5>1, <5>2
      <4> QED BY <1>2, <4>2, <4>3 DEF Withdraws, RemoveByQueueId
    <3>2. CASE drain # "loading"
      BY <1>2, <3>2 DEF Withdraws, RemoveByQueueId, Waiting
    <3> QED BY <3>1, <3>2
  <2>3. StepState'
    BY <1>0, <1>2, <2>1
       DEF RemoveByQueueId, TypeOK, HeadHeld, NoStrandedWork, Outcomes
  <2> QED BY <2>2, <2>3 DEF Shape
<1>3. CASE LoadFails
  <2>1. Waiting' = q /\ DrainState' /\ (drain' = "idle" => q' = <<>>)
    BY <1>0, <1>3, TakeNextKeepsLine DEF LoadFails
  <2>2. Leaves("dropped")
    BY <1>3, <1>h, <2>1 DEF LoadFails, Leaves
  <2>3. StepState'
    BY <1>0, <1>3, <2>1
       DEF LoadFails, TypeOK, DrainState, NoStrandedWork, Outcomes
  <2> QED BY <2>2, <2>3 DEF Shape
<1>4. CASE LoadFindsBusy
  <2>1. Waiting' = Waiting
    BY <1>4 DEF LoadFindsBusy, Waiting
  <2>2. <<head>> \o q \in Seq(Ids)
    BY <1>0, <1>4 DEF LoadFindsBusy, Waiting
  <2>3. Rests
    BY <1>4, <2>1 DEF LoadFindsBusy, Rests
  <2>4. StepState'
    BY <1>0, <1>4, <2>2
       DEF LoadFindsBusy, TypeOK, HeadHeld, NoStrandedWork
  <2> QED BY <2>3, <2>4 DEF Shape
<1>5. CASE LoadStarts
  <2>1. Waiting' = q
    BY <1>5 DEF LoadStarts, Waiting
  <2>2. Leaves("started")
    BY <1>0, <1>5, <1>h, <2>1 DEF LoadStarts, Leaves, TypeOK
  <2>3. StepState'
    BY <1>0, <1>5 DEF LoadStarts, TypeOK, HeadHeld, NoStrandedWork, Outcomes
  <2> QED BY <2>2, <2>3 DEF Shape
<1>6. CASE LoadStartRejected
  <2>1. CASE /\ runId = None
             /\ outcome' = [outcome EXCEPT ![head] = "dropped"]
             /\ TakeNext(q)
             /\ UNCHANGED runOf
    <3>1. Waiting' = q /\ DrainState' /\ (drain' = "idle" => q' = <<>>)
      BY <1>0, <2>1, TakeNextKeepsLine
    <3>2. Leaves("dropped")
      BY <1>6, <1>h, <2>1, <3>1 DEF LoadStartRejected, Leaves
    <3>3. StepState'
      BY <1>0, <1>6, <2>1, <3>1
         DEF LoadStartRejected, TypeOK, DrainState, NoStrandedWork, Outcomes
    <3> QED BY <3>2, <3>3 DEF Shape
  <2>2. CASE /\ runId # None
             /\ outcome' = [outcome EXCEPT ![head] = "started"]
             /\ runOf' = [runOf EXCEPT ![head] = runId]
             /\ drain' = "touching"
             /\ UNCHANGED <<q, head>>
    <3>1. Waiting' = q
      BY <2>2 DEF Waiting
    <3>2. Leaves("started")
      BY <1>0, <1>6, <1>h, <2>2, <3>1 DEF LoadStartRejected, Leaves, TypeOK
    <3>3. StepState'
      BY <1>0, <1>6, <2>2
         DEF LoadStartRejected, TypeOK, HeadHeld, NoStrandedWork, Outcomes
    <3> QED BY <3>2, <3>3 DEF Shape
  <2> QED BY <1>6, <2>1, <2>2 DEF LoadStartRejected
<1>7. CASE Touched
  <2>1. Waiting' = q /\ DrainState' /\ (drain' = "idle" => q' = <<>>)
    BY <1>0, <1>7, TakeNextKeepsLine DEF Touched
  <2>2. Rests
    BY <1>7, <2>1 DEF Touched, Rests, Waiting
  <2>3. StepState'
    BY <1>0, <1>7, <2>1 DEF Touched, TypeOK, DrainState, NoStrandedWork
  <2> QED BY <2>2, <2>3 DEF Shape
<1>8. CASE DirectStart
  <2>1. Rests
    BY <1>8 DEF DirectStart, Rests, Waiting
  <2>2. StepState'
    BY <1>0, <1>8 DEF DirectStart, TypeOK, HeadHeld, NoStrandedWork
  <2> QED BY <2>1, <2>2 DEF Shape
<1>9. CASE Settle
  <2>1. /\ Waiting' = IF drain = "loading" THEN <<head>> \o q ELSE q
        /\ DrainState'
        /\ drain' = "idle" => q' = <<>>
    BY <1>0, <1>9, DrainKeepsLine DEF Settle
  <2>2. Rests
    BY <1>9, <2>1 DEF Settle, Rests, Waiting
  <2>3. StepState'
    BY <1>0, <1>9, <2>1 DEF Settle, TypeOK, DrainState, NoStrandedWork
  <2> QED BY <2>2, <2>3 DEF Shape
<1>10. CASE UNCHANGED vars
  <2>1. Rests
    BY <1>10 DEF vars, Rests, Waiting
  <2>2. StepState'
    BY <1>0, <1>10 DEF vars, TypeOK, HeadHeld, NoStrandedWork
  <2> QED BY <2>1, <2>2 DEF Shape
<1> QED
  BY <1>1, <1>2, <1>3, <1>4, <1>5, <1>6, <1>7, <1>8, <1>9, <1>10 DEF Next

-----------------------------------------------------------------------------
(* A step of one of the shapes keeps the line in order                     *)

LineInv == Fresh /\ WaitInOrder /\ QueuedIsWaiting /\ BoundedOvershoot

(* A request is in the line at some place, and that place only.            *)
LEMMA Places ==
  ASSUME IInv
  PROVE  /\ Waiting \in Seq(Ids) /\ Len(Waiting) \in Nat
         /\ \A k \in 1..Len(Waiting) :
              Waiting[k] \in Ids /\ outcome[Waiting[k]] = "queued"
         /\ \A i \in Ids : outcome[i] = "queued"
                            <=> \E k \in 1..Len(Waiting) : Waiting[k] = i
         /\ \A j, k \in 1..Len(Waiting) : Waiting[j] = Waiting[k] => j = k
<1>1. Waiting \in Seq(Ids)
  BY WaitingIsSeq DEF IInv, TypeOK, DrainState
<1>2. Len(Waiting) \in Nat /\ \A k \in 1..Len(Waiting) : Waiting[k] \in Ids
  BY <1>1, LenProperties, ElementOfSeq
<1>3. Range(Waiting) = {Waiting[k] : k \in 1..Len(Waiting)}
  BY <1>1, LenProperties DEF Range
<1>4. \A i \in Ids : outcome[i] = "queued"
                     <=> \E k \in 1..Len(Waiting) : Waiting[k] = i
  BY <1>3 DEF IInv, QueuedIsWaiting
<1>5. \A k \in 1..Len(Waiting) : outcome[Waiting[k]] = "queued"
  BY <1>2, <1>4
<1>6. ASSUME NEW j \in 1..Len(Waiting), NEW k \in 1..Len(Waiting),
             Waiting[j] = Waiting[k]
      PROVE  j = k
  <2>1. Waiting[j] \in Nat /\ Waiting[k] \in Nat
    BY <1>2, QueueAssumption DEF Ids
  <2> QED BY <1>2, <1>6, <2>1 DEF IInv, WaitInOrder
<1> QED BY <1>1, <1>2, <1>4, <1>5, <1>6

(* Taking one request out of the line, from whatever place.                *)
LEMMA LeavingKeepsLine ==
  ASSUME IInv,
         NEW k \in 1..Len(Waiting),
         NEW how \in {"started", "dropped", "removed"},
         Waiting' \in Seq(Ids),
         Len(Waiting') = Len(Waiting) - 1,
         \A j \in 1..(Len(Waiting) - 1) :
           Waiting'[j] = IF j < k THEN Waiting[j] ELSE Waiting[j + 1],
         outcome' = [outcome EXCEPT ![Waiting[k]] = how],
         nextId' = nextId
  PROVE  LineInv'
<1>1. outcome \in [Ids -> Outcomes] /\ Fresh /\ WaitInOrder /\ BoundedOvershoot
  BY DEF IInv, TypeOK
<1>2. Waiting[k] \in Ids /\ outcome[Waiting[k]] = "queued"
  BY Places
<1>3. \A i \in Ids : outcome'[i] = IF i = Waiting[k] THEN how ELSE outcome[i]
  BY <1>1, <1>2
<1>4. Len(Waiting) \in Nat
  BY Places
<1>5. Fresh'
  BY <1>1, <1>2, <1>3 DEF Fresh
<1>6. WaitInOrder'
  BY <1>1, <1>4 DEF WaitInOrder
<1>7. BoundedOvershoot'
  BY <1>1, <1>4, QueueAssumption DEF BoundedOvershoot
<1>8. QueuedIsWaiting'
  <2>1. Range(Waiting') = {Waiting'[j] : j \in 1..(Len(Waiting) - 1)}
    BY <1>4, LenProperties DEF Range
  <2>2. SUFFICES ASSUME NEW i \in Ids
                 PROVE  outcome'[i] = "queued"
                        <=> \E j \in 1..(Len(Waiting) - 1) : Waiting'[j] = i
    BY <2>1 DEF QueuedIsWaiting
  <2>3. CASE i = Waiting[k]
    <3>1. \A j \in 1..(Len(Waiting) - 1) : Waiting'[j] # i
      BY <1>4, <2>3, Places
    <3> QED BY <1>3, <2>3, <3>1
  <2>4. CASE i # Waiting[k]
    <3>1. ASSUME NEW j \in 1..Len(Waiting), Waiting[j] = i
          PROVE  \E m \in 1..(Len(Waiting) - 1) : Waiting'[m] = i
      <4>1. CASE j < k
        BY <1>4, <3>1, <4>1
      <4>2. CASE j > k
        <5>1. j - 1 \in 1..(Len(Waiting) - 1) /\ ~(j - 1 < k) /\ (j - 1) + 1 = j
          BY <1>4, <4>2
        <5> QED BY <3>1, <5>1
      <4> QED BY <1>4, <2>4, <3>1, <4>1, <4>2
    <3>2. ASSUME NEW m \in 1..(Len(Waiting) - 1), Waiting'[m] = i
          PROVE  \E j \in 1..Len(Waiting) : Waiting[j] = i
      BY <1>4, <3>2
    <3>3. outcome'[i] = outcome[i]
      BY <1>3, <2>4
    <3> QED BY <3>1, <3>2, <3>3, Places
  <2> QED BY <2>3, <2>4
<1> QED BY <1>5, <1>6, <1>7, <1>8 DEF LineInv

LEMMA AcceptKeepsLine ==
  ASSUME IInv, Accepts
  PROVE  LineInv'
<1> DEFINE n == nextId + 1
<1>1. /\ outcome \in [Ids -> Outcomes] /\ nextId \in Nat
      /\ Fresh /\ WaitInOrder /\ BoundedOvershoot
  BY QueueAssumption DEF IInv, TypeOK
<1>2. /\ Waiting \in Seq(Ids) /\ Len(Waiting) \in Nat
      /\ \A k \in 1..Len(Waiting) :
           Waiting[k] \in Ids /\ outcome[Waiting[k]] = "queued"
  BY Places
<1>3. n \in Ids /\ \A i \in Ids : outcome'[i] = IF i = n THEN "queued" ELSE outcome[i]
  BY <1>1 DEF Accepts
<1>4. /\ Waiting' \in Seq(Ids)
      /\ Len(Waiting') = Len(Waiting) + 1
      /\ \A j \in 1..Len(Waiting) : Waiting'[j] = Waiting[j]
      /\ Waiting'[Len(Waiting) + 1] = n
  BY <1>2, <1>3, AppendProperties DEF Accepts
<1>5. \A k \in 1..Len(Waiting) : Waiting[k] \in Nat /\ Waiting[k] < n
  <2> SUFFICES ASSUME NEW k \in 1..Len(Waiting)
               PROVE  Waiting[k] \in Nat /\ Waiting[k] < n
    OBVIOUS
  <2>1. Waiting[k] \in Ids /\ outcome[Waiting[k]] # "new"
    BY <1>2
  <2>2. ~(Waiting[k] > nextId)
    BY <1>1, <2>1 DEF Fresh
  <2> QED BY <1>1, <2>1, <2>2, QueueAssumption DEF Ids
<1>6. Fresh'
  <2>1. nextId' = n
    BY DEF Accepts
  <2> QED BY <1>1, <1>3, <2>1, QueueAssumption DEF Fresh, Ids
<1>7. WaitInOrder'
  <2> SUFFICES ASSUME NEW j \in 1..(Len(Waiting) + 1),
                      NEW k \in 1..(Len(Waiting) + 1), j < k
               PROVE  Waiting'[j] < Waiting'[k]
    BY <1>4 DEF WaitInOrder
  <2>1. j \in 1..Len(Waiting)
    BY <1>2
  <2>2. CASE k = Len(Waiting) + 1
    BY <1>4, <1>5, <2>1, <2>2
  <2>3. CASE k # Len(Waiting) + 1
    <3>1. k \in 1..Len(Waiting)
      BY <1>2, <2>3
    <3> QED BY <1>1, <1>4, <2>1, <3>1 DEF WaitInOrder
  <2> QED BY <2>2, <2>3
<1>8. BoundedOvershoot'
  BY <1>2, <1>4, QueueAssumption DEF BoundedOvershoot, Accepts
<1>9. QueuedIsWaiting'
  <2>1. Range(Waiting') = {Waiting'[j] : j \in 1..(Len(Waiting) + 1)}
    BY <1>4, LenProperties DEF Range
  <2>2. SUFFICES ASSUME NEW i \in Ids
                 PROVE  outcome'[i] = "queued"
                        <=> \E j \in 1..(Len(Waiting) + 1) : Waiting'[j] = i
    BY <2>1 DEF QueuedIsWaiting
  <2>3. outcome[i] = "queued" <=> \E j \in 1..Len(Waiting) : Waiting[j] = i
    BY Places
  <2>4. \A j \in 1..(Len(Waiting) + 1) : j \in 1..Len(Waiting) \/ j = Len(Waiting) + 1
    BY <1>2
  <2>5. Len(Waiting) + 1 \in 1..(Len(Waiting) + 1)
    BY <1>2
  <2>6. \A j \in 1..Len(Waiting) : j \in 1..(Len(Waiting) + 1)
    BY <1>2
  <2> QED BY <1>3, <1>4, <2>3, <2>4, <2>5, <2>6
<1> QED BY <1>6, <1>7, <1>8, <1>9 DEF LineInv

LEMMA ShapeKeepsLine ==
  ASSUME IInv, Shape, StepState'
  PROVE  LineInv'
<1>0. Waiting \in Seq(Ids) /\ Len(Waiting) \in Nat
  BY Places
<1>1. CASE Rests
  BY <1>1 DEF IInv, LineInv, Rests, Fresh, WaitInOrder, QueuedIsWaiting,
              BoundedOvershoot
<1>2. CASE Accepts
  BY <1>2, AcceptKeepsLine
<1>3. ASSUME NEW how \in {"started", "dropped"}, Leaves(how)
      PROVE  LineInv'
  <2>1. Waiting # <<>> /\ Waiting' = Tail(Waiting)
    BY <1>3 DEF Leaves
  <2>2. /\ Tail(Waiting) \in Seq(Ids)
        /\ Len(Tail(Waiting)) = Len(Waiting) - 1
        /\ \A j \in 1..Len(Tail(Waiting)) : Tail(Waiting)[j] = Waiting[j + 1]
    BY <1>0, <2>1, HeadTailProperties
  <2>3. 1 \in 1..Len(Waiting) /\ Head(Waiting) = Waiting[1]
    BY <1>0, <2>1, EmptySeq
  <2>4. \A j \in 1..(Len(Waiting) - 1) :
          Waiting'[j] = IF j < 1 THEN Waiting[j] ELSE Waiting[j + 1]
    BY <1>0, <2>1, <2>2
  <2>5. outcome' = [outcome EXCEPT ![Waiting[1]] = how] /\ nextId' = nextId
    BY <1>3, <2>3 DEF Leaves
  <2>6. Waiting' \in Seq(Ids) /\ Len(Waiting') = Len(Waiting) - 1
    BY <2>1, <2>2
  <2>7. how \in {"started", "dropped", "removed"}
    OBVIOUS
  <2> QED BY <2>3, <2>4, <2>5, <2>6, <2>7, LeavingKeepsLine
<1>4. ASSUME NEW k \in 1..Len(Waiting), Withdraws(k)
      PROVE  LineInv'
  <2>1. /\ Waiting' \in Seq(Ids)
        /\ Len(Waiting') = Len(Waiting) - 1
        /\ \A j \in 1..(Len(Waiting) - 1) :
             Waiting'[j] = IF j < k THEN Waiting[j] ELSE Waiting[j + 1]
    BY <1>0, <1>4, RemoveAtProperties DEF Withdraws
  <2>2. outcome' = [outcome EXCEPT ![Waiting[k]] = "removed"] /\ nextId' = nextId
    BY <1>4 DEF Withdraws
  <2> QED BY <2>1, <2>2, LeavingKeepsLine
<1> QED BY <1>1, <1>2, <1>3, <1>4 DEF Shape

LEMMA Inductive == IInv /\ [Next]_vars => IInv'
<1> SUFFICES ASSUME IInv, [Next]_vars PROVE IInv'
  OBVIOUS
<1>1. Shape /\ StepState'
  BY StepShape
<1>2. LineInv'
  BY <1>1, ShapeKeepsLine
<1> QED BY <1>1, <1>2 DEF IInv, LineInv, StepState

LEMMA Invariance == Spec => []IInv
BY InitInv, Inductive, PTL DEF Spec

-----------------------------------------------------------------------------
(* The theorems                                                            *)

(* The variables keep their types.                                         *)
THEOREM TypeCorrect == Spec => []TypeOK
<1>1. IInv => TypeOK
  BY DEF IInv
<1> QED BY <1>1, Invariance, PTL

(* No lost wake-up: requests never wait with neither a drain in progress   *)
(* nor an active run whose end will bring one.                             *)
THEOREM NoLostWakeup == Spec => []NoStrandedWork
<1>1. IInv => NoStrandedWork
  BY DEF IInv
<1> QED BY <1>1, Invariance, PTL

(* The requests wait in the order of acceptance, whatever is shifted, put  *)
(* back and removed.                                                       *)
THEOREM FirstInFirstOut == Spec => []WaitInOrder
<1>1. IInv => WaitInOrder
  BY DEF IInv
<1> QED BY <1>1, Invariance, PTL

(* The requests last reported as queued are exactly the ones that wait.    *)
THEOREM NothingLost == Spec => []QueuedIsWaiting
<1>1. IInv => QueuedIsWaiting
  BY DEF IInv
<1> QED BY <1>1, Invariance, PTL

(* The line exceeds maxQueue by at most the one request a drain holds.     *)
THEOREM Overshoot == Spec => []BoundedOvershoot
<1>1. IInv => BoundedOvershoot
  BY DEF IInv
<1> QED BY <1>1, Invariance, PTL

(* A request that was started, dropped or removed is never reported again. *)
THEOREM OutcomesAreFinal == Spec => OutcomeIsFinal
<1> DEFINE A == \A i \in Ids :
                  outcome[i] \in {"started", "dropped", "removed"}
                    => outcome'[i] = outcome[i] /\ runOf'[i] = runOf[i]
<1>1. ASSUME IInv, [Next]_vars PROVE A
  <2> SUFFICES ASSUME NEW i \in Ids,
                      outcome[i] \in {"started", "dropped", "removed"}
               PROVE  outcome'[i] = outcome[i] /\ runOf'[i] = runOf[i]
    OBVIOUS
  <2>0. /\ Shape /\ outcome \in [Ids -> Outcomes] /\ nextId \in Nat /\ Fresh
        /\ Waiting \in Seq(Ids)
    BY <1>1, StepShape, Places, QueueAssumption DEF IInv, TypeOK
  <2>1. \A k \in 1..Len(Waiting) : Waiting[k] # i
    BY <1>1, Places
  <2>2. CASE Rests
    BY <2>2 DEF Rests
  <2>3. CASE Accepts
    <3>1. i # nextId + 1
      BY <2>0 DEF Fresh
    <3> QED BY <2>0, <2>3, <3>1 DEF Accepts
  <2>4. ASSUME NEW how \in {"started", "dropped"}, Leaves(how)
        PROVE  outcome'[i] = outcome[i] /\ runOf'[i] = runOf[i]
    <3>1. i # Head(Waiting)
      <4>1. 1 \in 1..Len(Waiting) /\ Head(Waiting) = Waiting[1]
        BY <2>0, <2>4, EmptySeq DEF Leaves
      <4> QED BY <2>1, <4>1
    <3> QED BY <2>0, <2>4, <3>1 DEF Leaves
  <2>5. ASSUME NEW k \in 1..Len(Waiting), Withdraws(k)
        PROVE  outcome'[i] = outcome[i] /\ runOf'[i] = runOf[i]
    BY <2>0, <2>1, <2>5 DEF Withdraws
  <2> QED BY <2>0, <2>2, <2>3, <2>4, <2>5 DEF Shape
<1>2. IInv /\ [Next]_vars => [A]_vars
  BY <1>1
<1> QED BY <1>2, Invariance, PTL DEF Spec, OutcomeIsFinal

(* A request is started only when every request accepted before it has     *)
(* left.                                                                   *)
THEOREM StartedInOrder == Spec => StartInOrder
<1> DEFINE A == \A i \in Ids :
                  outcome[i] # "started" /\ outcome'[i] = "started"
                    => \A j \in Ids : j < i => outcome[j] # "queued"
<1>1. ASSUME IInv, [Next]_vars PROVE A
  <2> SUFFICES ASSUME NEW i \in Ids, NEW j \in Ids, j < i,
                      outcome[i] # "started", outcome'[i] = "started",
                      outcome[j] = "queued"
               PROVE  FALSE
    OBVIOUS
  <2>0. /\ Shape /\ outcome \in [Ids -> Outcomes] /\ nextId \in Nat
        /\ WaitInOrder
        /\ Waiting \in Seq(Ids) /\ Len(Waiting) \in Nat
        /\ \A k \in 1..Len(Waiting) : Waiting[k] \in Ids
    BY <1>1, StepShape, Places, QueueAssumption DEF IInv, TypeOK
  <2>1. ~Rests /\ ~Accepts /\ ~Leaves("dropped")
    BY <2>0 DEF Rests, Accepts, Leaves
  <2>2. \A k \in 1..Len(Waiting) : ~Withdraws(k)
    BY <2>0 DEF Withdraws
  <2>3. Leaves("started")
    BY <2>0, <2>1, <2>2 DEF Shape
  <2>4. 1 \in 1..Len(Waiting) /\ Head(Waiting) = Waiting[1]
    BY <2>0, <2>3, EmptySeq DEF Leaves
  <2>5. i = Waiting[1]
    BY <2>0, <2>3, <2>4 DEF Leaves
  <2>6. PICK k \in 1..Len(Waiting) : Waiting[k] = j
    BY <1>1, Places
  <2>7. i \in Nat /\ j \in Nat
    BY QueueAssumption DEF Ids
  <2>8. k = 1 \/ 1 < k
    BY <2>0
  <2> QED BY <2>0, <2>4, <2>5, <2>6, <2>7, <2>8 DEF WaitInOrder
<1>2. IInv /\ [Next]_vars => [A]_vars
  BY <1>1
<1> QED BY <1>2, Invariance, PTL DEF Spec, StartInOrder

(* The queue implements the safety part of RunQueue: whatever the drain,   *)
(* the engine and the callers do, the line of waiting requests only moves  *)
(* as RunQueue allows.  (Its fairness is checked by TLC.)                  *)
THEOREM QueueImplementsLine == Spec => RQ!Safety
<1>1. Init => RQ!Init
  <2> SUFFICES ASSUME Init PROVE RQ!Init
    OBVIOUS
  <2>1. Waiting = <<>>
    BY DEF Init, Waiting
  <2> QED BY <2>1 DEF Init, RQ!Init, RQ!Ids, Ids
<1>2. ASSUME IInv, [Next]_vars
      PROVE  [RQ!Next]_(RQ!vars)
  <2>0. Shape /\ Fresh /\ nextId \in Nat
    BY <1>2, StepShape, QueueAssumption DEF IInv, TypeOK
  <2>1. CASE Rests
    BY <2>1 DEF Rests, RQ!vars
  <2>2. CASE Accepts
    <3>1. nextId + 1 \in Ids /\ outcome[nextId + 1] = "new"
      BY <2>0, <2>2 DEF Accepts, Fresh
    <3>2. RQ!Accept(nextId + 1)
      BY <2>2, <3>1 DEF Accepts, RQ!Accept
    <3> QED BY <3>1, <3>2 DEF RQ!Next, RQ!Ids, Ids
  <2>3. CASE Leaves("started")
    BY <2>3 DEF Leaves, RQ!Next, RQ!Start, RQ!Leave
  <2>4. CASE Leaves("dropped")
    BY <2>4 DEF Leaves, RQ!Next, RQ!Drop, RQ!Leave
  <2>5. ASSUME NEW k \in 1..Len(Waiting), Withdraws(k)
        PROVE  [RQ!Next]_(RQ!vars)
    <3>1. RQ!Withdraw(k)
      BY <2>5 DEF Withdraws, RQ!Withdraw, RemoveAt, RQ!RemoveAt
    <3> QED BY <3>1 DEF RQ!Next
  <2> QED BY <2>0, <2>1, <2>2, <2>3, <2>4, <2>5 DEF Shape
<1> QED BY <1>1, <1>2, Invariance, PTL DEF Spec, RQ!Safety

=============================================================================
