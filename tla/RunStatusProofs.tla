--------------------------- MODULE RunStatusProofs ---------------------------
(***************************************************************************)
(* Proofs about what callers and browsers are told of runs, for every size *)
(* of the queue, of its history and of the engine's event log.  Every step *)
(* of RunStatus is a step of TriggerQueue or leaves its variables alone,   *)
(* so the invariant of TriggerQueueProofs holds here too.                  *)
(*                                                                         *)
(* An answer, once given, stays true or is overtaken (ToldTruly), because  *)
(* an entry of the history is what the queue last said (EntriesCurrent),   *)
(* a poll that waits for a file asks about a request that was started and  *)
(* stays so (PollHolds), and a run's end never changes (EndsKnown).        *)
(*                                                                         *)
(* A browser shows what the engine has once the frames on their way to it  *)
(* are read (Followed): each event adds the same to both sides, and a new  *)
(* connection begins with what the engine has.                             *)
(***************************************************************************)
EXTENDS RunStatus, EventStream, TriggerQueueProofs

Ends == {"succeeded", "failed", "cancelled"}
Entries == [id : Ids, state : Outcomes \ {"new"}, run : Nat]
Answers == {"nothing", "unknown", "queued", "dropped", "removed", "running"} \cup Ends

StatusTypes ==
  /\ history \in Seq(Entries)
  /\ endedAs \in [Runs -> {"none"} \cup Ends]
  /\ saving \subseteq Runs /\ onFile \subseteq Runs
  /\ poll \in [pc : {"none", "reading", "missing"}, id : Nat, run : Nat]
  /\ told \in [Ids -> Answers]

(* The runs that requests and callers start fit into Runs.                 *)
RunsFit ==
  /\ runId <= MaxDirect + nextId
  /\ \A i \in Ids : outcome[i] = "queued" => runId < MaxDirect + i
  /\ running => runId # None
  /\ \A i \in Ids : outcome[i] = "started" => runOf[i] \in 1 .. runId

(* The history has one entry per request, as the queue last said, and none *)
(* goes but by eviction.                                                   *)
Distinct(s) == \A j, k \in 1 .. Len(s) : s[j].id = s[k].id => j = k
Lists(s, i) == \E k \in 1 .. Len(s) : s[k].id = i
EntriesCurrent == \A k \in 1 .. Len(history) :
                    /\ history[k].state = outcome[history[k].id]
                    /\ history[k].run = runOf[history[k].id]
NoneMissed == \A i \in Ids : i <= nextId => Lists(history, i) \/ i \in evicted

(* A run has an end when it has settled, and only then a record.           *)
EndsKnown == \A r \in Runs : endedAs[r] # "none" <=> r < runId \/ (r = runId /\ ~running)
RecordsEnded == \A r \in saving \cup onFile : endedAs[r] # "none"

PollHolds == poll.pc # "none" => /\ poll.id \in Ids /\ outcome[poll.id] = "started"
                                 /\ poll.run = runOf[poll.id]

ToldTruly == \A i \in Ids :
  /\ told[i] \in {"dropped", "removed"} => outcome[i] = told[i]
  /\ told[i] = "running" => outcome[i] = "started"
  /\ told[i] \in Ends => outcome[i] = "started" /\ endedAs[runOf[i]] = told[i]

SInv == /\ IInv /\ StatusTypes /\ RunsFit
        /\ Distinct(history) /\ EntriesCurrent /\ NoneMissed
        /\ EndsKnown /\ RecordsEnded /\ PollHolds /\ ToldTruly

-----------------------------------------------------------------------------
(* The history as a sequence                                               *)

(* Taking out the entry of id i leaves the others.                         *)
LEMMA OthersStay ==
  ASSUME NEW s \in Seq(Entries), Distinct(s), NEW p \in 1 .. Len(s)
  PROVE  LET t == RemoveAt(s, p) IN
         /\ t \in Seq(Entries) /\ Distinct(t) /\ ~Lists(t, s[p].id)
         /\ \A k \in 1 .. Len(t) : \E j \in 1 .. Len(s) : t[k] = s[j]
         /\ \A i \in Ids : Lists(s, i) /\ i # s[p].id => Lists(t, i)
<1> DEFINE t == RemoveAt(s, p)
           At(k) == IF k < p THEN k ELSE k + 1
<1>1. /\ t \in Seq(Entries) /\ Len(t) = Len(s) - 1 /\ Len(s) \in Nat
      /\ \A k \in 1 .. (Len(s) - 1) : t[k] = IF k < p THEN s[k] ELSE s[k + 1]
  BY RemoveAtProperties, LenProperties
<1> HIDE DEF t
<1>2. \A k \in 1 .. Len(t) : At(k) \in 1 .. Len(s) /\ At(k) # p /\ t[k] = s[At(k)]
  BY <1>1
<1>3. \A j, k \in 1 .. Len(t) : At(j) = At(k) => j = k
  BY <1>1
<1>4. \A j \in 1 .. Len(s) : j # p => \E k \in 1 .. Len(t) : At(k) = j
  <2> TAKE j \in 1 .. Len(s)
  <2> HAVE j # p
  <2>1. CASE j < p
    BY <1>1, <2>1
  <2>2. CASE ~(j < p)
    <3>1. j - 1 \in 1 .. Len(t) /\ At(j - 1) = j
      BY <1>1, <2>2
    <3> QED BY <3>1
  <2> QED BY <2>1, <2>2
<1> HIDE DEF At
<1>5. Distinct(t) /\ ~Lists(t, s[p].id)
  BY <1>2, <1>3 DEF Distinct, Lists
<1>6. \A i \in Ids : Lists(s, i) /\ i # s[p].id => Lists(t, i)
  <2> TAKE i \in Ids
  <2> HAVE Lists(s, i) /\ i # s[p].id
  <2>1. PICK j \in 1 .. Len(s) : s[j].id = i
    BY DEF Lists
  <2>2. PICK k \in 1 .. Len(t) : At(k) = j
    BY <1>4, <2>1
  <2>3. t[k].id = i
    BY <1>2, <2>1, <2>2
  <2> QED BY <2>3 DEF Lists
<1> QED BY <1>1, <1>2, <1>5, <1>6 DEF t

(* Adding the entry of a request that has none.                            *)
LEMMA NewestJoins ==
  ASSUME NEW s \in Seq(Entries), Distinct(s), NEW e \in Entries, ~Lists(s, e.id)
  PROVE  LET t == Append(s, e) IN
         /\ t \in Seq(Entries) /\ Distinct(t) /\ t # <<>>
         /\ \A k \in 1 .. Len(t) : t[k] = e \/ \E j \in 1 .. Len(s) : t[k] = s[j]
         /\ \A i \in Ids : Lists(s, i) \/ i = e.id => Lists(t, i)
<1> DEFINE t == Append(s, e)
<1>1. /\ t \in Seq(Entries) /\ Len(t) = Len(s) + 1 /\ Len(s) \in Nat
      /\ \A k \in 1 .. Len(s) : t[k] = s[k]
      /\ t[Len(s) + 1] = e
  BY LenProperties
<1> HIDE DEF t
<1>2. \A k \in 1 .. Len(t) : k \in 1 .. Len(s) \/ k = Len(s) + 1
  BY <1>1
<1>3. Distinct(t)
  BY <1>1, <1>2 DEF Distinct, Lists
<1>4. \A i \in Ids : Lists(s, i) \/ i = e.id => Lists(t, i)
  <2>1. Len(s) + 1 \in 1 .. Len(t) /\ \A k \in 1 .. Len(s) : k \in 1 .. Len(t)
    BY <1>1
  <2> QED BY <1>1, <2>1 DEF Lists
<1>5. t # <<>>
  BY <1>1
<1> QED BY <1>1, <1>2, <1>3, <1>4, <1>5 DEF t

(* The oldest entry goes.                                                  *)
LEMMA OldestGoes ==
  ASSUME NEW s \in Seq(Entries), Distinct(s), s # <<>>
  PROVE  /\ Tail(s) \in Seq(Entries) /\ Distinct(Tail(s))
         /\ \A k \in 1 .. Len(Tail(s)) : \E j \in 1 .. Len(s) : Tail(s)[k] = s[j]
         /\ \A i \in Ids : Lists(s, i) => Lists(Tail(s), i) \/ i = Head(s).id
<1> DEFINE t == Tail(s)
<1>1. /\ t \in Seq(Entries) /\ Len(t) = Len(s) - 1 /\ Len(s) \in Nat \ {0}
      /\ \A k \in 1 .. Len(t) : t[k] = s[k + 1]
      /\ Head(s) = s[1]
  BY HeadTailProperties, EmptySeq, LenProperties
<1> HIDE DEF t
<1>2. \A k \in 1 .. Len(t) : k + 1 \in 1 .. Len(s)
  BY <1>1
<1>3. Distinct(t)
  <2> SUFFICES ASSUME NEW j \in 1 .. Len(t), NEW k \in 1 .. Len(t), t[j].id = t[k].id
               PROVE  j = k
    BY DEF Distinct
  <2>1. j + 1 = k + 1
    BY <1>1, <1>2 DEF Distinct
  <2> QED BY <1>1, <2>1
<1>4. \A i \in Ids : Lists(s, i) => Lists(t, i) \/ i = s[1].id
  <2> TAKE i \in Ids
  <2> HAVE Lists(s, i)
  <2>1. PICK j \in 1 .. Len(s) : s[j].id = i
    BY DEF Lists
  <2>2. CASE j # 1
    <3>1. j - 1 \in 1 .. Len(t) /\ t[j - 1] = s[j]
      BY <1>1, <2>2
    <3> QED BY <2>1, <3>1 DEF Lists
  <2> QED BY <2>1, <2>2
<1> QED BY <1>1, <1>2, <1>3, <1>4 DEF t

-----------------------------------------------------------------------------
(* The queue's steps                                                       *)

(* What a step of the queue says of at most one request, which had not     *)
(* left before.                                                            *)
Says(i) == /\ outcome[i] \in {"new", "queued"} /\ outcome'[i] \in Outcomes \ {"new"}
           /\ outcome'[i] # outcome[i] /\ (outcome[i] = "new" => outcome'[i] = "queued")
           /\ i <= nextId'
           /\ \A j \in Ids \ {i} : outcome'[j] = outcome[j] /\ runOf'[j] = runOf[j]

LEMMA OneIsHeard ==
  ASSUME IInv, [Next]_vars
  PROVE  /\ \/ UNCHANGED <<nextId, outcome>> /\ \A j \in Ids : runOf'[j] = runOf[j]
            \/ \E i \in Ids : Says(i)
         /\ \A j \in Ids : j <= nextId' => j <= nextId \/ outcome'[j] # outcome[j]
<1>1. /\ Shape /\ outcome \in [Ids -> Outcomes] /\ nextId \in Nat /\ Fresh
      /\ Waiting \in Seq(Ids)
      /\ \A k \in 1 .. Len(Waiting) : Waiting[k] \in Ids /\ outcome[Waiting[k]] = "queued"
      /\ \A j \in Ids : j \in Nat
  BY StepShape, Places, QueueAssumption DEF IInv, TypeOK, Ids
<1>2. CASE Rests
  BY <1>2 DEF Rests
<1>3. CASE Accepts
  <2>1. nextId + 1 \in Ids /\ outcome[nextId + 1] = "new"
    BY <1>1, <1>3 DEF Accepts, Fresh
  <2>2. Says(nextId + 1)
    BY <1>1, <1>3, <2>1 DEF Accepts, Says, Outcomes
  <2>3. \A j \in Ids : j <= nextId' => j <= nextId \/ j = nextId + 1
    BY <1>1, <1>3 DEF Accepts
  <2> QED BY <2>1, <2>2, <2>3 DEF Says
<1>4. ASSUME NEW how \in {"started", "dropped"}, Leaves(how)
      PROVE  UNCHANGED nextId /\ \E i \in Ids : Says(i)
  <2>1. 1 \in 1 .. Len(Waiting) /\ Head(Waiting) = Waiting[1]
    BY <1>1, <1>4, EmptySeq DEF Leaves
  <2>2. Waiting[1] \in Ids /\ outcome[Waiting[1]] = "queued" /\ Waiting[1] <= nextId
    BY <1>1, <2>1 DEF Fresh
  <2>3. Says(Waiting[1])
    BY <1>1, <1>4, <2>1, <2>2 DEF Leaves, Says, Outcomes
  <2> QED BY <1>4, <2>2, <2>3 DEF Leaves
<1>5. ASSUME NEW k \in 1 .. Len(Waiting), Withdraws(k)
      PROVE  UNCHANGED nextId /\ \E i \in Ids : Says(i)
  <2>1. Waiting[k] \in Ids /\ outcome[Waiting[k]] = "queued" /\ Waiting[k] <= nextId
    BY <1>1 DEF Fresh
  <2>2. Says(Waiting[k])
    BY <1>1, <1>5, <2>1 DEF Withdraws, Says, Outcomes
  <2> QED BY <1>5, <2>1, <2>2 DEF Withdraws
<1> QED BY <1>1, <1>2, <1>3, <1>4, <1>5 DEF Shape, Rests

(* The history keeps up with the queue.                                    *)
LEMMA HistoryFollows ==
  ASSUME SInv, IInv', [Next]_vars, HistoryHears
  PROVE  /\ history' \in Seq(Entries) /\ Distinct(history)'
         /\ EntriesCurrent' /\ NoneMissed'
<1>1. /\ history \in Seq(Entries) /\ Distinct(history)
      /\ EntriesCurrent /\ NoneMissed
      /\ \A k \in 1 .. Len(history) : history[k] \in Entries
  BY ElementOfSeq DEF SInv, StatusTypes
<1>2. /\ \/ UNCHANGED <<nextId, outcome>> /\ \A j \in Ids : runOf'[j] = runOf[j]
         \/ \E i \in Ids : Says(i)
      /\ \A j \in Ids : j <= nextId' => j <= nextId \/ outcome'[j] # outcome[j]
  BY OneIsHeard DEF SInv
<1>3. CASE UNCHANGED <<nextId, outcome>> /\ \A j \in Ids : runOf'[j] = runOf[j]
  <2>1. UNCHANGED <<history, evicted>>
    BY <1>3 DEF HistoryHears, Heard
  <2> QED BY <1>1, <1>3, <2>1 DEF EntriesCurrent, NoneMissed, Entries
<1>4. ASSUME NEW i \in Ids, Says(i)
      PROVE  /\ history' \in Seq(Entries) /\ Distinct(history)'
             /\ EntriesCurrent' /\ NoneMissed'
  <2> DEFINE e == [id |-> i, state |-> outcome'[i], run |-> runOf'[i]]
  <2>1. Heard = {i} /\ (CHOOSE j \in Heard : TRUE) = i
    BY <1>4 DEF Heard, Says
  <2>2. Has(i) <=> Lists(history, i)
    BY DEF Has, Lists
  <2>3. e \in Entries /\ e.id = i /\ e.state = outcome'[i] /\ e.run = runOf'[i]
    BY <1>4 DEF Says, Entries, IInv, TypeOK
  <2>4. \A k \in 1 .. Len(history) :
          history[k].id # i => /\ history[k].state = outcome'[history[k].id]
                               /\ history[k].run = runOf'[history[k].id]
    BY <1>1, <1>4 DEF Says, EntriesCurrent, Entries
  <2>5. \A j \in Ids : j <= nextId' => j = i \/ Lists(history, j) \/ j \in evicted
    BY <1>1, <1>2, <1>4 DEF Says, NoneMissed
  <2>6. CASE outcome'[i] = "dropped" /\ ~Has(i)
    <3>1. UNCHANGED <<history, evicted>>
      BY <2>1, <2>6 DEF HistoryHears
    <3>2. i \in evicted
      <4>1. outcome[i] # "new"
        BY <1>4, <2>6 DEF Says
      <4>2. i \in Nat /\ nextId \in Nat
        BY QueueAssumption DEF Ids, SInv, IInv, TypeOK
      <4>3. i <= nextId
        BY <4>1, <4>2 DEF SInv, IInv, Fresh
      <4> QED BY <1>1, <2>2, <2>6, <4>3 DEF NoneMissed
    <3> QED BY <1>1, <2>2, <2>4, <2>5, <2>6, <3>1, <3>2 DEF EntriesCurrent, NoneMissed, Lists
  <2>7. CASE ~(outcome'[i] = "dropped" /\ ~Has(i))
    <3> DEFINE others == IF Has(i) THEN RemoveAt(history, PlaceOf(i)) ELSE history
               all == Append(others, e)
               full == Len(all) > MaxEntries
    <3>1. /\ history' = IF full THEN Tail(all) ELSE all
          /\ evicted' = IF full THEN evicted \cup {Head(all).id} ELSE evicted
      BY <2>1, <2>3, <2>7 DEF HistoryHears, SetEntry
    <3>2. /\ others \in Seq(Entries) /\ Distinct(others) /\ ~Lists(others, i)
          /\ \A k \in 1 .. Len(others) : \E j \in 1 .. Len(history) : others[k] = history[j]
          /\ \A j \in Ids : Lists(history, j) /\ j # i => Lists(others, j)
      <4>1. CASE Has(i)
        <5>1. PlaceOf(i) \in 1 .. Len(history) /\ history[PlaceOf(i)].id = i
          BY <4>1 DEF Has, PlaceOf
        <5> QED BY <1>1, <4>1, <5>1, OthersStay
      <4>2. CASE ~Has(i)
        BY <1>1, <2>2, <4>2
      <4> QED BY <4>1, <4>2
    <3> HIDE DEF others
    <3>3. /\ all \in Seq(Entries) /\ Distinct(all) /\ all # <<>>
          /\ \A k \in 1 .. Len(all) : all[k] = e \/ \E j \in 1 .. Len(others) : all[k] = others[j]
          /\ \A j \in Ids : Lists(others, j) \/ j = i => Lists(all, j)
      BY <2>3, <3>2, NewestJoins
    <3> HIDE DEF e, all
    <3>4. \A k \in 1 .. Len(all) : /\ all[k].state = outcome'[all[k].id]
                                   /\ all[k].run = runOf'[all[k].id]
      <4> TAKE k \in 1 .. Len(all)
      <4>1. CASE all[k] = e
        BY <2>3, <4>1
      <4>2. ASSUME NEW m \in 1 .. Len(others), all[k] = others[m]
            PROVE  all[k].state = outcome'[all[k].id] /\ all[k].run = runOf'[all[k].id]
        <5>1. PICK j \in 1 .. Len(history) : others[m] = history[j]
          BY <3>2
        <5>2. others[m].id # i
          BY <3>2 DEF Lists
        <5> QED BY <2>4, <4>2, <5>1, <5>2
      <4> QED BY <3>3, <4>1, <4>2
    <3>5. \A j \in Ids : j <= nextId' => Lists(all, j) \/ j \in evicted
      BY <2>5, <3>2, <3>3
    <3>6. CASE full
      <4>1. history' = Tail(all) /\ evicted' = evicted \cup {Head(all).id}
        BY <3>1, <3>6
      <4>2. /\ Tail(all) \in Seq(Entries) /\ Distinct(Tail(all))
            /\ \A k \in 1 .. Len(Tail(all)) : \E j \in 1 .. Len(all) : Tail(all)[k] = all[j]
            /\ \A j \in Ids : Lists(all, j) => Lists(Tail(all), j) \/ j = Head(all).id
        BY <3>3, OldestGoes
      <4>3. EntriesCurrent'
        BY <3>4, <4>1, <4>2 DEF EntriesCurrent
      <4>4. NoneMissed'
        BY <3>5, <4>1, <4>2 DEF NoneMissed, Lists
      <4> QED BY <4>1, <4>2, <4>3, <4>4 DEF Distinct
    <3>7. CASE ~full
      <4>1. history' = all /\ evicted' = evicted
        BY <3>1, <3>7
      <4> QED BY <3>3, <3>4, <3>5, <4>1 DEF EntriesCurrent, NoneMissed, Distinct, Lists
    <3> QED BY <3>6, <3>7
  <2> QED BY <2>6, <2>7
<1> QED BY <1>2, <1>3, <1>4

(* Runs are numbered as they start, and there is room for their numbers.   *)
LEMMA RunsStayIn ==
  ASSUME IInv, IInv', RunsFit, [Next]_vars
  PROVE  RunsFit'
<1>0. /\ runId \in Nat /\ nextId \in Nat /\ MaxDirect \in Nat /\ running \in BOOLEAN
      /\ outcome \in [Ids -> Outcomes] /\ runOf \in [Ids -> Nat]
      /\ \A i \in Ids : i \in Nat \ {0} /\ (outcome[i] # "new" <=> i <= nextId)
  BY QueueAssumption DEF IInv, TypeOK, Fresh, Ids
<1>1. ASSUME drain = "loading"
      PROVE  /\ head \in Ids /\ outcome[head] = "queued" /\ head <= nextId
             /\ \A j \in Ids : outcome[j] = "queued" => j >= head
  <2>1. head \in Ids /\ q \in Seq(Ids) /\ Waiting = <<head>> \o q
    BY <1>1 DEF IInv, HeadHeld, TypeOK, Waiting
  <2>2. Waiting[1] = head /\ 1 \in 1 .. Len(Waiting)
    BY <2>1, PrependProperties, LenProperties
  <2>3. outcome[head] = "queued"
    BY <2>2, Places
  <2>4. ASSUME NEW j \in Ids, outcome[j] = "queued" PROVE j >= head
    <3>1. PICK k \in 1 .. Len(Waiting) : Waiting[k] = j
      BY <2>4, Places
    <3>2. k = 1 \/ (1 < k /\ Waiting[1] < Waiting[k])
      BY <2>2, <3>1, Places DEF IInv, WaitInOrder
    <3> QED BY <1>0, <2>1, <2>2, <3>1, <3>2
  <2> QED BY <1>0, <2>1, <2>3, <2>4
<1>2. CASE LoadStarts
  <2>1. /\ drain = "loading" /\ runId' = runId + 1 /\ nextId' = nextId
        /\ \A j \in Ids : outcome'[j] = IF j = head THEN "started" ELSE outcome[j]
        /\ \A j \in Ids : runOf'[j] = IF j = head THEN runId + 1 ELSE runOf[j]
    BY <1>0, <1>2 DEF LoadStarts
  <2>2. head \in Ids /\ runId < MaxDirect + head /\ head <= nextId
    BY <1>1, <2>1 DEF RunsFit
  <2>3. \A i \in Ids : outcome'[i] = "queued" => runId' < MaxDirect + i
    <3> SUFFICES ASSUME NEW i \in Ids, outcome'[i] = "queued" PROVE runId' < MaxDirect + i
      OBVIOUS
    <3>1. outcome[i] = "queued" /\ i # head
      BY <2>1
    <3> QED BY <1>0, <1>1, <2>1, <2>2, <3>1
  <2>4. \A i \in Ids : outcome'[i] = "started" => runOf'[i] \in 1 .. runId'
    BY <1>0, <2>1 DEF RunsFit
  <2> QED BY <1>0, <2>1, <2>2, <2>3, <2>4 DEF RunsFit, None
<1>3. CASE DirectStart
  <2>1. /\ \/ runId' = runId + 1 /\ runId < MaxDirect
           \/ runId' = runId /\ runId >= MaxDirect
        /\ UNCHANGED <<nextId, outcome, runOf>>
    BY <1>0, <1>3 DEF DirectStart
  <2>2. MaxDirect > 0
    BY QueueAssumption
  <2> QED BY <1>0, <2>1, <2>2 DEF RunsFit, None
<1>4. CASE LoadStartRejected
  <2>1. /\ drain = "loading" /\ UNCHANGED <<nextId, running, runId>>
        /\ \A j \in Ids : \/ outcome'[j] = outcome[j] /\ runOf'[j] = runOf[j]
                          \/ outcome'[j] = "dropped"
                          \/ outcome'[j] = "started" /\ runOf'[j] = runId /\ runId # None
    BY <1>0, <1>4 DEF LoadStartRejected
  <2>2. \A i \in Ids : outcome'[i] = "started" => runOf'[i] \in 1 .. runId
    BY <1>0, <2>1 DEF RunsFit, None
  <2> QED BY <1>0, <2>1, <2>2 DEF RunsFit
<1>5. CASE \/ Enqueue \/ LoadFails \/ LoadFindsBusy \/ Touched \/ Settle
           \/ (\E k \in 1 .. Len(q) : RemoveByQueueId(k)) \/ UNCHANGED vars
  <2>1. /\ UNCHANGED <<runId, runOf>> /\ (running' => running) /\ nextId' \in {nextId, nextId + 1}
        /\ \A j \in Ids : outcome'[j] = outcome[j] \/ outcome'[j] \in {"dropped", "removed"}
                            \/ (outcome'[j] = "queued" /\ j = nextId + 1)
    <3>1. CASE Enqueue
      BY <1>0, <3>1 DEF Enqueue
    <3>2. CASE LoadFails
      BY <1>0, <3>2 DEF LoadFails
    <3>3. CASE LoadFindsBusy \/ Touched \/ UNCHANGED vars
      BY <1>0, <3>3 DEF LoadFindsBusy, Touched, vars
    <3>4. CASE Settle
      BY <1>0, <3>4 DEF Settle
    <3>5. ASSUME NEW k \in 1 .. Len(q), RemoveByQueueId(k)
          PROVE  /\ UNCHANGED <<runId, runOf, running, nextId>>
                 /\ \A j \in Ids : outcome'[j] = outcome[j] \/ outcome'[j] \in {"dropped", "removed"}
      BY <1>0, <3>5 DEF RemoveByQueueId
    <3> QED BY <1>5, <3>1, <3>2, <3>3, <3>4, <3>5
  <2>2. \A i \in Ids : outcome'[i] = "queued" => outcome[i] = "queued" \/ i = nextId + 1
    BY <2>1
  <2>3. \A i \in Ids : outcome'[i] = "started" => outcome[i] = "started"
    BY <2>1
  <2>4. runId <= MaxDirect + nextId'
    <3>1. runId <= MaxDirect + nextId /\ runId <= MaxDirect + (nextId + 1)
      BY <1>0 DEF RunsFit
    <3>2. nextId' = nextId \/ nextId' = nextId + 1
      BY <2>1
    <3> QED BY <3>1, <3>2
  <2>5. ASSUME NEW i \in Ids, outcome'[i] = "queued" PROVE runId < MaxDirect + i
    <3>1. CASE outcome[i] = "queued"
      BY <3>1 DEF RunsFit
    <3>2. CASE i = nextId + 1
      BY <1>0, <3>2 DEF RunsFit
    <3> QED BY <2>2, <2>5, <3>1, <3>2
  <2>6. \A i \in Ids : outcome'[i] = "started" => runOf'[i] \in 1 .. runId'
    BY <2>1, <2>3 DEF RunsFit
  <2>7. running' => runId' # None
    BY <2>1 DEF RunsFit
  <2> QED BY <2>1, <2>4, <2>5, <2>6, <2>7 DEF RunsFit
<1> QED BY <1>2, <1>3, <1>4, <1>5 DEF Next

LEMMA RunsAreRuns ==
  ASSUME IInv, RunsFit
  PROVE  /\ running => runId \in Runs
         /\ \A i \in Ids : outcome[i] = "started" => runOf[i] \in Runs
<1>1. runId \in Nat /\ nextId \in 0 .. MaxIds /\ MaxDirect \in Nat /\ MaxIds \in Nat
  BY QueueAssumption DEF IInv, TypeOK
<1>2. runId <= MaxIds + MaxDirect
  BY <1>1 DEF RunsFit
<1>3. running => runId \in Runs
  BY <1>1, <1>2 DEF RunsFit, Runs, None
<1>4. \A x \in 1 .. runId : x \in Runs
  BY <1>1, <1>2 DEF Runs
<1> QED BY <1>3, <1>4 DEF RunsFit

(* Every step is one of the queue's, or leaves the queue alone.            *)
LEMMA QueueMoves == RunStatusNext \/ UNCHANGED statusVars => [Next]_vars
BY DEF RunStatusNext, QueueStep, RunStarts, RunSettles, StopRun, SaveEnds, AskStatus, CancelRun,
       ReadRecord, AskEngine, statusVars, vars, Next

LEMMA StatusInit == RunStatusInit => SInv
<1> SUFFICES ASSUME RunStatusInit PROVE SInv
  OBVIOUS
<1>1. IInv
  BY InitInv DEF RunStatusInit
<1>2. /\ history = <<>> /\ Len(history) = 0 /\ nextId = 0 /\ runId = None /\ ~running
      /\ outcome = [i \in Ids |-> "new"]
      /\ endedAs = [r \in Runs |-> "none"] /\ saving = {} /\ onFile = {}
      /\ poll = [pc |-> "none", id |-> None, run |-> None] /\ told = [i \in Ids |-> "nothing"]
  BY DEF RunStatusInit, Init, NoPoll
<1>3. StatusTypes
  BY <1>2 DEF StatusTypes, Answers, None
<1>4. RunsFit
  BY <1>2, QueueAssumption DEF RunsFit, None
<1>5. Distinct(history) /\ EntriesCurrent
  BY <1>2 DEF Distinct, EntriesCurrent
<1>6. NoneMissed /\ EndsKnown
  <2>1. \A i \in Ids : ~(i <= 0)
    BY QueueAssumption DEF Ids
  <2>2. \A r \in Runs : ~(r < 0) /\ r # 0
    BY QueueAssumption DEF Runs
  <2> QED BY <1>2, <2>1, <2>2 DEF NoneMissed, EndsKnown, None
<1>7. RecordsEnded /\ PollHolds /\ ToldTruly
  BY <1>2 DEF RecordsEnded, PollHolds, ToldTruly, Ends
<1> QED BY <1>1, <1>3, <1>4, <1>5, <1>6, <1>7 DEF SInv

(* What was said of a request that has left is not changed by the queue.   *)
LEMMA AnswersStand ==
  ASSUME SInv, [Next]_vars, UNCHANGED <<poll, told>>,
         \A r \in Runs : endedAs[r] # "none" => endedAs'[r] = endedAs[r]
  PROVE  PollHolds' /\ ToldTruly'
<1>1. \A i \in Ids : outcome[i] \in {"started", "dropped", "removed"}
        => outcome'[i] = outcome[i] /\ runOf'[i] = runOf[i]
  BY OneIsHeard DEF Says, SInv
<1>2. PollHolds'
  BY <1>1 DEF SInv, PollHolds
<1>3. ASSUME NEW i \in Ids, told[i] \in Ends
      PROVE  endedAs'[runOf[i]] = endedAs[runOf[i]]
  <2>1. outcome[i] = "started" /\ endedAs[runOf[i]] = told[i]
    BY <1>3 DEF SInv, ToldTruly
  <2>2. runOf[i] \in Runs
    BY <2>1, RunsAreRuns DEF SInv
  <2>3. endedAs[runOf[i]] # "none"
    BY <1>3, <2>1 DEF Ends
  <2> QED BY <2>2, <2>3
<1>4. ToldTruly'
  BY <1>1, <1>3 DEF SInv, ToldTruly, Ends
<1> QED BY <1>2, <1>4

(* What a caller is told is true, and leaves the rest alone.               *)
Answer(i, answer) ==
  /\ answer \in Answers \ {"nothing"}
  /\ told' = [told EXCEPT ![i] = answer]
  /\ answer \in {"queued", "dropped", "removed"} => outcome[i] = answer
  /\ answer = "running" => /\ outcome[i] = "started" /\ endedAs[runOf[i]] = "none"
  /\ answer \in Ends => outcome[i] = "started" /\ endedAs[runOf[i]] = answer
  /\ answer = "unknown" =>
       i \in evicted \/ (runOf[i] # None /\ endedAs[runOf[i]] # "none")

LEMMA AskAnswers ==
  ASSUME SInv, NEW i \in Ids, AskStatus(i)
  PROVE  \/ \E a \in Answers : Answer(i, a) /\ poll' = NoPoll
         \/ /\ UNCHANGED told /\ outcome[i] = "started"
            /\ poll' = [pc |-> "reading", id |-> i, run |-> runOf[i]]
<1>1. i <= nextId /\ \A k \in 1 .. Len(history) : history[k] \in Entries
  BY ElementOfSeq DEF AskStatus, SInv, StatusTypes
<1>2. CASE ~Has(i)
  <2>1. i \in evicted
    BY <1>1, <1>2 DEF Has, Lists, SInv, NoneMissed
  <2>2. Answer(i, "unknown") /\ poll' = NoPoll
    BY <1>2, <2>1 DEF AskStatus, Tell, Answer, Answers, Ends
  <2> QED BY <2>2 DEF Answers
<1>3. CASE Has(i)
  <2>1. PlaceOf(i) \in 1 .. Len(history) /\ history[PlaceOf(i)].id = i
    BY <1>3 DEF Has, PlaceOf
  <2>2. EntryOf(i).state = outcome[i] /\ EntryOf(i).run = runOf[i] /\ EntryOf(i) \in Entries
    BY <1>1, <2>1 DEF EntryOf, SInv, EntriesCurrent
  <2>3. CASE outcome[i] = "started"
    BY <1>3, <2>2, <2>3 DEF AskStatus
  <2>4. CASE outcome[i] # "started"
    <3>1. Tell(i, outcome[i])
      BY <1>3, <2>2, <2>4 DEF AskStatus
    <3>2. outcome[i] \in {"queued", "dropped", "removed"}
      BY <2>2, <2>4 DEF Entries, Outcomes
    <3>3. Answer(i, outcome[i]) /\ poll' = NoPoll
      BY <3>1, <3>2 DEF Tell, Answer, Answers, Ends
    <3> QED BY <3>2, <3>3 DEF Answers
  <2> QED BY <2>3, <2>4
<1> QED BY <1>2, <1>3

LEMMA PollAnswers ==
  ASSUME SInv, ReadRecord \/ AskEngine
  PROVE  \/ \E i \in Ids, a \in Answers : Answer(i, a) /\ poll' = NoPoll
         \/ UNCHANGED told /\ poll' = [poll EXCEPT !.pc = "missing"] /\ poll.pc # "none"
<1> DEFINE i == poll.id
<1>1. i \in Ids /\ outcome[i] = "started" /\ poll.run = runOf[i] /\ poll.pc # "none"
  BY DEF ReadRecord, AskEngine, SInv, PollHolds
<1>2. /\ runOf[i] \in Runs /\ runOf[i] \in 1 .. runId /\ runId \in Nat
      /\ endedAs[runOf[i]] \in {"none"} \cup Ends
      /\ endedAs[runOf[i]] # "none"
           <=> runOf[i] < runId \/ (runOf[i] = runId /\ ~running)
  BY <1>1, RunsAreRuns DEF SInv, RunsFit, StatusTypes, EndsKnown, IInv, TypeOK
<1> HIDE DEF i
<1>3. CASE ReadRecord /\ poll.run \in onFile
  <2>1. endedAs[runOf[i]] \in Ends
    BY <1>1, <1>2, <1>3 DEF SInv, RecordsEnded
  <2>2. Answer(i, endedAs[runOf[i]]) /\ poll' = NoPoll
    BY <1>1, <1>3, <2>1 DEF ReadRecord, Tell, Answer, Answers, Ends, i
  <2> QED BY <1>1, <2>1, <2>2 DEF Answers
<1>4. CASE ReadRecord /\ poll.run \notin onFile
  BY <1>1, <1>4 DEF ReadRecord
<1>5. CASE AskEngine /\ runId # poll.run
  <2>1. runOf[i] # None /\ endedAs[runOf[i]] # "none"
    BY <1>1, <1>2, <1>5 DEF None
  <2>2. Answer(i, "unknown") /\ poll' = NoPoll
    BY <1>1, <1>5, <2>1 DEF AskEngine, Tell, Answer, Answers, Ends, i
  <2> QED BY <1>1, <2>2 DEF Answers
<1>6. CASE AskEngine /\ runId = poll.run /\ running
  <2>1. endedAs[runOf[i]] = "none"
    BY <1>1, <1>2, <1>6
  <2>2. Answer(i, "running") /\ poll' = NoPoll
    BY <1>1, <1>6, <2>1 DEF AskEngine, Tell, Answer, Answers, Ends, i
  <2> QED BY <1>1, <2>2 DEF Answers
<1>7. CASE AskEngine /\ runId = poll.run /\ ~running
  <2>1. endedAs[runOf[i]] \in Ends /\ endedAs[runOf[i]] = endedAs[runId]
    BY <1>1, <1>2, <1>7
  <2>2. Answer(i, endedAs[runId]) /\ poll' = NoPoll
    BY <1>1, <1>7, <2>1 DEF AskEngine, Tell, Answer, Answers, Ends, i
  <2> QED BY <1>1, <2>1, <2>2 DEF Answers
<1> QED BY <1>3, <1>4, <1>5, <1>6, <1>7

-----------------------------------------------------------------------------
(* The invariant                                                           *)

(* A settled run has its end, and the runs before it keep theirs.          *)
LEMMA SettleKeeps ==
  ASSUME SInv, RunSettles
  PROVE  /\ endedAs' \in [Runs -> {"none"} \cup Ends]
         /\ \A r \in Runs : endedAs[r] # "none" => endedAs'[r] = endedAs[r]
         /\ EndsKnown' /\ RecordsEnded' /\ saving' \subseteq Runs
<1>1. runId \in Runs /\ running /\ endedAs[runId] = "none" /\ runId \in Nat
      /\ endedAs \in [Runs -> {"none"} \cup Ends]
  BY RunsAreRuns DEF RunSettles, Settle, SInv, EndsKnown, StatusTypes, IInv, TypeOK
<1>2. PICK s \in Ends : endedAs' = [endedAs EXCEPT ![runId] = s]
  BY StatusAssumption DEF RunSettles, Ends
<1>3. /\ endedAs' \in [Runs -> {"none"} \cup Ends]
      /\ \A r \in Runs : endedAs'[r] = IF r = runId THEN s ELSE endedAs[r]
  BY <1>1, <1>2
<1>4. /\ ~running' /\ runId' = runId /\ onFile' = onFile
      /\ saving' = saving \cup {runId}
  BY <1>1 DEF RunSettles, Settle
<1>5. s # "none"
  BY DEF Ends
<1>6. EndsKnown'
  <2> SUFFICES ASSUME NEW r \in Runs
               PROVE  endedAs'[r] # "none" <=> r < runId \/ r = runId
    BY <1>4 DEF EndsKnown
  <2>1. endedAs[r] # "none" <=> r < runId \/ (r = runId /\ ~running)
    BY DEF SInv, EndsKnown
  <2> QED BY <1>1, <1>3, <1>5, <2>1
<1>7. RecordsEnded' /\ saving' \subseteq Runs
  BY <1>1, <1>3, <1>4, <1>5 DEF RecordsEnded, SInv, StatusTypes
<1> QED BY <1>1, <1>3, <1>6, <1>7

LEMMA StatusStep == SInv /\ [RunStatusNext]_statusVars => SInv'
<1> SUFFICES ASSUME SInv, [RunStatusNext]_statusVars PROVE SInv'
  OBVIOUS
<1>1. [Next]_vars /\ IInv' /\ RunsFit'
  BY QueueMoves, Inductive, RunsStayIn DEF SInv
<1>2. /\ IInv /\ StatusTypes /\ RunsFit /\ Distinct(history) /\ EntriesCurrent /\ NoneMissed
      /\ EndsKnown /\ RecordsEnded /\ PollHolds /\ ToldTruly
  BY DEF SInv
<1>3. CASE QueueStep
  <2>1. /\ HistoryHears /\ UNCHANGED <<endedAs, saving, onFile, poll, polls, told>>
        /\ UNCHANGED <<running, runId>>
    BY <1>3 DEF QueueStep, recordVars, queryVars, Enqueue, LoadFails, LoadFindsBusy,
                LoadStartRejected, Touched, RemoveByQueueId
  <2>2. /\ history' \in Seq(Entries) /\ Distinct(history)' /\ EntriesCurrent' /\ NoneMissed'
    BY <1>1, <2>1, HistoryFollows
  <2>3. PollHolds' /\ ToldTruly'
    BY <1>1, <2>1, AnswersStand
  <2>4. EndsKnown' /\ RecordsEnded' /\ StatusTypes'
    BY <1>2, <2>1, <2>2 DEF EndsKnown, RecordsEnded, StatusTypes
  <2> QED BY <1>1, <2>2, <2>3, <2>4 DEF SInv
<1>4. CASE RunStarts
  <2>1. /\ HistoryHears /\ UNCHANGED <<endedAs, saving, onFile, poll, polls, told>>
        /\ ~running /\ running' /\ runId' = runId + 1 /\ runId \in Nat
    BY <1>2, <1>4 DEF RunStarts, recordVars, queryVars, LoadStarts, DirectStart, IInv, TypeOK
  <2>2. /\ history' \in Seq(Entries) /\ Distinct(history)' /\ EntriesCurrent' /\ NoneMissed'
    BY <1>1, <2>1, HistoryFollows
  <2>3. PollHolds' /\ ToldTruly'
    BY <1>1, <2>1, AnswersStand
  <2>4. RecordsEnded' /\ StatusTypes'
    BY <1>2, <2>1, <2>2 DEF RecordsEnded, StatusTypes
  <2>5. EndsKnown'
    <3>1. \A r \in Runs : r \in Nat /\ (r < runId + 1 <=> r < runId \/ r = runId)
      BY <2>1 DEF Runs
    <3> QED BY <1>2, <2>1, <3>1 DEF EndsKnown
  <2> QED BY <1>1, <2>2, <2>3, <2>4, <2>5 DEF SInv
<1>5. CASE RunSettles
  <2>1. UNCHANGED <<history, evicted, onFile, poll, polls, told, nextId, outcome, runOf>>
    BY <1>5 DEF RunSettles, queryVars, Settle
  <2>2. /\ endedAs' \in [Runs -> {"none"} \cup Ends]
        /\ \A r \in Runs : endedAs[r] # "none" => endedAs'[r] = endedAs[r]
        /\ EndsKnown' /\ RecordsEnded' /\ saving' \subseteq Runs
    BY <1>5, SettleKeeps
  <2>3. PollHolds' /\ ToldTruly'
    BY <1>1, <2>1, <2>2, AnswersStand
  <2>4. StatusTypes' /\ Distinct(history)' /\ EntriesCurrent' /\ NoneMissed'
    BY <1>2, <2>1, <2>2 DEF StatusTypes, Distinct, EntriesCurrent, NoneMissed, Lists
  <2> QED BY <1>1, <2>2, <2>3, <2>4 DEF SInv
<1>6. ASSUME NEW r \in saving, SaveEnds(r)
      PROVE  SInv'
  <2>1. /\ UNCHANGED <<history, evicted, endedAs, poll, polls, told, nextId, outcome, runOf>>
        /\ UNCHANGED <<running, runId>>
        /\ saving' \subseteq saving /\ onFile' \subseteq saving \cup onFile
    BY <1>6 DEF SaveEnds, queryVars, vars
  <2>2. StatusTypes' /\ RecordsEnded' /\ EndsKnown' /\ PollHolds' /\ ToldTruly'
    BY <1>2, <2>1 DEF StatusTypes, RecordsEnded, EndsKnown, PollHolds, ToldTruly
  <2>3. Distinct(history)' /\ EntriesCurrent' /\ NoneMissed'
    BY <1>2, <2>1 DEF Distinct, EntriesCurrent, NoneMissed, Lists
  <2> QED BY <1>1, <2>2, <2>3 DEF SInv
<1>7. CASE \/ StopRun \/ UNCHANGED statusVars \/ \E i \in Ids : CancelRun(i)
  <2>1. /\ UNCHANGED <<history, evicted, endedAs, saving, onFile, poll, polls, told>>
        /\ UNCHANGED <<nextId, outcome, runOf, running, runId>>
    BY <1>7 DEF StopRun, CancelRun, statusVars, recordVars, queryVars, vars
  <2>2. StatusTypes' /\ RecordsEnded' /\ EndsKnown' /\ PollHolds' /\ ToldTruly'
    BY <1>2, <2>1 DEF StatusTypes, RecordsEnded, EndsKnown, PollHolds, ToldTruly
  <2>3. Distinct(history)' /\ EntriesCurrent' /\ NoneMissed'
    BY <1>2, <2>1 DEF Distinct, EntriesCurrent, NoneMissed, Lists
  <2> QED BY <1>1, <2>2, <2>3 DEF SInv
<1>8. CASE ReadRecord \/ AskEngine \/ \E i \in Ids : AskStatus(i)
  <2>1. /\ UNCHANGED <<history, evicted, endedAs, saving, onFile>>
        /\ UNCHANGED <<nextId, outcome, runOf, running, runId>>
    BY <1>8 DEF ReadRecord, AskEngine, AskStatus, recordVars, vars
  <2>2. RecordsEnded' /\ EndsKnown' /\ Distinct(history)' /\ EntriesCurrent' /\ NoneMissed'
    BY <1>2, <2>1 DEF RecordsEnded, EndsKnown, Distinct, EntriesCurrent, NoneMissed, Lists
  <2>3. \/ \E i \in Ids, a \in Answers : Answer(i, a) /\ poll' = NoPoll
        \/ \E i \in Ids : /\ UNCHANGED told /\ outcome[i] = "started"
                          /\ poll' = [pc |-> "reading", id |-> i, run |-> runOf[i]]
        \/ UNCHANGED told /\ poll' = [poll EXCEPT !.pc = "missing"] /\ poll.pc # "none"
    BY <1>8, AskAnswers, PollAnswers
  <2>4. ASSUME NEW i \in Ids, NEW a \in Answers, Answer(i, a), poll' = NoPoll
        PROVE  StatusTypes' /\ PollHolds' /\ ToldTruly'
    <3>1. /\ told' \in [Ids -> Answers]
          /\ \A j \in Ids : told'[j] = IF j = i THEN a ELSE told[j]
      BY <1>2, <2>4 DEF Answer, StatusTypes
    <3>2. StatusTypes' /\ PollHolds'
      BY <1>2, <2>1, <2>4, <3>1 DEF StatusTypes, PollHolds, NoPoll, None
    <3>3. ToldTruly'
      BY <1>2, <2>1, <2>4, <3>1 DEF ToldTruly, Answer
    <3> QED BY <3>2, <3>3
  <2>5. ASSUME NEW i \in Ids, UNCHANGED told, outcome[i] = "started",
               poll' = [pc |-> "reading", id |-> i, run |-> runOf[i]]
        PROVE  StatusTypes' /\ PollHolds' /\ ToldTruly'
    <3>1. i \in Nat /\ runOf[i] \in Nat
      BY <1>2 DEF IInv, TypeOK, Ids
    <3> QED BY <1>2, <2>1, <2>5, <3>1 DEF StatusTypes, PollHolds, ToldTruly
  <2>6. ASSUME UNCHANGED told, poll' = [poll EXCEPT !.pc = "missing"], poll.pc # "none"
        PROVE  StatusTypes' /\ PollHolds' /\ ToldTruly'
    <3>1. /\ poll'.pc = "missing" /\ poll'.id = poll.id /\ poll'.run = poll.run
          /\ poll' \in [pc : {"none", "reading", "missing"}, id : Nat, run : Nat]
      BY <1>2, <2>6 DEF StatusTypes
    <3>2. StatusTypes' /\ ToldTruly'
      BY <1>2, <2>1, <2>6, <3>1 DEF StatusTypes, ToldTruly
    <3>3. PollHolds'
      BY <1>2, <2>1, <2>6, <3>1 DEF PollHolds
    <3> QED BY <3>2, <3>3
  <2>7. StatusTypes' /\ PollHolds' /\ ToldTruly'
    BY <2>3, <2>4, <2>5, <2>6, Zenon
  <2> QED BY <1>1, <2>2, <2>7 DEF SInv
<1> QED BY <1>3, <1>4, <1>5, <1>6, <1>7, <1>8 DEF RunStatusNext

-----------------------------------------------------------------------------
(* The theorem                                                             *)

(* An answer that differs from the one before is an advance.               *)
LEMMA AnswerAdvances ==
  ASSUME SInv, NEW i \in Ids, NEW a \in Answers, Answer(i, a), told[i] # a
  PROVE  IF a = "unknown" THEN i \in evicted \/ (runOf[i] # None /\ endedAs[runOf[i]] # "none")
         ELSE told[i] = "unknown" \/ Rank(told[i]) < Rank(a)
<1>1. CASE a = "unknown"
  BY <1>1 DEF Answer
<1>2. CASE a # "unknown"
  <2>1. /\ told[i] \in Answers
        /\ told[i] \in {"dropped", "removed"} => outcome[i] = told[i]
        /\ told[i] = "running" => outcome[i] = "started"
        /\ told[i] \in Ends => outcome[i] = "started" /\ endedAs[runOf[i]] = told[i]
    BY DEF SInv, StatusTypes, ToldTruly
  <2>2. /\ a \in {"queued", "dropped", "removed"} => outcome[i] = a
        /\ a = "running" => outcome[i] = "started" /\ endedAs[runOf[i]] = "none"
        /\ a \in Ends => outcome[i] = "started" /\ endedAs[runOf[i]] = a
    BY DEF Answer
  <2>3. a # "nothing"
    BY DEF Answer
  <2> QED BY <1>2, <2>1, <2>2, <2>3 DEF Answers, Ends, Rank
<1> QED BY <1>1, <1>2

(* Whoever polls a queue id is told of progress only, or that the request  *)
(* is unknown for one of the two reasons there are: whatever the sizes of  *)
(* the queue and its history, and however the polls fall between the       *)
(* queue's steps, the end of runs and the saves of their records           *)
(* (get_run_status in mcp/utility-tools.ts, queue-history.ts).             *)
THEOREM PollsOnlyAdvance == RunStatusSpec => PollsAdvance
<1>1. ASSUME SInv, [RunStatusNext]_statusVars
      PROVE  \A i \in Ids :
               LET was == told[i]
                   is == told'[i]
               IN was # is => IF is = "unknown"
                              THEN i \in evicted \/ (runOf[i] # None /\ endedAs[runOf[i]] # "none")
                              ELSE was = "unknown" \/ Rank(was) < Rank(is)
  <2>1. UNCHANGED told \/ \E i \in Ids, a \in Answers : Answer(i, a)
    <3>1. CASE ReadRecord \/ AskEngine \/ \E i \in Ids : AskStatus(i)
      BY <1>1, <3>1, AskAnswers, PollAnswers
    <3>2. CASE ~(ReadRecord \/ AskEngine \/ \E i \in Ids : AskStatus(i))
      BY <1>1, <3>2 DEF RunStatusNext, QueueStep, RunStarts, RunSettles, StopRun, SaveEnds,
                        CancelRun, statusVars, queryVars
    <3> QED BY <3>1, <3>2
  <2>2. ASSUME NEW i \in Ids, NEW a \in Answers, Answer(i, a), NEW j \in Ids,
               told[j] # told'[j]
        PROVE  j = i /\ told'[j] = a
    BY <1>1, <2>2 DEF Answer, SInv, StatusTypes
  <2> QED BY <1>1, <2>1, <2>2, AnswerAdvances
<1>2. SInv /\ [RunStatusNext]_statusVars =>
        [\A i \in Ids :
           LET was == told[i]
               is == told'[i]
           IN was # is => IF is = "unknown"
                          THEN i \in evicted \/ (runOf[i] # None /\ endedAs[runOf[i]] # "none")
                          ELSE was = "unknown" \/ Rank(was) < Rank(is)]_statusVars
  BY <1>1
<1> QED BY <1>2, StatusInit, StatusStep, PTL DEF RunStatusSpec, PollsAdvance

-----------------------------------------------------------------------------
(* The types                                                               *)

(* The history stays within its limit, and a record that is being saved is *)
(* not on file yet.                                                        *)
Bounded == Len(history) <= MaxEntries /\ saving \cap onFile = {}

LEMMA HistoryStaysBounded ==
  ASSUME SInv, Len(history) <= MaxEntries, HistoryHears
  PROVE  Len(history') <= MaxEntries
<1>1. history \in Seq(Entries) /\ Len(history) \in Nat /\ MaxEntries \in Nat \ {0}
  BY LenProperties, StatusAssumption DEF SInv, StatusTypes
<1>2. ASSUME NEW e, SetEntry(e)
      PROVE  Len(history') <= MaxEntries
  <2> DEFINE others == IF Has(e.id) THEN RemoveAt(history, PlaceOf(e.id)) ELSE history
             all == Append(others, e)
  <2>1. others \in Seq(Entries) /\ Len(others) <= Len(history)
    <3>1. CASE Has(e.id)
      <4>1. PlaceOf(e.id) \in 1 .. Len(history)
        BY <3>1 DEF Has, PlaceOf
      <4>2. /\ RemoveAt(history, PlaceOf(e.id)) \in Seq(Entries)
            /\ Len(RemoveAt(history, PlaceOf(e.id))) = Len(history) - 1
        BY <1>1, <4>1, RemoveAtProperties
      <4> QED BY <1>1, <3>1, <4>2
    <3> QED BY <1>1, <3>1
  <2>2. history' = IF Len(all) > MaxEntries THEN Tail(all) ELSE all
    BY <1>2 DEF SetEntry
  <2> HIDE DEF others
  <2>3. /\ all \in Seq(Entries \cup {e}) /\ Len(all) = Len(others) + 1 /\ Len(others) \in Nat
        /\ Len(Tail(all)) = Len(all) - 1
    <3>1. others \in Seq(Entries \cup {e})
      BY <2>1, SeqMonotonic
    <3> QED BY <3>1
  <2> QED BY <1>1, <2>1, <2>2, <2>3
<1> QED BY <1>2 DEF HistoryHears

LEMMA BoundsKept ==
  ASSUME SInv, Bounded, [RunStatusNext]_statusVars
  PROVE  Bounded'
<1>1. CASE QueueStep \/ RunStarts
  <2>1. HistoryHears /\ UNCHANGED <<saving, onFile>>
    BY <1>1 DEF QueueStep, RunStarts, recordVars
  <2> QED BY <2>1, HistoryStaysBounded DEF Bounded
<1>2. CASE RunSettles
  <2>1. runId \notin onFile
    <3>1. runId \in Runs /\ running /\ runId \in Nat
      BY <1>2, RunsAreRuns DEF RunSettles, Settle, SInv, IInv, TypeOK
    <3>2. endedAs[runId] = "none"
      BY <3>1 DEF SInv, EndsKnown
    <3> QED BY <3>2 DEF SInv, RecordsEnded
  <2>2. UNCHANGED <<history, onFile>> /\ saving' = saving \cup {runId}
    BY <1>2 DEF RunSettles
  <2> QED BY <2>1, <2>2 DEF Bounded
<1>3. ASSUME NEW r \in saving, SaveEnds(r)
      PROVE  Bounded'
  BY <1>3 DEF SaveEnds, Bounded
<1>4. CASE \/ StopRun \/ ReadRecord \/ AskEngine \/ UNCHANGED statusVars
           \/ \E i \in Ids : AskStatus(i) \/ CancelRun(i)
  <2>1. UNCHANGED <<history, saving, onFile>>
    BY <1>4 DEF StopRun, ReadRecord, AskEngine, AskStatus, CancelRun, recordVars, statusVars
  <2> QED BY <2>1 DEF Bounded
<1> QED BY <1>1, <1>2, <1>3, <1>4 DEF RunStatusNext

(* The types of what a poller is answered from: an entry per request that  *)
(* the bus spoke of and never more than the history holds, and no record   *)
(* both being saved and on file (QueueHistory, run-history.ts).            *)
THEOREM StatusTypeCorrect == RunStatusSpec => []RunStatusTypeOK
<1>1. RunStatusInit => Bounded
  BY StatusAssumption DEF RunStatusInit, Bounded
<1>2. ASSUME SInv, Bounded
      PROVE  RunStatusTypeOK
  <2>1. \A k \in 1 .. Len(history) : history[k] \in Entries
    BY <1>2, ElementOfSeq DEF SInv, StatusTypes
  <2> QED BY <1>2, <2>1
          DEF SInv, IInv, StatusTypes, Bounded, RunStatusTypeOK, Entries, Answers, Ends, Statuses
<1> QED BY <1>1, <1>2, StatusInit, StatusStep, BoundsKept, PTL DEF RunStatusSpec

-----------------------------------------------------------------------------
(* What a browser sees                                                     *)

Marks == {"run_started", "run_finished", "other"} \X Nat
Logs == Seq(Marks)
FrameTypes == {"state_snapshot", "run_started", "run_finished", "other"}
Wired == [type : FrameTypes, status : EngineStatuses \cup {"none"}, log : Logs, nr : Nat]

(* What Apply makes of the status and the log that the browser shows.      *)
StatusAfter(s, f) == IF f.type = "other" THEN s ELSE f.status
LogAfter(l, f) == CASE f.type = "state_snapshot" -> f.log
                    [] f.type = "run_started"    -> <<Event(f)>>
                    [] OTHER                     -> Append(l, Event(f))

(* A browser that shows s and l and receives the frames w shows ss and ls, *)
(* frame by frame, and in the end sn and ln.                               *)
Shows(s, l, w, ss, ls) ==
  /\ ss \in [1 .. Len(w) + 1 -> EngineStatuses] /\ ls \in [1 .. Len(w) + 1 -> Logs]
  /\ ss[1] = s /\ ls[1] = l
  /\ \A k \in 1 .. Len(w) : /\ ss[k + 1] = StatusAfter(ss[k], w[k])
                            /\ ls[k + 1] = LogAfter(ls[k], w[k])
LeadsTo(s, l, w, sn, ln) ==
  \E ss, ls : Shows(s, l, w, ss, ls) /\ sn = ss[Len(w) + 1] /\ ln = ls[Len(w) + 1]

(* These are what the engine has: its status and, during a run, the events *)
(* it keeps, each with a number of its own.                                *)
Suffixed(s, t) == /\ Len(s) <= Len(t)
                  /\ \A k \in 1 .. Len(s) : s[k] = t[Len(t) - Len(s) + k]
Single(l) == \A j, k \in 1 .. Len(l) : l[j] = l[k] => j = k
Numbered(l, n) == \A k \in 1 .. Len(l) :
                    l[k] = <<"run_started", 0>> \/ \E i \in 1 .. n : l[k] = <<"other", i>>
UpToDate(s, l) == /\ s = engineStatus
                  /\ s = "running" => Suffixed(recent, l) /\ Single(l) /\ Numbered(l, events)
Followed == connected => \E s \in EngineStatuses, l \in Logs :
                           LeadsTo(viewStatus, viewLog, wire, s, l) /\ UpToDate(s, l)

EventTypes == /\ EventStreamTypeOK
              /\ recent \in Logs /\ viewLog \in Logs /\ wire \in Seq(Wired)
              /\ \A k \in 1 .. Len(wire) : wire[k].type # "other" => wire[k].status # "none"
Capture == capturing <=> engineStatus = "running"
Kept == engineStatus = "running" => Single(recent) /\ Numbered(recent, events)
EInv == EventTypes /\ Capture /\ Kept /\ Followed

LEMMA SuffixIs ==
  ASSUME NEW S, NEW s \in Seq(S), NEW t \in Seq(S), Suffixed(s, t)
  PROVE  IsSuffix(s, t)
<1> DEFINE r == Reverse(s)
           u == Reverse(t)
<1>1. Len(s) \in Nat /\ Len(t) \in Nat /\ Len(s) <= Len(t)
  BY DEF Suffixed
<1>2. /\ r \in Seq(S) /\ Len(r) = Len(s) /\ \A k \in 1 .. Len(s) : r[k] = s[Len(s) - k + 1]
      /\ u \in Seq(S) /\ Len(u) = Len(t) /\ \A k \in 1 .. Len(t) : u[k] = t[Len(t) - k + 1]
  BY <1>1 DEF Reverse
<1> HIDE DEF r, u
<1>3. ASSUME NEW k \in 1 .. Len(s)  PROVE r[k] = u[k]
  <2>1. Len(s) - k + 1 \in 1 .. Len(s)
    BY <1>1, <1>3
  <2>2. s[Len(s) - k + 1] = t[Len(t) - Len(s) + (Len(s) - k + 1)]
    BY <2>1 DEF Suffixed
  <2>3. Len(t) - Len(s) + (Len(s) - k + 1) = Len(t) - k + 1
    BY <1>1, <1>3
  <2>4. k \in 1 .. Len(t)
    BY <1>1, <1>3
  <2> QED  BY <1>2, <1>3, <2>2, <2>3, <2>4
<1> DEFINE n == Len(s)
           rn == SubSeq(r, 1, n)
           un == SubSeq(u, 1, n)
<1>4. rn = un
  <2>1. /\ n \in Nat /\ 1 \in 1 .. Len(r) + 1 /\ n \in 1 - 1 .. Len(r) /\ n - 1 + 1 = n
        /\ 1 \in 1 .. Len(u) + 1 /\ n \in 1 - 1 .. Len(u)
    BY <1>1, <1>2
  <2> HIDE DEF n
  <2>2. rn \in Seq(S) /\ Len(rn) = n /\ \A i \in 1 .. n : rn[i] = r[1 + i - 1]
    BY <1>2, <2>1, SubSeqProperties
  <2>3. un \in Seq(S) /\ Len(un) = n /\ \A i \in 1 .. n : un[i] = u[1 + i - 1]
    BY <1>2, <2>1, SubSeqProperties
  <2> HIDE DEF rn, un
  <2>4. ASSUME NEW i \in 1 .. n  PROVE rn[i] = un[i]
    <3>1. 1 + i - 1 = i /\ i \in 1 .. n - 1 + 1 /\ r[i] = u[i]
      BY <1>3, <2>1, <2>4 DEF n
    <3> QED  BY <2>2, <2>3, <2>4, <3>1
  <2> QED  BY <2>2, <2>3, <2>4, SeqEqual
<1> QED  BY <1>1, <1>2, <1>4 DEF IsSuffix, IsPrefix, r, u

(* A captured event goes to the end of both logs, and the oldest may leave *)
(* the engine's.                                                           *)
LEMMA CaptureKeeps ==
  ASSUME NEW S, NEW r \in Seq(S), NEW e \in S
  PROVE  /\ Captured(r, e) \in Seq(S)
         /\ Len(r) <= EventCap => Len(Captured(r, e)) <= EventCap
         /\ \A l \in Seq(S) : Suffixed(r, l) => Suffixed(Captured(r, e), Append(l, e))
         /\ Single(Append(r, e)) => Single(Captured(r, e))
         /\ \A n : Numbered(Append(r, e), n) => Numbered(Captured(r, e), n)
<1> DEFINE all == Append(r, e)
<1>1. /\ all \in Seq(S) /\ Len(all) = Len(r) + 1 /\ Len(r) \in Nat /\ all # <<>>
      /\ \A k \in 1 .. Len(r) : all[k] = r[k]
      /\ all[Len(r) + 1] = e
  OBVIOUS
<1>2. EventCap \in Nat \ {0}
  BY StreamAssumption
<1>3. ASSUME NEW l \in Seq(S), Suffixed(r, l)
      PROVE  Suffixed(all, Append(l, e))
  <2> DEFINE m == Append(l, e)
  <2>1. /\ Len(l) \in Nat /\ Len(m) = Len(l) + 1 /\ Len(r) <= Len(l)
        /\ \A k \in 1 .. Len(l) : m[k] = l[k]
        /\ m[Len(l) + 1] = e
    BY <1>3 DEF Suffixed
  <2> HIDE DEF m, all
  <2>2. ASSUME NEW k \in 1 .. Len(all)
        PROVE  all[k] = m[Len(m) - Len(all) + k]
    <3>1. CASE k = Len(r) + 1
      BY <1>1, <2>1, <3>1
    <3>2. CASE k \in 1 .. Len(r)
      <4>1. /\ Len(l) - Len(r) + k \in 1 .. Len(l)
            /\ Len(m) - Len(all) + k = Len(l) - Len(r) + k
        BY <1>1, <2>1, <3>2
      <4> QED  BY <1>1, <1>3, <2>1, <3>2, <4>1 DEF Suffixed
    <3> QED  BY <1>1, <2>2, <3>1, <3>2
  <2>3. Suffixed(all, m)
    BY <1>1, <2>1, <2>2 DEF Suffixed
  <2> QED  BY <2>3 DEF m
<1> HIDE DEF all
<1>4. CASE Len(all) > EventCap
  <2>1. Captured(r, e) = Tail(all)
    BY <1>4 DEF Captured, all
  <2>2. /\ Tail(all) \in Seq(S) /\ Len(Tail(all)) = Len(r)
        /\ \A k \in 1 .. Len(r) : Tail(all)[k] = all[k + 1]
    BY <1>1
  <2>3. ASSUME NEW l \in Seq(S), Suffixed(r, l)
        PROVE  Suffixed(Tail(all), Append(l, e))
    <3>1. /\ Suffixed(all, Append(l, e)) /\ Append(l, e) \in Seq(S)
          /\ Len(Append(l, e)) = Len(l) + 1 /\ Len(l) \in Nat
      BY <1>3, <2>3
    <3>2. ASSUME NEW k \in 1 .. Len(r)
          PROVE  Tail(all)[k] = Append(l, e)[Len(Append(l, e)) - Len(r) + k]
      <4>1. k + 1 \in 1 .. Len(all)
        BY <1>1, <3>2
      <4>2. all[k + 1] = Append(l, e)[Len(Append(l, e)) - Len(all) + (k + 1)]
        BY <3>1, <4>1 DEF Suffixed
      <4>3. Len(Append(l, e)) - Len(all) + (k + 1) = Len(Append(l, e)) - Len(r) + k
        BY <1>1, <3>1, <3>2
      <4> QED  BY <2>2, <3>2, <4>2, <4>3
    <3>3. Len(r) <= Len(Append(l, e))
      BY <1>1, <3>1 DEF Suffixed
    <3> QED  BY <2>2, <3>2, <3>3 DEF Suffixed
  <2>4. Single(all) => Single(Tail(all))
    <3> SUFFICES ASSUME Single(all), NEW j \in 1 .. Len(r), NEW k \in 1 .. Len(r),
                        Tail(all)[j] = Tail(all)[k]
                 PROVE  j = k
      BY <2>2 DEF Single
    <3> QED  BY <1>1, <2>2 DEF Single
  <2>5. ASSUME NEW n, Numbered(all, n)  PROVE Numbered(Tail(all), n)
    <3> SUFFICES ASSUME NEW k \in 1 .. Len(r)
                 PROVE  \/ Tail(all)[k] = <<"run_started", 0>>
                        \/ \E i \in 1 .. n : Tail(all)[k] = <<"other", i>>
      BY <2>2 DEF Numbered
    <3>1. k + 1 \in 1 .. Len(all) /\ Tail(all)[k] = all[k + 1]
      BY <1>1, <2>2
    <3> QED  BY <2>5, <3>1 DEF Numbered
  <2> QED  BY <2>1, <2>2, <2>3, <2>4, <2>5 DEF all
<1>5. CASE ~(Len(all) > EventCap)
  BY <1>1, <1>2, <1>3, <1>5 DEF Captured, all
<1> QED  BY <1>4, <1>5

LEMMA StreamStarts == EventStreamInit => EInv
<1> SUFFICES ASSUME EventStreamInit  PROVE EInv
  OBVIOUS
<1>1. /\ recent \in Logs /\ viewLog \in Logs /\ wire \in Seq(Wired)
      /\ Len(recent) = 0 /\ Len(wire) = 0
  BY DEF EventStreamInit, Logs
<1>2. EventStreamTypeOK
  <2>1. /\ 0 \in 0 .. MaxRuns /\ 0 \in 0 .. MaxEvents /\ 0 \in 0 .. MaxConnects
        /\ Len(recent) <= EventCap
    BY <1>1, StreamAssumption
  <2>2. capturing \in BOOLEAN /\ connected \in BOOLEAN
    BY DEF EventStreamInit
  <2> QED  BY <2>1, <2>2 DEF EventStreamInit, EventStreamTypeOK, EngineStatuses
<1>3. capturing = FALSE /\ engineStatus # "running" /\ connected = FALSE
  BY DEF EventStreamInit
<1> QED  BY <1>1, <1>2, <1>3 DEF EInv, EventTypes, Capture, Kept, Followed

LEMMA FrameTyped ==
  ASSUME NEW f \in Wired, f.type # "other" => f.status # "none",
         NEW s \in EngineStatuses, NEW l \in Logs
  PROVE  StatusAfter(s, f) \in EngineStatuses /\ LogAfter(l, f) \in Logs
<1>1. StatusAfter(s, f) \in EngineStatuses
  BY DEF StatusAfter, Wired
<1>2. CASE f.type = "state_snapshot"
  BY <1>1, <1>2 DEF LogAfter, Wired
<1>3. CASE f.type # "state_snapshot"
  <2>1. Event(f) \in Marks
    BY <1>3 DEF Event, Wired, FrameTypes, Marks
  <2>2. <<Event(f)>> \in Seq(Marks) /\ Append(l, Event(f)) \in Seq(Marks)
    BY <2>1 DEF Logs
  <2> QED  BY <1>1, <1>3, <2>2 DEF LogAfter, Logs
<1> QED  BY <1>2, <1>3

(* What the browser will show changes by one frame when one is put on the  *)
(* stream.                                                                 *)
LEMMA OneFrameMore ==
  ASSUME NEW s \in EngineStatuses, NEW l \in Logs, NEW w \in Seq(Wired),
         NEW sn \in EngineStatuses, NEW ln \in Logs, LeadsTo(s, l, w, sn, ln),
         NEW f \in Wired, f.type # "other" => f.status # "none"
  PROVE  LeadsTo(s, l, Append(w, f), StatusAfter(sn, f), LogAfter(ln, f))
<1>1. PICK ss, ls : Shows(s, l, w, ss, ls) /\ sn = ss[Len(w) + 1] /\ ln = ls[Len(w) + 1]
  BY DEF LeadsTo
<1> DEFINE n == Len(w) + 1
           v == Append(w, f)
           tt == [k \in 1 .. n + 1 |-> IF k = n + 1 THEN StatusAfter(sn, f) ELSE ss[k]]
           ms == [k \in 1 .. n + 1 |-> IF k = n + 1 THEN LogAfter(ln, f) ELSE ls[k]]
<1>2. /\ n \in Nat \ {0} /\ Len(v) = n /\ v[n] = f /\ \A k \in 1 .. n - 1 : v[k] = w[k]
      /\ Len(w) = n - 1
  OBVIOUS
<1>3. /\ ss \in [1 .. n -> EngineStatuses] /\ ls \in [1 .. n -> Logs]
      /\ ss[1] = s /\ ls[1] = l /\ sn = ss[n] /\ ln = ls[n]
      /\ \A k \in 1 .. n - 1 : /\ ss[k + 1] = StatusAfter(ss[k], w[k])
                              /\ ls[k + 1] = LogAfter(ls[k], w[k])
  BY <1>1, <1>2 DEF Shows
<1>4. StatusAfter(sn, f) \in EngineStatuses /\ LogAfter(ln, f) \in Logs
  BY FrameTyped
<1> HIDE DEF n, v
<1>5. tt \in [1 .. n + 1 -> EngineStatuses] /\ ms \in [1 .. n + 1 -> Logs]
  BY <1>2, <1>3, <1>4
<1>6. /\ tt[n + 1] = StatusAfter(sn, f) /\ ms[n + 1] = LogAfter(ln, f)
      /\ \A k \in 1 .. n : tt[k] = ss[k] /\ ms[k] = ls[k]
  BY <1>2
<1> HIDE DEF tt, ms
<1>7. ASSUME NEW k \in 1 .. n
      PROVE  tt[k + 1] = StatusAfter(tt[k], v[k]) /\ ms[k + 1] = LogAfter(ms[k], v[k])
  <2>1. CASE k = n
    BY <1>2, <1>3, <1>6, <2>1
  <2>2. CASE k \in 1 .. n - 1
    <3>1. k + 1 \in 1 .. n
      BY <1>2, <2>2
    <3> QED  BY <1>2, <1>3, <1>6, <1>7, <2>2, <3>1
  <2> QED  BY <1>2, <1>7, <2>1, <2>2
<1>8. Shows(s, l, v, tt, ms)
  BY <1>2, <1>3, <1>5, <1>6, <1>7 DEF Shows
<1> QED  BY <1>2, <1>6, <1>8 DEF LeadsTo, v

(* A frame that is received changes nothing of what will be shown.         *)
LEMMA OneFrameLess ==
  ASSUME NEW s \in EngineStatuses, NEW l \in Logs, NEW w \in Seq(Wired), w # <<>>,
         NEW sn \in EngineStatuses, NEW ln \in Logs, LeadsTo(s, l, w, sn, ln)
  PROVE  LeadsTo(StatusAfter(s, Head(w)), LogAfter(l, Head(w)), Tail(w), sn, ln)
<1>1. PICK ss, ls : Shows(s, l, w, ss, ls) /\ sn = ss[Len(w) + 1] /\ ln = ls[Len(w) + 1]
  BY DEF LeadsTo
<1> DEFINE n == Len(w)
           v == Tail(w)
           tt == [k \in 1 .. n |-> ss[k + 1]]
           ms == [k \in 1 .. n |-> ls[k + 1]]
<1>2. /\ n \in Nat \ {0} /\ Len(v) = n - 1 /\ Head(w) = w[1]
      /\ \A k \in 1 .. n - 1 : v[k] = w[k + 1]
  OBVIOUS
<1> HIDE DEF n, v
<1>3. /\ ss \in [1 .. n + 1 -> EngineStatuses] /\ ls \in [1 .. n + 1 -> Logs]
      /\ ss[1] = s /\ ls[1] = l /\ sn = ss[n + 1] /\ ln = ls[n + 1]
      /\ \A k \in 1 .. n : /\ ss[k + 1] = StatusAfter(ss[k], w[k])
                          /\ ls[k + 1] = LogAfter(ls[k], w[k])
  BY <1>1 DEF Shows, n
<1>4. tt \in [1 .. n -> EngineStatuses] /\ ms \in [1 .. n -> Logs]
  BY <1>2, <1>3
<1>5. \A k \in 1 .. n : tt[k] = ss[k + 1] /\ ms[k] = ls[k + 1]
  OBVIOUS
<1> HIDE DEF tt, ms
<1>6. tt[1] = StatusAfter(s, w[1]) /\ ms[1] = LogAfter(l, w[1]) /\ tt[n] = sn /\ ms[n] = ln
  BY <1>2, <1>3, <1>5
<1>7. ASSUME NEW k \in 1 .. n - 1
      PROVE  tt[k + 1] = StatusAfter(tt[k], v[k]) /\ ms[k + 1] = LogAfter(ms[k], v[k])
  <2>1. k \in 1 .. n /\ k + 1 \in 1 .. n
    BY <1>2, <1>7
  <2> QED  BY <1>2, <1>3, <1>5, <1>7, <2>1
<1>8. Shows(StatusAfter(s, w[1]), LogAfter(l, w[1]), v, tt, ms)
  BY <1>2, <1>4, <1>6, <1>7 DEF Shows
<1> QED  BY <1>2, <1>6, <1>8 DEF LeadsTo, v

(* A frame of the bus: what the browser will show changes as the engine    *)
(* does.                                                                   *)
LEMMA EmitKeeps ==
  ASSUME EInv, UNCHANGED <<connected, viewStatus, viewLog>>,
         NEW f \in Wired, f.type # "other" => f.status # "none", Deliver(f),
         \A s \in EngineStatuses, l \in Logs :
           UpToDate(s, l) => UpToDate(StatusAfter(s, f), LogAfter(l, f))'
  PROVE  /\ Followed' /\ wire' \in Seq(Wired)
         /\ \A k \in 1 .. Len(wire') : wire'[k].type # "other" => wire'[k].status # "none"
<1>1. /\ wire \in Seq(Wired) /\ viewStatus \in EngineStatuses /\ viewLog \in Logs
      /\ \A k \in 1 .. Len(wire) : wire[k].type # "other" => wire[k].status # "none"
  BY DEF EInv, EventTypes, EventStreamTypeOK
<1>2. /\ wire' \in Seq(Wired)
      /\ \A k \in 1 .. Len(wire') : wire'[k].type # "other" => wire'[k].status # "none"
  BY <1>1 DEF Deliver
<1>3. ASSUME connected  PROVE Followed'
  <2>1. PICK s \in EngineStatuses, l \in Logs :
          LeadsTo(viewStatus, viewLog, wire, s, l) /\ UpToDate(s, l)
    BY <1>3 DEF EInv, Followed
  <2>2. LeadsTo(viewStatus, viewLog, Append(wire, f), StatusAfter(s, f), LogAfter(l, f))
    BY <1>1, <2>1, OneFrameMore
  <2>3. wire' = Append(wire, f) /\ viewStatus' = viewStatus /\ viewLog' = viewLog
    BY <1>3 DEF Deliver
  <2>4. UpToDate(StatusAfter(s, f), LogAfter(l, f))'
    BY <2>1
  <2>5. StatusAfter(s, f) \in EngineStatuses /\ LogAfter(l, f) \in Logs
    BY <2>1, FrameTyped
  <2>6. LeadsTo(viewStatus', viewLog', wire', StatusAfter(s, f), LogAfter(l, f))
    BY <2>2, <2>3
  <2> QED  BY <2>4, <2>5, <2>6 DEF Followed
<1> QED  BY <1>2, <1>3 DEF Followed

LEMMA OneEvent ==
  ASSUME NEW e
  PROVE  /\ Single(<<e>>) /\ Suffixed(<<e>>, <<e>>)
         /\ \A n : e = <<"run_started", 0>> => Numbered(<<e>>, n)
<1>1. Len(<<e>>) = 1 /\ <<e>>[1] = e
  OBVIOUS
<1> QED  BY <1>1 DEF Single, Suffixed, Numbered

LEMMA StartRunKeeps == EInv /\ StartRun => EInv'
<1> SUFFICES ASSUME EInv, StartRun  PROVE EInv'
  OBVIOUS
<1> DEFINE f == Frame("run_started", "running")
<1>1. f \in Wired /\ f.type = "run_started" /\ f.status = "running"
  <2>1. <<>> \in Logs
    BY DEF Logs
  <2> QED  BY <2>1 DEF Frame, Wired, FrameTypes, EngineStatuses
<1>2. Event(f) = <<"run_started", 0>>
  BY DEF Event, Frame
<1> HIDE DEF f
<1>3. /\ engineStatus' = "running" /\ capturing' = TRUE /\ recent' = <<Event(f)>> /\ Deliver(f)
      /\ UNCHANGED <<events, connected, connects, viewVars>>
      /\ runs < MaxRuns /\ runs' = runs + 1
  BY <1>2 DEF StartRun, f
<1>4. UNCHANGED <<connected, viewStatus, viewLog, link>>
  BY <1>3 DEF viewVars
<1>5. ASSUME NEW s, NEW l  PROVE UpToDate(StatusAfter(s, f), LogAfter(l, f))'
  <2>1. StatusAfter(s, f) = "running" /\ LogAfter(l, f) = <<Event(f)>>
    BY <1>1 DEF StatusAfter, LogAfter
  <2>2. /\ Single(<<Event(f)>>) /\ Suffixed(<<Event(f)>>, <<Event(f)>>)
        /\ Numbered(<<Event(f)>>, events')
    BY <1>2, OneEvent
  <2> QED  BY <1>3, <2>1, <2>2 DEF UpToDate
<1>6. /\ Followed' /\ wire' \in Seq(Wired)
      /\ \A k \in 1 .. Len(wire') : wire'[k].type # "other" => wire'[k].status # "none"
  BY <1>1, <1>3, <1>4, <1>5, EmitKeeps
<1>7. Kept'
  BY <1>2, <1>3, OneEvent DEF Kept
<1>8. recent' \in Logs /\ Len(recent') = 1
  BY <1>2, <1>3 DEF Logs, Marks
<1>9. EventStreamTypeOK'
  BY <1>3, <1>4, <1>8, StreamAssumption DEF EInv, EventTypes, EventStreamTypeOK, EngineStatuses
<1>10. EventTypes'
  BY <1>4, <1>6, <1>8, <1>9 DEF EventTypes, EInv
<1>11. Capture'
  BY <1>3 DEF Capture
<1> QED  BY <1>6, <1>7, <1>10, <1>11 DEF EInv

(* An event with the next number.                                          *)
LEMMA NextEvent ==
  ASSUME NEW n \in Nat, NEW l \in Logs, Single(l), Numbered(l, n), NEW e, e = <<"other", n + 1>>
  PROVE  Single(Append(l, e)) /\ Numbered(Append(l, e), n + 1)
<1> DEFINE m == Append(l, e)
<1>1. /\ Len(l) \in Nat /\ Len(m) = Len(l) + 1 /\ m[Len(l) + 1] = e
      /\ \A k \in 1 .. Len(l) : m[k] = l[k]
  BY DEF Logs
<1> HIDE DEF m
<1>2. ASSUME NEW k \in 1 .. Len(l)
      PROVE  m[k] = <<"run_started", 0>> \/ \E i \in 1 .. n : m[k] = <<"other", i>>
  BY <1>1, <1>2 DEF Numbered
<1>3. ASSUME NEW k \in 1 .. Len(l)  PROVE m[k] # e
  BY <1>2, <1>3
<1>4. Single(m)
  <2> SUFFICES ASSUME NEW j \in 1 .. Len(m), NEW k \in 1 .. Len(m), m[j] = m[k]
               PROVE  j = k
    BY DEF Single
  <2>1. CASE j = Len(m) \/ k = Len(m)
    BY <1>1, <1>3, <2>1
  <2>2. CASE j # Len(m) /\ k # Len(m)
    <3>1. j \in 1 .. Len(l) /\ k \in 1 .. Len(l)
      BY <1>1, <2>2
    <3> QED  BY <1>1, <3>1 DEF Single
  <2> QED  BY <2>1, <2>2
<1>5. Numbered(m, n + 1)
  <2> SUFFICES ASSUME NEW k \in 1 .. Len(m)
               PROVE  \/ m[k] = <<"run_started", 0>>
                      \/ \E i \in 1 .. n + 1 : m[k] = <<"other", i>>
    BY DEF Numbered
  <2>1. CASE k = Len(m)
    BY <1>1, <2>1
  <2>2. CASE k # Len(m)
    <3>1. k \in 1 .. Len(l) /\ \A i \in 1 .. n : i \in 1 .. n + 1
      BY <1>1, <2>2
    <3> QED  BY <1>2, <3>1
  <2> QED  BY <2>1, <2>2
<1> QED  BY <1>4, <1>5 DEF m

LEMMA OtherEventKeeps == EInv /\ OtherEvent => EInv'
<1> SUFFICES ASSUME EInv, OtherEvent  PROVE EInv'
  OBVIOUS
<1>0. PICK f, e : /\ f = [Frame("other", "none") EXCEPT !.nr = events + 1]
                  /\ e = <<"other", events + 1>>
  OBVIOUS
<1>1. /\ recent \in Seq(Marks) /\ events \in Nat /\ Len(recent) <= EventCap
      /\ engineStatus = "running" => capturing /\ Single(recent) /\ Numbered(recent, events)
  BY StreamAssumption DEF EInv, EventTypes, EventStreamTypeOK, Capture, Kept, Logs
<1>2. f \in Wired /\ f.type = "other" /\ Event(f) = e
  <2>1. <<>> \in Logs
    BY DEF Logs
  <2> QED  BY <1>0, <1>1, <2>1 DEF Frame, Wired, FrameTypes, Event
<1>3. e \in Marks
  BY <1>0, <1>1 DEF Marks
<1>4. /\ events < MaxEvents /\ events' = events + 1 /\ Deliver(f)
      /\ recent' = IF capturing THEN Captured(recent, e) ELSE recent
      /\ UNCHANGED <<engineStatus, capturing, runs, connected, connects, link, viewStatus, viewLog>>
  BY <1>0 DEF OtherEvent, viewVars
<1>5. /\ recent' \in Seq(Marks) /\ Len(recent') <= EventCap
      /\ engineStatus = "running" =>
           \A l \in Seq(Marks) : Suffixed(recent, l) => Suffixed(recent', Append(l, e))
  BY <1>1, <1>3, <1>4, CaptureKeeps
<1>6. ASSUME NEW s \in EngineStatuses, NEW l \in Logs, UpToDate(s, l)
      PROVE  UpToDate(StatusAfter(s, f), LogAfter(l, f))'
  <2>1. StatusAfter(s, f) = s /\ LogAfter(l, f) = Append(l, e)
    BY <1>2 DEF StatusAfter, LogAfter
  <2>2. s = engineStatus'
    BY <1>4, <1>6 DEF UpToDate
  <2>3. ASSUME s = "running"
        PROVE  /\ Suffixed(recent', Append(l, e))
               /\ Single(Append(l, e)) /\ Numbered(Append(l, e), events')
    <3>1. Suffixed(recent, l) /\ Single(l) /\ Numbered(l, events) /\ engineStatus = "running"
      BY <1>6, <2>3 DEF UpToDate
    <3>2. Single(Append(l, e)) /\ Numbered(Append(l, e), events')
      BY <1>0, <1>1, <1>4, <3>1, NextEvent
    <3> QED  BY <1>5, <3>1, <3>2 DEF Logs
  <2> QED  BY <2>1, <2>2, <2>3 DEF UpToDate
<1>7. /\ Followed' /\ wire' \in Seq(Wired)
      /\ \A k \in 1 .. Len(wire') : wire'[k].type # "other" => wire'[k].status # "none"
  BY <1>2, <1>4, <1>6, EmitKeeps
<1>8. Kept'
  <2>1. ASSUME engineStatus' = "running"  PROVE Single(recent') /\ Numbered(recent', events')
    <3>1. /\ recent' = Captured(recent, e)
          /\ Single(Append(recent, e)) /\ Numbered(Append(recent, e), events')
      BY <1>0, <1>1, <1>4, <2>1, NextEvent DEF Logs
    <3> QED  BY <1>1, <1>3, <3>1, CaptureKeeps
  <2> QED  BY <2>1 DEF Kept
<1>9. EventStreamTypeOK'
  BY <1>1, <1>4, <1>5, StreamAssumption DEF EInv, EventTypes, EventStreamTypeOK
<1>10. EventTypes'
  BY <1>4, <1>5, <1>7, <1>9 DEF EventTypes, EInv, Logs
<1>11. Capture'
  BY <1>4 DEF Capture, EInv
<1> QED  BY <1>7, <1>8, <1>10, <1>11 DEF EInv

LEMMA FinishRunKeeps == EInv /\ FinishRun => EInv'
<1> SUFFICES ASSUME EInv, FinishRun  PROVE EInv'
  OBVIOUS
<1>1. PICK st \in {"succeeded", "failed", "cancelled"} :
        engineStatus' = st /\ Deliver(Frame("run_finished", st))
  BY DEF FinishRun
<1> DEFINE f == Frame("run_finished", st)
           e == <<"run_finished", 0>>
<1>2. f \in Wired /\ f.type = "run_finished" /\ f.status = st /\ Deliver(f)
  <2>1. <<>> \in Logs
    BY DEF Logs
  <2> QED  BY <1>1, <2>1 DEF Frame, Wired, FrameTypes, EngineStatuses
<1>3. /\ capturing' = FALSE /\ engineStatus' # "running" /\ engineStatus' \in EngineStatuses
      /\ recent' = Captured(recent, e)
      /\ UNCHANGED <<runs, events, connected, connects, link, viewStatus, viewLog>>
  BY <1>1 DEF FinishRun, viewVars, EngineStatuses
<1> HIDE DEF f
<1>4. e \in Marks /\ recent \in Seq(Marks) /\ Len(recent) <= EventCap
  BY DEF Marks, EInv, EventTypes, EventStreamTypeOK, Logs
<1> HIDE DEF e
<1>5. recent' \in Seq(Marks) /\ Len(recent') <= EventCap
  BY <1>3, <1>4, CaptureKeeps
<1>6. ASSUME NEW s, NEW l  PROVE UpToDate(StatusAfter(s, f), LogAfter(l, f))'
  <2>1. StatusAfter(s, f) = st
    BY <1>2 DEF StatusAfter
  <2> QED  BY <1>1, <1>3, <2>1 DEF UpToDate
<1>7. /\ Followed' /\ wire' \in Seq(Wired)
      /\ \A k \in 1 .. Len(wire') : wire'[k].type # "other" => wire'[k].status # "none"
  BY <1>2, <1>3, <1>6, EmitKeeps
<1>8. EventStreamTypeOK'
  BY <1>3, <1>5 DEF EInv, EventTypes, EventStreamTypeOK
<1>9. EventTypes'
  BY <1>3, <1>5, <1>7, <1>8 DEF EventTypes, EInv, Logs
<1>10. Capture' /\ Kept'
  BY <1>3 DEF Capture, Kept
<1> QED  BY <1>7, <1>9, <1>10 DEF EInv

LEMMA ConnectKeeps == EInv /\ Connect => EInv'
<1> SUFFICES ASSUME EInv, Connect  PROVE EInv'
  OBVIOUS
<1>1. PICK f : f = [type |-> "state_snapshot", status |-> engineStatus, log |-> recent, nr |-> 0]
  OBVIOUS
<1>2. /\ connected' = TRUE /\ wire' = <<f>> /\ connects < MaxConnects
      /\ connects' = connects + 1 /\ link' = "open"
      /\ UNCHANGED <<engineStatus, capturing, recent, runs, events, viewStatus, viewLog>>
  BY <1>1 DEF Connect, engineVars
<1>3. /\ f \in Wired /\ f.status = engineStatus /\ f.log = recent
      /\ f.type = "state_snapshot" /\ f.status # "none"
  BY <1>1 DEF EInv, EventTypes, EventStreamTypeOK, Wired, FrameTypes, EngineStatuses
<1>4. viewStatus \in EngineStatuses /\ viewLog \in Logs
  BY DEF EInv, EventTypes, EventStreamTypeOK
<1>5. LeadsTo(viewStatus, viewLog, <<f>>, engineStatus, recent)
  <2>1. LeadsTo(viewStatus, viewLog, <<>>, viewStatus, viewLog)
    <3> DEFINE ss == [k \in 1 .. 1 |-> viewStatus]
               ls == [k \in 1 .. 1 |-> viewLog]
    <3>1. Shows(viewStatus, viewLog, <<>>, ss, ls) /\ Len(<<>>) + 1 = 1
      BY <1>4 DEF Shows
    <3> QED  BY <3>1 DEF LeadsTo
  <2>2. <<>> \in Seq(Wired) /\ <<f>> = Append(<<>>, f)
    OBVIOUS
  <2>3. LeadsTo(viewStatus, viewLog, <<f>>, StatusAfter(viewStatus, f), LogAfter(viewLog, f))
    BY <1>3, <1>4, <2>1, <2>2, OneFrameMore
  <2> QED  BY <1>3, <2>3 DEF StatusAfter, LogAfter
<1>6. UpToDate(engineStatus, recent)
  <2>1. recent \in Seq(Marks)
    BY DEF EInv, EventTypes, Logs
  <2>2. Suffixed(recent, recent)
    BY <2>1 DEF Suffixed
  <2> QED  BY <2>2 DEF UpToDate, EInv, Kept
<1>7. Followed'
  <2>1. PICK s \in EngineStatuses, l \in Logs : s = engineStatus /\ l = recent
    BY DEF EInv, EventTypes, EventStreamTypeOK
  <2>2. UpToDate(s, l)'
    BY <1>2, <1>6, <2>1 DEF UpToDate
  <2> QED  BY <1>2, <1>5, <2>1, <2>2 DEF Followed
<1>8. EventTypes'
  <2>1. wire' \in Seq(Wired) /\ Len(wire') = 1 /\ wire'[1] = f
    BY <1>2, <1>3
  <2>2. EventStreamTypeOK'
    BY <1>2, StreamAssumption DEF EInv, EventTypes, EventStreamTypeOK
  <2> QED  BY <1>2, <1>3, <2>1, <2>2 DEF EInv, EventTypes
<1>9. Capture' /\ Kept'
  BY <1>2 DEF EInv, Capture, Kept
<1> QED  BY <1>7, <1>8, <1>9 DEF EInv

LEMMA DisconnectKeeps == EInv /\ Disconnect => EInv'
<1> SUFFICES ASSUME EInv, Disconnect  PROVE EInv'
  OBVIOUS
<1>1. /\ connected' = FALSE /\ wire' = <<>> /\ link' = "closed"
      /\ UNCHANGED <<engineStatus, capturing, recent, runs, events, connects, viewStatus, viewLog>>
  BY DEF Disconnect, engineVars
<1>2. wire' \in Seq(Wired) /\ Len(wire') = 0
  BY <1>1
<1>3. EventTypes'
  <2>1. connected' \in BOOLEAN /\ link' \in {"connecting", "open", "closed"}
    BY <1>1
  <2>2. EventStreamTypeOK'
    BY <1>1, <2>1 DEF EInv, EventTypes, EventStreamTypeOK
  <2> QED  BY <1>1, <1>2, <2>2 DEF EInv, EventTypes
<1>4. Capture' /\ Kept'
  BY <1>1 DEF EInv, Capture, Kept
<1> QED  BY <1>1, <1>3, <1>4 DEF EInv, Followed

LEMMA ReceiveKeeps == EInv /\ Receive => EInv'
<1> SUFFICES ASSUME EInv, Receive  PROVE EInv'
  OBVIOUS
<1>1. PICK f : f = Head(wire)
  OBVIOUS
<1>2. /\ wire \in Seq(Wired) /\ wire # <<>> /\ wire' = Tail(wire) /\ Apply(f)
      /\ UNCHANGED <<engineStatus, capturing, recent, runs, events, connected, connects, link>>
      /\ viewStatus \in EngineStatuses /\ viewLog \in Logs
      /\ \A k \in 1 .. Len(wire) : wire[k].type # "other" => wire[k].status # "none"
  BY <1>1 DEF Receive, engineVars, EInv, EventTypes, EventStreamTypeOK
<1>3. f \in Wired /\ (f.type # "other" => f.status # "none")
  <2>1. Len(wire) \in Nat \ {0} /\ f = wire[1] /\ 1 \in 1 .. Len(wire)
    BY <1>1, <1>2
  <2> QED  BY <1>2, <2>1
<1>4. viewStatus' = StatusAfter(viewStatus, f) /\ viewLog' = LogAfter(viewLog, f)
  <2>1. f.type \in FrameTypes
    BY <1>3 DEF Wired
  <2> QED  BY <1>2, <2>1 DEF Apply, FrameTypes, StatusAfter, LogAfter
<1>5. viewStatus' \in EngineStatuses /\ viewLog' \in Logs
  BY <1>2, <1>3, <1>4, FrameTyped
<1>6. Followed'
  <2>1. SUFFICES ASSUME connected  PROVE Followed'
    BY <1>2 DEF Followed
  <2>2. PICK s \in EngineStatuses, l \in Logs :
          LeadsTo(viewStatus, viewLog, wire, s, l) /\ UpToDate(s, l)
    BY <2>1 DEF EInv, Followed
  <2>3. LeadsTo(viewStatus', viewLog', wire', s, l)
    BY <1>1, <1>2, <1>4, <2>2, OneFrameLess
  <2>4. UpToDate(s, l)'
    BY <1>2, <2>2 DEF UpToDate
  <2> QED  BY <2>3, <2>4 DEF Followed
<1>7. EventTypes'
  <2>1. /\ wire' \in Seq(Wired) /\ Len(wire') = Len(wire) - 1 /\ Len(wire) \in Nat \ {0}
        /\ \A k \in 1 .. Len(wire) - 1 : wire'[k] = wire[k + 1] /\ k + 1 \in 1 .. Len(wire)
    BY <1>2
  <2>2. \A k \in 1 .. Len(wire') : wire'[k].type # "other" => wire'[k].status # "none"
    BY <1>2, <2>1
  <2>3. EventStreamTypeOK'
    BY <1>2, <1>5 DEF EInv, EventTypes, EventStreamTypeOK
  <2> QED  BY <1>2, <1>5, <2>1, <2>2, <2>3 DEF EInv, EventTypes
<1>8. Capture' /\ Kept'
  BY <1>2 DEF EInv, Capture, Kept
<1> QED  BY <1>6, <1>7, <1>8 DEF EInv

LEMMA StreamKeeps == EInv /\ [EventStreamNext]_streamVars => EInv'
<1>1. EInv /\ UNCHANGED streamVars => EInv'
  BY DEF streamVars, EInv, EventTypes, EventStreamTypeOK, Capture, Kept, Followed, UpToDate
<1> QED  BY <1>1, StartRunKeeps, OtherEventKeeps, FinishRunKeeps, ConnectKeeps, DisconnectKeeps,
            ReceiveKeeps DEF EventStreamNext

(* A browser that has read its stream to the end shows the engine's status *)
(* and the events it keeps, in order and once each: /api/events.           *)
THEOREM StreamIsFollowed == EventStreamSpec => []BrowserFollows
<1>1. ASSUME EInv  PROVE BrowserFollows
  <2>1. ASSUME connected, wire = <<>>
        PROVE  /\ viewStatus = engineStatus
               /\ engineStatus = "running" => IsSuffix(recent, viewLog) /\ Single(viewLog)
    <3>1. PICK s \in EngineStatuses, l \in Logs :
            LeadsTo(viewStatus, viewLog, wire, s, l) /\ UpToDate(s, l)
      BY <1>1, <2>1 DEF EInv, Followed
    <3>2. s = viewStatus /\ l = viewLog
      BY <2>1, <3>1 DEF LeadsTo, Shows
    <3>3. recent \in Seq(Marks) /\ viewLog \in Seq(Marks)
      BY <1>1 DEF EInv, EventTypes, Logs
    <3> QED  BY <3>1, <3>2, <3>3, SuffixIs DEF UpToDate
  <2> QED  BY <1>1, <2>1
           DEF EInv, EventTypes, BrowserFollows, BrowserSeesTheRun, Single
<1> QED  BY <1>1, StreamStarts, StreamKeeps, PTL DEF EventStreamSpec
=============================================================================
