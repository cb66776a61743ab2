------------------------- MODULE ParallelNodeProofs -------------------------
(***************************************************************************)
(* Proofs about ParallelNode, for every finite set of branches, mode, error *)
(* policy and quorum.                                                      *)
(*                                                                         *)
(* A record, once made, stands: no later step changes whether the k-th     *)
(* record decides the node (PastStands).  So a step can disturb the        *)
(* verdict only through the record it appends.                             *)
(***************************************************************************)
EXTENDS ParallelNode, SequenceTheorems, FiniteSetTheorems, TLAPS

Decisive(k) == SucceedsAt(k) \/ FailsAt(k)

(* `order` lists recorded branches.                                        *)
OrderIsRecorded == \A k \in 1..Len(order) : pc[order[k]] = "recorded"

(* winners.length counts the successes recorded.                           *)
WinnersCounted == Len(winners) = Cardinality(Among(Len(order), "succeeded"))

(* A decisive record leaves no outcome open.                               *)
DecisiveDecides == (\E k \in 1..Len(order) : Decisive(k)) => verdict # "none"

(* The outcome is the verdict of the first decisive record, if any.        *)
FirstWins == \A k \in 1..Len(order) :
               /\ Decisive(k)
               /\ \A j \in 1..Len(order) : Decisive(j) => k <= j
               => verdict = IF SucceedsAt(k) THEN "success" ELSE "error"

(* Without a decisive record, the outcome stays open to the end.           *)
OpenToTheEnd == (\A k \in 1..Len(order) : ~Decisive(k)) /\ verdict # "none"
                  => AllRecorded

(* Branches are aborted by a Stop or by a verdict.                         *)
AbortedForCause == halted # {} => runAborted \/ verdict # "none"

(* Only a Stop makes the verdict "cancelled".                              *)
VerdictFromStop == verdict = "cancelled" => runAborted

IInv == /\ ParallelTypeOK
        /\ OrderIsRecorded /\ WinnersCounted
        /\ DecisiveDecides /\ FirstWins /\ OpenToTheEnd
        /\ AbortedForCause /\ VerdictFromStop
        /\ CancelledForCause /\ ReturnIsClean

-----------------------------------------------------------------------------
(* The steps                                                               *)

LEMMA LenNat == ASSUME NEW S, NEW s \in Seq(S)
                PROVE  /\ Len(s) \in Nat
                       /\ \A k \in 1..Len(s) : s[k] \in S
BY ElementOfSeq, LenProperties

LEMMA InitInv == ParallelInit => IInv
<1> SUFFICES ASSUME ParallelInit PROVE IInv
  OBVIOUS
<1> USE DEF ParallelInit
<1>1. ParallelTypeOK
  <2>1. need \in Nat
    <3>1. Cardinality(Branches) \in Nat
      BY ParallelAssumption, FS_CardinalityType
    <3> QED BY <3>1
  <2>2. winners \in Seq(Branches) /\ failures \in Seq(Branches) /\ order \in Seq(Branches)
    BY EmptySeq
  <2>3. /\ pc \in [Branches -> {"walking", "walked", "recorded"}]
        /\ result \in [Branches -> Results]
    BY DEF Results
  <2>4. mode \in Modes /\ onError \in {"fail-fast", "best-effort"}
    OBVIOUS
  <2>5. halted \in SUBSET Branches /\ runAborted \in BOOLEAN
    OBVIOUS
  <2>6. verdict \in Verdicts /\ returned \in ReturnHandles
    BY DEF Verdicts, ReturnHandles
  <2> QED BY <2>1, <2>2, <2>3, <2>4, <2>5, <2>6 DEF ParallelTypeOK
<1>2. Len(order) = 0 /\ Len(winners) = 0 /\ 1..0 = {}
  OBVIOUS
<1>3. OrderIsRecorded /\ DecisiveDecides /\ FirstWins /\ OpenToTheEnd
  BY <1>2 DEF OrderIsRecorded, DecisiveDecides, FirstWins, OpenToTheEnd
<1>4. WinnersCounted
  <2>1. Among(0, "succeeded") = {}
    BY <1>2 DEF Among
  <2> QED BY <1>2, <2>1, FS_EmptySet DEF WinnersCounted
<1>5. AbortedForCause /\ VerdictFromStop /\ CancelledForCause /\ ReturnIsClean
  BY DEF AbortedForCause, VerdictFromStop, CancelledForCause, ReturnIsClean
<1> QED BY <1>1, <1>3, <1>4, <1>5 DEF IInv

LEMMA TypeStep == ParallelTypeOK /\ [ParallelNext]_parallelVars => ParallelTypeOK'
<1> SUFFICES ASSUME ParallelTypeOK, [ParallelNext]_parallelVars PROVE ParallelTypeOK'
  OBVIOUS
<1> USE DEF ParallelTypeOK, cfgVars, Modes, Results, Verdicts, ReturnHandles
<1>1. ASSUME NEW b \in Branches, Walked(b) PROVE ParallelTypeOK'
  <2>1. PICK r \in {"succeeded", "failed", "cancelled"} :
          result' = [result EXCEPT ![b] = r]
    BY <1>1 DEF Walked
  <2> QED BY <1>1, <2>1 DEF Walked
<1>2. ASSUME NEW b \in Branches, RecordBranch(b) PROVE ParallelTypeOK'
  <2>1. /\ Append(order, b) \in Seq(Branches)
        /\ Append(winners, b) \in Seq(Branches)
        /\ Append(failures, b) \in Seq(Branches)
    BY AppendProperties
  <2>2. order' \in Seq(Branches) /\ winners' \in Seq(Branches) /\ failures' \in Seq(Branches)
    BY <1>2, <2>1 DEF RecordBranch
  <2>3. verdict' \in Verdicts /\ halted' \in SUBSET Branches
    BY <1>2 DEF RecordBranch, Decide, SettleOutcome
  <2> QED BY <1>2, <2>2, <2>3 DEF RecordBranch
<1>3. CASE AllSettled
  <2>1. FinalVerdict \in Verdicts
    BY DEF FinalVerdict
  <2> QED BY <1>3, <2>1 DEF AllSettled, SettleOutcome
<1>4. CASE Return
  <2>1. Route(verdict) \in ReturnHandles
    BY <1>4 DEF Return, Route, SuccessHandle
  <2> QED BY <1>4, <2>1 DEF Return
<1>5. CASE ParentAborts
  BY <1>5 DEF ParentAborts
<1>6. CASE UNCHANGED parallelVars
  BY <1>6 DEF parallelVars
<1> QED BY <1>1, <1>2, <1>3, <1>4, <1>5, <1>6 DEF ParallelNext

(* The records made so far, and what they decide, stand.                   *)
LEMMA PastStands ==
  ASSUME ParallelTypeOK, OrderIsRecorded, [ParallelNext]_parallelVars
  PROVE  /\ Len(order) <= Len(order')
         /\ \A k \in 1..Len(order) : /\ order'[k] = order[k]
                                     /\ pc'[order[k]] = "recorded"
                                     /\ result'[order[k]] = result[order[k]]
         /\ \A k \in 1..Len(order) : /\ SucceedsAt(k)' <=> SucceedsAt(k)
                                     /\ FailsAt(k)' <=> FailsAt(k)
         /\ \A k \in 1..Len(order), r \in Results : Among(k, r)' = Among(k, r)
<1> DEFINE Same == /\ Len(order) <= Len(order')
                   /\ \A k \in 1..Len(order) : /\ order'[k] = order[k]
                                               /\ pc'[order[k]] = "recorded"
                                               /\ result'[order[k]] = result[order[k]]
<1>0. Len(order) \in Nat /\ \A k \in 1..Len(order) : order[k] \in Branches
  BY LenNat DEF ParallelTypeOK
<1>1. Same
  <2> USE <1>0 DEF ParallelTypeOK, OrderIsRecorded, cfgVars
  <2>1. ASSUME NEW b \in Branches, Walked(b) PROVE Same
    BY <2>1 DEF Walked
  <2>2. ASSUME NEW b \in Branches, RecordBranch(b) PROVE Same
    <3>1. order' = Append(order, b) /\ pc' = [pc EXCEPT ![b] = "recorded"] /\ result' = result
      BY <2>2 DEF RecordBranch
    <3>2. /\ Len(Append(order, b)) = Len(order) + 1
          /\ \A k \in 1..Len(order) : Append(order, b)[k] = order[k]
      BY AppendProperties
    <3> QED BY <3>1, <3>2
  <2>3. CASE AllSettled
    BY <2>3 DEF AllSettled
  <2>4. CASE Return
    BY <2>4 DEF Return
  <2>5. CASE ParentAborts
    BY <2>5 DEF ParentAborts
  <2>6. CASE UNCHANGED parallelVars
    BY <2>6 DEF parallelVars
  <2> QED BY <2>1, <2>2, <2>3, <2>4, <2>5, <2>6 DEF ParallelNext
<1>2. mode' = mode /\ onError' = onError /\ need' = need
  BY DEF ParallelNext, Walked, RecordBranch, AllSettled, Return, ParentAborts, parallelVars, cfgVars
<1>3. ASSUME NEW k \in 1..Len(order), NEW r PROVE Among(k, r)' = Among(k, r)
  <2>1. \A i \in 1..k : i \in 1..Len(order)
    BY <1>0
  <2>2. \A i \in 1..k : result'[order'[i]] = result[order[i]]
    BY <1>1, <2>1
  <2> QED BY <2>2 DEF Among
<1>4. ASSUME NEW k \in 1..Len(order)
      PROVE  /\ SucceedsAt(k)' <=> SucceedsAt(k)
             /\ FailsAt(k)' <=> FailsAt(k)
  <2>1. result'[order'[k]] = result[order[k]]
    BY <1>1
  <2>2. Among(k, "succeeded")' = Among(k, "succeeded")
    BY <1>3
  <2>3. SucceedsAt(k)' <=> SucceedsAt(k)
    BY <1>2, <2>1, <2>2 DEF SucceedsAt
  <2>4. FailsAt(k)' <=> FailsAt(k)
    BY <1>2, <2>1 DEF FailsAt
  <2> QED BY <2>3, <2>4
<1> QED BY <1>1, <1>3, <1>4

(* A step that records nothing leaves `order` and `winners` alone, and     *)
(* settles the outcome only when every branch is recorded.                 *)
LEMMA OtherStep ==
  ASSUME ParallelTypeOK, [ParallelNext]_parallelVars, \A b \in Branches : ~RecordBranch(b)
  PROVE  /\ order' = order
         /\ winners' = winners
         /\ verdict' = verdict \/ (verdict = "none" /\ AllRecorded /\ AllSettled)
BY DEF ParallelNext, Walked, AllSettled, Return, ParentAborts, SettleOutcome, parallelVars, cfgVars

(* Once settled, the outcome stands, and once recorded, so does a branch.  *)
Lasts == /\ verdict # "none" => verdict' = verdict
         /\ AllRecorded => AllRecorded'
         /\ runAborted => runAborted'

LEMMA SettledStands == ParallelTypeOK /\ [ParallelNext]_parallelVars => Lasts
<1> SUFFICES ASSUME ParallelTypeOK, [ParallelNext]_parallelVars PROVE Lasts
  OBVIOUS
<1> USE DEF Lasts, ParallelTypeOK, AllRecorded, cfgVars, SettleOutcome
<1>1. ASSUME NEW b \in Branches, Walked(b) PROVE Lasts
  BY <1>1 DEF Walked
<1>2. ASSUME NEW b \in Branches, RecordBranch(b) PROVE Lasts
  BY <1>2 DEF RecordBranch, Decide
<1>3. CASE AllSettled
  BY <1>3 DEF AllSettled
<1>4. CASE Return
  BY <1>4 DEF Return
<1>5. CASE ParentAborts
  BY <1>5 DEF ParentAborts
<1>6. CASE UNCHANGED parallelVars
  BY <1>6 DEF parallelVars
<1> QED BY <1>1, <1>2, <1>3, <1>4, <1>5, <1>6 DEF ParallelNext

(* What a record adds: success number n counts one more success, and it    *)
(* decides the node exactly when the .then() of its branch settles.        *)
LEMMA RecordAdds ==
  ASSUME IInv, NEW b \in Branches, RecordBranch(b), NEW n \in Nat, n = Len(order) + 1
  PROVE  /\ Len(order') = n
         /\ order'[n] = b
         /\ Len(winners') = Cardinality(Among(n, "succeeded")')
         /\ SucceedsAt(n)' <=> result[b] = "succeeded" /\ Enough(Len(winners) + 1)
         /\ FailsAt(n)' <=> result[b] = "failed" /\ onError = "fail-fast"
<1> DEFINE old == Among(Len(order), "succeeded")
<1>0. Len(order) \in Nat /\ Len(winners) \in Nat /\ ParallelTypeOK /\ OrderIsRecorded
  BY LenNat DEF IInv, ParallelTypeOK
<1>1. /\ order' = Append(order, b) /\ result' = result
      /\ mode' = mode /\ onError' = onError /\ need' = need
  BY DEF RecordBranch, cfgVars
<1>2. /\ Len(order') = n
      /\ order'[n] = b
      /\ \A k \in 1..Len(order) : order'[k] = order[k]
  BY <1>0, <1>1, AppendProperties DEF ParallelTypeOK
<1>3. old \in SUBSET (1..Len(order)) /\ IsFiniteSet(old) /\ n \notin old
  <2>1. old \in SUBSET (1..Len(order))
    BY DEF Among
  <2>2. IsFiniteSet(1..Len(order))
    BY <1>0, FS_Interval
  <2>3. n \notin 1..Len(order)
    BY <1>0
  <2> QED BY <2>1, <2>2, <2>3, FS_Subset
<1>4. Len(winners) = Cardinality(old)
  BY DEF IInv, WinnersCounted
<1>5. Among(n, "succeeded")' = IF result[b] = "succeeded" THEN old \cup {n} ELSE old
  <2>1. 1..n = (1..Len(order)) \cup {n}
    BY <1>0
  <2>2. \A k \in 1..Len(order) : result'[order'[k]] = result[order[k]]
    BY <1>1, <1>2
  <2>3. result'[order'[n]] = result[b]
    BY <1>1, <1>2
  <2> QED BY <2>1, <2>2, <2>3 DEF Among
<1>6. Len(winners') = Cardinality(Among(n, "succeeded")')
  <2>1. CASE result[b] = "succeeded"
    <3>1. winners' = Append(winners, b)
      BY <2>1 DEF RecordBranch
    <3>2. Len(winners') = Len(winners) + 1
      BY <1>0, <3>1, AppendProperties DEF ParallelTypeOK
    <3>3. Cardinality(old \cup {n}) = Cardinality(old) + 1
      BY <1>3, FS_AddElement
    <3> QED BY <1>4, <1>5, <2>1, <3>2, <3>3
  <2>2. CASE result[b] # "succeeded"
    BY <1>4, <1>5, <2>2 DEF RecordBranch
  <2> QED BY <2>1, <2>2
<1>7. SucceedsAt(n)' <=> result[b] = "succeeded" /\ Enough(Len(winners) + 1)
  <2>1. result[b] = "succeeded" => Cardinality(Among(n, "succeeded")') = Len(winners) + 1
    BY <1>3, <1>4, <1>5, FS_AddElement
  <2>2. SucceedsAt(n)' <=> /\ result[b] = "succeeded"
                           /\ CASE mode = "race"     -> TRUE
                                [] mode = "quorum"   -> Cardinality(Among(n, "succeeded")') >= need
                                [] mode = "wait-all" -> FALSE
    BY <1>1, <1>2 DEF SucceedsAt
  <2> QED BY <1>0, <2>1, <2>2 DEF Enough, ParallelTypeOK, Modes
<1>8. FailsAt(n)' <=> result[b] = "failed" /\ onError = "fail-fast"
  BY <1>1, <1>2 DEF FailsAt
<1> QED BY <1>2, <1>6, <1>7, <1>8

(* The outcome after a record: a decisive one settles what was open.       *)
LEMMA RecordSettles ==
  ASSUME IInv, NEW b \in Branches, RecordBranch(b), verdict = "none",
         NEW n \in Nat, n = Len(order) + 1
  PROVE  /\ Decisive(n)' => verdict' = IF SucceedsAt(n)' THEN "success" ELSE "error"
         /\ ~Decisive(n)' => verdict' = "none"
<1>1. /\ SucceedsAt(n)' <=> result[b] = "succeeded" /\ Enough(Len(winners) + 1)
      /\ FailsAt(n)' <=> result[b] = "failed" /\ onError = "fail-fast"
  BY RecordAdds
<1>2. CASE result[b] = "succeeded"
  BY <1>1, <1>2 DEF RecordBranch, Decide, SettleOutcome, Decisive
<1>3. CASE result[b] = "failed"
  BY <1>1, <1>3 DEF RecordBranch, Decide, SettleOutcome, Decisive
<1>4. CASE result[b] = "cancelled"
  BY <1>1, <1>4 DEF RecordBranch, Decisive
<1> QED BY <1>2, <1>3, <1>4 DEF RecordBranch

-----------------------------------------------------------------------------
(* The invariant                                                           *)

(* The verdict: records, counts, and what they decide.                     *)
LEMMA VerdictStep ==
  IInv /\ [ParallelNext]_parallelVars
    => (OrderIsRecorded /\ WinnersCounted /\ DecisiveDecides /\ FirstWins /\ OpenToTheEnd)'
<1> SUFFICES ASSUME IInv, [ParallelNext]_parallelVars
             PROVE  (OrderIsRecorded /\ WinnersCounted /\ DecisiveDecides
                       /\ FirstWins /\ OpenToTheEnd)'
  OBVIOUS
<1>1. /\ Len(order) <= Len(order')
      /\ \A k \in 1..Len(order) : /\ order'[k] = order[k]
                                  /\ pc'[order[k]] = "recorded"
                                  /\ SucceedsAt(k)' <=> SucceedsAt(k)
                                  /\ Decisive(k)' <=> Decisive(k)
      /\ \A k \in 1..Len(order) : Among(k, "succeeded")' = Among(k, "succeeded")
      /\ Lasts
  <2>1. ParallelTypeOK /\ OrderIsRecorded /\ "succeeded" \in Results
    BY DEF IInv, Results
  <2> QED BY <2>1, PastStands, SettledStands DEF Decisive
<1>2. Len(order) \in Nat /\ ParallelTypeOK
  BY LenNat DEF IInv, ParallelTypeOK
<1>3. CASE \A b \in Branches : ~RecordBranch(b)
  <2>1. /\ order' = order
        /\ winners' = winners
        /\ verdict' = verdict \/ (verdict = "none" /\ AllRecorded /\ AllSettled)
    BY <1>2, <1>3, OtherStep
  <2>2. OrderIsRecorded'
    BY <1>1, <2>1 DEF OrderIsRecorded
  <2>3. WinnersCounted'
    <3>1. Among(Len(order), "succeeded")' = Among(Len(order), "succeeded")
      <4>1. CASE Len(order) = 0
        BY <2>1, <4>1 DEF Among
      <4>2. CASE Len(order) # 0
        <5>1. ASSUME NEW i \in 1..Len(order)
              PROVE  result'[order'[i]] = result[order[i]]
          BY <1>2, PastStands DEF IInv
        <5> QED BY <2>1, <5>1 DEF Among
      <4> QED BY <4>1, <4>2
    <3> QED BY <2>1, <3>1 DEF IInv, WinnersCounted
  <2>4. DecisiveDecides'
    BY <1>1, <2>1 DEF IInv, DecisiveDecides, Lasts
  <2>5. FirstWins'
    BY <1>1, <2>1 DEF IInv, FirstWins, DecisiveDecides, Lasts
  <2>6. OpenToTheEnd'
    BY <1>1, <2>1 DEF IInv, OpenToTheEnd, Lasts
  <2> QED BY <2>2, <2>3, <2>4, <2>5, <2>6
<1>4. ASSUME NEW b \in Branches, RecordBranch(b)
      PROVE  (OrderIsRecorded /\ WinnersCounted /\ DecisiveDecides
                /\ FirstWins /\ OpenToTheEnd)'
  <2>1. PICK n \in Nat : n = Len(order) + 1
    BY <1>2
  <2>2. /\ Len(order') = n
        /\ order'[n] = b
        /\ Len(winners') = Cardinality(Among(n, "succeeded")')
    BY <1>4, <2>1, RecordAdds
  <2>3. \A k \in 1..Len(order') : k = n \/ k \in 1..Len(order)
    BY <1>2, <2>1, <2>2
  <2>4. verdict # "none" => \E k \in 1..Len(order) : Decisive(k)
    <3>1. ~AllRecorded
      BY <1>4 DEF RecordBranch, AllRecorded
    <3> QED BY <3>1 DEF IInv, OpenToTheEnd
  <2>5. verdict = "none" =>
          /\ Decisive(n)' => verdict' = IF SucceedsAt(n)' THEN "success" ELSE "error"
          /\ ~Decisive(n)' => verdict' = "none"
    BY <1>4, <2>1, RecordSettles
  <2>6. OrderIsRecorded'
    <3>1. pc'[b] = "recorded"
      BY <1>2, <1>4 DEF RecordBranch, ParallelTypeOK
    <3> QED BY <1>1, <2>2, <2>3, <3>1 DEF OrderIsRecorded
  <2>7. WinnersCounted'
    <3>1. Among(Len(order), "succeeded")' = Among(n, "succeeded")'
      BY <2>2 DEF Among
    <3> QED BY <2>2, <3>1 DEF WinnersCounted
  <2>8. DecisiveDecides'
    BY <1>1, <2>3, <2>5 DEF IInv, DecisiveDecides, Lasts
  <2>9. FirstWins'
    <3> SUFFICES ASSUME NEW k \in 1..Len(order'), Decisive(k)',
                        \A j \in 1..Len(order') : Decisive(j)' => k <= j
                 PROVE  verdict' = IF SucceedsAt(k)' THEN "success" ELSE "error"
      BY DEF FirstWins
    <3>1. CASE k \in 1..Len(order)
      <4>1. Decisive(k) /\ verdict # "none"
        BY <1>1, <3>1 DEF IInv, DecisiveDecides
      <4>2. \A j \in 1..Len(order) : Decisive(j) => k <= j
        BY <1>1, <1>2
      <4>3. verdict = IF SucceedsAt(k) THEN "success" ELSE "error"
        BY <3>1, <4>1, <4>2 DEF IInv, FirstWins
      <4> QED BY <1>1, <3>1, <4>1, <4>3 DEF Lasts
    <3>2. CASE k = n
      <4>1. \A j \in 1..Len(order) : ~Decisive(j)
        <5> SUFFICES ASSUME NEW j \in 1..Len(order), Decisive(j) PROVE FALSE
          OBVIOUS
        <5>1. Decisive(j)' /\ j \in 1..Len(order')
          BY <1>1, <1>2, <2>1, <2>2
        <5> QED BY <1>2, <2>1, <3>2, <5>1
      <4>2. verdict = "none"
        BY <2>4, <4>1
      <4> QED BY <2>5, <3>2, <4>2
    <3> QED BY <2>3, <3>1, <3>2
  <2>10. OpenToTheEnd'
    <3> SUFFICES ASSUME \A k \in 1..Len(order') : ~Decisive(k)', verdict' # "none"
                 PROVE  FALSE
      BY DEF OpenToTheEnd
    <3>1. \A k \in 1..Len(order) : ~Decisive(k)
      BY <1>1, <1>2
    <3>2. n \in 1..Len(order')
      BY <1>2, <2>1, <2>2
    <3> QED BY <2>4, <2>5, <3>1, <3>2
  <2> QED BY <2>6, <2>7, <2>8, <2>9, <2>10
<1> QED BY <1>3, <1>4

(* Aborts have a cause, and a verdict aborts everything that still walks.  *)
LEMMA CauseStep ==
  IInv /\ [ParallelNext]_parallelVars => (AbortedForCause /\ VerdictFromStop /\ CancelledForCause)'
<1> SUFFICES ASSUME IInv, [ParallelNext]_parallelVars
             PROVE  (AbortedForCause /\ VerdictFromStop /\ CancelledForCause)'
  OBVIOUS
<1> USE DEF IInv, ParallelTypeOK, AbortedForCause, VerdictFromStop, CancelledForCause, cfgVars
<1>1. ASSUME NEW b \in Branches, Walked(b)
      PROVE  (AbortedForCause /\ VerdictFromStop /\ CancelledForCause)'
  <2>1. PICK r \in IF b \in halted THEN {"cancelled"} ELSE {"succeeded", "failed"} :
          result' = [result EXCEPT ![b] = r]
    BY <1>1 DEF Walked
  <2>2. b \in halted => runAborted \/ verdict # "none"
    OBVIOUS
  <2> QED BY <1>1, <2>1, <2>2 DEF Walked
<1>2. ASSUME NEW b \in Branches, RecordBranch(b)
      PROVE  (AbortedForCause /\ VerdictFromStop /\ CancelledForCause)'
  <2>1. \/ UNCHANGED <<verdict, halted>>
        \/ Decide("success")
        \/ Decide("error")
    BY <1>2 DEF RecordBranch
  <2>2. /\ result' = result /\ runAborted' = runAborted
        /\ pc' = [pc EXCEPT ![b] = "recorded"]
    BY <1>2 DEF RecordBranch
  <2>3. CASE UNCHANGED <<verdict, halted>>
    BY <2>2, <2>3
  <2>4. CASE Decide("success") \/ Decide("error")
    BY <2>2, <2>4 DEF Decide, SettleOutcome
  <2> QED BY <2>1, <2>3, <2>4
<1>3. CASE AllSettled
  <2>1. FinalVerdict # "none" /\ (FinalVerdict = "cancelled" => runAborted)
    BY DEF FinalVerdict, Modes
  <2> QED BY <1>3, <2>1 DEF AllSettled, SettleOutcome, AllRecorded
<1>4. CASE Return
  BY <1>4 DEF Return
<1>5. CASE ParentAborts
  BY <1>5 DEF ParentAborts
<1>6. CASE UNCHANGED parallelVars
  BY <1>6 DEF parallelVars
<1> QED BY <1>1, <1>2, <1>3, <1>4, <1>5, <1>6 DEF ParallelNext

(* When every branch is recorded nothing but the verdict and the return is *)
(* left to happen, so what was returned stays justified.                   *)
LEMMA ReturnStep == IInv /\ [ParallelNext]_parallelVars => ReturnIsClean'
<1> SUFFICES ASSUME IInv, [ParallelNext]_parallelVars PROVE ReturnIsClean'
  OBVIOUS
<1> USE DEF IInv, ParallelTypeOK, ReturnIsClean, cfgVars
<1>1. ASSUME NEW b \in Branches, Walked(b) PROVE ReturnIsClean'
  BY <1>1 DEF Walked
<1>2. ASSUME NEW b \in Branches, RecordBranch(b) PROVE ReturnIsClean'
  BY <1>2 DEF RecordBranch
<1>3. CASE AllSettled
  BY <1>3 DEF AllSettled
<1>4. CASE Return
  <2>1. verdict = "cancelled" => runAborted
    BY DEF VerdictFromStop
  <2>2. /\ verdict \in {"success", "error", "cancelled"}
        /\ Route(verdict) = "cancelled" <=> runAborted
    BY <1>4, <2>1 DEF Return, Route, SuccessHandle, Modes, Verdicts
  <2> QED BY <1>4, <2>2 DEF Return, AllRecorded
<1>5. CASE ParentAborts
  BY <1>5 DEF ParentAborts, NothingDue, AllRecorded
<1>6. CASE UNCHANGED parallelVars
  BY <1>6 DEF parallelVars
<1> QED BY <1>1, <1>2, <1>3, <1>4, <1>5, <1>6 DEF ParallelNext

LEMMA Invariance == ParallelSpec => []IInv
<1>1. IInv /\ [ParallelNext]_parallelVars => IInv'
  BY TypeStep, VerdictStep, CauseStep, ReturnStep DEF IInv
<1> QED BY InitInv, <1>1, PTL DEF ParallelSpec

-----------------------------------------------------------------------------
(* The variables keep their types.                                         *)
THEOREM TypeCorrect == ParallelSpec => []ParallelTypeOK
<1>1. IInv => ParallelTypeOK
  BY DEF IInv
<1> QED BY <1>1, Invariance, PTL

(* The first decisive record decides the node, for every mode, policy,     *)
(* quorum and number of branches, and for every order in which they end.   *)
THEOREM FirstDecides == ParallelSpec => []FirstDecisiveRecordWins
<1>1. IInv => FirstDecisiveRecordWins
  BY DEF IInv, FirstDecisiveRecordWins, FirstWins, OpenToTheEnd, Decisive
<1> QED BY <1>1, Invariance, PTL

(* Cancelled branches have a cause, and after a verdict nothing runs on    *)
(* unaborted.                                                              *)
THEOREM CancellationsHaveCause == ParallelSpec => []CancelledForCause
<1>1. IInv => CancelledForCause
  BY DEF IInv
<1> QED BY <1>1, Invariance, PTL

(* The node returns with every branch ended, and says "cancelled" exactly  *)
(* when its own walk was stopped.                                          *)
THEOREM ReturnsClean == ParallelSpec => []ReturnIsClean
<1>1. IInv => ReturnIsClean
  BY DEF IInv
<1> QED BY <1>1, Invariance, PTL

-----------------------------------------------------------------------------
(* The handle: what the lists of the node say of its branches, what each   *)
(* outcome rests on, and that nothing moves after the return.              *)

WinnersSucceeded == \A k \in 1..Len(winners) : /\ pc[winners[k]] = "recorded"
                                               /\ result[winners[k]] = "succeeded"
WinnersDistinct == \A j, k \in 1..Len(winners) : winners[j] = winners[k] => j = k
NoneForgotten == \A b \in Branches :
  /\ pc[b] # "walking" => result[b] # "none"
  /\ pc[b] = "recorded" /\ result[b] = "failed" => failures # <<>>
  /\ pc[b] = "recorded" /\ result[b] = "succeeded" => winners # <<>>

(* What a verdict rests on.  A verdict given before the end stands on what *)
(* is recorded already, one at the end on all branches.                    *)
SuccessRests ==
  verdict = "success" =>
    /\ mode = "race" => winners # <<>>
    /\ mode = "quorum" => Len(winners) >= need
    /\ mode = "wait-all" => AllRecorded /\ \A b \in Branches : result[b] = "succeeded"
ErrorRests ==
  verdict = "error" => \/ failures # <<>>
                       \/ mode = "quorum" /\ Len(winners) < need /\ AllRecorded
                       \/ Branches = {}

ReturnedRoute == returned # "none" => /\ AllRecorded /\ verdict # "none"
                                      /\ returned = Route(verdict)

HInv == /\ WinnersSucceeded /\ WinnersDistinct /\ NoneForgotten
        /\ SuccessRests /\ ErrorRests /\ ReturnedRoute

LEMMA HInit == ParallelInit => HInv
<1> SUFFICES ASSUME ParallelInit PROVE HInv
  OBVIOUS
<1>1. Len(winners) = 0 /\ 1..0 = {}
  BY DEF ParallelInit
<1>2. WinnersSucceeded /\ WinnersDistinct
  BY <1>1 DEF WinnersSucceeded, WinnersDistinct
<1>3. NoneForgotten /\ SuccessRests /\ ErrorRests /\ ReturnedRoute
  BY DEF ParallelInit, NoneForgotten, SuccessRests, ErrorRests, ReturnedRoute
<1> QED BY <1>2, <1>3 DEF HInv

LEMMA ListsStep ==
  IInv /\ HInv /\ [ParallelNext]_parallelVars => (WinnersSucceeded /\ WinnersDistinct /\ NoneForgotten)'
<1> DEFINE Lists == WinnersSucceeded /\ WinnersDistinct /\ NoneForgotten
<1> SUFFICES ASSUME IInv, HInv, [ParallelNext]_parallelVars PROVE Lists'
  OBVIOUS
<1>0. ParallelTypeOK /\ Lists /\ Len(winners) \in Nat /\ \A k \in 1..Len(winners) : winners[k] \in Branches
  BY LenNat DEF IInv, HInv, ParallelTypeOK
<1>1. ASSUME NEW b \in Branches, Walked(b) PROVE Lists'
  <2>1. /\ pc[b] = "walking" /\ pc' = [pc EXCEPT ![b] = "walked"]
        /\ UNCHANGED <<winners, failures>>
    BY <1>1 DEF Walked
  <2>2. PICK r \in {"succeeded", "failed", "cancelled"} : result' = [result EXCEPT ![b] = r]
    BY <1>1 DEF Walked
  <2>3. WinnersSucceeded' /\ WinnersDistinct'
    BY <1>0, <2>1, <2>2 DEF WinnersSucceeded, WinnersDistinct, ParallelTypeOK
  <2>4. NoneForgotten'
    BY <1>0, <2>1, <2>2 DEF NoneForgotten, ParallelTypeOK
  <2> QED BY <2>3, <2>4
<1>2. ASSUME NEW b \in Branches, RecordBranch(b) PROVE Lists'
  <2>1. pc[b] = "walked" /\ pc' = [pc EXCEPT ![b] = "recorded"] /\ result' = result
    BY <1>2 DEF RecordBranch
  <2>2. /\ Append(winners, b) # <<>> /\ Append(failures, b) # <<>>
        /\ Len(Append(winners, b)) = Len(winners) + 1
        /\ \A k \in 1..Len(winners) : Append(winners, b)[k] = winners[k]
        /\ Append(winners, b)[Len(winners) + 1] = b
    BY <1>0, AppendProperties DEF ParallelTypeOK
  <2>3. /\ winners' = IF result[b] = "succeeded" THEN Append(winners, b) ELSE winners
        /\ failures' = IF result[b] = "failed" THEN Append(failures, b) ELSE failures
    BY <1>2 DEF RecordBranch
  <2>4. \A k \in 1..Len(winners) : winners[k] # b
    BY <1>0, <2>1 DEF WinnersSucceeded
  <2>5. WinnersSucceeded'
    BY <1>0, <2>1, <2>2, <2>3 DEF WinnersSucceeded, ParallelTypeOK
  <2>6. WinnersDistinct'
    <3>1. CASE result[b] = "succeeded"
      <4>1. /\ Len(winners') = Len(winners) + 1
            /\ \A k \in 1..Len(winners) : winners'[k] = winners[k] /\ winners'[k] # b
            /\ winners'[Len(winners) + 1] = b
        BY <2>2, <2>3, <2>4, <3>1
      <4>2. \A k \in 1..Len(winners') : k \in 1..Len(winners) \/ k = Len(winners) + 1
        BY <1>0, <4>1
      <4> QED BY <1>0, <4>1, <4>2 DEF WinnersDistinct
    <3>2. CASE result[b] # "succeeded"
      BY <1>0, <2>3, <3>2 DEF WinnersDistinct
    <3> QED BY <3>1, <3>2
  <2>7. NoneForgotten'
    BY <1>0, <2>1, <2>2, <2>3 DEF NoneForgotten, ParallelTypeOK
  <2> QED BY <2>5, <2>6, <2>7
<1>3. CASE (\A b \in Branches : ~Walked(b) /\ ~RecordBranch(b))
  <2>1. UNCHANGED <<pc, result, winners, failures>>
    BY <1>3 DEF ParallelNext, AllSettled, Return, ParentAborts, parallelVars
  <2> QED BY <1>0, <2>1 DEF WinnersSucceeded, WinnersDistinct, NoneForgotten
<1> QED BY <1>1, <1>2, <1>3

(* The verdict of Promise.all, given without a Stop.                       *)
LEMMA FinalRests ==
  ASSUME IInv, HInv, AllRecorded, verdict = "none"
  PROVE  /\ FinalVerdict = "success" =>
              /\ mode = "race" => winners # <<>>
              /\ mode = "quorum" => Len(winners) >= need
              /\ mode = "wait-all" => \A b \in Branches : result[b] = "succeeded"
         /\ FinalVerdict = "error" => \/ failures # <<>>
                                      \/ mode = "quorum" /\ Len(winners) < need
                                      \/ Branches = {}
<1>1. ParallelTypeOK /\ Len(winners) \in Nat
  BY LenNat DEF IInv, ParallelTypeOK
<1>2. ~runAborted => \A b \in Branches : result[b] \in {"succeeded", "failed"}
  BY <1>1 DEF IInv, HInv, CancelledForCause, NoneForgotten, AllRecorded, ParallelTypeOK, Results
<1>3. \A b \in Branches : /\ result[b] = "failed" => failures # <<>>
                          /\ result[b] = "succeeded" => winners # <<>>
  BY DEF HInv, NoneForgotten, AllRecorded
<1>4. CASE runAborted
  BY <1>4 DEF FinalVerdict
<1>5. CASE ~runAborted /\ mode = "wait-all"
  BY <1>2, <1>3, <1>5 DEF FinalVerdict
<1>6. CASE ~runAborted /\ mode = "race"
  BY <1>2, <1>3, <1>6 DEF FinalVerdict
<1>7. CASE ~runAborted /\ mode = "quorum"
  BY <1>1, <1>7 DEF FinalVerdict, ParallelTypeOK
<1> QED BY <1>1, <1>4, <1>5, <1>6, <1>7 DEF ParallelTypeOK, Modes

LEMMA RestsStep ==
  IInv /\ HInv /\ [ParallelNext]_parallelVars => (SuccessRests /\ ErrorRests /\ ReturnedRoute)'
<1> DEFINE Rests == SuccessRests /\ ErrorRests /\ ReturnedRoute
<1> SUFFICES ASSUME IInv, HInv, [ParallelNext]_parallelVars PROVE Rests'
  OBVIOUS
<1>0. ParallelTypeOK /\ Rests /\ Len(winners) \in Nat
  BY LenNat DEF IInv, HInv, ParallelTypeOK
<1>1. ASSUME NEW b \in Branches, Walked(b) PROVE Rests'
  <2>1. /\ ~AllRecorded /\ returned = "none"
        /\ UNCHANGED <<mode, need, winners, failures, verdict, returned>>
    BY <1>0, <1>1 DEF Walked, AllRecorded, ReturnedRoute, cfgVars
  <2>2. (mode = "wait-all" => verdict # "success") /\ Branches # {}
    BY <1>0, <2>1 DEF SuccessRests
  <2> QED BY <1>0, <2>1, <2>2 DEF SuccessRests, ErrorRests, ReturnedRoute
<1>2. ASSUME NEW b \in Branches, RecordBranch(b) PROVE Rests'
  <2>1. /\ ~AllRecorded /\ returned = "none"
        /\ UNCHANGED <<mode, need, result, returned>>
    BY <1>0, <1>2 DEF RecordBranch, AllRecorded, ReturnedRoute, cfgVars
  <2>2. (mode = "wait-all" => verdict # "success") /\ Branches # {}
    BY <1>0, <2>1 DEF SuccessRests
  <2>3. /\ Append(winners, b) # <<>> /\ Append(failures, b) # <<>>
        /\ Len(Append(winners, b)) = Len(winners) + 1
    BY <1>0, AppendProperties DEF ParallelTypeOK
  <2>4. verdict = "error" => failures # <<>>
    BY <1>0, <2>1, <2>2 DEF ErrorRests
  <2>5. CASE result[b] = "succeeded"
    <3>1. /\ winners' = Append(winners, b) /\ failures' = failures
          /\ verdict' = IF Enough(Len(winners) + 1) /\ verdict = "none"
                          THEN "success" ELSE verdict
      BY <1>2, <2>5 DEF RecordBranch, Decide, SettleOutcome
    <3>2. SuccessRests'
      BY <1>0, <2>1, <2>2, <2>3, <3>1 DEF SuccessRests, Enough, ParallelTypeOK, Modes
    <3>3. ErrorRests'
      BY <2>4, <3>1 DEF ErrorRests
    <3> QED BY <2>1, <3>2, <3>3 DEF ReturnedRoute
  <2>6. CASE result[b] = "failed"
    <3>1. /\ failures' = Append(failures, b) /\ winners' = winners
          /\ verdict' = verdict \/ (verdict = "none" /\ verdict' = "error")
      BY <1>2, <2>6 DEF RecordBranch, Decide, SettleOutcome
    <3> QED BY <1>0, <2>1, <2>2, <2>3, <3>1 DEF SuccessRests, ErrorRests, ReturnedRoute
  <2>7. CASE result[b] = "cancelled"
    <3>1. UNCHANGED <<verdict, winners, failures>>
      BY <1>2, <2>7 DEF RecordBranch
    <3> QED BY <1>0, <2>1, <2>2, <2>4, <3>1 DEF SuccessRests, ErrorRests, ReturnedRoute
  <2> QED BY <1>2, <2>5, <2>6, <2>7 DEF RecordBranch
<1>3. CASE AllSettled
  <2>1. /\ AllRecorded /\ verdict = "none" /\ verdict' = FinalVerdict
        /\ UNCHANGED <<mode, need, pc, result, winners, failures, returned>>
    BY <1>3 DEF AllSettled, SettleOutcome, cfgVars
  <2>2. AllRecorded'
    BY <2>1 DEF AllRecorded
  <2>3. returned = "none"
    BY <1>0, <2>1 DEF ReturnedRoute
  <2> QED BY <2>1, <2>2, <2>3, FinalRests DEF SuccessRests, ErrorRests, ReturnedRoute
<1>4. CASE Return
  <2>1. /\ verdict # "none" /\ AllRecorded /\ returned' = Route(verdict)
        /\ UNCHANGED <<mode, need, pc, result, runAborted, winners, failures, verdict>>
    BY <1>4 DEF Return, cfgVars
  <2>2. AllRecorded' /\ Route(verdict)' = Route(verdict)
    BY <2>1 DEF AllRecorded, Route
  <2> QED BY <1>0, <2>1, <2>2 DEF SuccessRests, ErrorRests, ReturnedRoute
<1>5. CASE ParentAborts
  <2>1. /\ ~AllRecorded
        /\ UNCHANGED <<mode, need, pc, result, winners, failures, verdict, returned>>
    BY <1>5 DEF ParentAborts, NothingDue, cfgVars
  <2> QED BY <1>0, <2>1 DEF SuccessRests, ErrorRests, ReturnedRoute, AllRecorded
<1>6. CASE UNCHANGED parallelVars
  BY <1>0, <1>6 DEF parallelVars, SuccessRests, ErrorRests, ReturnedRoute, AllRecorded, Route
<1> QED BY <1>1, <1>2, <1>3, <1>4, <1>5, <1>6 DEF ParallelNext

(* The first n winners, as walkParallel slices them.                       *)
LEMMA FirstWinnersOf ==
  ASSUME IInv, HInv, NEW n \in Nat, n <= Len(winners)
  PROVE  /\ Len(FirstWinners(n)) = n
         /\ Cardinality(Range(FirstWinners(n))) = n
         /\ \A b \in Range(FirstWinners(n)) : /\ b \in Branches /\ result[b] = "succeeded"
                                              /\ \E k \in 1..n : winners[k] = b
<1>0. /\ Len(winners) \in Nat /\ WinnersSucceeded /\ WinnersDistinct
      /\ \A k \in 1..Len(winners) : winners[k] \in Branches
  BY LenNat DEF IInv, HInv, ParallelTypeOK
<1>1. Min({n, Len(winners)}) = n
  <2>1. \A x \in {n, Len(winners)} : n <= x
    BY <1>0
  <2>2. \A y \in {n, Len(winners)} : (\A x \in {n, Len(winners)} : y <= x) => y = n
    BY <1>0
  <2> QED BY <2>1, <2>2 DEF Min
<1> DEFINE f == SubSeq(winners, 1, n)
<1>2. /\ f \in Seq(Branches) /\ Len(f) = n
      /\ \A i \in 1..n : f[i] = winners[i]
  <2>1. \A i \in 1..n : winners[i] \in Branches
    BY <1>0
  <2>2. /\ f \in Seq(Branches) /\ Len(f) = IF 1 <= n THEN n - 1 + 1 ELSE 0
        /\ \A i \in 1..(n - 1 + 1) : f[i] = winners[1 + i - 1]
    BY <2>1, SubSeqProperties
  <2>3. n - 1 + 1 = n /\ \A i \in 1..n : 1 + i - 1 = i
    OBVIOUS
  <2> QED BY <2>2, <2>3
<1>3. DOMAIN f = 1..n
  BY <1>2, LenProperties
<1>4. Cardinality(Range(f)) = n
  <2>1. Range(f) = {winners[i] : i \in 1..n}
    BY <1>2, <1>3 DEF Range
  <2>2. \A i, j \in 1..n : f[i] = f[j] => i = j
    BY <1>0, <1>2 DEF WinnersDistinct
  <2>3. f \in [1..n -> Range(f)]
    BY <1>2, <1>3, LenProperties DEF Range
  <2>4. f \in Bijection(1..n, Range(f))
    BY <1>3, <2>2, <2>3 DEF Bijection, Injection, Surjection, IsInjective, Range
  <2> QED BY <2>4, FS_CountingElements DEF ExistsBijection
<1>5. \A b \in Range(f) : \E k \in 1..n : winners[k] = b
  BY <1>2, <1>3 DEF Range
<1>6. \A b \in Range(f) : b \in Branches /\ result[b] = "succeeded"
  BY <1>0, <1>5 DEF WinnersSucceeded
<1> QED BY <1>1, <1>2, <1>4, <1>5, <1>6 DEF FirstWinners

LEMMA HandleFollows == IInv /\ HInv => HandleIsEarned
<1> SUFFICES ASSUME IInv, HInv PROVE HandleIsEarned
  OBVIOUS
<1>0. /\ Len(winners) \in Nat /\ ParallelTypeOK /\ ReturnedRoute /\ SuccessRests /\ ErrorRests
      /\ winners = <<>> <=> Len(winners) = 0
  BY LenNat, EmptySeq DEF IInv, HInv, ParallelTypeOK
<1>1. /\ returned = "all_done" => mode = "wait-all" /\ verdict = "success"
      /\ returned = "first_done" => mode = "race" /\ verdict = "success"
      /\ returned = "quorum_met" => mode = "quorum" /\ verdict = "success"
      /\ returned = "error" => verdict = "error"
  BY <1>0 DEF IInv, ReturnedRoute, Route, SuccessHandle, ParallelTypeOK, Modes, Verdicts, VerdictFromStop
<1>2. ASSUME returned \in {"first_done", "quorum_met"}
      PROVE  /\ Len(WinnersOut) = IF mode = "race" THEN 1 ELSE need
             /\ Cardinality(Range(WinnersOut)) = IF mode = "race" THEN 1 ELSE need
             /\ \A b \in Range(WinnersOut) : b \in ChildrenOut /\ result[b] = "succeeded"
  <2>1. CASE mode = "race"
    <3>1. WinnersOut = FirstWinners(1) /\ 1 <= Len(winners) /\ 1 \in Nat /\ winners # <<>>
      BY <1>0, <1>1, <1>2, <2>1 DEF WinnersOut, SuccessRests
    <3>2. \A b \in Range(WinnersOut) : b = Head(winners)
      BY <3>1, FirstWinnersOf
    <3> QED BY <2>1, <3>1, <3>2, FirstWinnersOf DEF ChildrenOut
  <2>2. CASE mode = "quorum"
    <3>1. WinnersOut = FirstWinners(need) /\ need <= Len(winners) /\ need \in Nat
      BY <1>0, <1>1, <1>2, <2>2 DEF WinnersOut, SuccessRests, ParallelTypeOK
    <3>2. \A b \in Range(WinnersOut) : b \in Range(winners)
      <4>1. DOMAIN winners = 1..Len(winners) /\ \A k \in 1..need : k \in 1..Len(winners)
        BY <1>0, <3>1, LenProperties DEF ParallelTypeOK
      <4>2. ASSUME NEW b \in Range(WinnersOut) PROVE b \in Range(winners)
        <5>1. PICK k \in 1..need : winners[k] = b
          BY <3>1, FirstWinnersOf
        <5> QED BY <4>1, <5>1 DEF Range
      <4> QED BY <4>2
    <3> QED BY <2>2, <3>1, <3>2, FirstWinnersOf DEF ChildrenOut
  <2> QED BY <1>1, <1>2, <2>1, <2>2
<1>3. returned = "all_done" => \A b \in Branches : result[b] = "succeeded"
  BY <1>0, <1>1 DEF SuccessRests
<1>4. returned = "error" => \/ failures # <<>>
                            \/ mode = "quorum" /\ Len(winners) < need
                            \/ Branches = {}
  BY <1>0, <1>1 DEF ErrorRests
<1> QED BY <1>1, <1>2, <1>3, <1>4 DEF HandleIsEarned

(* The handle the workflow continues with is justified by what the         *)
(* branches did, and the winners it names are as many distinct branches    *)
(* that succeeded as the mode promises, with their outputs.                *)
THEOREM HandleEarned == ParallelSpec => []HandleIsEarned
<1>1. ParallelInit => HInv
  BY HInit
<1>2. IInv /\ HInv /\ [ParallelNext]_parallelVars => HInv'
  BY ListsStep, RestsStep DEF HInv
<1>3. IInv /\ HInv => HandleIsEarned
  BY HandleFollows
<1> QED BY <1>1, <1>2, <1>3, Invariance, PTL DEF ParallelSpec
=============================================================================
