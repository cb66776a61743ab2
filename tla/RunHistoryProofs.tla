-------------------------- MODULE RunHistoryProofs --------------------------
(***************************************************************************)
(* Proofs about RunHistory, for every cap and every bound.                 *)
(*                                                                         *)
(* A record that is "backed", that is, with Cap newer ones on disk, stays  *)
(* backed whatever is dropped: if one of the newer ones goes, it has Cap   *)
(* newer ones itself (BackedStays).  So what a prune read is still there   *)
(* or backed, however old its listing is, and what it drops is backed.     *)
(* That the cap comes back is because the last save to rename its record   *)
(* lists the directory after it, and because a failure takes the trust out *)
(* of every prune that has listed before it (Covered).                     *)
(***************************************************************************)
EXTENDS RunHistory, FiniteSetTheorems, WellFoundedInduction, TLAPS

OnDisk == Named(file)

Backed(x, D) == Cardinality(Newer(x, D)) >= Cap

(* A run that has not settled has no save.                                 *)
NotYetSaved ==
  /\ \A r \in Runs : r > lastRun => save[r] = "none"
  /\ active => lastRun \in Runs /\ save[lastRun] = "none"

(* What a save is about to rename is whole, or has been reaped.            *)
RenamesWhole == \A r \in Runs : save[r] = "renaming" => tmp[r] # "partial"

(* What a prune has read is on disk or backed; what it drops is backed.    *)
ReadsStand ==
  \A r \in Runs : save[r] = "reading" =>
    \A x \in valid[r] : x \in OnDisk \/ Backed(x, OnDisk)
DropsBacked ==
  \A r \in Runs : save[r] = "dropping" => \A x \in todo[r] : Backed(x, OnDisk)

(* The prune of r will bring the number of records down to the cap.        *)
Promises(r) ==
  \/ save[r] = "reaping" /\ OnDisk \subseteq valid[r]
  \/ save[r] = "reading" /\ OnDisk \subseteq todo[r] \cup valid[r]
  \/ save[r] = "dropping" /\ Cardinality(OnDisk \ todo[r]) <= Cap
Adequate(r) == save[r] = "listing" \/ (r \in sure /\ Promises(r))

PruneSteps == {"listing", "reaping", "reading", "dropping"}

Fits == Cardinality(OnDisk) <= Cap \/ \E r \in Runs : Adequate(r)
Covered == pruned \/ sure # {} => Fits

IInv == /\ HistoryTypeOK /\ NotYetSaved /\ NoTornRecord /\ RenamesWhole
        /\ ReadsStand /\ DropsBacked /\ Covered

-----------------------------------------------------------------------------
(* Sets of runs                                                            *)

(* The runs are numbers in the order in which they started.                *)
LEMMA RunsOrdered ==
  \A x, y, z \in Runs : /\ x \in Nat
                        /\ x = y \/ x > y \/ y > x
                        /\ ~(x > y /\ y > x) /\ ~(x > x)
                        /\ (y > x <=> ~(y <= x)) /\ (x > y /\ y > z => x > z)
BY HistoryAssumption DEF Runs

(* A set of runs is finite, and has no more members than one around it.    *)
LEMMA RunsFinite ==
  ASSUME NEW S \in SUBSET Runs
  PROVE  /\ IsFiniteSet(S) /\ Cardinality(S) \in Nat
         /\ \A T \in SUBSET S : /\ IsFiniteSet(T) /\ Cardinality(T) \in Nat
                                /\ Cardinality(T) <= Cardinality(S)
<1>1. IsFiniteSet(Runs)
  BY HistoryAssumption, FS_Interval DEF Runs
<1>2. IsFiniteSet(S)
  BY <1>1, FS_Subset
<1> QED BY <1>2, FS_Subset, FS_CardinalityType

(* Adding records, or dropping a backed one, leaves no record unbacked,    *)
(* and the dropped one stays backed.                                       *)
LEMMA BackedStays ==
  ASSUME NEW D \in SUBSET Runs, NEW E \in SUBSET Runs, NEW x \in Runs,
         D \subseteq E \/ \E z \in D : E = D \ {z} /\ Backed(z, D),
         x \in D \/ Backed(x, D)
  PROVE  /\ x \in E \/ Backed(x, E)
         /\ Backed(x, D) => Backed(x, E)
<1> DEFINE Grows(S) == Cardinality(S) \in Nat /\ Cardinality(Newer(x, E)) \in Nat
                       /\ (S \subseteq Newer(x, E) => Cardinality(S) <= Cardinality(Newer(x, E)))
<1>1. \A S \in SUBSET Runs : Grows(S)
  <2> TAKE S \in SUBSET Runs
  <2>1. Newer(x, E) \in SUBSET Runs
    BY DEF Newer
  <2> QED BY <2>1, RunsFinite
<1>2. Newer(x, D) \in SUBSET Runs /\ \A z \in D : Newer(z, D) \in SUBSET Runs
  BY DEF Newer
<1>3. CASE D \subseteq E
  <2>1. Newer(x, D) \subseteq Newer(x, E)
    BY <1>3 DEF Newer
  <2> QED BY <1>1, <1>2, <1>3, <2>1, HistoryAssumption DEF Backed
<1>4. ASSUME NEW z \in D, E = D \ {z}, Backed(z, D) PROVE x \in E \/ Backed(x, E)
  <2>1. CASE x = z \/ z > x
    <3>1. Newer(z, D) \subseteq Newer(x, E)
      BY <1>4, <2>1, RunsOrdered DEF Newer
    <3> QED BY <1>1, <1>2, <1>4, <3>1, HistoryAssumption DEF Backed
  <2>2. CASE x # z /\ ~(z > x)
    <3>1. Newer(x, D) \subseteq Newer(x, E)
      BY <1>4, <2>2, RunsOrdered DEF Newer
    <3>2. CASE Backed(x, D)
      BY <1>1, <1>2, <3>1, <3>2, HistoryAssumption DEF Backed
    <3>3. CASE x \in D
      BY <1>4, <2>2, <3>3
    <3> QED BY <3>2, <3>3
  <2> QED BY <2>1, <2>2
<1>5. ASSUME NEW z \in D, E = D \ {z}, Backed(z, D), Backed(x, D) PROVE Backed(x, E)
  <2>1. CASE z > x
    <3>1. Newer(z, D) \subseteq Newer(x, E)
      BY <1>5, <2>1, RunsOrdered DEF Newer
    <3> QED BY <1>1, <1>2, <1>5, <3>1, HistoryAssumption DEF Backed
  <2>2. CASE ~(z > x)
    <3>1. Newer(x, D) \subseteq Newer(x, E)
      BY <1>5, <2>2, RunsOrdered DEF Newer
    <3> QED BY <1>1, <1>2, <1>5, <3>1, HistoryAssumption DEF Backed
  <2> QED BY <2>1, <2>2
<1> QED BY <1>3, <1>4, <1>5

(* What Excess() leaves over is at most Cap records.                       *)
LEMMA KeptFitsCap ==
  ASSUME NEW S \in SUBSET Runs PROVE Cardinality(S \ Excess(S)) <= Cap
<1> DEFINE Kept == S \ Excess(S)
<1>1. CASE Kept = {}
  BY <1>1, FS_EmptySet, HistoryAssumption
<1>2. CASE Kept # {}
  <2>1. \E x \in Kept : \A y \in Kept : ~ (<<y, x>> \in OpToRel(<, Nat))
    <3>1. Kept \subseteq Nat
      BY RunsOrdered
    <3> QED BY <1>2, <3>1, NatLessThanWellFounded, WFMin
  <2>2. PICK x \in Kept : \A y \in Kept : x <= y
    <3>1. \A x, y \in Kept : x \in Nat /\ y \in Nat
      BY RunsOrdered
    <3>2. \A x, y \in Nat : <<y, x>> \in OpToRel(<, Nat) \/ x <= y
      BY DEF OpToRel
    <3> QED BY <2>1, <3>1, <3>2
  <2>3. Kept \ {x} \subseteq Newer(x, S)
    BY <2>2, RunsOrdered DEF Newer
  <2>4. ~(Cardinality(Newer(x, S)) >= Cap)
    BY <2>2 DEF Excess
  <2>5. Newer(x, S) \in SUBSET Runs
    BY DEF Newer
  <2>6. /\ Cardinality(Newer(x, S)) \in Nat
        /\ Cardinality(Kept \ {x}) \in Nat
        /\ Cardinality(Kept \ {x}) <= Cardinality(Newer(x, S))
    BY <2>3, <2>5, RunsFinite
  <2>7. IsFiniteSet(Kept) /\ Cardinality(Kept) \in Nat
    BY RunsFinite
  <2>8. Cardinality(Kept \ {x}) = Cardinality(Kept) - 1
    BY <2>7, <2>2, FS_RemoveElement
  <2> QED BY <2>4, <2>6, <2>7, <2>8, HistoryAssumption
<1> QED BY <1>1, <1>2

-----------------------------------------------------------------------------
(* The invariant                                                           *)

LEMMA InitInv == HistoryInit => IInv
<1> SUFFICES ASSUME HistoryInit PROVE IInv
  OBVIOUS
<1>1. HistoryTypeOK
  <2>1. active \in BOOLEAN /\ pruned \in BOOLEAN /\ sure \subseteq Runs
    BY Zenon DEF HistoryInit
  <2>2. lastRun \in 0..MaxRuns /\ crashes \in 0..MaxCrashes
    BY HistoryAssumption DEF HistoryInit
  <2> QED BY <2>1, <2>2 DEF HistoryInit, HistoryTypeOK, Contents, Progress
<1>2. NotYetSaved /\ NoTornRecord /\ RenamesWhole
  BY DEF HistoryInit, NotYetSaved, NoTornRecord, RenamesWhole
<1>3. ReadsStand /\ DropsBacked /\ Covered
  BY DEF HistoryInit, ReadsStand, DropsBacked, Covered, PruneSteps
<1> QED BY <1>1, <1>2, <1>3 DEF IInv

(* What a step does to the two history variables.                          *)
LEMMA TrustMoves ==
  ASSUME HistoryTypeOK, [HistoryNext]_historyVars
  PROVE  sure' \subseteq Runs /\ pruned' \in BOOLEAN
<1> USE DEF HistoryTypeOK, trust
<1>1. CASE Crash
  BY <1>1, Zenon DEF Crash, Distrust
<1>2. ASSUME NEW r \in Runs, ListFails(r) PROVE sure' \subseteq Runs /\ pruned' \in BOOLEAN
  BY <1>2, Zenon DEF ListFails, Distrust
<1>3. ASSUME NEW r \in Runs, ReadFile(r) PROVE sure' \subseteq Runs /\ pruned' \in BOOLEAN
  BY <1>3, Zenon DEF ReadFile, Distrust
<1>4. ASSUME NEW r \in Runs, Drop(r) PROVE sure' \subseteq Runs /\ pruned' \in BOOLEAN
  BY <1>4, Zenon DEF Drop, Distrust
<1>5. ASSUME NEW r \in Runs, Reaped(r) \/ Dropped(r)
      PROVE  sure' \subseteq Runs /\ pruned' \in BOOLEAN
  <2>1. \/ UNCHANGED trust
        \/ sure' = sure \ {r} /\ pruned' = (pruned \/ r \in sure)
    BY <1>5 DEF Reaped, Dropped, Ends
  <2>2. CASE UNCHANGED trust
    BY <2>2
  <2>3. CASE sure' = sure \ {r} /\ pruned' = (pruned \/ r \in sure)
    BY <2>3, Zenon
  <2> QED BY <2>1, <2>2, <2>3
<1>6. ASSUME NEW r \in Runs, List(r) PROVE sure' \subseteq Runs /\ pruned' \in BOOLEAN
  <2>1. sure' = sure \cup {r} /\ pruned' = pruned
    BY <1>6 DEF List
  <2> QED BY <2>1
<1>7. CASE UNCHANGED trust
  BY <1>7
<1> QED
  BY <1>1, <1>2, <1>3, <1>4, <1>5, <1>6, <1>7
     DEF HistoryNext, SaveStep, Prune, StartRun, Settle, Open, TmpWritten, WriteFails,
         Commit, Reap, ReadAll, historyVars

LEMMA TypeStep == HistoryTypeOK /\ [HistoryNext]_historyVars => HistoryTypeOK'
<1> SUFFICES ASSUME HistoryTypeOK, [HistoryNext]_historyVars PROVE HistoryTypeOK'
  OBVIOUS
<1>0. sure' \subseteq Runs /\ pruned' \in BOOLEAN
  BY TrustMoves
<1> USE HistoryAssumption DEF HistoryTypeOK, Runs, Contents, Progress, engine, disk, saves
<1>1. CASE StartRun
  BY <1>0, <1>1 DEF StartRun
<1>2. CASE Settle
  BY <1>0, <1>2 DEF Settle
<1>3. CASE Crash
  <2>1. active' \in BOOLEAN
    BY <1>3, Zenon DEF Crash
  <2>2. crashes' \in 0..MaxCrashes
    BY <1>3 DEF Crash
  <2>3. save' \in [Runs -> Progress]
    BY <1>3 DEF Crash
  <2>4. todo' \in [Runs -> SUBSET Runs] /\ valid' \in [Runs -> SUBSET Runs]
    BY <1>3 DEF Crash
  <2> QED BY <1>0, <1>3, <2>1, <2>2, <2>3, <2>4 DEF Crash
<1>4. ASSUME NEW r \in Runs, Open(r) PROVE HistoryTypeOK'
  BY <1>0, <1>4 DEF Open, Goes
<1>5. ASSUME NEW r \in Runs, TmpWritten(r) PROVE HistoryTypeOK'
  BY <1>0, <1>5 DEF TmpWritten, Goes
<1>6. ASSUME NEW r \in Runs, WriteFails(r) PROVE HistoryTypeOK'
  BY <1>0, <1>6 DEF WriteFails, Goes
<1>7. ASSUME NEW r \in Runs, Commit(r) PROVE HistoryTypeOK'
  BY <1>0, <1>7 DEF Commit, Goes
<1>8. ASSUME NEW r \in Runs, List(r) PROVE HistoryTypeOK'
  BY <1>0, <1>8 DEF List, Goes, Named
<1>9. ASSUME NEW r \in Runs, ListFails(r) PROVE HistoryTypeOK'
  BY <1>0, <1>9 DEF ListFails, Goes
<1>10. ASSUME NEW r \in Runs, Reap(r) PROVE HistoryTypeOK'
  BY <1>0, <1>10 DEF Reap
<1>11. ASSUME NEW r \in Runs, Reaped(r) PROVE HistoryTypeOK'
  <2>1. save' \in [Runs -> Progress]
    BY <1>11 DEF Reaped, Ends, Goes
  <2>2. todo' \in [Runs -> SUBSET Runs] /\ valid' \in [Runs -> SUBSET Runs]
    BY <1>11 DEF Reaped, Ends
  <2> QED BY <1>0, <1>11, <2>1, <2>2 DEF Reaped
<1>12. ASSUME NEW r \in Runs, ReadFile(r) PROVE HistoryTypeOK'
  BY <1>0, <1>12 DEF ReadFile, Parsed
<1>13. ASSUME NEW r \in Runs, ReadAll(r) PROVE HistoryTypeOK'
  BY <1>0, <1>13 DEF ReadAll, Goes, Excess
<1>14. ASSUME NEW r \in Runs, Drop(r) PROVE HistoryTypeOK'
  BY <1>0, <1>14 DEF Drop
<1>15. ASSUME NEW r \in Runs, Dropped(r) PROVE HistoryTypeOK'
  BY <1>0, <1>15 DEF Dropped, Ends, Goes
<1>16. CASE UNCHANGED historyVars
  BY <1>0, <1>16 DEF historyVars
<1> QED BY <1>1, <1>2, <1>3, <1>4, <1>5, <1>6, <1>7, <1>8, <1>9, <1>10, <1>11, <1>12,
           <1>13, <1>14, <1>15, <1>16 DEF HistoryNext, SaveStep, Prune

(* A step of a save leaves the engine and the other saves alone.           *)
LEMMA SaveFrame ==
  ASSUME HistoryTypeOK, NEW r \in Runs, SaveStep(r)
  PROVE  /\ UNCHANGED engine
         /\ save[r] \in {"opening", "writing"} \cup {"renaming"} \cup PruneSteps
         /\ \A q \in Runs \ {r} : /\ save'[q] = save[q]
                                  /\ todo'[q] = todo[q]
                                  /\ valid'[q] = valid[q]
<1> USE DEF HistoryTypeOK, PruneSteps, engine, disk
<1>1. CASE Open(r) \/ TmpWritten(r) \/ WriteFails(r)
  BY <1>1 DEF Open, TmpWritten, WriteFails, Goes
<1>2. CASE Commit(r)
  BY <1>2 DEF Commit, Goes
<1>3. CASE List(r) \/ ListFails(r) \/ Reap(r)
  BY <1>3 DEF List, ListFails, Reap, Goes
<1>4. CASE Reaped(r)
  BY <1>4 DEF Reaped, Ends, Goes
<1>5. CASE ReadFile(r) \/ ReadAll(r)
  BY <1>5 DEF ReadFile, ReadAll, Goes
<1>6. CASE Drop(r) \/ Dropped(r)
  BY <1>6 DEF Drop, Dropped, Ends, Goes
<1> QED BY <1>1, <1>2, <1>3, <1>4, <1>5, <1>6 DEF SaveStep, Prune

LEMMA NotYetSavedStep == HistoryTypeOK /\ NotYetSaved /\ [HistoryNext]_historyVars => NotYetSaved'
<1> SUFFICES ASSUME HistoryTypeOK, NotYetSaved, [HistoryNext]_historyVars PROVE NotYetSaved'
  OBVIOUS
<1> USE HistoryAssumption DEF HistoryTypeOK, NotYetSaved, Runs
<1>1. CASE StartRun
  BY <1>1 DEF StartRun, saves
<1>2. CASE Settle
  BY <1>2 DEF Settle
<1>3. CASE Crash
  BY <1>3 DEF Crash, SavesInFlight
<1>4. ASSUME NEW r \in Runs, SaveStep(r) PROVE NotYetSaved'
  BY <1>4, SaveFrame DEF PruneSteps, engine
<1>5. CASE UNCHANGED historyVars
  BY <1>5 DEF historyVars, engine, saves
<1> QED BY <1>1, <1>2, <1>3, <1>4, <1>5 DEF HistoryNext

LEMMA WholeStep ==
  HistoryTypeOK /\ NoTornRecord /\ RenamesWhole /\ [HistoryNext]_historyVars => NoTornRecord' /\ RenamesWhole'
<1> SUFFICES ASSUME HistoryTypeOK, NoTornRecord, RenamesWhole, [HistoryNext]_historyVars
             PROVE  NoTornRecord' /\ RenamesWhole'
  OBVIOUS
<1> USE DEF HistoryTypeOK, NoTornRecord, RenamesWhole, disk, saves, Contents
<1>1. CASE StartRun
  BY <1>1 DEF StartRun
<1>2. CASE Settle
  BY <1>2 DEF Settle
<1>3. CASE Crash
  BY <1>3 DEF Crash, SavesInFlight
<1>4. ASSUME NEW r \in Runs, Open(r) \/ TmpWritten(r) \/ WriteFails(r)
      PROVE  NoTornRecord' /\ RenamesWhole'
  BY <1>4 DEF Open, TmpWritten, WriteFails, Goes
<1>5. ASSUME NEW r \in Runs, Commit(r) PROVE NoTornRecord' /\ RenamesWhole'
  BY <1>5 DEF Commit, Goes
<1>6. ASSUME NEW r \in Runs, List(r) \/ ListFails(r) \/ Reap(r)
      PROVE  NoTornRecord' /\ RenamesWhole'
  BY <1>6 DEF List, ListFails, Reap, Goes
<1>7. ASSUME NEW r \in Runs, Reaped(r) PROVE NoTornRecord' /\ RenamesWhole'
  BY <1>7 DEF Reaped, Ends, Goes
<1>8. ASSUME NEW r \in Runs, ReadFile(r) \/ ReadAll(r) PROVE NoTornRecord' /\ RenamesWhole'
  BY <1>8 DEF ReadFile, ReadAll, Goes
<1>9. ASSUME NEW r \in Runs, Drop(r) \/ Dropped(r) PROVE NoTornRecord' /\ RenamesWhole'
  BY <1>9 DEF Drop, Dropped, Ends, Goes
<1>10. CASE UNCHANGED historyVars
  BY <1>10 DEF historyVars
<1> QED BY <1>1, <1>2, <1>3, <1>4, <1>5, <1>6, <1>7, <1>8, <1>9, <1>10 DEF HistoryNext, SaveStep, Prune

(* Records are added, or a backed one is dropped.                          *)
LEMMA FilesMove ==
  ASSUME HistoryTypeOK, DropsBacked, [HistoryNext]_historyVars
  PROVE  \/ OnDisk \subseteq OnDisk'
         \/ \E z \in OnDisk : OnDisk' = OnDisk \ {z} /\ Backed(z, OnDisk)
<1> USE DEF HistoryTypeOK, OnDisk, Named, disk
<1>1. CASE UNCHANGED file
  BY <1>1
<1>2. ASSUME NEW r \in Runs, Commit(r) PROVE OnDisk \subseteq OnDisk'
  BY <1>2 DEF Commit
<1>3. ASSUME NEW r \in Runs, Drop(r)
      PROVE  \/ OnDisk \subseteq OnDisk'
             \/ \E z \in OnDisk : OnDisk' = OnDisk \ {z} /\ Backed(z, OnDisk)
  <2>1. PICK x \in todo[r] : UNCHANGED file \/ file' = [file EXCEPT ![x] = "none"]
    BY <1>3 DEF Drop
  <2>2. CASE file' = [file EXCEPT ![x] = "none"]
    <3>1. x \in Runs /\ Backed(x, OnDisk) /\ OnDisk' = OnDisk \ {x}
      BY <1>3, <2>2 DEF Drop, DropsBacked
    <3> QED BY <3>1
  <2> QED BY <1>1, <2>1, <2>2
<1> QED
  BY <1>1, <1>2, <1>3
     DEF HistoryNext, SaveStep, Prune, StartRun, Settle, Crash, Open, TmpWritten, WriteFails, List,
         ListFails, Reap, Reaped, ReadFile, ReadAll, Dropped, historyVars

LEMMA StaysStep ==
  ASSUME HistoryTypeOK, DropsBacked, [HistoryNext]_historyVars, NEW x \in Runs
  PROVE  /\ x \in OnDisk \/ Backed(x, OnDisk) => x \in OnDisk' \/ Backed(x, OnDisk')
         /\ Backed(x, OnDisk) => Backed(x, OnDisk')
<1>1. OnDisk \in SUBSET Runs /\ OnDisk' \in SUBSET Runs
  BY DEF OnDisk, Named
<1>2. \/ OnDisk \subseteq OnDisk'
      \/ \E z \in OnDisk : OnDisk' = OnDisk \ {z} /\ Backed(z, OnDisk)
  BY FilesMove
<1> QED BY <1>1, <1>2, BackedStays

LEMMA ReadsStandStep ==
  HistoryTypeOK /\ DropsBacked /\ ReadsStand /\ [HistoryNext]_historyVars => ReadsStand'
<1> SUFFICES ASSUME HistoryTypeOK, DropsBacked, ReadsStand, [HistoryNext]_historyVars,
                    NEW q \in Runs, save'[q] = "reading", NEW x \in valid'[q]
             PROVE  x \in OnDisk' \/ Backed(x, OnDisk')
  BY DEF ReadsStand
<1> USE DEF HistoryTypeOK
<1>1. ASSUME save[q] = "reading", x \in valid[q] PROVE x \in OnDisk' \/ Backed(x, OnDisk')
  BY <1>1, StaysStep DEF ReadsStand
<1>2. CASE StartRun \/ Settle \/ UNCHANGED historyVars
  BY <1>1, <1>2 DEF StartRun, Settle, historyVars, saves
<1>3. CASE Crash
  BY <1>3, <1>1 DEF Crash
<1>4. ASSUME NEW r \in Runs, SaveStep(r), r # q PROVE x \in OnDisk' \/ Backed(x, OnDisk')
  BY <1>1, <1>4, SaveFrame
<1>5. CASE SaveStep(q)
  <2>1. CASE Open(q) \/ TmpWritten(q) \/ WriteFails(q) \/ Commit(q) \/ List(q)
             \/ ListFails(q) \/ ReadAll(q) \/ Dropped(q)
    BY <2>1 DEF Open, TmpWritten, WriteFails, Commit, List, ListFails, ReadAll, Dropped, Ends,
                Goes
  <2>2. CASE Reap(q) \/ Drop(q)
    BY <1>1, <2>2 DEF Reap, Drop
  <2>3. CASE Reaped(q)
    BY <2>3 DEF Reaped, Ends, Goes
  <2>4. CASE ReadFile(q)
    <3>1. PICK y \in todo[q] : \/ UNCHANGED valid
                              \/ valid' = [valid EXCEPT ![q] = @ \cup Parsed(y)]
      BY <2>4 DEF ReadFile
    <3>2. CASE x \in valid[q]
      BY <1>1, <2>4, <3>2 DEF ReadFile
    <3>3. CASE x \in Parsed(y)
      BY <2>4, <3>1, <3>3 DEF Parsed, ReadFile, OnDisk, Named, disk
    <3> QED BY <3>1, <3>2, <3>3
  <2> QED BY <1>5, <2>1, <2>2, <2>3, <2>4 DEF SaveStep, Prune
<1> QED BY <1>2, <1>3, <1>4, <1>5 DEF HistoryNext

(* Records with Cap newer ones among those read are backed.                *)
LEMMA ExcessBacked ==
  ASSUME HistoryTypeOK, ReadsStand, NEW r \in Runs, save[r] = "reading",
         NEW x \in Excess(valid[r])
  PROVE  Backed(x, OnDisk)
<1>1. x \in Runs /\ Cardinality(Newer(x, valid[r])) >= Cap
  BY DEF HistoryTypeOK, Excess
<1>2. OnDisk \in SUBSET Runs /\ valid[r] \in SUBSET Runs
  BY DEF HistoryTypeOK, OnDisk, Named
<1>3. \A y \in Runs : Newer(y, OnDisk) \in SUBSET Runs /\ Newer(y, valid[r]) \in SUBSET Runs
  BY <1>2 DEF Newer
<1>4. CASE Newer(x, valid[r]) \subseteq OnDisk
  <2>1. Newer(x, valid[r]) \subseteq Newer(x, OnDisk)
    BY <1>4 DEF Newer
  <2> QED BY <1>1, <1>3, <2>1, RunsFinite, HistoryAssumption DEF Backed
<1>5. ASSUME NEW y \in Newer(x, valid[r]), y \notin OnDisk PROVE Backed(x, OnDisk)
  <2>1. y \in Runs /\ y > x /\ Backed(y, OnDisk)
    BY <1>2, <1>5 DEF ReadsStand, Newer
  <2>2. Newer(y, OnDisk) \subseteq Newer(x, OnDisk)
    BY <1>1, <1>2, <2>1, RunsOrdered DEF Newer
  <2> QED BY <1>1, <1>3, <2>1, <2>2, RunsFinite, HistoryAssumption DEF Backed
<1> QED BY <1>4, <1>5

LEMMA DropsBackedStep ==
  HistoryTypeOK /\ ReadsStand /\ DropsBacked /\ [HistoryNext]_historyVars => DropsBacked'
<1> SUFFICES ASSUME HistoryTypeOK, ReadsStand, DropsBacked, [HistoryNext]_historyVars,
                    NEW q \in Runs, save'[q] = "dropping", NEW x \in todo'[q]
             PROVE  Backed(x, OnDisk')
  BY DEF DropsBacked
<1> USE DEF HistoryTypeOK
<1>1. ASSUME save[q] = "dropping", x \in todo[q] PROVE Backed(x, OnDisk')
  BY <1>1, StaysStep DEF DropsBacked
<1>2. CASE StartRun \/ Settle \/ UNCHANGED historyVars
  BY <1>1, <1>2 DEF StartRun, Settle, historyVars, saves
<1>3. CASE Crash
  BY <1>3 DEF Crash
<1>4. ASSUME NEW r \in Runs, SaveStep(r), r # q PROVE Backed(x, OnDisk')
  BY <1>1, <1>4, SaveFrame
<1>5. CASE SaveStep(q)
  <2>1. CASE Open(q) \/ TmpWritten(q) \/ WriteFails(q) \/ Commit(q) \/ List(q)
             \/ ListFails(q) \/ Dropped(q)
    BY <2>1 DEF Open, TmpWritten, WriteFails, Commit, List, ListFails, Dropped, Ends, Goes
  <2>2. CASE Reap(q) \/ ReadFile(q) \/ Drop(q)
    BY <1>1, <2>2 DEF Reap, ReadFile, Drop
  <2>3. CASE Reaped(q)
    BY <2>3 DEF Reaped, Ends, Goes
  <2>4. CASE ReadAll(q)
    <3>1. x \in Excess(valid[q]) /\ save[q] = "reading" /\ OnDisk' = OnDisk
      BY <2>4 DEF ReadAll, Goes, OnDisk, Named, disk
    <3> QED BY <3>1, ExcessBacked
  <2> QED BY <1>5, <2>1, <2>2, <2>3, <2>4 DEF SaveStep, Prune
<1> QED BY <1>2, <1>3, <1>4, <1>5 DEF HistoryNext

-----------------------------------------------------------------------------
(* The cap                                                                 *)

(* What the save of r leaves alone: an adequate prune of another run stays *)
(* adequate while it is trusted, and records only go.                      *)
LEMMA FitsFrame ==
  ASSUME HistoryTypeOK, NEW r \in Runs, SaveStep(r), OnDisk' \subseteq OnDisk
  PROVE  /\ Cardinality(OnDisk) <= Cap => Cardinality(OnDisk') <= Cap
         /\ \A q \in Runs \ {r} :
              Adequate(q) /\ (q \in sure => q \in sure') => Adequate(q)'
<1>1. OnDisk \in SUBSET Runs /\ OnDisk' \in SUBSET OnDisk
  BY DEF OnDisk, Named
<1>2. Cardinality(OnDisk) <= Cap => Cardinality(OnDisk') <= Cap
  BY <1>1, RunsFinite, HistoryAssumption
<1>3. ASSUME NEW q \in Runs \ {r}, Adequate(q), q \in sure => q \in sure' PROVE Adequate(q)'
  <2>1. save'[q] = save[q] /\ todo'[q] = todo[q] /\ valid'[q] = valid[q]
    BY SaveFrame
  <2>2. /\ OnDisk \ todo[q] \in SUBSET Runs
        /\ OnDisk' \ todo[q] \in SUBSET (OnDisk \ todo[q])
    BY <1>1
  <2>3. Cardinality(OnDisk \ todo[q]) <= Cap => Cardinality(OnDisk' \ todo[q]) <= Cap
    BY <2>2, RunsFinite, HistoryAssumption
  <2> QED BY <1>1, <1>3, <2>1, <2>3 DEF Adequate, Promises
<1> QED BY <1>2, <1>3

(* A prune that has begun keeps its promise at each of its steps, and when *)
(* it ends there are at most Cap records.                                  *)
LEMMA PromiseKept ==
  ASSUME HistoryTypeOK, NoTornRecord, NEW r \in Runs, Promises(r),
         Reap(r) \/ Reaped(r) \/ ReadFile(r) \/ ReadAll(r) \/ Drop(r) \/ Dropped(r),
         pruned' \/ sure' # {}
  PROVE  Cardinality(OnDisk') <= Cap \/ (UNCHANGED sure /\ Promises(r)')
<1> USE DEF HistoryTypeOK
<1>1. CASE Reap(r)
  BY <1>1 DEF Reap, Promises, OnDisk, Named, trust
<1>2. CASE Reaped(r)
  <2>1. OnDisk \subseteq valid[r] /\ OnDisk' = OnDisk
    BY <1>2 DEF Reaped, Ends, Goes, Promises, OnDisk, Named, disk
  <2>2. CASE Cardinality(valid[r]) <= Cap
    <3>1. Cardinality(OnDisk) <= Cap
      BY <2>1, <2>2, RunsFinite, HistoryAssumption
    <3> QED BY <2>1, <3>1
  <2>3. CASE ~(Cardinality(valid[r]) <= Cap)
    BY <1>2, <2>1, <2>3 DEF Reaped, Goes, Promises, trust
  <2> QED BY <2>2, <2>3
<1>3. CASE ReadFile(r)
  <2>1. OnDisk \subseteq todo[r] \cup valid[r] /\ OnDisk' = OnDisk
    BY <1>3 DEF ReadFile, Promises, OnDisk, Named, disk
  <2>2. PICK y \in todo[r] : /\ todo' = [todo EXCEPT ![r] = @ \ {y}]
                             /\ valid' = [valid EXCEPT ![r] = @ \cup Parsed(y)]
                             /\ UNCHANGED trust
    BY <1>3 DEF ReadFile, Distrust
  <2>3. y \in OnDisk => y \in Parsed(y)
    BY DEF OnDisk, Named, Parsed, NoTornRecord, Contents
  <2>4. OnDisk' \subseteq todo'[r] \cup valid'[r]
    BY <2>1, <2>2, <2>3
  <2> QED BY <1>3, <2>2, <2>4 DEF ReadFile, Promises, trust
<1>4. CASE ReadAll(r)
  <2>1. OnDisk \subseteq valid[r] /\ OnDisk' = OnDisk
    BY <1>4 DEF ReadAll, Goes, Promises, OnDisk, Named, disk
  <2>2. /\ valid[r] \in SUBSET Runs
        /\ valid[r] \ Excess(valid[r]) \in SUBSET Runs
        /\ OnDisk \ Excess(valid[r]) \in SUBSET (valid[r] \ Excess(valid[r]))
    BY <2>1
  <2>3. Cardinality(OnDisk \ Excess(valid[r])) <= Cap
    <3>1. Cardinality(valid[r] \ Excess(valid[r])) <= Cap
      BY <2>2, KeptFitsCap
    <3>2. /\ Cardinality(OnDisk \ Excess(valid[r])) \in Nat
          /\ Cardinality(valid[r] \ Excess(valid[r])) \in Nat
          /\ Cardinality(OnDisk \ Excess(valid[r]))
               <= Cardinality(valid[r] \ Excess(valid[r]))
      BY <2>2, RunsFinite
    <3> QED BY <3>1, <3>2, HistoryAssumption
  <2> QED BY <1>4, <2>1, <2>3 DEF ReadAll, Goes, Promises, trust
<1>5. CASE Drop(r)
  <2>1. Cardinality(OnDisk \ todo[r]) <= Cap
    BY <1>5 DEF Drop, Promises
  <2>2. PICK x \in todo[r] : /\ todo' = [todo EXCEPT ![r] = @ \ {x}]
                             /\ file' = [file EXCEPT ![x] = "none"]
                             /\ UNCHANGED trust
    BY <1>5 DEF Drop, Distrust
  <2>3. OnDisk' \ todo'[r] = OnDisk \ todo[r]
    BY <1>5, <2>2 DEF Drop, OnDisk, Named
  <2> QED BY <1>5, <2>1, <2>2, <2>3 DEF Drop, Promises, trust
<1>6. CASE Dropped(r)
  <2>1. Cardinality(OnDisk \ todo[r]) <= Cap
    BY <1>6 DEF Dropped, Ends, Goes, Promises
  <2>2. OnDisk \ todo[r] = OnDisk /\ OnDisk' = OnDisk
    BY <1>6 DEF Dropped, OnDisk, Named, disk
  <2> QED BY <2>1, <2>2
<1> QED BY <1>1, <1>2, <1>3, <1>4, <1>5, <1>6

(* What a step of a prune does to the trust in the others: a failure takes *)
(* it from all, and the end of a prune confirms the cap only if the prune  *)
(* was trusted.                                                            *)
LEMMA TrustFrame ==
  ASSUME HistoryTypeOK, NEW r \in Runs, Prune(r), ~List(r), pruned' \/ sure' # {}
  PROVE  /\ ~ListFails(r)
         /\ sure' = sure \/ (sure' = sure \ {r} /\ save'[r] = "done")
         /\ pruned \/ sure # {}
<1>1. ~ListFails(r)
  BY DEF ListFails, Distrust
<1>2. CASE UNCHANGED trust
  BY <1>1, <1>2 DEF trust
<1>3. CASE Ends(r, "reaping") \/ Ends(r, "dropping")
  <2>1. sure' = sure \ {r} /\ pruned' = (pruned \/ r \in sure) /\ save'[r] = "done"
    BY <1>3 DEF Ends, Goes, HistoryTypeOK
  <2> QED BY <1>1, <2>1
<1>4. CASE Distrust
  BY <1>4 DEF Distrust
<1> QED BY <1>1, <1>2, <1>3, <1>4
        DEF Prune, Reap, Reaped, ReadFile, ReadAll, Drop, Dropped

LEMMA PruneFits ==
  ASSUME HistoryTypeOK, NoTornRecord, Covered, NEW r \in Runs, Prune(r), pruned' \/ sure' # {}
  PROVE  Fits'
<1> USE DEF HistoryTypeOK
<1>1. CASE List(r)
  <2>1. r \in sure' /\ Promises(r)'
    BY <1>1 DEF List, Goes, Promises, OnDisk, disk, Named
  <2> QED BY <2>1 DEF Fits, Adequate
<1>2. CASE ~List(r)
  <2>1. /\ ~ListFails(r) /\ Fits
        /\ sure' = sure \/ (sure' = sure \ {r} /\ save'[r] = "done")
    BY <1>2, TrustFrame DEF Covered
  <2>2. Reap(r) \/ Reaped(r) \/ ReadFile(r) \/ ReadAll(r) \/ Drop(r) \/ Dropped(r)
    BY <1>2, <2>1 DEF Prune
  <2>3. SaveStep(r) /\ OnDisk' \subseteq OnDisk /\ save[r] # "listing"
    BY <2>2 DEF Prune, SaveStep, Reap, Reaped, ReadFile, ReadAll, Drop, Dropped, disk, OnDisk,
                Named, Goes, Ends
  <2>4. \A q \in Runs \ {r} : Adequate(q) => Adequate(q)'
    BY <2>1, <2>3, FitsFrame
  <2>5. CASE Adequate(r)
    <3>1. r \in sure /\ Promises(r)
      BY <2>3, <2>5 DEF Adequate
    <3>2. Cardinality(OnDisk') <= Cap \/ (UNCHANGED sure /\ Promises(r)')
      BY <2>2, <3>1, PromiseKept
    <3> QED BY <3>1, <3>2 DEF Fits, Adequate
  <2>6. CASE ~Adequate(r)
    BY <2>1, <2>3, <2>4, <2>6, FitsFrame DEF Fits
  <2> QED BY <2>5, <2>6
<1> QED BY <1>1, <1>2

LEMMA CoveredStep ==
  HistoryTypeOK /\ NotYetSaved /\ NoTornRecord /\ Covered /\ [HistoryNext]_historyVars
    => Covered'
<1> SUFFICES ASSUME HistoryTypeOK, NotYetSaved, NoTornRecord, Covered,
                    [HistoryNext]_historyVars, pruned' \/ sure' # {}
             PROVE  Fits'
  BY DEF Covered
<1> USE DEF HistoryTypeOK
<1>1. ASSUME UNCHANGED trust PROVE Fits
  BY <1>1 DEF Covered, trust
<1>2. CASE StartRun \/ UNCHANGED historyVars
  <2>1. UNCHANGED <<disk, saves, trust>>
    BY <1>2 DEF StartRun, historyVars
  <2> QED BY <1>1, <2>1 DEF disk, saves, trust, Fits, Adequate, Promises, OnDisk, Named
<1>3. CASE Settle
  <2>1. lastRun \in Runs /\ save[lastRun] = "none" /\ save'[lastRun] = "opening"
    BY <1>3 DEF Settle, NotYetSaved
  <2>2. \A q \in Runs \ {lastRun} : save'[q] = save[q]
    BY <1>3 DEF Settle
  <2>3. Fits
    BY <1>1, <1>3 DEF Settle
  <2>4. OnDisk' = OnDisk /\ UNCHANGED <<todo, valid, sure>>
    BY <1>3 DEF Settle, disk, OnDisk, Named, trust
  <2>5. \A q \in Runs : Adequate(q) => Adequate(q)'
    BY <2>1, <2>2, <2>4 DEF Adequate, Promises
  <2> QED BY <2>3, <2>4, <2>5 DEF Fits
<1>4. CASE Crash
  BY <1>4 DEF Crash, Distrust
<1>5. ASSUME NEW r \in Runs, Open(r) \/ TmpWritten(r) \/ WriteFails(r) \/ Commit(r)
      PROVE  Fits'
  <2>1. SaveStep(r) /\ save[r] \notin PruneSteps /\ UNCHANGED trust
    BY <1>5 DEF SaveStep, Open, TmpWritten, WriteFails, Commit, Goes, PruneSteps
  <2>2. CASE save'[r] = "listing"
    BY <2>2 DEF Fits, Adequate
  <2>3. CASE save'[r] # "listing"
    <3>1. UNCHANGED file
      BY <1>5, <2>3 DEF Open, TmpWritten, WriteFails, Commit, Goes, disk
    <3>2. Fits /\ ~Adequate(r)
      BY <1>1, <2>1 DEF Adequate, Promises, PruneSteps
    <3>3. OnDisk' \subseteq OnDisk
      BY <3>1 DEF OnDisk, Named
    <3>4. \A q \in Runs \ {r} : Adequate(q) => Adequate(q)'
      BY <2>1, <3>3, FitsFrame DEF trust
    <3> QED BY <2>1, <3>2, <3>3, <3>4, FitsFrame DEF Fits
  <2> QED BY <2>2, <2>3
<1>6. ASSUME NEW r \in Runs, Prune(r) PROVE Fits'
  BY <1>6, PruneFits
<1> QED BY <1>2, <1>3, <1>4, <1>5, <1>6 DEF HistoryNext, SaveStep

-----------------------------------------------------------------------------
(* The theorems                                                            *)

LEMMA Inductive == IInv /\ [HistoryNext]_historyVars => IInv'
BY TypeStep, NotYetSavedStep, WholeStep, ReadsStandStep, DropsBackedStep, CoveredStep DEF IInv

LEMMA Invariant == HistorySpec => []IInv
<1>1. HistoryInit => IInv
  BY InitInv
<1>2. IInv /\ [HistoryNext]_historyVars => IInv'
  BY Inductive
<1> QED BY <1>1, <1>2, PTL DEF HistorySpec

(* The variables of the run history keep their types.                      *)
THEOREM TypeCorrect == HistorySpec => []HistoryTypeOK
<1>1. IInv => HistoryTypeOK
  BY DEF IInv
<1> QED BY <1>1, Invariant, PTL

(* However saves, prunes and exits of the process interleave, a record on  *)
(* disk is whole.                                                          *)
THEOREM RecordsAreWhole == HistorySpec => []NoTornRecord
<1>1. IInv => NoTornRecord
  BY DEF IInv
<1> QED BY <1>1, Invariant, PTL

(* When a prune has listed, read and dropped after the last failure of one *)
(* and the last exit, and no save is in progress, at most Cap records are  *)
(* on disk.                                                                *)
THEOREM CapComesBack == HistorySpec => []CapHolds
<1>1. IInv => CapHolds
  <2> SUFFICES ASSUME IInv, pruned, SavesInFlight = {} PROVE Cardinality(Named(file)) <= Cap
    BY DEF CapHolds
  <2>1. \A r \in Runs : ~Adequate(r)
    BY DEF SavesInFlight, Adequate, Promises
  <2> QED BY <2>1 DEF IInv, Covered, Fits, OnDisk
<1> QED BY <1>1, Invariant, PTL

(* No prune removes a record unless Cap newer ones stay on disk.           *)
THEOREM OldestGoFirst == HistorySpec => PrunesOldest
<1>1. IInv /\ [HistoryNext]_historyVars
        => [\A r \in Named(file) \ Named(file)' :
              Cardinality({x \in Named(file)' : x > r}) >= Cap]_historyVars
  <2> SUFFICES ASSUME IInv, [HistoryNext]_historyVars, NEW r \in Named(file) \ Named(file)'
               PROVE  Cardinality({x \in Named(file)' : x > r}) >= Cap
    OBVIOUS
  <2>1. r \in Runs /\ r \in OnDisk /\ r \notin OnDisk'
    BY DEF OnDisk, Named
  <2>2. PICK z \in OnDisk : OnDisk' = OnDisk \ {z} /\ Backed(z, OnDisk)
    BY <2>1, FilesMove DEF IInv
  <2>3. z = r
    BY <2>1, <2>2
  <2>4. {x \in Named(file)' : x > r} = Newer(r, OnDisk)
    BY <2>1, <2>2, <2>3, RunsOrdered DEF Newer, OnDisk
  <2> QED BY <2>2, <2>3, <2>4 DEF Backed
<1> QED BY <1>1, Invariant, PTL DEF HistorySpec, PrunesOldest
=============================================================================
