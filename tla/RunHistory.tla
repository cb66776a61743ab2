----------------------------- MODULE RunHistory -----------------------------
(***************************************************************************)
(* The records of finished runs: saveRun() and pruneOldest() of            *)
(* run-store.ts, called by the engine without await when a run settles.    *)
(*                                                                         *)
(* The engine runs one workflow at a time, but the save of one run may     *)
(* still be in progress when later runs settle.  Every file operation is a *)
(* step of its own.  All runs here are of one workflow: another workflow   *)
(* has a directory of its own.                                             *)
(***************************************************************************)
EXTENDS Naturals, FiniteSets

CONSTANTS Cap,        \* historyLimit(): 100 unless the environment says otherwise
          MaxRuns,    \* bound: runs started in a behaviour
          MaxCrashes  \* bound: exits of the server process

ASSUME HistoryAssumption == /\ Cap \in Nat \ {0}
                            /\ MaxRuns \in Nat
                            /\ MaxCrashes \in Nat

Runs == 1..MaxRuns

VARIABLES
  lastRun,  \* the runs started so far are 1..lastRun, by startedAt
  active,   \* snapshot.status = 'running'
  file,     \* the content of <runId>.json: "none", "partial" or "complete"
  tmp,      \* the content of <runId>.json.tmp
  save,     \* the progress of the saveRun() of each run
  todo,     \* the files a save has still to unlink or to read
  valid,    \* pruneOldest()'s `valid`
  crashes,  \* exits of the process so far
  sure,     \* history: prunes that listed since the last failure of one
  pruned    \* history: one of them has completed

disk == <<file, tmp>>
engine == <<lastRun, active>>
saves == <<save, todo, valid>>
trust == <<sure, pruned>>
historyVars == <<engine, disk, saves, crashes, trust>>

HistoryInit == /\ lastRun = 0
        /\ active = FALSE
        /\ file = [r \in Runs |-> "none"]
        /\ tmp = [r \in Runs |-> "none"]
        /\ save = [r \in Runs |-> "none"]
        /\ todo = [r \in Runs |-> {}]
        /\ valid = [r \in Runs |-> {}]
        /\ crashes = 0
        /\ sure = {} /\ pruned = FALSE

-----------------------------------------------------------------------------
(* The engine                                                              *)

StartRun == /\ ~active
         /\ lastRun < MaxRuns
         /\ lastRun' = lastRun + 1
         /\ active' = TRUE
         /\ UNCHANGED <<disk, saves, crashes, trust>>

(* The run turns terminal, and `void this.persistRun()`.                   *)
Settle == /\ active
          /\ active' = FALSE
          /\ save' = [save EXCEPT ![lastRun] = "opening"]
          /\ UNCHANGED <<lastRun, disk, todo, valid, crashes, trust>>

-----------------------------------------------------------------------------
(* saveRun()                                                               *)

Goes(r, from, to) == save[r] = from /\ save' = [save EXCEPT ![r] = to]

(* Slip of Open: the record is written in place, with no temporary file.   *)
OpenInPlace(r) ==
  /\ Goes(r, "opening", "writing")
  /\ file' = [file EXCEPT ![r] = "partial"]
  /\ UNCHANGED <<engine, tmp, todo, valid, crashes, trust>>

(* mkdir, and writeFile opens the temporary file.                          *)
Open(r) ==
  /\ Goes(r, "opening", "writing")
  /\ tmp' = [tmp EXCEPT ![r] = "partial"]
  /\ UNCHANGED <<engine, file, todo, valid, crashes, trust>>

(* writeFile is done.  If the file was unlinked meanwhile, its name stays  *)
(* gone.                                                                   *)
TmpWritten(r) ==
  /\ Goes(r, "writing", "renaming")
  /\ tmp' = [tmp EXCEPT ![r] = IF tmp[r] = "none" THEN "none" ELSE "complete"]
  /\ UNCHANGED <<engine, file, todo, valid, crashes, trust>>

(* mkdir or writeFile rejects: the disk is full, say.                      *)
WriteFails(r) ==
  /\ \E from \in {"opening", "writing"} : Goes(r, from, "failed")
  /\ UNCHANGED <<engine, disk, todo, valid, crashes, trust>>

(* The commit point; ENOENT when the temporary file is gone.               *)
Commit(r) ==
  /\ \/ /\ tmp[r] = "none"
        /\ Goes(r, "renaming", "failed")
        /\ UNCHANGED disk
     \/ /\ tmp[r] # "none"
        /\ Goes(r, "renaming", "listing")
        /\ file' = [file EXCEPT ![r] = tmp[r]]
        /\ tmp' = [tmp EXCEPT ![r] = "none"]
  /\ UNCHANGED <<engine, todo, valid, crashes, trust>>

-----------------------------------------------------------------------------
(* pruneOldest()                                                           *)

Named(dir) == {r \in Runs : dir[r] # "none"}

(* A failure of a prune is swallowed: no prune that listed before it will  *)
(* make up for it.                                                         *)
Distrust == sure' = {} /\ pruned' = FALSE

(* readdir: the temporary files to reap, and the records of the directory. *)
List(r) ==
  /\ Goes(r, "listing", "reaping")
  /\ todo' = [todo EXCEPT ![r] = Named(tmp)]
  /\ valid' = [valid EXCEPT ![r] = Named(file)]
  /\ sure' = sure \cup {r}
  /\ UNCHANGED <<engine, disk, crashes, pruned>>

ListFails(r) ==
  /\ Goes(r, "listing", "done")
  /\ Distrust
  /\ UNCHANGED <<engine, disk, todo, valid, crashes>>

(* Every temporary file listed is unlinked, whoever wrote it, or is left   *)
(* when that fails.                                                        *)
Reap(r) ==
  /\ save[r] = "reaping"
  /\ \E x \in todo[r] : /\ tmp' \in {tmp, [tmp EXCEPT ![x] = "none"]}
                        /\ todo' = [todo EXCEPT ![r] = @ \ {x}]
  /\ UNCHANGED <<engine, file, save, valid, crashes, trust>>

(* The end of a prune.                                                     *)
Ends(r, from) ==
  /\ Goes(r, from, "done")
  /\ valid' = [valid EXCEPT ![r] = {}]
  /\ sure' = sure \ {r}
  /\ pruned' = (pruned \/ r \in sure)

(* At most cap records: nothing to prune.  Else read them all.             *)
Reaped(r) ==
  /\ todo[r] = {}
  /\ \/ /\ Cardinality(valid[r]) <= Cap
        /\ Ends(r, "reaping")
        /\ UNCHANGED todo
     \/ /\ Cardinality(valid[r]) > Cap
        /\ Goes(r, "reaping", "reading")
        /\ todo' = [todo EXCEPT ![r] = valid[r]]
        /\ valid' = [valid EXCEPT ![r] = {}]
        /\ UNCHANGED trust
  /\ UNCHANGED <<engine, disk, crashes>>

(* readRunFile(): a record that is gone by now, or torn, is not `valid`,   *)
(* nor is one that cannot be read.                                         *)
Parsed(x) == IF file[x] = "complete" THEN {x} ELSE {}

ReadFile(r) ==
  /\ save[r] = "reading"
  /\ \E x \in todo[r] :
       /\ todo' = [todo EXCEPT ![r] = @ \ {x}]
       /\ \/ valid' = [valid EXCEPT ![r] = @ \cup Parsed(x)] /\ UNCHANGED trust
          \/ UNCHANGED valid /\ Distrust
  /\ UNCHANGED <<engine, disk, save, crashes>>

(* Slip of Newer: the records are sorted the other way round.              *)
OlderInstead(x, s) == {y \in s : y < x}

Newer(x, s) == {y \in s : y > x}

(* Slip of Excess: one record too many stays.                              *)
ExcessLessOne(s) == {x \in s : Cardinality(Newer(x, s)) > Cap}

(* sort() by startedAt, and slice(0, valid.length - cap): the records with *)
(* Cap newer ones among those read.                                        *)
Excess(s) == {x \in s : Cardinality(Newer(x, s)) >= Cap}

ReadAll(r) ==
  /\ todo[r] = {}
  /\ Goes(r, "reading", "dropping")
  /\ todo' = [todo EXCEPT ![r] = Excess(valid[r])]
  /\ UNCHANGED <<engine, disk, valid, crashes, trust>>

(* They are unlinked one after the other, oldest first; one that cannot be *)
(* stays.                                                                  *)
Drop(r) ==
  /\ save[r] = "dropping"
  /\ \E x \in todo[r] :
       /\ \A y \in todo[r] : x <= y
       /\ todo' = [todo EXCEPT ![r] = @ \ {x}]
       /\ \/ file' = [file EXCEPT ![x] = "none"] /\ UNCHANGED trust
          \/ UNCHANGED file /\ Distrust
  /\ UNCHANGED <<engine, tmp, save, valid, crashes>>

Dropped(r) ==
  /\ todo[r] = {}
  /\ Ends(r, "dropping")
  /\ UNCHANGED <<engine, disk, todo, crashes>>

(* The process exits and is started again: the run in progress and the     *)
(* saves in progress are gone, the files stay.                             *)
SavesInFlight == {r \in Runs : save[r] \notin {"none", "done", "failed", "lost"}}

Crash ==
  /\ crashes < MaxCrashes
  /\ crashes' = crashes + 1
  /\ active' = FALSE
  /\ save' = [r \in Runs |-> IF r \in SavesInFlight THEN "lost" ELSE save[r]]
  /\ todo' = [r \in Runs |-> {}]
  /\ valid' = [r \in Runs |-> {}]
  /\ Distrust
  /\ UNCHANGED <<lastRun, disk>>

-----------------------------------------------------------------------------
Prune(r) == \/ List(r) \/ ListFails(r) \/ Reap(r) \/ Reaped(r) \/ ReadFile(r)
            \/ ReadAll(r) \/ Drop(r) \/ Dropped(r)

SaveStep(r) == \/ Open(r) \/ TmpWritten(r) \/ WriteFails(r) \/ Commit(r)
               \/ Prune(r)

HistoryNext == \/ StartRun
        \/ Settle
        \/ Crash
        \/ \E r \in Runs : SaveStep(r)

HistorySpec == HistoryInit /\ [][HistoryNext]_historyVars

-----------------------------------------------------------------------------
(* Properties                                                              *)

Contents == {"none", "partial", "complete"}
Progress == {"none", "opening", "writing", "renaming", "listing", "reaping",
             "reading", "dropping", "done", "failed", "lost"}

(* The types of the variables.                                             *)
HistoryTypeOK ==
  /\ lastRun \in 0..MaxRuns
  /\ active \in BOOLEAN
  /\ file \in [Runs -> Contents]
  /\ tmp \in [Runs -> Contents]
  /\ save \in [Runs -> Progress]
  /\ todo \in [Runs -> SUBSET Runs]
  /\ valid \in [Runs -> SUBSET Runs]
  /\ crashes \in 0..MaxCrashes
  /\ sure \subseteq Runs
  /\ pruned \in BOOLEAN

(* Whenever the process exits and whichever saves overlap, a record that   *)
(* can be read is a whole one.                                             *)
NoTornRecord == \A r \in Runs : file[r] # "partial"

(* Pruning removes a record only while Cap newer ones are on disk, however *)
(* the prunes of several saves interleave.                                 *)
PrunesOldest ==
  [][\A r \in Named(file) \ Named(file)' :
       Cardinality({x \in Named(file)' : x > r}) >= Cap]_historyVars

(* "Pruning is best-effort [...] an abrupt process exit might leave count  *)
(* > cap until the next save": neither an exit nor a file operation of a   *)
(* prune that failed does so for longer.  Once a prune has listed, read    *)
(* and dropped after the last of them, and none is in progress, the cap    *)
(* holds.                                                                  *)
CapHolds == pruned /\ SavesInFlight = {} => Cardinality(Named(file)) <= Cap

(* "Reap any leftover .tmp files from a crashed prior write": no temporary *)
(* file of a save in progress is reaped.                                   *)
ReapsOnlyLeftovers ==
  [][\A r \in Runs : tmp[r] # "none" /\ tmp'[r] = "none"
                       => r \notin SavesInFlight \/ file'[r] # file[r]]_historyVars
=============================================================================
