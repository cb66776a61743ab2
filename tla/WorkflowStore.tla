---------------------------- MODULE WorkflowStore ----------------------------
(***************************************************************************)
(* The server's workflow files (workflow-store.ts) behind the routes       *)
(* /api/workflows and /api/workflows/[id]: saves that walk the graph of    *)
(* subworkflows for cycles, read the old version, write a temporary file   *)
(* and rename it; the read-only library under the user's directory; and    *)
(* the migration of the triggers that old workflow files hold inline,      *)
(* which every read performs.                                              *)
(*                                                                         *)
(* A file is [subs, version, legacy]: the workflows that it runs, and the  *)
(* ids of its inline triggers.  Requests run concurrently, and every await *)
(* of a save is a step.                                                    *)
(***************************************************************************)
EXTENDS Naturals, Sequences, SequencesExt, FiniteSets

CONSTANTS
  WorkflowIds,   \* ids of workflows
  TriggerIds,    \* ids of triggers
  Library,       \* the library's files, by id
  UserFiles,     \* the user's files at the start, by id
  Saves,         \* clients that save a workflow, each once
  Save(_),       \* [id, subs, valid, get]: what one saves, after a GET or not
  NoFile,        \* no such file
  TornFile       \* a file that was truncated and not written yet

VARIABLES
  user,        \* the user's files
  temp,        \* the temporary files <id>.json.tmp
  writes,      \* save -> the file its descriptor writes: "none", "temp", "user", "gone"
  pc,          \* save -> where it is
  path,        \* save -> the nodes being visited, outermost first: [id, todo]
  cleared,     \* save -> the nodes that have been
  old,         \* save -> the version that it found
  triggers,    \* the ids that have a trigger file
  (* History. *)
  disturbed,   \* two saves, or a save and a delete, ran at the same time, or
               \* a save could not read a workflow that it had to check
  uncovered,   \* a delete uncovered a library workflow
  excused      \* triggers the user deleted, or whose migration's write failed,
               \* or whose workflow was deleted or replaced without being read

storeVars == <<user, temp, writes, pc, path, cleared, old, triggers, disturbed, uncovered,
               excused>>

Files == [subs : SUBSET WorkflowIds, version : Nat, legacy : SUBSET TriggerIds]
IsFile(f) == f \notin {NoFile, TornFile}

(* readWorkflowFile(), when the user's files are u: the library is read    *)
(* where the user has no file.                                             *)
ReadOf(u, w) == IF u[w] = NoFile THEN Library[w] ELSE u[w]

(* With the user's files u no workflow runs itself: what it runs, directly *)
(* or not, is within a set that it is not in.                              *)
RunsOf(u, w) == IF IsFile(ReadOf(u, w)) THEN ReadOf(u, w).subs ELSE {}
Closed(u, S) == \A v \in S : RunsOf(u, v) \subseteq S
Acyclic(u) == \A w \in WorkflowIds :
                \E S \in SUBSET WorkflowIds : Closed(u, S) /\ RunsOf(u, w) \subseteq S /\ w \notin S

ASSUME StoreAssumption ==
  /\ NoFile # TornFile /\ {NoFile, TornFile} \cap Files = {}
  /\ Library \in [WorkflowIds -> Files \cup {NoFile, TornFile}]
  /\ UserFiles \in [WorkflowIds -> Files \cup {NoFile}] /\ Acyclic(UserFiles)
  /\ \A s \in Saves : Save(s).id \in WorkflowIds /\ Save(s).subs \subseteq WorkflowIds

StoreInit ==
  /\ user = UserFiles /\ temp = [w \in WorkflowIds |-> NoFile]
  /\ writes = [s \in Saves |-> "none"] /\ pc = [s \in Saves |-> "idle"]
  /\ path = [s \in Saves |-> <<>>] /\ cleared = [s \in Saves |-> {}]
  /\ old = [s \in Saves |-> 0]
  /\ \E t \in SUBSET TriggerIds : Cardinality(t) <= 1 /\ triggers = t
  /\ disturbed = FALSE /\ uncovered = FALSE /\ excused = {}

Saving(s) == pc[s] \in {"walk", "existing", "open", "write", "rename"}

-----------------------------------------------------------------------------
(* Reading.                                                                *)

Read(w) == ReadOf(user, w)

(* migrateLegacyTriggers(), taken as one step with the read before it: a   *)
(* trigger that has a file is left alone; a write that fails is logged.    *)
(* Only the mkdir() of their directory makes the read itself fail.         *)
Migrate(f) ==
  \E failed \in SUBSET (f.legacy \ triggers) :
    /\ triggers' = triggers \cup (f.legacy \ failed)
    /\ excused' = excused \cup failed

NeedsDir(f) == IsFile(f) /\ f.legacy # {}

Goto(s, at) == pc' = [pc EXCEPT ![s] = at]

(* GET /api/workflows/[id], by a client that will save what it got.        *)
Get(s) ==
  LET f == Read(Save(s).id) IN
  /\ pc[s] = "idle" /\ Save(s).get
  /\ \/ IsFile(f) /\ Migrate(f) /\ Goto(s, "got")
     \/ /\ ~IsFile(f) \/ NeedsDir(f)
        /\ Goto(s, "refused") /\ UNCHANGED <<triggers, excused>>
  /\ UNCHANGED <<user, temp, writes, path, cleared, old, disturbed, uncovered>>

(* listWorkflows(): the user's files that parse, then the library's.       *)
Listed(w) == IF IsFile(user[w]) THEN user[w] ELSE Library[w]

-----------------------------------------------------------------------------
(* Saving.                                                                 *)

(* PUT and POST: hasBasicWorkflowShape(), the id, validateWorkflow().      *)
BeginSave(s) ==
  /\ pc[s] = IF Save(s).get THEN "got" ELSE "idle"
  /\ IF Save(s).valid
     THEN /\ Goto(s, "walk")
          /\ path' = [path EXCEPT ![s] = <<[id |-> Save(s).id, todo |-> Save(s).subs]>>]
          /\ disturbed' = (disturbed \/ \E r \in Saves : Saving(r))
     ELSE Goto(s, "refused") /\ UNCHANGED <<path, disturbed>>
  /\ UNCHANGED <<user, temp, writes, cleared, old, triggers, uncovered, excused>>

(* Slip of Visit: only the children of the workflow itself are looked at.  *)
VisitShallow(s) ==
  /\ pc[s] = "walk" /\ Last(path[s]).todo # {}
  /\ \E w \in Last(path[s]).todo :
       LET rest == Append(Front(path[s]), [Last(path[s]) EXCEPT !.todo = @ \ {w}])
           found == \E k \in 1 .. Len(rest) : rest[k].id = w
       IN /\ path' = [path EXCEPT ![s] = rest]
          /\ IF found THEN Goto(s, "refused") ELSE UNCHANGED pc
  /\ UNCHANGED <<user, temp, writes, cleared, old, triggers, disturbed, uncovered, excused>>

(* validateNoSubworkflowCycles(): visit() for the next child.  One that    *)
(* was cleared is skipped, an ancestor is a cycle; another is read, and    *)
(* cleared at once when that fails.                                        *)
Visit(s) ==
  /\ pc[s] = "walk" /\ Last(path[s]).todo # {}
  /\ \E w \in Last(path[s]).todo :
       LET rest == Append(Front(path[s]), [Last(path[s]) EXCEPT !.todo = @ \ {w}])
           found == \E k \in 1 .. Len(rest) : rest[k].id = w
           skip == found \/ w \in cleared[s]
       IN /\ path' = [path EXCEPT ![s] = IF skip \/ ~IsFile(Read(w)) THEN rest
                                         ELSE Append(rest, [id |-> w, todo |-> Read(w).subs])]
          /\ cleared' = [cleared EXCEPT ![s] = IF ~skip /\ ~IsFile(Read(w)) THEN @ \cup {w} ELSE @]
          /\ IF ~skip /\ IsFile(Read(w)) THEN Migrate(Read(w))
             ELSE UNCHANGED <<triggers, excused>>
          /\ IF found THEN Goto(s, "refused") ELSE UNCHANGED pc
  /\ UNCHANGED <<user, temp, writes, old, disturbed, uncovered>>

(* The next child cannot be read, for there is no directory for its inline *)
(* triggers: it is cleared unseen.                                         *)
VisitFails(s) ==
  /\ pc[s] = "walk"
  /\ \E w \in Last(path[s]).todo :
       LET rest == Append(Front(path[s]), [Last(path[s]) EXCEPT !.todo = @ \ {w}])
       IN /\ NeedsDir(Read(w)) /\ w \notin cleared[s]
          /\ \A k \in 1 .. Len(rest) : rest[k].id # w
          /\ path' = [path EXCEPT ![s] = rest]
          /\ cleared' = [cleared EXCEPT ![s] = @ \cup {w}]
  /\ disturbed' = TRUE
  /\ UNCHANGED <<user, temp, writes, pc, old, triggers, uncovered, excused>>

(* A node whose children have all been visited is cleared.                 *)
Leave(s) ==
  /\ pc[s] = "walk" /\ Last(path[s]).todo = {}
  /\ path' = [path EXCEPT ![s] = Front(@)]
  /\ cleared' = [cleared EXCEPT ![s] = @ \cup {Last(path[s]).id}]
  /\ IF Len(path[s]) = 1 THEN Goto(s, "existing") ELSE UNCHANGED pc
  /\ UNCHANGED <<user, temp, writes, old, triggers, disturbed, uncovered, excused>>

(* The version to go on from; a file that cannot be parsed ends the save.  *)
ReadExisting(s) ==
  LET f == Read(Save(s).id) IN
  /\ pc[s] = "existing"
  /\ Goto(s, IF f = TornFile THEN "refused" ELSE "open")
  /\ old' = [old EXCEPT ![s] = IF IsFile(f) THEN f.version ELSE 0]
  /\ UNCHANGED <<user, temp, writes, path, cleared, triggers, disturbed, uncovered, excused>>

(* fs.writeFile() opens and truncates the file ...                         *)
OpenTemp(s) ==
  /\ pc[s] = "open" /\ Goto(s, "write")
  /\ temp' = [temp EXCEPT ![Save(s).id] = TornFile]
  /\ writes' = [writes EXCEPT ![s] = "temp"]
  /\ UNCHANGED <<user, path, cleared, old, triggers, disturbed, uncovered, excused>>

(* ... and writes to it, wherever it has been renamed to.                  *)
WriteTemp(s) ==
  LET w == Save(s).id
      new == [subs |-> Save(s).subs, version |-> old[s] + 1, legacy |-> {}]
  IN
  /\ pc[s] = "write" /\ Goto(s, "rename")
  /\ temp' = IF writes[s] = "temp" THEN [temp EXCEPT ![w] = new] ELSE temp
  /\ user' = IF writes[s] = "user" THEN [user EXCEPT ![w] = new] ELSE user
  /\ UNCHANGED <<writes, path, cleared, old, triggers, disturbed, uncovered, excused>>

(* rename() takes the file from every save that has it open, and the old   *)
(* one from those that had that; it fails when the file is gone.           *)
RenameTemp(s) ==
  LET w == Save(s).id IN
  /\ pc[s] = "rename"
  /\ IF temp[w] = NoFile
     THEN Goto(s, "refused") /\ UNCHANGED <<user, temp, writes, excused>>
     ELSE /\ Goto(s, "done")
          /\ user' = [user EXCEPT ![w] = temp[w]] /\ temp' = [temp EXCEPT ![w] = NoFile]
          /\ writes' = [r \in Saves |-> IF Save(r).id # w \/ writes[r] = "none" THEN writes[r]
                                        ELSE IF writes[r] = "temp" THEN "user" ELSE "gone"]
          /\ excused' = IF ~Save(s).get /\ IsFile(user[w]) THEN excused \cup user[w].legacy
                        ELSE excused
  /\ UNCHANGED <<path, cleared, old, triggers, disturbed, uncovered>>

-----------------------------------------------------------------------------
(* DELETE /api/workflows/[id]: the user's file only.                       *)
Delete(w) ==
  /\ user[w] # NoFile
  /\ user' = [user EXCEPT ![w] = NoFile]
  /\ writes' = [r \in Saves |-> IF Save(r).id = w /\ writes[r] = "user" THEN "gone" ELSE writes[r]]
  /\ uncovered' = (uncovered \/ IsFile(Library[w]))
  /\ excused' = IF IsFile(user[w]) THEN excused \cup user[w].legacy ELSE excused
  /\ disturbed' = (disturbed \/ \E s \in Saves : Saving(s))
  /\ UNCHANGED <<temp, pc, path, cleared, old, triggers>>

(* The trigger store deletes a trigger.                                    *)
DeleteTrigger(t) ==
  /\ t \in triggers
  /\ triggers' = triggers \ {t} /\ excused' = excused \cup {t}
  /\ UNCHANGED <<user, temp, writes, pc, path, cleared, old, disturbed, uncovered>>

StoreNext ==
  \/ \E s \in Saves : \/ Get(s) \/ BeginSave(s) \/ Visit(s) \/ VisitFails(s) \/ Leave(s)
                      \/ ReadExisting(s) \/ OpenTemp(s) \/ WriteTemp(s) \/ RenameTemp(s)
  \/ \E w \in WorkflowIds : Delete(w)
  \/ \E t \in TriggerIds : DeleteTrigger(t)

StoreSpec == StoreInit /\ [][StoreNext]_storeVars

-----------------------------------------------------------------------------
(* Properties                                                              *)

StoreTypeOK ==
  /\ \A w \in WorkflowIds : {user[w], temp[w]} \subseteq Files \cup {NoFile, TornFile}
  /\ writes \in [Saves -> {"none", "temp", "user", "gone"}]
  /\ pc \in [Saves -> {"idle", "got", "walk", "existing", "open", "write", "rename", "done",
                       "refused"}]
  /\ \A s \in Saves : /\ pc[s] = "walk" => path[s] # <<>>
                      /\ \A k \in 1 .. Len(path[s]) : path[s][k].id \notin cleared[s]
  /\ cleared \in [Saves -> SUBSET WorkflowIds] /\ old \in [Saves -> Nat]
  /\ triggers \subseteq TriggerIds /\ excused \subseteq TriggerIds
  /\ disturbed \in BOOLEAN /\ uncovered \in BOOLEAN

(* As long as no two saves, and no save and delete, overlap, no check of a *)
(* save fails to read a workflow that is there, and no delete uncovers a   *)
(* library workflow, no sequence of saves and deletes leaves a workflow    *)
(* that runs itself, through the user's files and the library's, or a file *)
(* that cannot be read, and the list shows what a GET returns.             *)
SubworkflowsAcyclic ==
  ~disturbed => /\ ~uncovered => Acyclic(user)
                /\ \A w \in WorkflowIds : user[w] # TornFile /\ Listed(w) = Read(w)

(* An inline trigger of an old workflow file has a trigger file or is      *)
(* still inline, unless the user deleted it or its workflow, its write     *)
(* failed, or its workflow was replaced by a client that never read it.    *)
LegacyTriggersSurvive ==
  \A w \in WorkflowIds :
    IsFile(UserFiles[w]) =>
      \A t \in UserFiles[w].legacy :
        t \in triggers \cup excused \/ (IsFile(user[w]) /\ t \in user[w].legacy)

(* The files of workflows: no sequence of saves, deletes and migrations    *)
(* makes a workflow run itself, no inline trigger is lost on the way, and  *)
(* the types.                                                              *)
FilesHold == StoreTypeOK /\ SubworkflowsAcyclic /\ LegacyTriggersSurvive
=============================================================================
