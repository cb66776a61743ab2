------------------------------ MODULE Triggers ------------------------------
(***************************************************************************)
(* Webhook triggers: the files of trigger-store.ts, the in-memory index of *)
(* trigger-index.ts, the routes that create, replace and delete a trigger, *)
(* the stamp that the trigger queue puts on a fired one, and the webhook   *)
(* requests that read the index and are queued as runs.                    *)
(*                                                                         *)
(* A file is written to "<file>.tmp" and renamed.  The name of that file   *)
(* is shared by all writers of a trigger: two of them write into the same  *)
(* file, and after one renames it the other still writes into it.          *)
(***************************************************************************)
EXTENDS Naturals, FiniteSets, Sequences, SequencesExt

CONSTANTS
  TriggerIds,   \* ids of triggers
  PluginFiles,  \* the files of webhook-plugins/, in reading order
  Edits,        \* requests that change a trigger
  Edit(_),      \* what such a request asks for: [op, id, draft]
  Hits,         \* webhook requests
  Hit(_),       \* what a webhook request carries:
                \*   [id, long, event, signed, body, test]
  Initial,      \* the triggers on file at first: a function on TriggerIds
  NoTrigger,    \* no file, no entry
  TornFile      \* a file that is not JSON

\* What a file of a trigger holds; `fired` is the request stamped last.
TriggerRecords ==
  [name : STRING, enabled : BOOLEAN, plugin : STRING, event : STRING,
   match : SUBSET [op : STRING, rhs : STRING], secret : BOOLEAN, optional : BOOLEAN,
   inputs : STRING, fired : Hits \cup {NoTrigger}]

ASSUME TriggersAssumption ==
  /\ Edits \cap Hits = {}
  /\ NoTrigger # TornFile /\ {NoTrigger, TornFile} \cap TriggerRecords = {}
  /\ \A e \in Edits : /\ Edit(e).op \in {"post", "put", "delete"} /\ Edit(e).id \in TriggerIds
                      /\ Edit(e).op # "delete" => Edit(e).draft \in TriggerRecords
  /\ \A h \in Hits : Hit(h).id \in TriggerIds
  /\ Initial \in [TriggerIds -> TriggerRecords \cup {NoTrigger}]

VARIABLES
  onDisk,     \* id -> its file
  onTmp,      \* id -> its .tmp file
  fd,         \* writer -> the file its open descriptor leads to
  epc,        \* writer -> where it is
  found,      \* writer -> the trigger it read
  index,      \* TriggerIndex.cache: id -> trigger, or NoTrigger
  building,   \* TriggerIndex.building: the build that lookups join
  build,      \* request -> the build it started
  hpc,        \* webhook request -> where it is
  joined,     \* webhook request -> the build it waits for
  hit,        \* webhook request -> the trigger that the lookup gave
  status,     \* request -> the status of its answer, or 0
  meant,      \* history: id -> the trigger that the requests so far amount to
  fresh,      \* history: id -> what a lookup may give now
  given,      \* history: request -> what its lookup may have given
  clash       \* history: ids whose file two writers changed at once, or
              \* changed while a build was reading

editVars == <<onDisk, onTmp, fd, epc, found, meant>>
indexVars == <<index, building, build>>
hookVars == <<hpc, joined, hit>>
triggerVars == <<onDisk, onTmp, fd, epc, found, index, building, build, hpc,
                 joined, hit, status, meant, fresh, given, clash>>

\* A run of a request stamps its trigger: the writers are edits and requests.
WritersOf == Edits \cup Hits
IdOf(w) == IF w \in Edits THEN Edit(w).id ELSE Hit(w).id
NoBuild == [on |-> FALSE, todo |-> {}, got |-> [i \in TriggerIds |-> NoTrigger]]

TriggersInit ==
  /\ onDisk = Initial
  /\ onTmp = [i \in TriggerIds |-> NoTrigger]
  /\ fd = [w \in WritersOf |-> "closed"]
  /\ epc = [w \in WritersOf |-> "new"]
  /\ found = [w \in WritersOf |-> NoTrigger]
  /\ index = NoTrigger /\ building = NoTrigger
  /\ build = [h \in Hits |-> NoBuild]
  /\ hpc = [h \in Hits |-> "new"]
  /\ joined = [h \in Hits |-> NoTrigger] /\ hit = [h \in Hits |-> NoTrigger]
  /\ status = [w \in WritersOf |-> 0]
  /\ meant = Initial
  /\ fresh = [i \in TriggerIds |-> {Initial[i]}]
  /\ given = [h \in Hits |-> {}]
  /\ clash = {}

-----------------------------------------------------------------------------
(* Plugins.  The index of plugins is built like that of triggers, but the  *)
(* files of webhook-plugins/ do not change while the server runs.          *)
ValidPlugin(p) ==
  /\ {"id", "displayName"} \subseteq p.set
  /\ p.wrong \cap {"eventHeader", "signature"} = {}
  /\ p.events # <<>> /\ IsInjective(p.events)

Generic == [id |-> "generic", eventHeader |-> FALSE, events |-> {}, signature |-> FALSE]
AsPlugin(p) == [id |-> p.id, eventHeader |-> "eventHeader" \in p.set,
                events |-> ToSet(p.events), signature |-> "signature" \in p.set]

(* loadPlugins(): the built-in plugin, then the first valid one of an id.  *)
Plugins ==
  LET valid == SelectSeq(PluginFiles, ValidPlugin)
  IN {Generic} \cup
     {AsPlugin(valid[k]) : k \in {j \in 1 .. Len(valid) :
        /\ valid[j].id # "generic"
        /\ \A l \in 1 .. j - 1 : valid[l].id # valid[j].id}}

PluginOf(t) == CHOOSE p \in Plugins : p.id = t.plugin
HasPlugin(t) == \E p \in Plugins : p.id = t.plugin

(* validateTriggerAgainstPlugin(): a signing plugin wants a secret, or to  *)
(* be told that there is none.                                             *)
Verifiable(t) == PluginOf(t).signature => t.secret \/ t.optional

(* validateTrigger() up to its read of the workflow.                       *)
ValidTrigger(t) ==
  /\ t.name # ""
  /\ HasPlugin(t)
  /\ PluginOf(t).eventHeader => t.event \in PluginOf(t).events
  /\ \A p \in t.match : p.op \in {"==", "!=", "contains", "matches"}

-----------------------------------------------------------------------------
(* History.                                                                *)
Looking == {h \in Hits : hpc[h] = "looking"}

(* The file of id becomes t.                                               *)
Changes(id, t) ==
  /\ onDisk' = [onDisk EXCEPT ![id] = t]
  /\ fresh' = [fresh EXCEPT ![id] = @ \cup {t}]
  /\ given' = [h \in Hits |-> IF h \in Looking /\ Hit(h).id = id
                             THEN given[h] \cup {t} ELSE given[h]]

(* Writers that have read the trigger, and have yet to replace it.         *)
Replacing(id) == {w \in WritersOf : IdOf(w) = id /\ epc[w] \in {"open", "write", "rename"}}
BuildsRunning == \E h \in Hits : build[h].on

Clashes(w, id) == clash' = IF Replacing(id) \ {w} # {} \/ BuildsRunning
                           THEN clash \cup {id} ELSE clash

-----------------------------------------------------------------------------
(* The writers.                                                            *)
GoesTo(w, place) == epc' = [epc EXCEPT ![w] = place]
Refused(w, code) == /\ GoesTo(w, "over")
                    /\ status' = [status EXCEPT ![w] = code]

(* POST takes a fresh id; PUT confirms that the trigger exists.            *)
EditArrives(w) ==
  /\ epc[w] = "new"
  /\ CASE Edit(w).op = "post" -> /\ onDisk[IdOf(w)] = NoTrigger
                                 /\ GoesTo(w, "validate") /\ UNCHANGED status
       [] Edit(w).op = "put" -> IF onDisk[IdOf(w)] = NoTrigger THEN Refused(w, 404)
                                ELSE GoesTo(w, "validate") /\ UNCHANGED status
       [] Edit(w).op = "delete" -> GoesTo(w, "unlink") /\ UNCHANGED status
  /\ UNCHANGED <<onDisk, onTmp, fd, found, meant, indexVars, hookVars, fresh, given,
                 clash>>

(* The plugin's rule, validateTrigger(), and the read of the workflow,     *)
(* which may be gone.                                                      *)
ValidateEdit(w) ==
  /\ epc[w] = "validate"
  /\ LET t == Edit(w).draft IN
     \/ /\ HasPlugin(t) => Verifiable(t)
        /\ ValidTrigger(t) /\ t.inputs # "undeclared"
        /\ GoesTo(w, "read") /\ UNCHANGED status
     \/ Refused(w, 400)
  /\ UNCHANGED <<onDisk, onTmp, fd, found, meant, indexVars, hookVars, fresh, given,
                 clash>>

(* saveTrigger() and touchLastFired() read the file they replace.          *)
ReadTarget(w) ==
  /\ epc[w] = "read"
  /\ found' = [found EXCEPT ![w] = onDisk[IdOf(w)]]
  /\ IF onDisk[IdOf(w)] = TornFile \/ (w \in Hits /\ onDisk[IdOf(w)] = NoTrigger)
     THEN IF w \in Hits THEN GoesTo(w, "over") /\ UNCHANGED status ELSE Refused(w, 400)
     ELSE GoesTo(w, "open") /\ UNCHANGED status
  /\ UNCHANGED <<onDisk, onTmp, fd, meant, indexVars, hookVars, fresh, given, clash>>

(* What is written: a save keeps lastFiredAt, a stamp the rest.            *)
Replacement(w) ==
  IF w \in Hits THEN [found[w] EXCEPT !.fired = w]
  ELSE [Edit(w).draft EXCEPT !.fired =
          IF found[w] = NoTrigger THEN NoTrigger ELSE found[w].fired]

(* writeFile() empties the .tmp file, whoever is writing it, ...           *)
OpenTmp(w) ==
  /\ epc[w] = "open"
  /\ GoesTo(w, "write")
  /\ fd' = [fd EXCEPT ![w] = "tmp"]
  /\ onTmp' = [onTmp EXCEPT ![IdOf(w)] = TornFile]
  /\ UNCHANGED <<onDisk, found, meant, indexVars, hookVars, status, fresh, given, clash>>

(* ... and writes to whatever name that file has by now.                   *)
WriteTmp(w) ==
  /\ epc[w] = "write"
  /\ GoesTo(w, "rename")
  /\ IF fd[w] = "target" THEN Changes(IdOf(w), Replacement(w)) /\ UNCHANGED onTmp
     ELSE /\ onTmp' = IF fd[w] = "tmp" THEN [onTmp EXCEPT ![IdOf(w)] = Replacement(w)]
                      ELSE onTmp
          /\ UNCHANGED <<onDisk, fresh, given>>
  /\ UNCHANGED <<fd, found, meant, indexVars, hookVars, status, clash>>

RenameTmp(w) ==
  /\ epc[w] = "rename" /\ onTmp[IdOf(w)] # NoTrigger
  /\ GoesTo(w, "changed")
  /\ Changes(IdOf(w), onTmp[IdOf(w)])
  /\ onTmp' = [onTmp EXCEPT ![IdOf(w)] = NoTrigger]
  /\ fd' = [v \in WritersOf |->
              CASE v = w -> "closed"
                [] v # w /\ IdOf(v) = IdOf(w) /\ fd[v] = "tmp" -> "target"
                [] v # w /\ IdOf(v) = IdOf(w) /\ fd[v] = "target" -> "gone"
                [] OTHER -> fd[v]]
  /\ meant' = [meant EXCEPT ![IdOf(w)] =
                 CASE w \in Edits -> [Edit(w).draft EXCEPT !.fired =
                                         IF meant[IdOf(w)] = NoTrigger THEN NoTrigger
                                         ELSE meant[IdOf(w)].fired]
                   [] w \in Hits /\ @ # NoTrigger -> [@ EXCEPT !.fired = w]
                   [] OTHER -> @]
  /\ Clashes(w, IdOf(w))
  /\ UNCHANGED <<found, indexVars, hookVars, status>>

(* Another writer has renamed the .tmp file: the request, or the stamp,    *)
(* fails, and the index is not told.                                       *)
RenameFails(w) ==
  /\ epc[w] = "rename" /\ onTmp[IdOf(w)] = NoTrigger
  /\ IF w \in Hits THEN GoesTo(w, "over") /\ UNCHANGED status ELSE Refused(w, 400)
  /\ fd' = [fd EXCEPT ![w] = "closed"]
  /\ UNCHANGED <<onDisk, onTmp, found, meant, indexVars, hookVars, fresh, given, clash>>

UnlinkTrigger(w) ==
  /\ epc[w] = "unlink"
  /\ IF onDisk[IdOf(w)] = NoTrigger
     THEN /\ Refused(w, 404)
          /\ UNCHANGED <<onDisk, fd, meant, fresh, given, clash>>
     ELSE /\ GoesTo(w, "changed")
          /\ Changes(IdOf(w), NoTrigger)
          /\ fd' = [v \in WritersOf |-> IF IdOf(v) = IdOf(w) /\ fd[v] = "target"
                                        THEN "gone" ELSE fd[v]]
          /\ meant' = [meant EXCEPT ![IdOf(w)] = NoTrigger]
          /\ Clashes(w, IdOf(w))
          /\ UNCHANGED status
  /\ UNCHANGED <<onTmp, found, indexVars, hookVars>>

(* History: the lookups from now on see the change, unless another change  *)
(* of the same file has yet to be announced.                               *)
Announced(w) ==
  fresh' = IF \E v \in WritersOf \ {w} : IdOf(v) = IdOf(w) /\ epc[v] = "changed"
           THEN fresh ELSE [fresh EXCEPT ![IdOf(w)] = {onDisk[IdOf(w)]}]
Acknowledged(w) == /\ GoesTo(w, "over")
                   /\ status' = IF w \in Edits THEN [status EXCEPT ![w] = 200] ELSE status

(* Slip of Invalidate: a stamp is not announced.                           *)
InvalidateEdits(w) ==
  /\ epc[w] = "changed"
  /\ Acknowledged(w) /\ Announced(w)
  /\ index' = IF w \in Hits THEN index ELSE NoTrigger
  /\ building' = IF w \in Hits THEN building ELSE NoTrigger
  /\ UNCHANGED <<onDisk, onTmp, fd, found, meant, build, hookVars, given, clash>>

(* The last step of a writer: triggerIndex.invalidate().                   *)
Invalidate(w) ==
  /\ epc[w] = "changed"
  /\ Acknowledged(w) /\ Announced(w)
  /\ index' = NoTrigger /\ building' = NoTrigger
  /\ UNCHANGED <<onDisk, onTmp, fd, found, meant, build, hookVars, given, clash>>

-----------------------------------------------------------------------------
(* The webhook requests.                                                   *)
Ends(h, code) == /\ hpc' = [hpc EXCEPT ![h] = "over"]
                 /\ status' = [status EXCEPT ![h] = code]

(* A body whose header says that it is too long, and the test of a trigger *)
(* that is not on file, or cannot be parsed, are refused before the lookup.*)
RefuseHit(h) ==
  /\ hpc[h] = "new"
  /\ \/ Hit(h).test /\ onDisk[Hit(h).id] = NoTrigger /\ Ends(h, 404)
     \/ Hit(h).test /\ onDisk[Hit(h).id] = TornFile /\ Ends(h, 500)
     \/ ~Hit(h).test /\ Hit(h).long /\ Ends(h, 413)
  /\ UNCHANGED <<editVars, indexVars, joined, hit, fresh, given, clash>>

(* A lookup: the test of a trigger confirms that it is on file.            *)
ComesIn(h) == hpc[h] = "new" /\ (Hit(h).test => onDisk[Hit(h).id] \notin {NoTrigger, TornFile})

(* lookup(): from the index, from the build in progress, or from a build   *)
(* of its own.  readdir() lists the files when the build starts.           *)
LookUp(h) ==
  /\ ComesIn(h)
  /\ given' = [given EXCEPT ![h] = fresh[Hit(h).id]]
  /\ IF index # NoTrigger
     THEN /\ hpc' = [hpc EXCEPT ![h] = "route"]
          /\ hit' = [hit EXCEPT ![h] = index[Hit(h).id]]
          /\ UNCHANGED <<joined, building, build>>
     ELSE /\ building # NoTrigger => build[building].on
          /\ hpc' = [hpc EXCEPT ![h] = "looking"]
          /\ joined' = [joined EXCEPT ![h] = IF building = NoTrigger THEN h ELSE building]
          /\ building' = joined'[h]
          /\ build' = IF building # NoTrigger THEN build
                      ELSE [build EXCEPT ![h] =
                              [NoBuild EXCEPT !.on = TRUE,
                                              !.todo = {i \in TriggerIds : onDisk[i] # NoTrigger}]]
          /\ UNCHANGED hit
  /\ UNCHANGED <<editVars, index, status, fresh, clash>>

(* readdir() fails: nothing takes the rejected promise out of `building`,  *)
(* and the lookups that join it fail too, until the next invalidate().     *)
LookUpFails(h) ==
  /\ ComesIn(h)
  /\ index = NoTrigger /\ (building # NoTrigger => ~build[building].on)
  /\ building' = IF building = NoTrigger THEN h ELSE building
  /\ Ends(h, 500)
  /\ UNCHANGED <<editVars, index, build, joined, hit, fresh, given, clash>>

(* listTriggers(): the files are read one after the other, and one that    *)
(* cannot be read or parsed is skipped.                                    *)
ReadTrigger(h) ==
  /\ build[h].on
  /\ \E i \in build[h].todo :
       build' = [build EXCEPT ![h].todo = @ \ {i},
                              ![h].got[i] = IF onDisk[i] = TornFile THEN NoTrigger ELSE onDisk[i]]
  /\ UNCHANGED <<editVars, index, building, hookVars, status, fresh, given, clash>>

(* The build fills the index, whatever was announced since it started, and *)
(* every lookup that joined it goes on.                                    *)
FinishBuild(h) ==
  /\ build[h].on /\ build[h].todo = {}
  /\ LET with == {g \in Hits : hpc[g] = "looking" /\ joined[g] = h} IN
     /\ hpc' = [g \in Hits |-> IF g \in with THEN "route" ELSE hpc[g]]
     /\ hit' = [g \in Hits |-> IF g \in with THEN build[h].got[Hit(g).id] ELSE hit[g]]
  /\ index' = build[h].got /\ building' = NoTrigger
  /\ build' = [build EXCEPT ![h] = NoBuild]
  /\ UNCHANGED <<editVars, joined, status, fresh, given, clash>>

(* Without a token that matches, or without a trigger that is enabled and  *)
(* has a plugin, nothing is found; another event is none of its business;  *)
(* the body is read, which may fail, and may be longer than its header     *)
(* said; a signature must match where the plugin signs.                    *)
RouteHit(h) ==
  /\ hpc[h] = "route"
  /\ LET t == hit[h]
         p == PluginOf(t)
     IN IF t = NoTrigger \/ ~t.enabled \/ ~HasPlugin(t) THEN Ends(h, 404)
        ELSE IF p.eventHeader /\ Hit(h).event # t.event THEN Ends(h, 204)
        ELSE \/ Ends(h, 400)
             \/ IF Hit(h).long THEN Ends(h, 413)
                ELSE IF p.signature /\ t.secret /\ ~Hit(h).signed THEN Ends(h, 401)
                ELSE IF p.signature /\ ~t.secret /\ ~t.optional THEN Ends(h, 500)
                ELSE hpc' = [hpc EXCEPT ![h] = "match"] /\ UNCHANGED status
  /\ UNCHANGED <<editVars, indexVars, joined, hit, fresh, given, clash>>

(* evaluatePredicate(); an invalid regular expression does not match.      *)
PredicateHolds(p, body) ==
  \/ p.op = "==" /\ body = p.rhs
  \/ p.op = "!=" /\ body # p.rhs
  \/ p.op \in {"contains", "matches"} /\ p.rhs # "(" /\ p.rhs \in {body, ""}

(* The workflow is read, and may be gone; the predicates and the inputs    *)
(* decide; the queue takes the request unless it is full.                  *)
MatchHit(h) ==
  /\ hpc[h] = "match"
  /\ \/ Ends(h, 404)
     \/ IF \E p \in hit[h].match : ~PredicateHolds(p, Hit(h).body) THEN Ends(h, 204)
        ELSE IF hit[h].inputs = "invalid" THEN Ends(h, 422)
        ELSE Ends(h, 202) \/ Ends(h, 503)
  /\ UNCHANGED <<editVars, indexVars, joined, hit, fresh, given, clash>>

(* The run of an accepted request has started: drain() stamps its trigger, *)
(* one at a time.                                                          *)
TouchLastFired(h) ==
  /\ status[h] = 202 /\ epc[h] = "new"
  /\ \A g \in Hits : epc[g] \in {"new", "over"}
  /\ GoesTo(h, "read")
  /\ UNCHANGED <<onDisk, onTmp, fd, found, meant, indexVars, hookVars, status, fresh,
                 given, clash>>

-----------------------------------------------------------------------------
WriterNext(w) == \/ ReadTarget(w) \/ OpenTmp(w) \/ WriteTmp(w) \/ RenameTmp(w)
                 \/ RenameFails(w) \/ Invalidate(w)
EditNext(w) == EditArrives(w) \/ ValidateEdit(w) \/ UnlinkTrigger(w)
HitNext(h) == \/ RefuseHit(h) \/ LookUp(h) \/ LookUpFails(h) \/ ReadTrigger(h)
              \/ FinishBuild(h) \/ RouteHit(h) \/ MatchHit(h) \/ TouchLastFired(h)

TriggersNext == \/ \E w \in WritersOf : WriterNext(w)
                \/ \E w \in Edits : EditNext(w)
                \/ \E h \in Hits : HitNext(h)

TriggersSpec == TriggersInit /\ [][TriggersNext]_triggerVars

-----------------------------------------------------------------------------
(* Properties                                                              *)

(* The types of the variables that are not records.                        *)
TriggersTypeOK ==
  /\ DOMAIN onDisk = TriggerIds /\ DOMAIN onTmp = TriggerIds
  /\ fd \in [WritersOf -> {"closed", "tmp", "target", "gone"}]
  /\ epc \in [WritersOf -> {"new", "validate", "read", "open", "write", "rename", "unlink",
                            "changed", "over"}]
  /\ building \in Hits \cup {NoTrigger}
  /\ hpc \in [Hits -> {"new", "looking", "route", "match", "over"}]
  /\ status \in [WritersOf -> {0, 200, 202, 204, 400, 401, 404, 413, 422, 500, 503}]
  /\ clash \subseteq TriggerIds

(* A webhook request is judged by a trigger as it was on file while the    *)
(* request was looked up: once an edit, a deletion or a stamp has been     *)
(* answered, no later request is judged by what was there before.  Not so  *)
(* for a file that changed while a build was reading, or that two writers  *)
(* wrote at once: that build fills the index after it was invalidated.     *)
JudgedByCurrentTrigger ==
  \A h \in Hits : hpc[h] \in {"route", "match"} /\ Hit(h).id \notin clash => hit[h] \in given[h]

(* No change is lost: as long as no two writers overlap, the file of a     *)
(* trigger is what the saves, deletions and stamps so far amount to.       *)
ChangesStand ==
  \A i \in TriggerIds \ clash : onDisk[i] = meant[i]

(* Webhooks are judged by the trigger as last changed, changes stand, and  *)
(* the types.                                                              *)
TriggersHold == TriggersTypeOK /\ JudgedByCurrentTrigger /\ ChangesStand
=============================================================================
