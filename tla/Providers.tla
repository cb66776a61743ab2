----------------------------- MODULE Providers ------------------------------
(***************************************************************************)
(* The providers an agent node can use: the manifests of the providers/    *)
(* directory and the user's Hermes connections, one file each, behind the  *)
(* cache of loader.ts; hermes-local-store.ts, which changes the files and  *)
(* drops that cache; and the list each browser keeps (use-providers.ts).   *)
(*                                                                         *)
(* A load reads one file per turn, so a connection may change under it.    *)
(* Files are written in place: between the two halves of writeFile() a     *)
(* reader finds no JSON.                                                   *)
(***************************************************************************)
EXTENDS Naturals, Sequences, SequencesExt

CONSTANTS
  Builtins,   \* the files of providers/, in reading order: [name, manifest]
  ConnIds,    \* ids a connection may have, in reading order
  Contents,   \* what a connection's file may hold: [ok, ports], ports being a
              \* sequence of [port, profile]
  Writers,    \* requests that change a connection
  Job(_),     \* what a writer asks for: [op, id, content, discover]
  Fetches,    \* requests of the browser for the list
  Absent,     \* no file
  Broken,     \* a file that is no JSON (yet)
  NoValue

ASSUME ProvidersAssumption ==
  /\ DOMAIN Builtins = 1 .. Len(Builtins) /\ DOMAIN ConnIds = 1 .. Len(ConnIds)
  /\ \A c \in Contents : DOMAIN c.ports = 1 .. Len(c.ports)
  /\ Absent \notin Contents /\ Broken \notin Contents
  /\ \A w \in Writers : /\ Job(w).op \in {"create", "update", "delete"}
                        /\ Job(w).id \in Range(ConnIds) /\ Job(w).content \in Contents

VARIABLES
  files,      \* connection id -> its content, Absent or Broken
  cache,      \* loader.ts: what the last load found, or NoValue
  tainted,    \* history: a file changed during the load that filled the cache
  load,       \* fetch -> its loadProviders() in progress
  wpc,        \* writer -> where it is
  reply,      \* writer -> the status of its answer, or 0
  seenList,   \* use-providers.ts: the cached list, or NoValue
  inFlight,   \* the fetch that loadOnce() hands out, or NoValue
  fpc,        \* fetch -> "unused", "loading", "answered", "over"
  answer,     \* fetch -> the list on its way to the browser
  sent,       \* fetches in the order they were sent
  spoiled,    \* history: a list was read while a file changed, did not arrive, or
              \* arrived after that of a later fetch
  toRefresh   \* writers whose modal has yet to call refreshProviders()

serverVars == <<files, cache, tainted, load, wpc, reply>>
browserVars == <<seenList, inFlight, fpc, answer, sent, spoiled, toRefresh>>
providerVars == <<files, cache, tainted, load, wpc, reply, seenList, inFlight, fpc, answer,
                  sent, spoiled, toRefresh>>

NoLoad == [on |-> FALSE, todo |-> {}, got |-> [c \in {} |-> Absent], changed |-> FALSE]

ProvidersInit ==
  /\ files \in [Range(ConnIds) -> Contents \cup {Absent}]
  /\ cache = NoValue /\ tainted = FALSE
  /\ load = [f \in Fetches |-> NoLoad]
  /\ wpc = [w \in Writers |-> "new"] /\ reply = [w \in Writers |-> 0]
  /\ seenList = NoValue /\ inFlight = NoValue
  /\ fpc = [f \in Fetches |-> "unused"] /\ answer = [f \in Fetches |-> NoValue]
  /\ sent = <<>> /\ spoiled = FALSE /\ toRefresh = {}

-----------------------------------------------------------------------------
(* What a file stands for.                                                 *)
ValidCommon(m) == {"id", "label", "description"} \subseteq m.set /\ "glyph" \notin m.wrong

ValidCli(m) == /\ ValidCommon(m)
               /\ {"bin", "args", "outputFormat"} \subseteq m.set
               /\ m.wrong \cap {"args", "outputFormat", "promptVia"} = {}

(* Exactly one of envVar and token.                                        *)
ValidAuth(m) == "auth" \in m.set =>
                  /\ "auth" \notin m.wrong
                  /\ ("envVar" \in m.set) # ("token" \in m.set)

ValidProfiles(m) == "profiles" \notin m.wrong

ValidHttp(m) == /\ ValidCommon(m)
                /\ {"baseUrl", "endpoint"} \subseteq m.set
                /\ m.wrong \cap {"endpoint", "profilesEndpoint", "defaultProfile"} = {}
                /\ ValidAuth(m) /\ ValidProfiles(m)

ValidManifest(m) == \/ m.transport = "cli" /\ ValidCli(m)
                    \/ m.transport = "http" /\ ValidHttp(m)

(* A profile may have no letter or digit to make an id of.                 *)
Slug(profile) == IF profile = "***" THEN "" ELSE profile
PortId(stem, e) == <<stem, Slug(e.profile), IF Slug(e.profile) = "" THEN e.port ELSE 0>>
PlainId(name) == <<name, "", 0>>

(* A manifest and its place in the order of loading.                       *)
Placed(n, k, id, from) == [at |-> <<n, k>>, is |-> [id |-> id, from |-> from]]
Before(a, b) == a[1] < b[1] \/ (a[1] = b[1] /\ a[2] < b[2])

FromBuiltins == {Placed(0, k, PlainId(Builtins[k].name), "providers") :
                   k \in {b \in DOMAIN Builtins : ValidManifest(Builtins[b].manifest)}}

(* expandHermesLocalFile(), of the n-th file: one manifest per usable port.*)
Usable(e) == e.port \in 1 .. 65535 /\ e.profile # ""
Expand(n, content) ==
  IF content \in {Absent, Broken} \/ ~content.ok THEN {}
  ELSE {Placed(n, k, PortId(ConnIds[n], content.ports[k]), ConnIds[n]) :
          k \in {p \in DOMAIN content.ports : Usable(content.ports[p])}}

(* byId: the first manifest of an id wins.                                 *)
FirstWins(all) ==
  {m.is : m \in {x \in all : \A y \in all : y.is.id = x.is.id => ~Before(y.at, x.at)}}

ManifestsOf(got) ==
  FirstWins(FromBuiltins \cup UNION {Expand(n, got[ConnIds[n]]) : n \in DOMAIN ConnIds})

-----------------------------------------------------------------------------
(* loadProviders(): the cache, or the directories as they are listed now.  *)
LoadCached(f) == /\ fpc[f] = "loading" /\ ~load[f].on /\ cache # NoValue
                 /\ fpc' = [fpc EXCEPT ![f] = "answered"]
                 /\ answer' = [answer EXCEPT ![f] = ManifestsOf(cache)]
                 /\ spoiled' = (spoiled \/ tainted)
                 /\ UNCHANGED <<serverVars, seenList, inFlight, sent, toRefresh>>

ListFiles(f) ==
  /\ fpc[f] = "loading" /\ ~load[f].on /\ cache = NoValue
  /\ load' = [load EXCEPT ![f] =
       [on |-> TRUE, todo |-> {n \in DOMAIN ConnIds : files[ConnIds[n]] # Absent},
        got |-> [c \in Range(ConnIds) |-> Absent], changed |-> FALSE]]
  /\ UNCHANGED <<files, cache, tainted, wpc, reply, browserVars>>

ReadFile(f) ==
  /\ load[f].on
  /\ \E n \in load[f].todo :
       /\ \A m \in load[f].todo : n <= m
       /\ load' = [load EXCEPT ![f].todo = @ \ {n}, ![f].got[ConnIds[n]] = files[ConnIds[n]]]
  /\ UNCHANGED <<files, cache, tainted, wpc, reply, browserVars>>

FillCache(f) ==
  /\ load[f].on /\ load[f].todo = {}
  /\ cache' = load[f].got
  /\ tainted' = load[f].changed
  /\ load' = [load EXCEPT ![f] = NoLoad]
  /\ fpc' = [fpc EXCEPT ![f] = "answered"]
  /\ answer' = [answer EXCEPT ![f] = ManifestsOf(load[f].got)]
  /\ spoiled' = (spoiled \/ load[f].changed)
  /\ UNCHANGED <<files, wpc, reply, seenList, inFlight, sent, toRefresh>>

(* History: the loads in progress have seen the file before it changed, or *)
(* may have.                                                               *)
Touch(c, content) ==
  /\ files' = [files EXCEPT ![c] = content]
  /\ load' = [f \in Fetches |-> [load[f] EXCEPT !.changed = load[f].on]]

-----------------------------------------------------------------------------
(* The requests that change a connection.                                  *)
Step(w, s) == wpc' = [wpc EXCEPT ![w] = s]
Answer(w, status) == /\ Step(w, "over")
                     /\ reply' = [reply EXCEPT ![w] = status]
                     /\ toRefresh' = IF status < 400 THEN toRefresh \cup {w} ELSE toRefresh
Quietly == UNCHANGED <<seenList, inFlight, fpc, answer, sent, spoiled>>

(* createConnection() validates, asking each port for its profile, before  *)
(* it looks whether the id is free; updateConnection() looks first.        *)
Begin(w) == /\ wpc[w] = "new"
            /\ Step(w, CASE Job(w).op = "create" -> "validating"
                         [] Job(w).op = "update" -> "reading"
                         [] Job(w).op = "delete" -> "unlinking")
            /\ UNCHANGED <<files, cache, tainted, load, reply, browserVars>>

Validate(w) ==
  /\ wpc[w] = "validating"
  /\ \/ /\ Job(w).content.ok
        /\ Step(w, IF Job(w).op = "create" THEN "choosing" ELSE "writing")
        /\ UNCHANGED <<reply, toRefresh>>
     \/ /\ ~Job(w).content.ok \/ Job(w).discover     \* or a port does not answer
        /\ Answer(w, 400)
  /\ Quietly /\ UNCHANGED <<files, cache, tainted, load>>

Readable(c) == files[c] \notin {Absent, Broken}
Taken(c) == c \in {b.name : b \in Range(Builtins)} \/ Readable(c)

(* isIdTaken(), for an id the user chose.                                  *)
ChooseId(w) == /\ wpc[w] = "choosing"
               /\ IF Taken(Job(w).id) THEN Answer(w, 409)
                  ELSE Step(w, "writing") /\ UNCHANGED <<reply, toRefresh>>
               /\ Quietly /\ UNCHANGED <<files, cache, tainted, load>>

ReadExisting(w) == /\ wpc[w] = "reading"
                   /\ IF Readable(Job(w).id)
                        THEN Step(w, "validating") /\ UNCHANGED <<reply, toRefresh>>
                        ELSE Answer(w, 404)
                   /\ Quietly /\ UNCHANGED <<files, cache, tainted, load>>

(* writeConnection(): writeFile() empties the file, then fills it.         *)
OpenFile(w) == /\ wpc[w] = "writing"
               /\ Step(w, "filling")
               /\ Touch(Job(w).id, Broken)
               /\ UNCHANGED <<cache, tainted, reply, browserVars>>

FillFile(w) == /\ wpc[w] = "filling"
               /\ Step(w, "written")
               /\ Touch(Job(w).id, Job(w).content)
               /\ UNCHANGED <<cache, tainted, reply, browserVars>>

Unlink(w) == /\ wpc[w] = "unlinking"
             /\ IF files[Job(w).id] = Absent
                  THEN Answer(w, 404) /\ UNCHANGED <<files, load>>
                  ELSE /\ Step(w, "written") /\ Touch(Job(w).id, Absent)
                       /\ UNCHANGED <<reply, toRefresh>>
             /\ Quietly /\ UNCHANGED <<cache, tainted>>

(* Slip of ResetCache: a delete leaves the cache alone.                    *)
ResetOnWrite(w) ==
  /\ wpc[w] = "written"
  /\ cache' = IF Job(w).op = "delete" THEN cache ELSE NoValue
  /\ tainted' = (tainted /\ cache' # NoValue)
  /\ Answer(w, 200)
  /\ Quietly /\ UNCHANGED <<files, load>>

(* _resetProviderCache(), in the turn that ends the file operation.        *)
ResetCache(w) ==
  /\ wpc[w] = "written"
  /\ cache' = NoValue /\ tainted' = FALSE
  /\ Answer(w, 200)
  /\ Quietly /\ UNCHANGED <<files, load>>

-----------------------------------------------------------------------------
(* The browser.                                                            *)
Send(f) == /\ fpc' = [fpc EXCEPT ![f] = "loading"]
           /\ inFlight' = f
           /\ sent' = Append(sent, f)

(* useProviders() mounts: loadOnce().                                      *)
Mount(f) == /\ seenList = NoValue /\ inFlight = NoValue /\ fpc[f] = "unused"
            /\ Send(f)
            /\ UNCHANGED <<serverVars, seenList, answer, spoiled, toRefresh>>

(* refreshProviders(), after a change made with this browser.              *)
Refresh(w, f) == /\ w \in toRefresh /\ fpc[f] = "unused"
                 /\ toRefresh' = toRefresh \ {w}
                 /\ seenList' = NoValue
                 /\ Send(f)
                 /\ UNCHANGED <<serverVars, answer, spoiled>>

Later(f) == \E i, j \in DOMAIN sent : i < j /\ sent[i] = f /\ fpc[sent[j]] = "over"

(* then() fills the cache, finally() clears inFlight, whichever fetch it   *)
(* holds by now.                                                           *)
Arrive(f) == /\ fpc[f] = "answered"
             /\ fpc' = [fpc EXCEPT ![f] = "over"]
             /\ seenList' = answer[f]
             /\ spoiled' = (spoiled \/ Later(f))
             /\ inFlight' = NoValue
             /\ UNCHANGED <<serverVars, answer, sent, toRefresh>>

(* An error leaves an empty list, which is kept like any other.            *)
FetchBreaks(f) == /\ fpc[f] \in {"loading", "answered"} /\ ~load[f].on
                  /\ fpc' = [fpc EXCEPT ![f] = "over"]
                  /\ seenList' = {}
                  /\ spoiled' = TRUE
                  /\ inFlight' = NoValue
                  /\ UNCHANGED <<serverVars, answer, sent, toRefresh>>

ProvidersNext ==
  \/ \E f \in Fetches : LoadCached(f) \/ ListFiles(f) \/ ReadFile(f) \/ FillCache(f)
  \/ \E w \in Writers : Begin(w) \/ Validate(w) \/ ChooseId(w) \/ ReadExisting(w)
                          \/ OpenFile(w) \/ FillFile(w) \/ Unlink(w) \/ ResetCache(w)
  \/ \E f \in Fetches : Mount(f) \/ Arrive(f) \/ FetchBreaks(f)
  \/ \E w \in Writers, f \in Fetches : Refresh(w, f)

ProvidersSpec == ProvidersInit /\ [][ProvidersNext]_providerVars

-----------------------------------------------------------------------------
ProvidersTypeOK ==
  /\ files \in [Range(ConnIds) -> Contents \cup {Absent, Broken}]
  /\ cache \in [Range(ConnIds) -> Contents \cup {Absent, Broken}] \cup {NoValue}
  /\ tainted \in BOOLEAN
  /\ \A f \in Fetches : load[f].todo \subseteq DOMAIN ConnIds
  /\ wpc \in [Writers -> {"new", "validating", "choosing", "reading", "writing", "filling",
                          "written", "unlinking", "over"}]
  /\ reply \in [Writers -> {0, 200, 400, 404, 409}]
  /\ fpc \in [Fetches -> {"unused", "loading", "answered", "over"}]
  /\ inFlight \in Fetches \cup {NoValue}
  /\ sent \in Seq(Fetches)
  /\ toRefresh \subseteq Writers

Changing == \E w \in Writers : wpc[w] \in {"filling", "written"}

(* Whenever no change is half done, the server's cache is what a fresh     *)
(* load would find, unless a file changed during the very load that filled *)
(* it; and when the browser has refreshed after each change and all its    *)
(* fetches are in, none spoiled, its list is what is on disk, each id      *)
(* once, the files of providers/ first.  loader.ts:359-408,                *)
(* hermes-local-store.ts:338-399, use-providers.ts:21-48.                  *)
ProviderListFresh ==
  /\ (cache # NoValue /\ ~tainted /\ ~Changing) => cache = files
  /\ (/\ seenList # NoValue /\ ~spoiled /\ ~Changing /\ toRefresh = {}
      /\ \A f \in Fetches : fpc[f] \in {"unused", "over"})
     => seenList = ManifestsOf(files)
  /\ seenList # NoValue =>
       \A m \in seenList : m.from # "providers" =>
         /\ m.id \notin {PlainId(b.name) : b \in {x \in Range(Builtins) : ValidManifest(x.manifest)}}
         /\ \A n \in seenList : n.id = m.id => n = m

(* The provider lists of the server and of the browser, and their types.   *)
ListsAreFresh == ProvidersTypeOK /\ ProviderListFresh
=============================================================================
