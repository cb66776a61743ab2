----------------------------- MODULE MCServices -----------------------------
(***************************************************************************)
(* Small instances of the services around the engine.  They share no state *)
(* with each other, so one run checks them side by side: `part` names the  *)
(* one whose steps a behaviour consists of, and the others stay as they    *)
(* were at the start.                                                      *)
(***************************************************************************)
EXTENDS ChildProcess, HttpCall, Worktrees, CallOutput, Providers, Verdicts, Triggers, RunStatus,
        EventStream

VARIABLE part

-----------------------------------------------------------------------------
(* Children: of the two calls, only the first has a child that forks.      *)
CONSTANTS k1, k2

(* HTTP providers: answers that end properly, end early, and are empty.    *)
MCStreams == {<<"delta", "junk", "delta", "done", "delta">>, <<"delta", "comment", "delta">>, <<>>}
MCManifests == [profile : BOOLEAN, auth : {"none", "inline", "env", "envUnset"}]

(* Worktrees: three executions of node n1, in two repositories, one of n2, *)
(* and three that get no worktree, for three reasons.                      *)
CONSTANTS c1, c2, c3, c4, c5, c6, c7, r1, r2, n1, n2, main
MCNode(c) == IF c \in {c1, c2, c7} THEN n1 ELSE n2
MCTransport(c) == IF c = c4 THEN "invalid" ELSE IF c = c5 THEN "http" ELSE "cli"
MCUseTree(c) == TRUE
MCRepoOf(c) == IF c = c2 THEN r2 ELSE IF c = c6 THEN NoRepo ELSE r1
MCRef(c) == IF c = c2 THEN main ELSE NoRef

MaxCalls == 3    \* bound: how many of the calls are made

(* What children print.                                                    *)
K(kind) == Line(kind, "x")
MCOutputs ==
  {[of |-> "stream", lines |-> <<K("task"), K("reply"), K("noise"), K("blank"), K("delta")>>],
   [of |-> "stream", lines |-> <<Line("task", "y"), K("task"), K("tool"), K("reply"),
                                 K("silent"), Line("reply", "y")>>],
   [of |-> "stream", lines |-> <<K("task"), K("summary"), K("reply")>>],
   [of |-> "plain", lines |-> <<K("delta"), K("blank"), K("noise")>>],
   [of |-> "script", lines |-> <<K("noise"), K("object"), K("noise"), K("object")>>],
   [of |-> "script", lines |-> <<K("indented"), K("noise"), K("broken")>>],
   [of |-> "script", lines |-> <<K("object"), K("noise"), K("indented")>>],
   [of |-> "script", lines |-> <<K("noise"), K("object"), K("glued")>>],
   [of |-> "script", lines |-> <<K("array"), K("noise")>>],
   [of |-> "script", lines |-> <<>>]}

(* Providers: a name twice, and two manifests that are not valid; ports of *)
(* one profile, of one without a name, and a port that is no port.         *)
Manifest(transport, set) == [transport |-> transport, set |-> set, wrong |-> {}]
Base == {"id", "label", "description"}
MCBuiltins ==
  <<[name |-> "claude", manifest |-> Manifest("cli", Base \cup {"bin", "args", "outputFormat"})],
    [name |-> "claude", manifest |-> Manifest("http", Base \cup {"baseUrl", "endpoint", "auth",
                                                                 "token"})],
    [name |-> "bad", manifest |-> Manifest("http", Base \cup {"baseUrl", "endpoint", "auth"})],
    [name |-> "worse", manifest |-> Manifest("other", Base)]>>
Port(port, profile) == [port |-> port, profile |-> profile]
Four == [ok |-> TRUE, ports |-> <<Port(8001, "p"), Port(8002, "p"), Port(8003, "***"), Port(0, "q")>>]
One == [ok |-> TRUE, ports |-> <<Port(8001, "q")>>]
MCJob(w) == IF w = "w1" THEN [op |-> "create", id |-> "b", content |-> One, discover |-> TRUE]
            ELSE IF w = "w2" THEN [op |-> "update", id |-> "a", content |-> One, discover |-> FALSE]
            ELSE [op |-> "delete", id |-> "a", content |-> One, discover |-> FALSE]
MCConnIds == <<"a", "b">>
MCContents == {Four, One}

MaxWrites == 2   \* bound: how many of the writers write

(* At the start the one connection or the other is there.                  *)
MCFiles == {[c \in {"a", "b"} |-> IF c = "a" THEN Four ELSE Absent],
            [c \in {"a", "b"} |-> IF c = "b" THEN One ELSE Absent]}

(* Decisions: Branch with each operator, Condition of each kind, Judge.    *)
MCDecisions ==
  [node : {"branch"}, valid : {TRUE}, op : {"==", "!=", "contains", "matches"},
   rel : {"equal", "contains", "matches", "none", "badRegex"}]
  \cup [node : {"branch"}, valid : {FALSE}, op : {"=="}, rel : {"none"}]
  \cup [node : {"condition"}, kind : {"sentinel", "command", "judge", "unknown"}, valid : BOOLEAN,
        found : BOOLEAN, badRegex : BOOLEAN]
  \cup [node : {"judge"}, valid : BOOLEAN, candidates : 1 .. 2]
MCReplies ==
  [line : {TRUE}, parses : BOOLEAN, object : {TRUE}, winner : {-1, 0, 1, 2}, scores : {<<5, 7>>}]
  \cup [line : BOOLEAN, parses : {TRUE}, object : BOOLEAN, winner : {1},
        scores : {<<5, 7>>, <<5>>, <<5, 11>>}]

(* Triggers: one is replaced, deleted, hit, tested and hit with a body that *)
(* is too long, another created; three at most of the six requests come.   *)
CONSTANTS ta, tb, p1, d1, p2, h1, h2, h3
Trigger(name, plugin, event, match) ==
  [name |-> name, enabled |-> TRUE, plugin |-> plugin, event |-> event, match |-> match,
   secret |-> FALSE, optional |-> FALSE, inputs |-> "ok", fired |-> NoTrigger]
Plugin(id, set, wrong, sends) == [id |-> id, set |-> set, wrong |-> wrong, events |-> sends]
MCPluginFiles ==
  <<Plugin("generic", {"id", "displayName"}, {}, <<"x">>),
    Plugin("hub", {"id", "displayName", "eventHeader", "signature"}, {}, <<"push", "pull">>),
    Plugin("hub", {"id", "displayName"}, {}, <<"push">>),
    Plugin("bad", {"id", "displayName"}, {"signature"}, <<"push">>)>>
MCEdit(w) ==
  IF w = p1 THEN [op |-> "put", id |-> ta,
                  draft |-> [Trigger("new", "hub", "push", {[op |-> "==", rhs |-> "y"]})
                               EXCEPT !.secret = TRUE]]
  ELSE IF w = d1 THEN [op |-> "delete", id |-> ta, draft |-> NoTrigger]
  ELSE [op |-> "post", id |-> tb, draft |-> Trigger("c", "generic", "", {})]
MCHit(h) ==
  IF h = h1 THEN [id |-> ta, long |-> FALSE, event |-> "push", signed |-> TRUE, body |-> "y",
                  test |-> FALSE]
  ELSE [id |-> ta, long |-> h = h3, event |-> "push", signed |-> FALSE, body |-> "z",
        test |-> h = h2]
MCInitial == [i \in TriggerIds |-> IF i = ta THEN Trigger("old", "generic", "", {}) ELSE NoTrigger]
MaxRequests == 3

(* The caller asks about one queue id, whichever it is.                    *)
Asked == {i \in Ids : told[i] # "nothing" \/ poll.id = i}

Requested == {w \in Edits : epc[w] # "new"} \cup {h \in Hits : hpc[h] # "new"}

-----------------------------------------------------------------------------
Parts == {"children", "http", "trees", "output", "providers", "verdicts", "triggers",
          "status", "events"}

(* A part that does not move has one initial state.                        *)
ServicesInit ==
  /\ part \in Parts
  /\ ChildInit
  /\ HttpInit /\ (part # "http" => /\ manifest = CHOOSE m \in Manifests : TRUE
                                   /\ stream = <<>> /\ ~propagates /\ ~callerAborted)
  /\ TreesInit
  /\ OutputInit /\ (part # "output" => child = CHOOSE o \in Outputs : TRUE)
  /\ ProvidersInit /\ files \in MCFiles /\ (part # "providers" => files["a"] = Absent)
  /\ VerdictInit /\ (part # "verdicts" => dec = (CHOOSE d \in Decisions : TRUE) /\ ~vaborted)
  /\ TriggersInit /\ RunStatusInit /\ EventStreamInit

(* UNCHANGED of all parts but one.                                         *)
Still(moving) ==
  /\ UNCHANGED part
  /\ IF moving = "children" THEN TRUE ELSE UNCHANGED childVars
  /\ IF moving = "http" THEN TRUE ELSE UNCHANGED httpVars
  /\ IF moving = "trees" THEN TRUE ELSE UNCHANGED treeVars
  /\ IF moving = "output" THEN TRUE ELSE UNCHANGED outputVars
  /\ IF moving = "providers" THEN TRUE ELSE UNCHANGED providerVars
  /\ IF moving = "verdicts" THEN TRUE ELSE UNCHANGED verdictVars
  /\ IF moving = "triggers" THEN TRUE ELSE UNCHANGED triggerVars
  /\ IF moving = "status" THEN TRUE ELSE UNCHANGED statusVars
  /\ IF moving = "events" THEN TRUE ELSE UNCHANGED streamVars

ServicesNext ==
  \/ /\ part = "children" /\ ChildNext /\ Still("children")
     /\ Helper(k2) \notin up'
  \/ part = "http" /\ HttpNext /\ Still("http")
  \/ /\ part = "trees" /\ TreesNext /\ Still("trees")
     /\ Cardinality({c \in Calls : cpc[c] # "new"}') <= MaxCalls
  \/ part = "output" /\ OutputNext /\ Still("output")
  \/ /\ part = "providers" /\ ProvidersNext /\ Still("providers")
     /\ Cardinality({w \in Writers : wpc[w] # "new"}') <= MaxWrites
  \/ part = "verdicts" /\ VerdictNext /\ Still("verdicts")
  \/ /\ part = "triggers" /\ TriggersNext /\ Still("triggers")
     /\ Cardinality(Requested') <= MaxRequests
  \/ /\ part = "status" /\ RunStatusNext /\ Still("status")
     /\ Cardinality(Asked') <= 1
  \/ part = "events" /\ EventStreamNext /\ Still("events")

serviceVars == <<part, childVars, httpVars, treeVars, outputVars, providerVars, verdictVars, triggerVars,
                 statusVars, streamVars>>

(* Child processes, the HTTP runner and the chains of git commands owe     *)
(* something; see ChildFairness, HttpFairness and TreesFairness.           *)
ServicesSpec == /\ ServicesInit /\ [][ServicesNext]_serviceVars
                /\ ChildFairness /\ HttpFairness /\ TreesFairness

(* The output of children alone.                                           *)
OutputsRun == ServicesInit /\ part = "output" /\ [][ServicesNext]_serviceVars

=============================================================================
