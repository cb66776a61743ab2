----------------------------- MODULE Worktrees ------------------------------
(***************************************************************************)
(* The worktrees of one run: RunWorktreesImpl (worktree-manager.ts) and    *)
(* the agent executor (nodes/agent.ts) that opens them.                    *)
(*                                                                         *)
(* A call is one execution of an agent node: several run at once in the    *)
(* branches of a Parallel node, and one node runs many times in a loop, or *)
(* at the same time in two subworkflows that share its id.  The engine     *)
(* calls cleanupAll() when the walk of the run has returned, that is when  *)
(* no call is in progress and none will begin.                             *)
(*                                                                         *)
(* git is not safe for two commands in one repository, so each waits for   *)
(* the slot of the one before it: repoLocks maps a repository to the end   *)
(* of a chain of promises.                                                 *)
(***************************************************************************)
EXTENDS Naturals, Sequences, FiniteSets

CONSTANTS
  Calls,        \* executions of agent nodes
  Node(_),      \* the node a call executes
  Transport(_), \* "cli", "http", or "invalid": no prompt, no provider, no cwd
  UseTree(_),   \* useWorktree
  RepoOf(_),    \* the repository of its cwd, or NoRepo
  Ref(_),       \* worktreeRef, or NoRef
  Repos,
  NoRepo, NoRef

ASSUME NamesApart == /\ Calls \cap Repos = {}
                     /\ NoRepo \notin Calls \cup Repos
                     /\ \A c \in Calls : RepoOf(c) \in Repos \cup {NoRepo}

Nil == NoRepo

Tickets == Calls \cup Repos     \* a repository stands for its clean-up
Nodes == {Node(c) : c \in Calls}

VARIABLES
  cpc,       \* where a call is: "new", "resolving", "waiting", "adding",
             \* "running", "ended"
  gpc,       \* where the clean-up of a repository is: "off", "waiting",
             \* "removing", "pruning", "ended"
  phase,     \* "walking", "cleaning" or "settled"
  entries,   \* node -> its Entry, or Nil
  tail,      \* repoLocks: the last ticket of each repository's chain, or Nil
  prev,      \* the ticket whose slot a ticket waits for, or Nil
  released,  \* tickets whose slot is resolved
  repoNow,   \* the repository a ticket took its place in, or NoRepo
  cwd,       \* the tree an agent runs in: the call that made it, or Nil
  todo,      \* the trees a clean-up has yet to remove
  trees,     \* history: the trees on disk, named by the call that made them
  stuck,     \* history: the trees that neither git nor rm could remove
  verdict    \* the branch a call returned, or Nil

lockVars == <<tail, prev, released, repoNow>>
treeVars == <<cpc, gpc, phase, entries, tail, prev, released, repoNow, cwd, todo, trees,
              stuck, verdict>>

Entry(c) == [tree |-> c, repo |-> RepoOf(c), ref |-> Ref(c)]

ASSUME EntriesAreNotNil == \A c \in Calls : Entry(c) # Nil

TreesInit ==
  /\ cpc = [c \in Calls |-> "new"] /\ gpc = [r \in Repos |-> "off"]
  /\ phase = "walking"
  /\ entries = [n \in Nodes |-> Nil]
  /\ tail = [r \in Repos |-> Nil]
  /\ prev = [t \in Tickets |-> Nil] /\ released = {}
  /\ repoNow = [t \in Tickets |-> NoRepo]
  /\ cwd = [c \in Calls |-> Nil]
  /\ todo = [r \in Repos |-> {}]
  /\ trees = {} /\ stuck = {}
  /\ verdict = [c \in Calls |-> Nil]

-----------------------------------------------------------------------------
(* serialize(): take the place behind the last ticket of the chain.        *)
Append2Chain(t, r) == /\ prev' = [prev EXCEPT ![t] = tail[r]]
                      /\ tail' = [tail EXCEPT ![r] = t]
                      /\ repoNow' = [repoNow EXCEPT ![t] = r]
                      /\ UNCHANGED released

(* `await prev`: a chain is resolved when its last slot is, for that slot  *)
(* is resolved only after the chain before it.                             *)
MyTurn(t) == prev[t] = Nil \/ prev[t] \in released

(* Slip of Release: the pointer is dropped although others wait behind.    *)
ReleaseAndDrop(t) == /\ released' = released \cup {t}
                     /\ tail' = [tail EXCEPT ![repoNow[t]] = Nil]
                     /\ UNCHANGED <<prev, repoNow>>

(* finally: resolve the slot, drop the pointer if nobody came after.       *)
Release(t) == /\ released' = released \cup {t}
              /\ tail' = [r \in Repos |-> IF tail[r] = t THEN Nil ELSE tail[r]]
              /\ UNCHANGED <<prev, repoNow>>

EndCall(c, b) == /\ cpc' = [cpc EXCEPT ![c] = "ended"]
                 /\ verdict' = [verdict EXCEPT ![c] = b]

(* The executor refuses the node's configuration.                          *)
RefuseAgent(c) == /\ phase = "walking" /\ cpc[c] = "new" /\ Transport(c) = "invalid"
                  /\ EndCall(c, "error")
                  /\ UNCHANGED <<gpc, phase, entries, lockVars, cwd, todo, trees, stuck>>

(* No worktree: HTTP providers have no use for one.                        *)
RunInPlace(c) == /\ phase = "walking" /\ cpc[c] = "new"
                 /\ Transport(c) = "http" \/ (Transport(c) = "cli" /\ ~UseTree(c))
                 /\ cpc' = [cpc EXCEPT ![c] = "running"]
                 /\ UNCHANGED <<gpc, phase, entries, lockVars, cwd, todo, trees, stuck, verdict>>

WantsTree(c) == phase = "walking" /\ cpc[c] = "new" /\ Transport(c) = "cli" /\ UseTree(c)

(* create(): the node has a tree already.  Another ref is refused.         *)
Reuse(c) == /\ WantsTree(c) /\ entries[Node(c)] # Nil
            /\ IF Ref(c) # NoRef /\ Ref(c) # entries[Node(c)].ref
                 THEN EndCall(c, "error") /\ UNCHANGED cwd
                 ELSE /\ cpc' = [cpc EXCEPT ![c] = "running"]
                      /\ cwd' = [cwd EXCEPT ![c] = entries[Node(c)].tree]
                      /\ UNCHANGED verdict
            /\ UNCHANGED <<gpc, phase, entries, lockVars, todo, trees, stuck>>

ResolveRepo(c) == /\ WantsTree(c) /\ entries[Node(c)] = Nil
                  /\ cpc' = [cpc EXCEPT ![c] = "resolving"]
                  /\ UNCHANGED <<gpc, phase, entries, lockVars, cwd, todo, trees, stuck, verdict>>

Resolved(c) == /\ cpc[c] = "resolving"
               /\ IF RepoOf(c) = NoRepo
                    THEN EndCall(c, "error") /\ UNCHANGED lockVars
                    ELSE /\ cpc' = [cpc EXCEPT ![c] = "waiting"]
                         /\ Append2Chain(c, RepoOf(c))
                         /\ UNCHANGED verdict
               /\ UNCHANGED <<gpc, phase, entries, cwd, todo, trees, stuck>>

(* The turn of a call: another call of the node may have made the tree     *)
(* while this one waited; its ref is not compared again.                   *)
LockedReuse(c) == /\ cpc[c] = "waiting" /\ MyTurn(c) /\ entries[Node(c)] # Nil
                  /\ cpc' = [cpc EXCEPT ![c] = "running"]
                  /\ cwd' = [cwd EXCEPT ![c] = entries[Node(c)].tree]
                  /\ Release(c)
                  /\ UNCHANGED <<gpc, phase, entries, todo, trees, stuck, verdict>>

AddTree(c) == /\ cpc[c] = "waiting" /\ MyTurn(c) /\ entries[Node(c)] = Nil
              /\ cpc' = [cpc EXCEPT ![c] = "adding"]
              /\ UNCHANGED <<gpc, phase, entries, lockVars, cwd, todo, trees, stuck, verdict>>

(* `git worktree add` ends: a tree and an entry, or an error.              *)
TreeAdded(c) == /\ cpc[c] = "adding"
                /\ entries' = [entries EXCEPT ![Node(c)] = Entry(c)]
                /\ trees' = trees \cup {c}
                /\ cwd' = [cwd EXCEPT ![c] = c]
                /\ cpc' = [cpc EXCEPT ![c] = "running"]
                /\ Release(c)
                /\ UNCHANGED <<gpc, phase, todo, stuck, verdict>>

(* Slip of AddFails: no finally, and the slot is never resolved.           *)
AddFailsHolding(c) == /\ cpc[c] = "adding"
                      /\ EndCall(c, "error")
                      /\ UNCHANGED <<gpc, phase, entries, lockVars, cwd, todo, trees, stuck>>

AddFails(c) == /\ cpc[c] = "adding"
               /\ EndCall(c, "error")
               /\ Release(c)
               /\ UNCHANGED <<gpc, phase, entries, cwd, todo, trees, stuck>>

(* runProvider() always resolves: `next` for exit code 0 in time.          *)
AgentEnds(c) == /\ cpc[c] = "running"
                /\ \E b \in {"next", "error"} : EndCall(c, b)
                /\ cwd' = [cwd EXCEPT ![c] = Nil]
                /\ UNCHANGED <<gpc, phase, entries, lockVars, todo, trees, stuck>>

-----------------------------------------------------------------------------
InProgress(c) == cpc[c] \notin {"new", "ended"}
Held == {entries[n] : n \in Nodes} \ {Nil}

(* cleanupAll(): empties the map and starts one task per repository.       *)
CleanupAll ==
  /\ phase = "walking" /\ \A c \in Calls : ~InProgress(c)
  /\ phase' = "cleaning"
  /\ entries' = [n \in Nodes |-> Nil]
  /\ todo' = [r \in Repos |-> {e.tree : e \in {x \in Held : x.repo = r}}]
  /\ LET busy == {e.repo : e \in Held} IN
       /\ gpc' = [r \in Repos |-> IF r \in busy THEN "waiting" ELSE "ended"]
       /\ prev' = [t \in Tickets |-> IF t \in busy THEN tail[t] ELSE prev[t]]
       /\ tail' = [r \in Repos |-> IF r \in busy THEN r ELSE tail[r]]
       /\ repoNow' = [t \in Tickets |-> IF t \in busy THEN t ELSE repoNow[t]]
  /\ UNCHANGED <<cpc, released, cwd, trees, stuck, verdict>>

StartRemoving(r) == /\ gpc[r] = "waiting" /\ MyTurn(r)
                    /\ gpc' = [gpc EXCEPT ![r] = "removing"]
                    /\ UNCHANGED <<cpc, phase, entries, lockVars, cwd, todo, trees, stuck, verdict>>

(* `git worktree remove --force`, or rm when git refuses; that rm fails is *)
(* nobody's concern.                                                       *)
RemoveTree(r) == /\ gpc[r] = "removing"
                 /\ \E x \in todo[r] :
                      /\ todo' = [todo EXCEPT ![r] = @ \ {x}]
                      /\ \/ trees' = trees \ {x} /\ UNCHANGED stuck
                         \/ stuck' = stuck \cup {x} /\ UNCHANGED trees
                 /\ UNCHANGED <<cpc, gpc, phase, entries, lockVars, cwd, verdict>>

Prune(r) == /\ gpc[r] = "removing" /\ todo[r] = {}
            /\ gpc' = [gpc EXCEPT ![r] = "pruning"]
            /\ UNCHANGED <<cpc, phase, entries, lockVars, cwd, todo, trees, stuck, verdict>>

Pruned(r) == /\ gpc[r] = "pruning"
             /\ gpc' = [gpc EXCEPT ![r] = "ended"]
             /\ Release(r)
             /\ UNCHANGED <<cpc, phase, entries, cwd, todo, trees, stuck, verdict>>

(* Promise.all of the clean-ups.                                           *)
CleanupEnds == /\ phase = "cleaning" /\ \A r \in Repos : gpc[r] = "ended"
               /\ phase' = "settled"
               /\ UNCHANGED <<cpc, gpc, entries, lockVars, cwd, todo, trees, stuck, verdict>>

CallStep(c) == \/ RefuseAgent(c) \/ RunInPlace(c) \/ Reuse(c) \/ ResolveRepo(c)
               \/ Resolved(c) \/ LockedReuse(c) \/ AddTree(c) \/ TreeAdded(c)
               \/ AddFails(c) \/ AgentEnds(c)

(* What a call does with its place in a chain, and what a clean-up does.   *)
SlotStep(c) == LockedReuse(c) \/ AddTree(c) \/ TreeAdded(c) \/ AddFails(c)
CleanupStep(r) == StartRemoving(r) \/ RemoveTree(r) \/ Prune(r) \/ Pruned(r)

TreesNext == \/ \E c \in Calls : CallStep(c)
             \/ CleanupAll
             \/ \E r \in Repos : CleanupStep(r)
             \/ CleanupEnds

(* A resolved promise is taken up, and git comes to an end: runCmd() sets  *)
(* it no timeout.  Nothing is assumed of the agents.                       *)
TreesFairness ==
  WF_treeVars((\E c \in Calls : SlotStep(c)) \/ (\E r \in Repos : CleanupStep(r)))

TreesSpec == TreesInit /\ [][TreesNext]_treeVars /\ TreesFairness

-----------------------------------------------------------------------------
TreesTypeOK ==
  /\ cpc \in [Calls -> {"new", "resolving", "waiting", "adding", "running", "ended"}]
  /\ gpc \in [Repos -> {"off", "waiting", "removing", "pruning", "ended"}]
  /\ phase \in {"walking", "cleaning", "settled"}
  /\ entries \in [Nodes -> {Entry(c) : c \in Calls} \cup {Nil}]
  /\ tail \in [Repos -> Tickets \cup {Nil}]
  /\ prev \in [Tickets -> Tickets \cup {Nil}]
  /\ released \subseteq Tickets
  /\ repoNow \in [Tickets -> Repos \cup {NoRepo}]
  /\ cwd \in [Calls -> Calls \cup {Nil}]
  /\ todo \in [Repos -> SUBSET Calls]
  /\ trees \subseteq Calls /\ stuck \subseteq Calls
  /\ verdict \in [Calls -> {"next", "error", Nil}]

(* The tickets that have git at work.                                      *)
AtWork == {c \in Calls : cpc[c] = "adding"}
            \cup {r \in Repos : gpc[r] \in {"removing", "pruning"}}

(* At most one git command is in progress in a repository, whatever the    *)
(* order in which calls arrive, fail and pass the slot on.                 *)
(* worktree-manager.ts:16-18 and 195-213.                                  *)
OneGitPerRepo == \A t, u \in AtWork : repoNow[t] = repoNow[u] => t = u

(* Two calls of one node whose cwds lie in different repositories.         *)
Torn(n) == \E c, d \in Calls : /\ Node(c) = n /\ Node(d) = n /\ RepoOf(c) # RepoOf(d)
                              /\ {RepoOf(c), RepoOf(d)} \subseteq Repos

(* Agents of different nodes never work in one tree; nobody works in a     *)
(* tree that is gone; and once the run has settled no tree is left of a    *)
(* node whose calls agreed on the repository, but one that neither git nor *)
(* rm could remove.  (Two subworkflows may share a node id: their calls    *)
(* share a tree, and when they disagree about the repository one of two    *)
(* trees is forgotten.)  agent.ts:64-92, worktree-manager.ts:104-190.      *)
TreesAreKept ==
  /\ \A c, d \in Calls : cwd[c] # Nil /\ cwd[c] = cwd[d] => Node(c) = Node(d)
  /\ \A c \in Calls : cwd[c] # Nil => cwd[c] \in trees
  /\ phase = "settled" => \A c \in trees \ stuck : Torn(Node(c))

(* All of this.                                                            *)
TreesHold == TreesTypeOK /\ OneGitPerRepo /\ TreesAreKept

Queued == {c \in Calls : cpc[c] = "waiting"} \cup {r \in Repos : gpc[r] = "waiting"}

(* "Errors propagate to the caller; subsequent tasks still run": whoever   *)
(* fails, all who wait for a slot get it.  worktree-manager.ts:192-213.    *)
TurnsCome == Queued # {} ~> Queued = {}
=============================================================================
