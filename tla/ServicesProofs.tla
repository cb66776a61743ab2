--------------------------- MODULE ServicesProofs ---------------------------
(***************************************************************************)
(* Proofs about services around the engine: Worktrees, for every set of    *)
(* calls, nodes and repositories, Verdicts, for every set of decisions and *)
(* answers, Triggers, for every set of requests, and CallOutput, for       *)
(* whatever a child may print.                                             *)
(*                                                                         *)
(* The chain of promises of Worktrees is a queue lock without a queue:     *)
(* nobody knows the line, each ticket only the one before it.  That two    *)
(* tickets never have their turn together (OneTurn) rests on no two        *)
(* tickets having the same one before them (OneBehind), and this on the    *)
(* pointer: it names a ticket that holds its slot and has nobody behind    *)
(* (TailIsLast), and it is Nil only when nobody holds a slot               *)
(* (HeldChainHasTail), for whoever holds one waits, directly or not, for   *)
(* the one whose turn it is (Grounded).                                    *)
(***************************************************************************)
EXTENDS Worktrees, Verdicts, Triggers, CallOutput, SequenceTheorems, WellFoundedInduction, TLAPS

Taken(t) == repoNow[t] # NoRepo
Alive(t) == Taken(t) /\ t \notin released

PrevInChain ==
  \A t \in Tickets : prev[t] # Nil => Taken(t) /\ repoNow[prev[t]] = repoNow[t]
TailIsLast ==
  \A r \in Repos : tail[r] # Nil => /\ repoNow[tail[r]] = r
                                    /\ tail[r] \notin released
                                    /\ \A t \in Tickets : prev[t] # tail[r]
HeldChainHasTail == \A t \in Tickets : Alive(t) => tail[repoNow[t]] # Nil
Grounded == \A S \in SUBSET Tickets : S # {} => \E t \in S : prev[t] \notin S
OneBehind == \A t, u \in Tickets : prev[t] # Nil /\ prev[t] = prev[u] => t = u
OneTurn == \A t, u \in Tickets :
             /\ Alive(t) /\ MyTurn(t) /\ Alive(u) /\ MyTurn(u)
             /\ repoNow[t] = repoNow[u]
             => t = u
ReleasedTaken == \A t \in released : Taken(t)

LockTypeOK ==
  /\ tail \in [Repos -> Tickets \cup {Nil}]
  /\ prev \in [Tickets -> Tickets \cup {Nil}]
  /\ released \subseteq Tickets
  /\ repoNow \in [Tickets -> Repos \cup {NoRepo}]

LockInv == /\ LockTypeOK
           /\ PrevInChain /\ TailIsLast /\ HeldChainHasTail
           /\ Grounded /\ OneBehind /\ OneTurn /\ ReleasedTaken

-----------------------------------------------------------------------------
(* The lock                                                                *)

LEMMA NilIsNoTicket == Nil \notin Tickets
BY NamesApart DEF Nil, Tickets

(* New tickets, each behind the last one of a chain of its own.            *)
Join(new, at) ==
  /\ \A t \in new : ~Taken(t)
  /\ \A r \in Repos : tail'[r] = tail[r] \/ (tail'[r] \in new /\ at[tail'[r]] = r)
  /\ \A t \in new : tail'[at[t]] = t /\ prev'[t] = tail[at[t]] /\ repoNow'[t] = at[t]
  /\ \A t \in Tickets \ new : prev'[t] = prev[t] /\ repoNow'[t] = repoNow[t]
  /\ released' = released

LEMMA JoinKeepsLock ==
  ASSUME LockInv, LockTypeOK', NEW new \in SUBSET Tickets, NEW at \in [new -> Repos],
         Join(new, at)
  PROVE  LockInv'
<1> USE NilIsNoTicket DEF LockInv, Taken, Nil
<1>1. \A t \in new : /\ prev[t] = Nil /\ t \notin released
                     /\ \A u \in Tickets : prev[u] # t
                     /\ \A r \in Repos : tail[r] # t
  BY NamesApart DEF Join, PrevInChain, ReleasedTaken, TailIsLast, LockTypeOK
<1>2. \A t \in new : prev'[t] # Nil => prev'[t] \notin new /\ prev'[t] \in Tickets
  BY <1>1 DEF Join, LockTypeOK
<1>3. \A s, t \in new : at[s] = at[t] => s = t
  BY DEF Join
<1>4. PrevInChain'
  <2> SUFFICES ASSUME NEW t \in Tickets, prev'[t] # Nil
               PROVE  Taken(t)' /\ repoNow'[prev'[t]] = repoNow'[t]
    BY DEF PrevInChain
  <2>1. CASE t \in new
    BY <1>2, <2>1, NamesApart DEF Join, TailIsLast
  <2>2. CASE t \notin new
    BY <1>1, <2>2 DEF Join, PrevInChain, LockTypeOK
  <2> QED BY <2>1, <2>2
<1>5. TailIsLast'
  <2> SUFFICES ASSUME NEW r \in Repos, tail'[r] # Nil
               PROVE  /\ repoNow'[tail'[r]] = r
                      /\ tail'[r] \notin released'
                      /\ \A t \in Tickets : prev'[t] # tail'[r]
    BY DEF TailIsLast
  <2>1. CASE tail'[r] \in new
    BY <1>1, <1>2, <2>1 DEF Join
  <2>2. CASE tail'[r] \notin new
    <3>1. tail'[r] = tail[r] /\ \A t \in new : at[t] # r
      BY <2>2 DEF Join
    <3>2. \A t \in new : prev'[t] # tail[r]
      <4> SUFFICES ASSUME NEW t \in new, prev'[t] = tail[r] PROVE FALSE
        OBVIOUS
      <4>1. tail[at[t]] = tail[r] /\ tail[r] # Nil
        BY <3>1 DEF Join
      <4>2. at[t] = r
        BY <4>1 DEF TailIsLast
      <4> QED BY <3>1, <4>2
    <3> QED BY <2>2, <3>1, <3>2 DEF Join, TailIsLast, LockTypeOK
  <2> QED BY <2>1, <2>2
<1>6. HeldChainHasTail'
  <2> SUFFICES ASSUME NEW t \in Tickets, Alive(t)' PROVE tail'[repoNow'[t]] # Nil
    BY DEF HeldChainHasTail
  <2>1. CASE t \in new
    BY <2>1 DEF Join
  <2>2. CASE t \notin new
    <3>1. Alive(t) /\ repoNow'[t] = repoNow[t] /\ repoNow[t] \in Repos
      BY <2>2 DEF Join, Alive, LockTypeOK
    <3> QED BY <3>1 DEF Join, HeldChainHasTail
  <2> QED BY <2>1, <2>2
<1>7. OneBehind'
  <2> SUFFICES ASSUME NEW t \in Tickets, NEW u \in Tickets, prev'[t] # Nil, prev'[t] = prev'[u]
               PROVE  t = u
    BY DEF OneBehind
  <2>1. CASE t \in new /\ u \in new
    <3>1. tail[at[t]] = tail[at[u]] /\ tail[at[t]] # Nil
      BY <2>1 DEF Join
    <3>2. at[t] = at[u]
      BY <2>1, <3>1 DEF TailIsLast
    <3> QED BY <1>3, <2>1, <3>2
  <2>2. CASE t \in new /\ u \notin new
    BY <2>2 DEF Join, TailIsLast
  <2>3. CASE t \notin new /\ u \in new
    BY <2>3 DEF Join, TailIsLast
  <2>4. CASE t \notin new /\ u \notin new
    BY <2>4 DEF Join, OneBehind
  <2> QED BY <2>1, <2>2, <2>3, <2>4
<1>8. OneTurn'
  <2> SUFFICES ASSUME NEW t \in Tickets, NEW u \in Tickets,
                      Alive(t)', MyTurn(t)', Alive(u)', MyTurn(u)', repoNow'[t] = repoNow'[u]
               PROVE  t = u
    BY DEF OneTurn
  <2>1. ASSUME NEW x \in new, MyTurn(x)', NEW y \in Tickets \ new, Alive(y)'
        PROVE  repoNow'[y] # repoNow'[x]
    <3>1. tail[at[x]] = Nil
      BY <2>1 DEF Join, MyTurn, TailIsLast
    <3>2. Alive(y) /\ repoNow'[y] = repoNow[y]
      BY <2>1 DEF Join, Alive
    <3> QED BY <2>1, <3>1, <3>2 DEF Join, HeldChainHasTail
  <2>2. CASE t \in new /\ u \in new
    BY <1>3, <2>2 DEF Join
  <2>3. CASE t \notin new /\ u \notin new
    BY <2>3 DEF Join, Alive, MyTurn, OneTurn
  <2> QED BY <2>1, <2>2, <2>3
<1>9. ReleasedTaken'
  BY <1>1 DEF Join, ReleasedTaken, LockTypeOK
<1>10. Grounded'
  <2> SUFFICES ASSUME NEW S \in SUBSET Tickets, S # {} PROVE \E t \in S : prev'[t] \notin S
    BY DEF Grounded
  <2>1. CASE S \subseteq new
    BY <1>2, <2>1, NilIsNoTicket
  <2>2. CASE ~(S \subseteq new)
    <3>1. PICK t \in S \ new : prev[t] \notin S \ new
      BY <2>2 DEF Grounded
    <3>2. prev'[t] = prev[t] /\ prev[t] \notin new
      BY <1>1, <3>1 DEF Join
    <3> QED BY <3>1, <3>2
  <2> QED BY <2>1, <2>2
<1> QED BY <1>4, <1>5, <1>6, <1>7, <1>8, <1>9, <1>10

LEMMA ReleaseKeepsLock ==
  ASSUME LockInv, NEW t \in Tickets, Alive(t), MyTurn(t), Release(t)
  PROVE  /\ LockInv'
         /\ \A u \in Tickets \ {t} : /\ Alive(u) => Alive(u)'
                                     /\ MyTurn(u) => MyTurn(u)'
<1> USE NilIsNoTicket DEF LockInv, Taken, Nil, Release
<1>1. LockTypeOK' /\ PrevInChain' /\ ReleasedTaken'
  BY DEF LockTypeOK, PrevInChain, ReleasedTaken, Alive
<1>2. TailIsLast'
  BY DEF TailIsLast, LockTypeOK
<1>3. HeldChainHasTail'
  <2> SUFFICES ASSUME NEW u \in Tickets, Alive(u)' PROVE tail'[repoNow'[u]] # Nil
    BY DEF HeldChainHasTail
  <2>1. Alive(u) /\ u # t /\ repoNow[u] \in Repos /\ tail[repoNow[u]] # Nil
    BY DEF Alive, HeldChainHasTail, LockTypeOK
  <2>2. CASE tail[repoNow[u]] # t
    BY <2>1, <2>2
  <2>3. CASE tail[repoNow[u]] = t
    <3> DEFINE S == {s \in Tickets : Alive(s) /\ repoNow[s] = repoNow[t] /\ s # t}
    <3>1. repoNow[u] = repoNow[t] /\ u \in S
      BY <2>1, <2>3 DEF TailIsLast
    <3>2. PICK s \in S : prev[s] \notin S
      BY <3>1 DEF Grounded
    <3>3. prev[s] # Nil /\ prev[s] \notin released /\ prev[s] \in Tickets
      BY <3>2 DEF OneTurn, MyTurn, LockTypeOK
    <3>4. prev[s] # t
      BY <2>1, <2>3, <3>2 DEF TailIsLast
    <3>5. prev[s] \in S
      BY <3>2, <3>3, <3>4 DEF PrevInChain, Alive
    <3> QED BY <3>2, <3>5
  <2> QED BY <2>2, <2>3
<1>4. Grounded' /\ OneBehind'
  BY DEF Grounded, OneBehind
<1>5. OneTurn'
  <2> SUFFICES ASSUME NEW u \in Tickets, NEW w \in Tickets,
                      Alive(u)', MyTurn(u)', Alive(w)', MyTurn(w)', repoNow'[u] = repoNow'[w]
               PROVE  u = w
    BY DEF OneTurn
  <2>1. Alive(u) /\ Alive(w) /\ u # t /\ w # t /\ repoNow[u] = repoNow[w]
    BY DEF Alive
  <2>2. /\ MyTurn(u) \/ prev[u] = t
        /\ MyTurn(w) \/ prev[w] = t
    BY DEF MyTurn
  <2>3. /\ prev[u] = t => repoNow[u] = repoNow[t]
        /\ prev[w] = t => repoNow[w] = repoNow[t]
    BY DEF PrevInChain
  <2>4. repoNow[u] = repoNow[t] => ~MyTurn(u) /\ ~MyTurn(w)
    BY <2>1 DEF OneTurn
  <2>5. CASE repoNow[u] = repoNow[t]
    BY <2>2, <2>4, <2>5 DEF OneBehind
  <2>6. CASE repoNow[u] # repoNow[t]
    BY <2>1, <2>2, <2>3, <2>6 DEF OneTurn
  <2> QED BY <2>5, <2>6
<1>6. \A u \in Tickets \ {t} : (Alive(u) => Alive(u)') /\ (MyTurn(u) => MyTurn(u)')
  BY DEF Alive, MyTurn
<1> QED BY <1>1, <1>2, <1>3, <1>4, <1>5, <1>6
-----------------------------------------------------------------------------
(* The invariant                                                           *)

CallPlaces == \A c \in Calls :
  /\ cpc[c] \in {"new", "resolving"} => ~Taken(c)
  /\ cpc[c] \in {"waiting", "adding"} => Alive(c) /\ repoNow[c] = RepoOf(c)
  /\ cpc[c] = "adding" => MyTurn(c)
CleanupPlaces == \A r \in Repos :
  /\ gpc[r] = "off" => ~Taken(r)
  /\ gpc[r] \in {"waiting", "removing", "pruning"} => Alive(r) /\ repoNow[r] = r
  /\ gpc[r] \in {"removing", "pruning"} => MyTurn(r)
  /\ phase = "walking" => gpc[r] = "off"
  /\ todo[r] # {} => gpc[r] \in {"waiting", "removing"}

WalkOver == phase # "walking" => /\ \A c \in Calls : ~InProgress(c)
                                 /\ \A n \in Nodes : entries[n] = Nil

(* An entry is that of a call of its node, whose tree stands.              *)
EntriesStand ==
  \A n \in Nodes : entries[n] # Nil =>
    \E c \in trees : entries[n] = Entry(c) /\ Node(c) = n /\ RepoOf(c) \in Repos
CwdStands ==
  \A c \in Calls : cwd[c] # Nil => /\ cpc[c] = "running"
                                   /\ cwd[c] \in trees /\ Node(cwd[c]) = Node(c)

(* Who adds a tree to a node that has one adds it in another repository.   *)
AddersFirst ==
  \A c \in Calls : cpc[c] = "adding" /\ entries[Node(c)] # Nil
                     => entries[Node(c)].repo # RepoOf(c)

(* A tree is known to its node or to a clean-up, but for torn nodes and    *)
(* for trees that nothing could remove.                                    *)
TreesKnown ==
  \A c \in trees \ stuck :
    \/ Torn(Node(c))
    \/ phase = "walking" /\ entries[Node(c)] = Entry(c)
    \/ phase # "walking" /\ RepoOf(c) \in Repos /\ c \in todo[RepoOf(c)]
Settled == phase = "settled" => \A r \in Repos : gpc[r] = "ended"

IInv == /\ TreesTypeOK /\ LockInv
        /\ CallPlaces /\ CleanupPlaces /\ WalkOver
        /\ EntriesStand /\ CwdStands /\ AddersFirst /\ TreesKnown /\ Settled

LEMMA InitInv == TreesInit => IInv
<1> SUFFICES ASSUME TreesInit PROVE IInv
  OBVIOUS
<1> USE NilIsNoTicket DEF TreesInit, Nil
<1>1. TreesTypeOK
  BY DEF TreesTypeOK
<1>2. LockTypeOK /\ \A t \in Tickets : ~Taken(t) /\ ~Alive(t) /\ prev[t] = Nil
  BY DEF LockTypeOK, Taken, Alive
<1>3. LockInv
  BY <1>2 DEF LockInv, PrevInChain, TailIsLast, HeldChainHasTail, Grounded, OneBehind,
              OneTurn, ReleasedTaken
<1>4. CallPlaces /\ CleanupPlaces /\ WalkOver
  BY <1>2 DEF CallPlaces, CleanupPlaces, WalkOver, Tickets
<1>5. EntriesStand /\ CwdStands /\ AddersFirst /\ TreesKnown /\ Settled
  BY DEF EntriesStand, CwdStands, AddersFirst, TreesKnown, Settled
<1> QED BY <1>1, <1>3, <1>4, <1>5 DEF IInv

LEMMA TypeStep == TreesTypeOK /\ EntriesStand /\ [TreesNext]_treeVars => TreesTypeOK'
<1> SUFFICES ASSUME TreesTypeOK, EntriesStand, [TreesNext]_treeVars PROVE TreesTypeOK'
  OBVIOUS
<1> USE DEF TreesTypeOK, lockVars
<1>0. \A t \in Tickets : /\ Append2Chain(t, RepoOf(t)) /\ RepoOf(t) \in Repos => LockTypeOK'
                         /\ Release(t) => LockTypeOK'
  BY DEF Append2Chain, Release, LockTypeOK
<1>1. ASSUME NEW c \in Calls, CallStep(c) PROVE TreesTypeOK'
  <2> USE DEF EndCall
  <2>0. c \in Tickets /\ Node(c) \in Nodes /\ (UNCHANGED lockVars => LockTypeOK')
    BY DEF Tickets, Nodes, LockTypeOK
  <2>1. CASE RefuseAgent(c)
    BY <2>1 DEF RefuseAgent
  <2>2. CASE RunInPlace(c)
    BY <2>2 DEF RunInPlace
  <2>3. CASE Reuse(c)
    <3>1. entries[Node(c)].tree \in Calls
      BY <2>0, <2>3 DEF Reuse, EntriesStand, Entry
    <3> QED BY <2>3, <3>1 DEF Reuse
  <2>4. CASE ResolveRepo(c)
    BY <2>4 DEF ResolveRepo
  <2>5. CASE Resolved(c)
    <3>1. CASE RepoOf(c) = NoRepo
      BY <2>5, <3>1 DEF Resolved
    <3>2. CASE RepoOf(c) # NoRepo
      <4>1. LockTypeOK'
        BY <1>0, <2>0, <2>5, <3>2, NamesApart DEF Resolved
      <4> QED BY <2>5, <3>2, <4>1 DEF Resolved, LockTypeOK
    <3> QED BY <3>1, <3>2
  <2>6. CASE LockedReuse(c)
    <3>1. entries[Node(c)].tree \in Calls /\ LockTypeOK'
      BY <1>0, <2>0, <2>6 DEF LockedReuse, EntriesStand, Entry
    <3> QED BY <2>6, <3>1 DEF LockedReuse, LockTypeOK
  <2>7. CASE AddTree(c)
    BY <2>7 DEF AddTree
  <2>8. CASE TreeAdded(c)
    <3>1. LockTypeOK'
      BY <1>0, <2>0, <2>8 DEF TreeAdded
    <3> QED BY <2>0, <2>8, <3>1 DEF TreeAdded, LockTypeOK
  <2>9. CASE AddFails(c)
    <3>1. LockTypeOK'
      BY <1>0, <2>0, <2>9 DEF AddFails
    <3> QED BY <2>9, <3>1 DEF AddFails, LockTypeOK
  <2>10. CASE AgentEnds(c)
    BY <2>10 DEF AgentEnds
  <2> QED BY <1>1, <2>1, <2>2, <2>3, <2>4, <2>5, <2>6, <2>7, <2>8, <2>9, <2>10 DEF CallStep
<1>2. CASE CleanupAll
  <2>1. Repos \subseteq Tickets
    BY DEF Tickets
  <2>2. todo' \in [Repos -> SUBSET Calls]
    <3>1. \A e \in Held : e.tree \in Calls
      BY DEF Held, EntriesStand, Entry
    <3> QED BY <1>2, <3>1 DEF CleanupAll
  <2>3. /\ prev' \in [Tickets -> Tickets \cup {Nil}]
        /\ tail' \in [Repos -> Tickets \cup {Nil}]
        /\ repoNow' \in [Tickets -> Repos \cup {NoRepo}]
    <3>1. \A e \in Held : e.repo \in Repos
      BY DEF Held, EntriesStand, Entry
    <3> QED BY <1>2, <2>1, <3>1 DEF CleanupAll
  <2>4. gpc' \in [Repos -> {"off", "waiting", "removing", "pruning", "ended"}]
    BY <1>2 DEF CleanupAll
  <2>5. entries' \in [Nodes -> {Entry(c) : c \in Calls} \cup {Nil}]
    BY <1>2 DEF CleanupAll
  <2> QED BY <1>2, <2>2, <2>3, <2>4, <2>5 DEF CleanupAll
<1>3. ASSUME NEW r \in Repos, CleanupStep(r) PROVE TreesTypeOK'
  <2>1. CASE StartRemoving(r) \/ Prune(r)
    BY <2>1 DEF StartRemoving, Prune
  <2>2. CASE RemoveTree(r)
    BY <2>2 DEF RemoveTree
  <2>3. CASE Pruned(r)
    <3>1. LockTypeOK' /\ r \in Tickets
      BY <1>0, <2>3 DEF Pruned, Tickets
    <3> QED BY <2>3, <3>1 DEF Pruned, LockTypeOK
  <2> QED BY <1>3, <2>1, <2>2, <2>3 DEF CleanupStep
<1>4. CASE CleanupEnds
  BY <1>4 DEF CleanupEnds
<1>5. CASE UNCHANGED treeVars
  BY <1>5 DEF treeVars
<1> QED BY <1>1, <1>2, <1>3, <1>4, <1>5 DEF TreesNext

-----------------------------------------------------------------------------
(* What a step does to the lock, and to the places of the others.          *)
Kept(t) == /\ Alive(t) => Alive(t)' /\ repoNow'[t] = repoNow[t]
           /\ Taken(t)' => Taken(t)
           /\ MyTurn(t) => MyTurn(t)'

LEMMA LockStays == ASSUME LockInv, UNCHANGED lockVars
                   PROVE  LockInv' /\ \A t \in Tickets : Kept(t)
<1>1. LockInv'
  BY DEF lockVars, LockInv, LockTypeOK, PrevInChain, TailIsLast, HeldChainHasTail, Grounded,
         OneBehind, OneTurn, ReleasedTaken, Taken, Alive, MyTurn
<1>2. \A t \in Tickets : Kept(t)
  BY DEF lockVars, Kept, Taken, Alive, MyTurn
<1> QED BY <1>1, <1>2

LEMMA LockReleased ==
  ASSUME LockInv, NEW t \in Tickets, Alive(t), MyTurn(t), Release(t)
  PROVE  LockInv' /\ \A u \in Tickets \ {t} : Kept(u)
BY ReleaseKeepsLock DEF Kept, Release, Taken, LockInv, LockTypeOK

LEMMA LockJoined ==
  ASSUME LockInv, LockTypeOK', NEW new \in SUBSET Tickets, NEW at \in [new -> Repos],
         Join(new, at)
  PROVE  /\ LockInv'
         /\ \A u \in Tickets \ new : Kept(u)
         /\ \A u \in new : Alive(u)' /\ repoNow'[u] = at[u]
<1>1. LockInv'
  BY JoinKeepsLock
<1>2. \A u \in new : Alive(u)' /\ repoNow'[u] = at[u]
  BY NamesApart DEF Join, Alive, Taken, LockInv, ReleasedTaken
<1>3. \A u \in Tickets \ new : Kept(u)
  BY DEF Join, Kept, Alive, Taken, MyTurn
<1> QED BY <1>1, <1>2, <1>3

-----------------------------------------------------------------------------
(* The steps of a call                                                     *)

(* What a call's step leaves alone.                                        *)
OthersKept(c) == /\ \A d \in Calls \ {c} : cpc'[d] = cpc[d] /\ cwd'[d] = cwd[d]
                 /\ phase = "walking" /\ UNCHANGED <<gpc, phase, todo>>
                 /\ \A t \in Tickets \ {c} : Kept(t)

LEMMA CallLock ==
  ASSUME IInv, TreesTypeOK', NEW c \in Calls, CallStep(c)
  PROVE  /\ LockInv' /\ OthersKept(c)
         /\ ~(Resolved(c) \/ LockedReuse(c) \/ TreeAdded(c) \/ AddFails(c)) => Kept(c)
         /\ Resolved(c) /\ RepoOf(c) # NoRepo => Alive(c)' /\ repoNow'[c] = RepoOf(c)
<1> USE DEF IInv, TreesTypeOK
<1>1. c \in Tickets /\ phase = "walking"
  <2>1. WantsTree(c) \/ cpc[c] = "new" => phase = "walking" \/ ~CallStep(c)
    BY DEF WantsTree, CallStep, RefuseAgent, RunInPlace, Reuse, ResolveRepo, Resolved,
           LockedReuse, AddTree, TreeAdded, AddFails, AgentEnds
  <2>2. cpc[c] # "ended"
    BY DEF WantsTree, CallStep, RefuseAgent, RunInPlace, Reuse, ResolveRepo, Resolved,
           LockedReuse, AddTree, TreeAdded, AddFails, AgentEnds
  <2> QED BY <2>1, <2>2 DEF Tickets, WalkOver, InProgress
<1>2. /\ \A d \in Calls \ {c} : cpc'[d] = cpc[d] /\ cwd'[d] = cwd[d]
      /\ UNCHANGED <<gpc, phase, todo>>
  BY DEF CallStep, RefuseAgent, RunInPlace, Reuse, ResolveRepo, Resolved, LockedReuse, AddTree,
         TreeAdded, AddFails, AgentEnds, EndCall
<1>3. CASE UNCHANGED lockVars
  <2>1. ~(Resolved(c) /\ RepoOf(c) # NoRepo)
    <3> SUFFICES ASSUME Resolved(c), RepoOf(c) # NoRepo PROVE FALSE
      OBVIOUS
    <3>1. repoNow'[c] = RepoOf(c) /\ ~Taken(c)
      BY <1>1 DEF Resolved, Append2Chain, CallPlaces
    <3> QED BY <1>3, <3>1 DEF lockVars, Taken
  <2> QED BY <1>1, <1>2, <1>3, <2>1, LockStays DEF OthersKept
<1>4. CASE Resolved(c) /\ RepoOf(c) # NoRepo
  <2> DEFINE at == [x \in {c} |-> RepoOf(c)]
  <2>1. Join({c}, at) /\ at \in [{c} -> Repos]
    BY <1>1, <1>4, NamesApart DEF Resolved, Append2Chain, Join, CallPlaces
  <2>2. LockTypeOK'
    BY DEF LockTypeOK
  <2>3. /\ LockInv'
        /\ \A u \in Tickets \ {c} : Kept(u)
        /\ \A u \in {c} : Alive(u)' /\ repoNow'[u] = at[u]
    <3> HIDE DEF at
    <3> {c} \in SUBSET Tickets
      BY <1>1
    <3> QED BY <2>1, <2>2, LockJoined
  <2> QED BY <1>1, <1>2, <1>4, <2>3 DEF OthersKept
<1>5. CASE LockedReuse(c) \/ TreeAdded(c) \/ AddFails(c)
  <2>1. Release(c) /\ cpc[c] \in {"waiting", "adding"} /\ MyTurn(c)
    BY <1>5 DEF LockedReuse, TreeAdded, AddFails, CallPlaces
  <2>2. Alive(c)
    BY <2>1 DEF CallPlaces
  <2> QED BY <1>1, <1>2, <1>5, <2>1, <2>2, LockReleased
             DEF OthersKept, Resolved, LockedReuse, TreeAdded, AddFails
<1> QED BY <1>3, <1>4, <1>5 DEF CallStep, RefuseAgent, RunInPlace, Reuse, ResolveRepo, Resolved,
                                AddTree, AgentEnds

LEMMA CallPlacesStep ==
  ASSUME IInv, TreesTypeOK', NEW c \in Calls, CallStep(c)
  PROVE  CallPlaces' /\ CleanupPlaces' /\ WalkOver' /\ Settled'
<1> USE DEF IInv, TreesTypeOK
<1>0. OthersKept(c)
  BY CallLock
<1>1. CleanupPlaces' /\ WalkOver' /\ Settled'
  <2>1. \A r \in Repos : Kept(r)
    BY <1>0, NamesApart DEF OthersKept, Tickets
  <2>2. CleanupPlaces'
    BY <1>0, <2>1 DEF CleanupPlaces, OthersKept, Kept
  <2> QED BY <1>0, <2>2 DEF OthersKept, WalkOver, Settled
<1>2. \A d \in Calls \ {c} : /\ cpc[d] \in {"new", "resolving"} => ~Taken(d)'
                             /\ cpc[d] \in {"waiting", "adding"} =>
                                  Alive(d)' /\ repoNow'[d] = RepoOf(d)
                             /\ cpc[d] = "adding" => MyTurn(d)'
  BY <1>0 DEF OthersKept, CallPlaces, Kept, Tickets
<1>3. /\ cpc'[c] \in {"new", "resolving"} => ~Taken(c)'
      /\ cpc'[c] \in {"waiting", "adding"} => Alive(c)' /\ repoNow'[c] = RepoOf(c)
      /\ cpc'[c] = "adding" => MyTurn(c)'
  <2>1. CASE Resolved(c)
    BY <2>1, CallLock DEF Resolved, EndCall
  <2>2. CASE LockedReuse(c) \/ TreeAdded(c) \/ AddFails(c)
    BY <2>2 DEF LockedReuse, TreeAdded, AddFails, EndCall
  <2>3. CASE ~(Resolved(c) \/ LockedReuse(c) \/ TreeAdded(c) \/ AddFails(c))
    <3>1. Kept(c)
      BY <2>3, CallLock
    <3>2. CASE ResolveRepo(c)
      BY <3>1, <3>2 DEF ResolveRepo, WantsTree, Kept, CallPlaces
    <3>3. CASE AddTree(c)
      BY <3>1, <3>3 DEF AddTree, Kept, CallPlaces
    <3>4. CASE RefuseAgent(c) \/ RunInPlace(c) \/ Reuse(c) \/ AgentEnds(c)
      BY <3>4 DEF RefuseAgent, RunInPlace, Reuse, AgentEnds, EndCall
    <3> QED BY <2>3, <3>2, <3>3, <3>4 DEF CallStep
  <2> QED BY <2>1, <2>2, <2>3
<1>4. CallPlaces'
  BY <1>0, <1>2, <1>3 DEF CallPlaces, OthersKept
<1> QED BY <1>1, <1>4

LEMMA CallTreesStep ==
  ASSUME IInv, TreesTypeOK', NEW c \in Calls, CallStep(c)
  PROVE  EntriesStand' /\ CwdStands' /\ AddersFirst' /\ TreesKnown'
<1> USE NilIsNoTicket DEF IInv, TreesTypeOK, Nil
<1>0. OthersKept(c) /\ Node(c) \in Nodes /\ c \in Tickets
  BY CallLock DEF Nodes, Tickets
<1>1. CASE TreeAdded(c)
  <2>1. /\ Alive(c) /\ MyTurn(c) /\ repoNow[c] = RepoOf(c)
        /\ RepoOf(c) \in Repos
    BY <1>1, NamesApart DEF TreeAdded, CallPlaces, Alive, Taken
  <2>2. entries'[Node(c)] = Entry(c) /\ \A n \in Nodes \ {Node(c)} : entries'[n] = entries[n]
    BY <1>0, <1>1 DEF TreeAdded
  <2>3. EntriesStand'
    BY <1>1, <2>1, <2>2 DEF TreeAdded, EntriesStand
  <2>4. CwdStands'
    BY <1>0, <1>1 DEF TreeAdded, CwdStands, OthersKept
  <2>5. AddersFirst'
    <3> SUFFICES ASSUME NEW d \in Calls, cpc'[d] = "adding", entries'[Node(d)] # Nil
                 PROVE  entries'[Node(d)].repo # RepoOf(d)
      BY DEF AddersFirst
    <3>1. d # c /\ cpc[d] = "adding" /\ Node(d) \in Nodes /\ d \in Tickets
      BY <1>0, <1>1 DEF TreeAdded, OthersKept, Nodes, Tickets
    <3>2. CASE Node(d) = Node(c)
      <4>1. RepoOf(d) # RepoOf(c)
        BY <1>0, <2>1, <3>1 DEF CallPlaces, LockInv, OneTurn
      <4> QED BY <2>2, <3>2, <4>1 DEF Entry
    <3>3. CASE Node(d) # Node(c)
      BY <2>2, <3>1, <3>3 DEF AddersFirst
    <3> QED BY <3>2, <3>3
  <2>6. TreesKnown'
    <3> SUFFICES ASSUME NEW d \in (trees \ stuck)'
                 PROVE  \/ Torn(Node(d))
                        \/ phase' = "walking" /\ entries'[Node(d)] = Entry(d)
      BY <1>0 DEF TreesKnown, OthersKept
    <3>1. phase' = "walking" /\ Node(d) \in Nodes /\ d \in Calls
      BY <1>0 DEF OthersKept, Nodes
    <3>2. CASE d = c
      BY <2>2, <3>1, <3>2
    <3>3. CASE d # c
      <4>1. d \in trees \ stuck /\ (Torn(Node(d)) \/ entries[Node(d)] = Entry(d))
        BY <1>0, <1>1, <3>3 DEF TreeAdded, TreesKnown, OthersKept
      <4>2. CASE Node(d) = Node(c) /\ entries[Node(d)] = Entry(d)
        <5>1. entries[Node(c)] # Nil /\ entries[Node(c)].repo = RepoOf(d)
          BY <3>1, <4>2, EntriesAreNotNil DEF Entry
        <5>2. RepoOf(d) # RepoOf(c)
          BY <1>1, <5>1 DEF TreeAdded, AddersFirst
        <5>3. RepoOf(d) \in Repos
          BY <1>0, <5>1 DEF EntriesStand, Entry
        <5> QED BY <2>1, <3>1, <4>2, <5>2, <5>3 DEF Torn
      <4>3. CASE Node(d) # Node(c)
        BY <2>2, <3>1, <4>1, <4>3
      <4> QED BY <4>1, <4>2, <4>3
    <3> QED BY <3>2, <3>3
  <2> QED BY <2>3, <2>4, <2>5, <2>6
<1>2. CASE ~TreeAdded(c)
  <2>1. UNCHANGED <<entries, trees, stuck>>
    BY <1>2 DEF CallStep, RefuseAgent, RunInPlace, Reuse, ResolveRepo, Resolved, LockedReuse,
                AddTree, AddFails, AgentEnds
  <2>2. EntriesStand' /\ TreesKnown'
    BY <1>0, <2>1 DEF OthersKept, EntriesStand, TreesKnown
  <2>3. AddersFirst'
    <3>1. cpc'[c] = "adding" => entries[Node(c)] = Nil
      BY <1>2 DEF CallStep, RefuseAgent, RunInPlace, Reuse, ResolveRepo, Resolved, LockedReuse,
                  AddTree, AddFails, AgentEnds, EndCall
    <3> QED BY <1>0, <2>1, <3>1 DEF AddersFirst, OthersKept
  <2>4. cwd'[c] # Nil => /\ cpc'[c] = "running"
                         /\ cwd'[c] \in trees /\ Node(cwd'[c]) = Node(c)
    <3>1. CASE (Reuse(c) /\ cpc'[c] = "running") \/ LockedReuse(c)
      <4>1. PICK d \in trees : entries[Node(c)] = Entry(d) /\ Node(d) = Node(c)
        BY <1>0, <3>1 DEF Reuse, LockedReuse, EntriesStand
      <4> QED BY <3>1, <4>1 DEF Reuse, LockedReuse, EndCall, Entry
    <3>2. CASE AgentEnds(c)
      BY <3>2 DEF AgentEnds
    <3>3. CASE ~LockedReuse(c) /\ ~AgentEnds(c) /\ ~(Reuse(c) /\ cpc'[c] = "running")
      <4>1. cwd'[c] = cwd[c] /\ cpc[c] # "running"
        BY <1>2, <3>3 DEF CallStep, RefuseAgent, RunInPlace, Reuse, ResolveRepo, Resolved,
                          AddTree, AddFails, EndCall, WantsTree
      <4> QED BY <4>1 DEF CwdStands
    <3> QED BY <3>1, <3>2, <3>3
  <2>5. CwdStands'
    BY <1>0, <2>1, <2>4 DEF CwdStands, OthersKept
  <2> QED BY <2>2, <2>3, <2>5
<1> QED BY <1>1, <1>2

-----------------------------------------------------------------------------
(* The clean-up                                                            *)

LEMMA CleanupAllStep == ASSUME IInv, TreesTypeOK', CleanupAll PROVE IInv'
<1> USE NilIsNoTicket DEF IInv, TreesTypeOK, CleanupAll, Nil
<1> DEFINE busy == {e.repo : e \in Held}
           at == [r \in busy |-> r]
<1>1. /\ \A r \in Repos : gpc[r] = "off" /\ ~Taken(r)
      /\ \A c \in Calls : cpc[c] \in {"new", "ended"}
  BY DEF CleanupPlaces, InProgress
<1>2. busy \subseteq Repos /\ Repos \subseteq Tickets /\ at \in [busy -> Repos]
  BY DEF Held, EntriesStand, Entry, Tickets
<1>3. Join(busy, at)
  BY <1>1, <1>2 DEF Join
<1>4. /\ LockInv'
      /\ \A t \in Tickets \ busy : Kept(t)
      /\ \A r \in busy : Alive(r)' /\ repoNow'[r] = r
  <2>1. LockTypeOK' /\ busy \in SUBSET Tickets
    BY <1>2 DEF LockTypeOK
  <2>2. \A r \in busy : at[r] = r
    OBVIOUS
  <2>3. LockInv
    OBVIOUS
  <2>4. /\ LockInv'
        /\ \A t \in Tickets \ busy : Kept(t)
        /\ \A r \in busy : Alive(r)' /\ repoNow'[r] = at[r]
    <3> HIDE DEF busy, at, CleanupAll, IInv, TreesTypeOK
    <3> QED BY <1>2, <1>3, <2>1, <2>3, LockJoined
  <2> HIDE DEF busy, at, CleanupAll
  <2> QED BY <2>2, <2>4
<1>5. CallPlaces'
  <2>1. \A c \in Calls : Kept(c)
    BY <1>2, <1>4, NamesApart DEF Tickets
  <2> QED BY <1>1, <2>1 DEF CallPlaces, Kept
<1>6. CleanupPlaces'
  <2>1. \A r \in Repos : todo'[r] # {} => r \in busy
    OBVIOUS
  <2>2. \A r \in Repos : gpc'[r] = IF r \in busy THEN "waiting" ELSE "ended"
    OBVIOUS
  <2> HIDE DEF busy
  <2> QED BY <1>4, <2>1, <2>2 DEF CleanupPlaces
<1>7. WalkOver' /\ EntriesStand' /\ CwdStands' /\ AddersFirst' /\ Settled'
  BY <1>1 DEF WalkOver, EntriesStand, CwdStands, AddersFirst, Settled, InProgress, Nodes
<1>8. TreesKnown'
  <2> SUFFICES ASSUME NEW c \in trees \ stuck, ~Torn(Node(c))
               PROVE  RepoOf(c) \in Repos /\ c \in todo'[RepoOf(c)]
    BY DEF TreesKnown
  <2>1. Node(c) \in Nodes /\ entries[Node(c)] = Entry(c) /\ Entry(c) # Nil
    BY EntriesAreNotNil DEF TreesKnown, Nodes
  <2>2. Entry(c) \in Held /\ Entry(c).repo = RepoOf(c) /\ Entry(c).tree = c
    BY <2>1 DEF Held, Entry
  <2>3. RepoOf(c) \in Repos
    BY <1>2, <2>2
  <2> QED BY <2>2, <2>3
<1> QED BY <1>4, <1>5, <1>6, <1>7, <1>8

LEMMA CleanupKeepsInv ==
  ASSUME IInv, TreesTypeOK', NEW r \in Repos, CleanupStep(r) PROVE IInv'
<1> USE NilIsNoTicket DEF IInv, TreesTypeOK, Nil
<1>1. r \in Tickets /\ phase \in {"cleaning", "settled"} /\ UNCHANGED <<cpc, phase, entries, cwd>>
  BY DEF Tickets, CleanupPlaces, CleanupStep, StartRemoving, RemoveTree, Prune, Pruned
<1>2. phase = "cleaning" /\ \A c \in Calls : cpc[c] \in {"new", "ended"}
  BY <1>1 DEF Settled, WalkOver, InProgress, CleanupStep, StartRemoving, RemoveTree, Prune, Pruned
<1>3. LockInv' /\ \A t \in Tickets \ {r} : Kept(t)
  <2>1. CASE Pruned(r)
    <3>1. Alive(r) /\ MyTurn(r) /\ Release(r)
      BY <2>1 DEF Pruned, CleanupPlaces
    <3> QED BY <1>1, <3>1, LockReleased
  <2>2. CASE ~Pruned(r)
    BY <2>2, LockStays DEF CleanupStep, StartRemoving, RemoveTree, Prune
  <2> QED BY <2>1, <2>2
<1>4. CallPlaces'
  <2>1. \A c \in Calls : Kept(c)
    BY <1>3, NamesApart DEF Tickets
  <2> QED BY <1>1, <1>2, <2>1 DEF CallPlaces, Kept
<1>5. \A s \in Repos \ {r} : gpc'[s] = gpc[s] /\ todo'[s] = todo[s]
  BY DEF CleanupStep, StartRemoving, RemoveTree, Prune, Pruned
<1>6. CleanupPlaces'
  <2>1. /\ gpc'[r] # "off"
        /\ gpc'[r] \in {"waiting", "removing", "pruning"} => Alive(r)' /\ repoNow'[r] = r
        /\ gpc'[r] \in {"removing", "pruning"} => MyTurn(r)'
        /\ todo'[r] # {} => gpc'[r] \in {"waiting", "removing"}
    <3>1. CASE Pruned(r)
      BY <3>1 DEF Pruned, CleanupPlaces
    <3>2. CASE StartRemoving(r) \/ RemoveTree(r) \/ Prune(r)
      <4>1. Kept(r)
        BY <1>1, <3>2, LockStays DEF StartRemoving, RemoveTree, Prune
      <4> QED BY <3>2, <4>1 DEF StartRemoving, RemoveTree, Prune, CleanupPlaces, Kept
    <3> QED BY <3>1, <3>2 DEF CleanupStep
  <2>2. \A s \in Repos \ {r} : s \in Tickets /\ Kept(s)
    BY <1>3 DEF Tickets
  <2> QED BY <1>1, <1>2, <1>5, <2>1, <2>2 DEF CleanupPlaces, Kept
<1>7. WalkOver' /\ AddersFirst' /\ CwdStands' /\ EntriesStand' /\ Settled'
  BY <1>1, <1>2 DEF WalkOver, AddersFirst, CwdStands, EntriesStand, Settled, InProgress, Nodes
<1>8. TreesKnown'
  <2> SUFFICES ASSUME NEW c \in (trees \ stuck)', ~Torn(Node(c))
               PROVE  RepoOf(c) \in Repos /\ c \in todo'[RepoOf(c)]
    BY <1>1, <1>2 DEF TreesKnown
  <2>1. c \in trees \ stuck
    BY DEF CleanupStep, StartRemoving, RemoveTree, Prune, Pruned
  <2>2. RepoOf(c) \in Repos /\ c \in todo[RepoOf(c)]
    BY <1>2, <2>1 DEF TreesKnown
  <2>3. c \in todo'[RepoOf(c)]
    BY <2>2 DEF CleanupStep, StartRemoving, RemoveTree, Prune, Pruned
  <2> QED BY <2>2, <2>3
<1> QED BY <1>3, <1>4, <1>6, <1>7, <1>8

-----------------------------------------------------------------------------
LEMMA StepInv == IInv /\ [TreesNext]_treeVars => IInv'
<1> SUFFICES ASSUME IInv, [TreesNext]_treeVars PROVE IInv'
  OBVIOUS
<1>0. TreesTypeOK'
  BY TypeStep DEF IInv
<1>1. ASSUME NEW c \in Calls, CallStep(c) PROVE IInv'
  <2>1. LockInv'
    BY <1>0, <1>1, CallLock
  <2>2. CallPlaces' /\ CleanupPlaces' /\ WalkOver' /\ Settled'
    BY <1>0, <1>1, CallPlacesStep
  <2>3. EntriesStand' /\ CwdStands' /\ AddersFirst' /\ TreesKnown'
    BY <1>0, <1>1, CallTreesStep
  <2> QED BY <1>0, <2>1, <2>2, <2>3 DEF IInv
<1>2. CASE CleanupAll
  BY <1>0, <1>2, CleanupAllStep
<1>3. ASSUME NEW r \in Repos, CleanupStep(r) PROVE IInv'
  BY <1>0, <1>3, CleanupKeepsInv
<1>4. CASE CleanupEnds \/ UNCHANGED treeVars
  <2>1. LockInv' /\ \A t \in Tickets : Kept(t)
    BY <1>4, LockStays DEF IInv, CleanupEnds, treeVars, lockVars
  <2>2. UNCHANGED <<cpc, gpc, entries, cwd, todo, trees, stuck>>
    BY <1>4 DEF CleanupEnds, treeVars
  <2>3. \/ phase' = phase
        \/ phase = "cleaning" /\ phase' = "settled" /\ \A r \in Repos : gpc[r] = "ended"
    BY <1>4 DEF CleanupEnds, treeVars
  <2>4. CallPlaces' /\ CleanupPlaces'
    BY <2>1, <2>2, <2>3 DEF IInv, CallPlaces, CleanupPlaces, Kept, Tickets
  <2>5. WalkOver' /\ EntriesStand' /\ CwdStands' /\ AddersFirst' /\ TreesKnown' /\ Settled'
    BY <2>2, <2>3 DEF IInv, WalkOver, EntriesStand, CwdStands, AddersFirst, TreesKnown, Settled,
                      InProgress
  <2> QED BY <1>0, <2>1, <2>4, <2>5 DEF IInv
<1> QED BY <1>1, <1>2, <1>3, <1>4 DEF TreesNext

LEMMA InvHolds == IInv => TreesHold
<1> SUFFICES ASSUME IInv PROVE TreesHold
  OBVIOUS
<1> USE NilIsNoTicket DEF IInv, Nil
<1>1. OneGitPerRepo
  <2>1. \A t \in AtWork : t \in Tickets /\ Alive(t) /\ MyTurn(t)
    BY DEF AtWork, Tickets, CallPlaces, CleanupPlaces
  <2> QED BY <2>1 DEF OneGitPerRepo, LockInv, OneTurn
<1>2. TreesAreKept
  <2>1. \A c, d \in Calls : cwd[c] # Nil /\ cwd[c] = cwd[d] => Node(c) = Node(d)
    <3>1. \A c \in Calls : cwd[c] # Nil => Node(cwd[c]) = Node(c)
      BY DEF CwdStands
    <3> QED BY <3>1
  <2>2. phase = "settled" => \A c \in trees \ stuck : Torn(Node(c))
    <3> SUFFICES ASSUME phase = "settled", NEW c \in trees \ stuck, ~Torn(Node(c)) PROVE FALSE
      OBVIOUS
    <3>1. RepoOf(c) \in Repos /\ todo[RepoOf(c)] # {}
      BY DEF TreesKnown
    <3> QED BY <3>1 DEF CleanupPlaces, Settled
  <2> QED BY <2>1, <2>2 DEF TreesAreKept, CwdStands
<1> QED BY <1>1, <1>2 DEF TreesHold

(* Whatever the calls, their nodes, repositories and refs, and in whatever *)
(* order they ask, fail and end: one git command per repository at a time; *)
(* no two nodes in one tree, nobody in a tree that is gone; and no tree is *)
(* left behind, but of a node whose calls disagree about the repository.   *)
(* worktree-manager.ts:104-213.                                            *)
THEOREM TreesAreHeld == TreesSpec => []TreesHold
<1>1. TreesInit => IInv
  BY InitInv
<1>2. IInv /\ [TreesNext]_treeVars => IInv'
  BY StepInv
<1>3. IInv => TreesHold
  BY InvHolds
<1> QED BY <1>1, <1>2, <1>3, PTL DEF TreesSpec

-----------------------------------------------------------------------------
(* Verdicts                                                                *)

Attempts == [exit : {"0", "1", "null"}, timedOut : BOOLEAN, reply : Replies, aborted : BOOLEAN]

(* A call has been begun for each attempt and the one in progress, a       *)
(* second only if no Stop came during the first, and a verdict is that of  *)
(* the last attempt.                                                       *)
CallsCounted == /\ vpc = "start" => begun = 0
                /\ dec.node = "judge" /\ vpc = "calling" => begun = Len(attempts) + 1
                /\ dec.node # "judge" => attempts = <<>> /\ (vpc = "calling" => begun = 1)
StopHeeded == dec.node = "judge" /\ vaborted => begun <= IF abortedAt = 0 THEN 1 ELSE abortedAt
VerdictGiven == /\ vpc # "returned" => branch = "none"
                /\ dec.node = "judge" /\ branch = "next" =>
                     attempts # <<>> /\ ~vaborted /\ Accepted(attempts[Len(attempts)])
VInv == /\ VerdictTypeOK /\ attempts \in Seq(Attempts)
        /\ CallsCounted /\ StopHeeded /\ VerdictGiven

LEMMA VerdictStarts == VerdictInit => VInv
  BY DEF VerdictInit, VInv, VerdictTypeOK, CallsCounted, StopHeeded, VerdictGiven

LEMMA AttemptKeeps == VInv /\ AttemptEnds => VInv'
<1> SUFFICES ASSUME VInv, AttemptEnds  PROVE VInv'
  OBVIOUS
<1>1. PICK exit \in {"0", "1", "null"}, timedOut \in BOOLEAN, r \in Replies :
        LET a == [exit |-> exit, timedOut |-> timedOut, reply |-> r, aborted |-> vaborted]
        IN /\ attempts' = Append(attempts, a)
           /\ IF ~Accepted(a) /\ ~vaborted /\ begun = 1
                THEN /\ begun' = 2
                     /\ UNCHANGED <<dec, vpc, vaborted, abortedAt, branch>>
                ELSE ReturnBranch(IF vaborted \/ ~Accepted(a) THEN "error" ELSE "next")
  BY DEF AttemptEnds
<1> DEFINE a == [exit |-> exit, timedOut |-> timedOut, reply |-> r, aborted |-> vaborted]
<1>2. vpc = "calling" /\ dec.node = "judge"
  BY DEF AttemptEnds
<1>3. a \in Attempts
  BY DEF VInv, VerdictTypeOK, Attempts
<1> HIDE DEF a
<1>4. /\ attempts' \in Seq(Attempts) /\ Len(attempts') = Len(attempts) + 1
      /\ attempts' # <<>> /\ attempts'[Len(attempts')] = a
  BY <1>1, <1>3 DEF VInv, a
<1>5. Len(attempts) \in Nat /\ begun = Len(attempts) + 1 /\ begun \in 1 .. 2
  BY <1>2 DEF VInv, VerdictTypeOK, CallsCounted
<1>6. CASE ~Accepted(a) /\ ~vaborted /\ begun = 1
  BY <1>1, <1>2, <1>4, <1>5, <1>6
     DEF a, VInv, VerdictTypeOK, CallsCounted, StopHeeded, VerdictGiven
<1>7. CASE ~(~Accepted(a) /\ ~vaborted /\ begun = 1)
  <2>1. ReturnBranch(IF vaborted \/ ~Accepted(a) THEN "error" ELSE "next")
    BY <1>1, <1>7 DEF a
  <2>2. /\ vpc' = "returned" /\ branch' \in {"error", "next"}
        /\ UNCHANGED <<dec, vaborted, abortedAt, begun>>
        /\ branch' = "next" => ~vaborted /\ Accepted(a)
    BY <2>1 DEF ReturnBranch
  <2>3. branch' = "next" => Accepted(attempts[Len(attempts)])'
    BY <1>4, <2>2 DEF Accepted
  <2> QED  BY <1>2, <1>4, <1>5, <2>2, <2>3
           DEF VInv, VerdictTypeOK, CallsCounted, StopHeeded, VerdictGiven
<1> QED  BY <1>6, <1>7

LEMMA VerdictKeeps == VInv /\ [VerdictNext]_verdictVars => VInv'
<1> SUFFICES ASSUME VInv, [VerdictNext]_verdictVars  PROVE VInv'
  OBVIOUS
<1> USE DEF VInv, VerdictTypeOK, CallsCounted, StopHeeded, VerdictGiven
<1>1. CASE UNCHANGED verdictVars
  BY <1>1 DEF verdictVars, Accepted
<1>2. CASE Aborts
  BY <1>2 DEF Aborts
<1>3. CASE ExecuteBranch \/ RefuseCondition \/ Sentinel \/ CommandEnds \/ ConditionJudged
           \/ RefuseJudge
  BY <1>3 DEF ExecuteBranch, RefuseCondition, Sentinel, CommandEnds, ConditionJudged,
              RefuseJudge, ReturnBranch
<1>4. CASE CallStrategy \/ FirstAttempt
  BY <1>4 DEF CallStrategy, FirstAttempt, Call
<1>5. CASE AttemptEnds
  BY <1>5, AttemptKeeps
<1> QED  BY <1>1, <1>2, <1>3, <1>4, <1>5 DEF VerdictNext

(* A judge that goes on names a candidate in range on the word of its last *)
(* call, and is not asked again after Stop: judge.ts.                      *)
THEOREM JudgeIsSound == VerdictSpec => []VerdictsAreSound
<1>1. ASSUME VInv  PROVE VerdictsAreSound
  <2>1. ASSUME dec.node = "judge", branch = "next", NEW a, a = attempts[Len(attempts)]
        PROVE  /\ ~vaborted /\ ~a.timedOut /\ a.exit = "0" /\ a.reply.line
               /\ a.reply.winner >= 0 /\ a.reply.winner < dec.candidates
               /\ Len(a.reply.scores) = dec.candidates
    <3>1. Accepted(a) /\ ~vaborted
      BY <1>1, <2>1 DEF VInv, VerdictGiven
    <3>2. dec.candidates \in Nat
      BY <1>1, <2>1, VerdictAssumption DEF VInv, VerdictTypeOK
    <3> QED  BY <3>1, <3>2 DEF Accepted, Acceptable
  <2> QED  BY <1>1, <2>1 DEF VInv, StopHeeded, VerdictsAreSound, JudgeVerdictIsSound
<1> QED  BY <1>1, VerdictStarts, VerdictKeeps, PTL DEF VerdictSpec

-----------------------------------------------------------------------------
(* Triggers                                                                *)

Files == TriggerRecords \cup {NoTrigger, TornFile}
Builds == [on : BOOLEAN, todo : SUBSET TriggerIds, got : [TriggerIds -> Files]]
Midway == {"open", "write", "rename"}

FileTypes ==
  /\ onDisk \in [TriggerIds -> Files] /\ onTmp \in [TriggerIds -> Files]
  /\ found \in [WritersOf -> Files]
  /\ meant \in [TriggerIds -> TriggerRecords \cup {NoTrigger}]
LookupTypes ==
  /\ index \in [TriggerIds -> Files] \cup {NoTrigger}
  /\ build \in [Hits -> Builds]
  /\ joined \in [Hits -> Hits \cup {NoTrigger}] /\ hit \in [Hits -> Files]
  /\ fresh \in [TriggerIds -> SUBSET Files] /\ given \in [Hits -> SUBSET Files]

(* A writer that is about to replace a file has read one it can replace;   *)
(* while the file has no clash, it has read what is still there, the .tmp  *)
(* file is its own to rename, and holds what it wrote if nobody else has   *)
(* opened it.                                                              *)
ReadsFit ==
  \A w \in WritersOf :
    /\ epc[w] \in Midway => found[w] # TornFile /\ (w \in Hits => found[w] # NoTrigger)
    /\ w \in Edits /\ epc[w] \in {"validate", "read"} \cup Midway => Edit(w).op # "delete"
FoundStands ==
  \A w \in WritersOf : epc[w] \in Midway /\ IdOf(w) \notin clash => found[w] = onDisk[IdOf(w)]
TmpHeld ==
  \A w \in WritersOf : epc[w] \in {"write", "rename"} /\ IdOf(w) \notin clash =>
                         fd[w] = "tmp" /\ onTmp[IdOf(w)] # NoTrigger
TmpIsMine ==
  \A w \in WritersOf :
    /\ epc[w] = "rename" /\ IdOf(w) \notin clash
    /\ \A v \in WritersOf \ {w} : IdOf(v) = IdOf(w) => epc[v] \notin {"write", "rename"}
    => onTmp[IdOf(w)] = Replacement(w)
FileInv == /\ TriggersTypeOK /\ FileTypes
           /\ ReadsFit /\ FoundStands /\ TmpHeld /\ TmpIsMine /\ ChangesStand

(* What lookups may give is what is on file, or was; so are the index, and *)
(* what a build has read.                                                  *)
DiskIsFresh == /\ \A i \in TriggerIds : onDisk[i] \in fresh[i]
               /\ \A h \in Looking : onDisk[Hit(h).id] \in given[h]
IndexIsFresh == index # NoTrigger => \A i \in TriggerIds \ clash : index[i] \in fresh[i]
BuildsRead == \A h \in Hits : build[h].on =>
                \A i \in TriggerIds \ clash : i \notin build[h].todo => build[h].got[i] = onDisk[i]
LookupInv == LookupTypes /\ DiskIsFresh /\ IndexIsFresh /\ BuildsRead /\ JudgedByCurrentTrigger

LEMMA IdsAreIds ==
  /\ \A w \in WritersOf : IdOf(w) \in TriggerIds
  /\ \A h \in Hits : IdOf(h) = Hit(h).id /\ h \notin Edits
  /\ NoTrigger # TornFile /\ NoTrigger \notin TriggerRecords /\ TornFile \notin TriggerRecords
  BY TriggersAssumption DEF WritersOf, IdOf

(* What is written is a trigger.                                           *)
LEMMA Replaces ==
  ASSUME FileTypes, ReadsFit, NEW w \in WritersOf, epc[w] \in Midway
  PROVE  Replacement(w) \in TriggerRecords
<1>1. /\ found[w] \in TriggerRecords \cup {NoTrigger}
      /\ w \in Hits => found[w] \in TriggerRecords
  BY DEF FileTypes, ReadsFit, Files
<1>2. CASE w \in Hits
  BY <1>1, <1>2 DEF Replacement, TriggerRecords
<1>3. CASE w \notin Hits
  <2>1. Edit(w).draft \in TriggerRecords
    BY <1>3, TriggersAssumption DEF ReadsFit, WritersOf
  <2>2. (IF found[w] = NoTrigger THEN NoTrigger ELSE found[w].fired) \in Hits \cup {NoTrigger}
    BY <1>1 DEF TriggerRecords
  <2> QED  BY <1>3, <2>1, <2>2 DEF Replacement, TriggerRecords
<1> QED  BY <1>2, <1>3

(* A step that leaves the files alone and takes a writer to a place where  *)
(* it holds no .tmp file.                                                  *)
LEMMA MoveKeeps ==
  ASSUME FileInv, TriggersTypeOK', NEW w \in WritersOf, NEW p,
         epc' = [epc EXCEPT ![w] = p], p \notin Midway,
         w \in Edits /\ p \in {"validate", "read"} => Edit(w).op # "delete",
         fd' = fd \/ fd' = [fd EXCEPT ![w] = "closed"],
         epc[w] # "write", epc[w] = "rename" => onTmp[IdOf(w)] = NoTrigger,
         UNCHANGED <<onDisk, onTmp, found, meant, clash>>
  PROVE  FileInv'
<1>1. \A v \in WritersOf : epc'[v] = IF v = w THEN p ELSE epc[v]
  BY DEF FileInv, TriggersTypeOK
<1>2. \A v \in WritersOf \ {w} : fd'[v] = fd[v]
  BY DEF FileInv, TriggersTypeOK
<1>3. FileTypes' /\ ChangesStand' /\ ReadsFit' /\ FoundStands'
  BY <1>1 DEF FileInv, FileTypes, ChangesStand, ReadsFit, FoundStands, Midway
<1>4. TmpHeld'
  BY <1>1, <1>2 DEF FileInv, TmpHeld, Midway
<1>5. TmpIsMine'
  <2> SUFFICES ASSUME NEW v \in WritersOf, epc'[v] = "rename", IdOf(v) \notin clash,
                      \A u \in WritersOf \ {v} : IdOf(u) = IdOf(v) =>
                                                   epc'[u] \notin {"write", "rename"}
               PROVE  onTmp[IdOf(v)] = Replacement(v)
    BY DEF TmpIsMine, Replacement
  <2>1. v # w /\ epc[v] = "rename"
    BY <1>1 DEF Midway
  <2>2. IdOf(v) = IdOf(w) => epc[w] # "rename"
    BY <2>1 DEF FileInv, TmpHeld
  <2> QED  BY <1>1, <2>1, <2>2 DEF FileInv, TmpIsMine
<1> QED  BY <1>3, <1>4, <1>5 DEF FileInv

LEMMA ReadKeeps ==
  ASSUME FileInv, TriggersTypeOK', NEW w \in WritersOf, ReadTarget(w)
  PROVE  FileInv'
<1>1. /\ epc[w] = "read" /\ found' = [found EXCEPT ![w] = onDisk[IdOf(w)]]
      /\ UNCHANGED <<onDisk, onTmp, fd, meant, clash>>
  BY DEF ReadTarget
<1>2. PICK p \in {"open", "over"} : epc' = [epc EXCEPT ![w] = p]
  BY DEF ReadTarget, GoesTo, Refused
<1>3. p = "open" => onDisk[IdOf(w)] # TornFile /\ (w \in Hits => onDisk[IdOf(w)] # NoTrigger)
  <2>1. epc'[w] = p
    BY <1>2 DEF FileInv, TriggersTypeOK
  <2> QED  BY <2>1 DEF ReadTarget, GoesTo, Refused, FileInv, TriggersTypeOK
<1>4. \A v \in WritersOf : /\ epc'[v] = IF v = w THEN p ELSE epc[v]
                           /\ found'[v] = IF v = w THEN onDisk[IdOf(w)] ELSE found[v]
  BY <1>1, <1>2 DEF FileInv, TriggersTypeOK, FileTypes
<1>5. FileTypes' /\ ChangesStand' /\ ReadsFit' /\ FoundStands' /\ TmpHeld'
  <2>1. IdOf(w) \in TriggerIds
    BY IdsAreIds
  <2> QED  BY <1>1, <1>3, <1>4, <2>1
           DEF FileInv, FileTypes, ChangesStand, ReadsFit, FoundStands, TmpHeld, Midway
<1>6. TmpIsMine'
  <2> SUFFICES ASSUME NEW v \in WritersOf, epc'[v] = "rename", IdOf(v) \notin clash,
                      \A u \in WritersOf \ {v} : IdOf(u) = IdOf(v) =>
                                                   epc'[u] \notin {"write", "rename"}
               PROVE  onTmp[IdOf(v)] = Replacement(v)'
    BY <1>1 DEF TmpIsMine
  <2>1. v # w /\ epc[v] = "rename" /\ Replacement(v)' = Replacement(v)
    BY <1>1, <1>2, <1>4 DEF Replacement
  <2> QED  BY <1>1, <1>4, <2>1 DEF FileInv, TmpIsMine
<1> QED  BY <1>5, <1>6 DEF FileInv

LEMMA OpenKeeps ==
  ASSUME FileInv, TriggersTypeOK', NEW w \in WritersOf, OpenTmp(w)
  PROVE  FileInv'
<1>1. /\ epc[w] = "open" /\ epc' = [epc EXCEPT ![w] = "write"]
      /\ fd' = [fd EXCEPT ![w] = "tmp"] /\ onTmp' = [onTmp EXCEPT ![IdOf(w)] = TornFile]
      /\ UNCHANGED <<onDisk, found, meant, clash>>
  BY DEF OpenTmp, GoesTo
<1>2. /\ \A v \in WritersOf : /\ epc'[v] = IF v = w THEN "write" ELSE epc[v]
                              /\ fd'[v] = IF v = w THEN "tmp" ELSE fd[v]
      /\ \A i \in TriggerIds : onTmp'[i] = IF i = IdOf(w) THEN TornFile ELSE onTmp[i]
      /\ onTmp' \in [TriggerIds -> Files] /\ \A v \in WritersOf : IdOf(v) \in TriggerIds
  BY <1>1, IdsAreIds DEF FileInv, TriggersTypeOK, FileTypes, Files
<1>3. FileTypes' /\ ChangesStand' /\ ReadsFit' /\ FoundStands'
  BY <1>1, <1>2 DEF FileInv, FileTypes, ChangesStand, ReadsFit, FoundStands, Midway
<1>4. TmpHeld'
  BY <1>1, <1>2, IdsAreIds DEF FileInv, TmpHeld
<1>5. TmpIsMine'
  <2> SUFFICES ASSUME NEW v \in WritersOf, epc'[v] = "rename", IdOf(v) \notin clash,
                      \A u \in WritersOf \ {v} : IdOf(u) = IdOf(v) =>
                                                   epc'[u] \notin {"write", "rename"}
               PROVE  onTmp'[IdOf(v)] = Replacement(v)
    BY <1>1 DEF TmpIsMine, Replacement
  <2>1. v # w /\ epc[v] = "rename" /\ IdOf(v) # IdOf(w)
    BY <1>2
  <2>2. onTmp'[IdOf(v)] = onTmp[IdOf(v)]
    BY <1>2, <2>1
  <2> QED  BY <1>2, <2>1, <2>2 DEF FileInv, TmpIsMine
<1> QED  BY <1>3, <1>4, <1>5 DEF FileInv

LEMMA WriteKeeps ==
  ASSUME FileInv, TriggersTypeOK', NEW w \in WritersOf, WriteTmp(w)
  PROVE  FileInv'
<1>1. /\ epc[w] = "write" /\ epc' = [epc EXCEPT ![w] = "rename"]
      /\ UNCHANGED <<fd, found, meant, clash>>
  BY DEF WriteTmp, GoesTo
<1> DEFINE r == Replacement(w)
<1>2. r \in TriggerRecords /\ r \in Files /\ r # NoTrigger
  BY <1>1, Replaces, IdsAreIds DEF FileInv, Midway, Files
<1>3. \A v \in WritersOf : IdOf(v) \in TriggerIds
  BY IdsAreIds
<1> HIDE DEF r
<1>4. /\ \A v \in WritersOf : epc'[v] = IF v = w THEN "rename" ELSE epc[v]
      /\ \A i \in TriggerIds : i \notin clash =>
           /\ onDisk'[i] = onDisk[i]
           /\ onTmp'[i] = IF i = IdOf(w) THEN r ELSE onTmp[i]
      /\ onDisk' \in [TriggerIds -> Files] /\ onTmp' \in [TriggerIds -> Files]
  <2>1. IdOf(w) \notin clash => fd[w] = "tmp"
    BY <1>1 DEF FileInv, TmpHeld
  <2>2. /\ fd[w] = "target" => /\ onDisk' = [onDisk EXCEPT ![IdOf(w)] = r]
                               /\ onTmp' = onTmp
        /\ fd[w] # "target" => /\ onDisk' = onDisk
                               /\ onTmp' = IF fd[w] = "tmp" THEN [onTmp EXCEPT ![IdOf(w)] = r]
                                           ELSE onTmp
    BY DEF WriteTmp, Changes, r
  <2> QED  BY <1>1, <1>2, <1>3, <2>1, <2>2 DEF FileInv, TriggersTypeOK, FileTypes
<1>5. FileTypes' /\ ChangesStand' /\ ReadsFit' /\ FoundStands'
  BY <1>1, <1>3, <1>4 DEF FileInv, FileTypes, ChangesStand, ReadsFit, FoundStands, Midway
<1>6. TmpHeld'
  BY <1>1, <1>2, <1>3, <1>4 DEF FileInv, TmpHeld
<1>7. TmpIsMine'
  <2> SUFFICES ASSUME NEW v \in WritersOf, epc'[v] = "rename", IdOf(v) \notin clash,
                      \A u \in WritersOf \ {v} : IdOf(u) = IdOf(v) =>
                                                   epc'[u] \notin {"write", "rename"}
               PROVE  onTmp'[IdOf(v)] = Replacement(v)
    BY <1>1 DEF TmpIsMine, Replacement
  <2>1. CASE v = w
    BY <1>3, <1>4, <2>1 DEF r
  <2>2. CASE v # w
    <3>1. epc[v] = "rename" /\ IdOf(v) # IdOf(w)
      BY <1>4, <2>2
    <3>2. onTmp'[IdOf(v)] = onTmp[IdOf(v)]
      BY <1>3, <1>4, <3>1
    <3> QED  BY <1>4, <3>1, <3>2 DEF FileInv, TmpIsMine
  <2> QED  BY <2>1, <2>2
<1> QED  BY <1>5, <1>6, <1>7 DEF FileInv

(* Who replaces or removes a file while another writer is midway, or holds *)
(* the .tmp file, clashes.                                                 *)
LEMMA ReplaceKeeps ==
  ASSUME FileInv, TriggersTypeOK', NEW w \in WritersOf, NEW t \in Files,
         NEW p, epc' = [epc EXCEPT ![w] = p], p \notin Midway \cup {"validate", "read"},
         onDisk' = [onDisk EXCEPT ![IdOf(w)] = t],
         \A i \in TriggerIds \ {IdOf(w)} : /\ onTmp'[i] = onTmp[i] /\ meant'[i] = meant[i]
                                           /\ i \in clash' <=> i \in clash,
         onTmp' \in [TriggerIds -> Files],
         meant' \in [TriggerIds -> TriggerRecords \cup {NoTrigger}],
         \A v \in WritersOf : IdOf(v) # IdOf(w) => fd'[v] = fd[v],
         IdOf(w) \notin clash' => /\ Replacing(IdOf(w)) \subseteq {w}
                                 /\ meant'[IdOf(w)] = t,
         found' = found
  PROVE  FileInv'
<1>1. \A v \in WritersOf : IdOf(v) \in TriggerIds
  BY IdsAreIds
<1>2. /\ \A v \in WritersOf : epc'[v] = IF v = w THEN p ELSE epc[v]
      /\ \A i \in TriggerIds : onDisk'[i] = IF i = IdOf(w) THEN t ELSE onDisk[i]
      /\ onDisk' \in [TriggerIds -> Files]
  BY <1>1 DEF FileInv, TriggersTypeOK, FileTypes
<1>3. ASSUME NEW v \in WritersOf, epc'[v] \in Midway, IdOf(v) \notin clash'
      PROVE  v # w /\ epc'[v] = epc[v] /\ IdOf(v) # IdOf(w) /\ IdOf(v) \notin clash
  BY <1>1, <1>2, <1>3 DEF Replacing, Midway
<1>4. FileTypes' /\ ChangesStand'
  BY <1>2 DEF FileInv, FileTypes, ChangesStand
<1>5. ReadsFit' /\ FoundStands' /\ TmpHeld'
  BY <1>1, <1>2, <1>3 DEF FileInv, ReadsFit, FoundStands, TmpHeld, Midway
<1>6. TmpIsMine'
  <2> SUFFICES ASSUME NEW v \in WritersOf, epc'[v] = "rename", IdOf(v) \notin clash',
                      \A u \in WritersOf \ {v} : IdOf(u) = IdOf(v) =>
                                                   epc'[u] \notin {"write", "rename"}
               PROVE  onTmp'[IdOf(v)] = Replacement(v)
    BY DEF TmpIsMine, Replacement
  <2>1. epc[v] = "rename" /\ IdOf(v) # IdOf(w) /\ IdOf(v) \notin clash
    BY <1>3 DEF Midway
  <2> QED  BY <1>1, <1>2, <2>1 DEF FileInv, TmpIsMine
<1> QED  BY <1>4, <1>5, <1>6 DEF FileInv

LEMMA RenameKeeps ==
  ASSUME FileInv, TriggersTypeOK', NEW w \in WritersOf, RenameTmp(w)
  PROVE  FileInv'
<1> DEFINE id == IdOf(w)
           stamped == [meant[id] EXCEPT !.fired = w]
           saved == [Edit(w).draft EXCEPT !.fired =
                       IF meant[id] = NoTrigger THEN NoTrigger ELSE meant[id].fired]
           new == CASE w \in Edits -> saved
                    [] w \in Hits /\ meant[id] # NoTrigger -> stamped
                    [] OTHER -> meant[id]
<1>1. /\ epc[w] = "rename" /\ epc' = [epc EXCEPT ![w] = "changed"] /\ found' = found
      /\ onDisk' = [onDisk EXCEPT ![id] = onTmp[id]]
      /\ onTmp' = [onTmp EXCEPT ![id] = NoTrigger]
      /\ meant' = [meant EXCEPT ![id] = new]
      /\ clash' = IF Replacing(id) \ {w} # {} \/ BuildsRunning THEN clash \cup {id} ELSE clash
  BY DEF RenameTmp, GoesTo, Changes, Clashes
<1>2. \A v \in WritersOf : IdOf(v) # id => fd'[v] = fd[v]
  BY DEF RenameTmp
<1>3. id \in TriggerIds /\ onTmp[id] \in Files /\ Edits \cap Hits = {}
  BY IdsAreIds, TriggersAssumption DEF FileInv, FileTypes
<1>4. new \in TriggerRecords \cup {NoTrigger}
  <2>1. meant[id] \in TriggerRecords \cup {NoTrigger}
    BY <1>3 DEF FileInv, FileTypes
  <2>2. ASSUME w \in Edits  PROVE saved \in TriggerRecords
    <3>1. Edit(w).draft \in TriggerRecords
      BY <1>1, <2>2, TriggersAssumption DEF FileInv, ReadsFit, Midway
    <3>2. (IF meant[id] = NoTrigger THEN NoTrigger ELSE meant[id].fired) \in Hits \cup {NoTrigger}
      BY <2>1 DEF TriggerRecords
    <3> HIDE DEF id
    <3> QED  BY <3>1, <3>2 DEF TriggerRecords
  <2>3. ASSUME w \in Hits, meant[id] # NoTrigger  PROVE stamped \in TriggerRecords
    BY <2>1, <2>3 DEF TriggerRecords
  <2> HIDE DEF saved, stamped, id
  <2> QED  BY <1>3, <2>1, <2>2, <2>3
<1>5. ASSUME id \notin clash'
      PROVE  Replacing(id) \subseteq {w} /\ meant'[id] = onTmp[id]
  <2>1. id \notin clash /\ Replacing(id) \subseteq {w}
    BY <1>1, <1>5
  <2>2. onTmp[id] = Replacement(w)
    BY <1>1, <2>1 DEF FileInv, TmpIsMine, Replacing
  <2>3. found[w] = meant[id]
    BY <1>1, <1>3, <2>1 DEF FileInv, FoundStands, ChangesStand, Midway
  <2>4. w \in Hits => found[w] # NoTrigger
    BY <1>1 DEF FileInv, ReadsFit, Midway
  <2>5. new = Replacement(w)
    BY <1>3, <2>3, <2>4 DEF Replacement, WritersOf
  <2>6. meant'[id] = new
    BY <1>1, <1>3 DEF FileInv, FileTypes
  <2> QED  BY <2>1, <2>2, <2>5, <2>6
<1> HIDE DEF new
<1>6. /\ onTmp' \in [TriggerIds -> Files]
      /\ meant' \in [TriggerIds -> TriggerRecords \cup {NoTrigger}]
      /\ \A i \in TriggerIds \ {id} : /\ onTmp'[i] = onTmp[i] /\ meant'[i] = meant[i]
                                       /\ i \in clash' <=> i \in clash
  BY <1>1, <1>3, <1>4 DEF FileInv, FileTypes, Files
<1>7. "changed" \notin Midway \cup {"validate", "read"}
  BY DEF Midway
<1> QED  BY <1>1, <1>2, <1>3, <1>5, <1>6, <1>7, ReplaceKeeps

LEMMA UnlinkKeeps ==
  ASSUME FileInv, TriggersTypeOK', NEW w \in WritersOf, UnlinkTrigger(w)
  PROVE  FileInv'
<1> DEFINE id == IdOf(w)
<1>1. id \in TriggerIds /\ epc[w] = "unlink" /\ found' = found /\ onTmp' = onTmp
  BY IdsAreIds DEF UnlinkTrigger
<1>2. CASE onDisk[id] = NoTrigger
  <2>1. epc' = [epc EXCEPT ![w] = "over"] /\ UNCHANGED <<onDisk, onTmp, fd, found, meant, clash>>
    BY <1>2 DEF UnlinkTrigger, Refused, GoesTo
  <2> QED  BY <1>1, <2>1, MoveKeeps DEF Midway
<1>3. CASE onDisk[id] # NoTrigger
  <2>1. /\ epc' = [epc EXCEPT ![w] = "changed"]
        /\ onDisk' = [onDisk EXCEPT ![id] = NoTrigger]
        /\ meant' = [meant EXCEPT ![id] = NoTrigger]
        /\ clash' = IF Replacing(id) \ {w} # {} \/ BuildsRunning THEN clash \cup {id} ELSE clash
        /\ \A v \in WritersOf : IdOf(v) # id => fd'[v] = fd[v]
    BY <1>3 DEF UnlinkTrigger, GoesTo, Changes, Clashes
  <2>2. /\ NoTrigger \in Files /\ meant'[id] = NoTrigger
        /\ onTmp' \in [TriggerIds -> Files]
        /\ meant' \in [TriggerIds -> TriggerRecords \cup {NoTrigger}]
        /\ \A i \in TriggerIds \ {id} : /\ onTmp'[i] = onTmp[i] /\ meant'[i] = meant[i]
                                         /\ i \in clash' <=> i \in clash
    BY <1>1, <2>1 DEF FileInv, FileTypes, Files
  <2>3. "changed" \notin Midway \cup {"validate", "read"}
    BY DEF Midway
  <2> QED  BY <1>1, <2>1, <2>2, <2>3, ReplaceKeeps
<1> QED  BY <1>2, <1>3

LEMMA TriggerTypesKeep ==
  ASSUME TriggersTypeOK, DOMAIN joined = Hits, [TriggersNext]_triggerVars
  PROVE  TriggersTypeOK'
<1> DEFINE Places == {"new", "validate", "read", "open", "write", "rename", "unlink",
                      "changed", "over"}
           Codes == {0, 200, 202, 204, 400, 401, 404, 413, 422, 500, 503}
           Descriptors == {"closed", "tmp", "target", "gone"}
           Stages == {"new", "looking", "route", "match", "over"}
<1>1. /\ DOMAIN onDisk = TriggerIds /\ DOMAIN onTmp = TriggerIds
      /\ fd \in [WritersOf -> Descriptors] /\ epc \in [WritersOf -> Places]
      /\ building \in Hits \cup {NoTrigger} /\ hpc \in [Hits -> Stages]
      /\ status \in [WritersOf -> Codes] /\ clash \subseteq TriggerIds
  BY DEF TriggersTypeOK
<1>2. Edits \subseteq WritersOf /\ Hits \subseteq WritersOf
  BY DEF WritersOf
<1>3. ASSUME NEW w \in WritersOf,
             \/ w \in Edits /\ EditArrives(w)
             \/ ValidateEdit(w) \/ ReadTarget(w) \/ OpenTmp(w)
      PROVE  TriggersTypeOK'
  <2>1. /\ \E p \in Places : epc' = [epc EXCEPT ![w] = p]
        /\ status' = status \/ \E c \in Codes : status' = [status EXCEPT ![w] = c]
    <3>1. CASE w \in Edits /\ EditArrives(w)
      <4>1. Edit(w).op \in {"post", "put", "delete"}
        BY <3>1, TriggersAssumption
      <4>2. CASE Edit(w).op = "post"
        BY <3>1, <4>2 DEF EditArrives, GoesTo
      <4>3. CASE Edit(w).op = "put"
        BY <3>1, <4>3 DEF EditArrives, GoesTo, Refused
      <4>4. CASE Edit(w).op = "delete"
        BY <3>1, <4>4 DEF EditArrives, GoesTo
      <4> QED  BY <4>1, <4>2, <4>3, <4>4
    <3>2. CASE ValidateEdit(w) \/ ReadTarget(w) \/ OpenTmp(w)
      BY <3>2 DEF ValidateEdit, ReadTarget, OpenTmp, GoesTo, Refused
    <3> QED  BY <1>3, <3>1, <3>2
  <2>2. /\ fd' = fd \/ fd' = [fd EXCEPT ![w] = "tmp"]
        /\ DOMAIN onTmp' = DOMAIN onTmp
        /\ UNCHANGED <<onDisk, building, hpc, clash>>
    BY <1>3 DEF EditArrives, ValidateEdit, ReadTarget, OpenTmp, indexVars, hookVars
  <2>3. epc' \in [WritersOf -> Places] /\ status' \in [WritersOf -> Codes]
    BY <1>1, <2>1
  <2> QED  BY <1>1, <2>2, <2>3 DEF TriggersTypeOK
<1>4. ASSUME NEW w \in WritersOf,
             WriteTmp(w) \/ RenameTmp(w) \/ RenameFails(w) \/ UnlinkTrigger(w)
      PROVE  TriggersTypeOK'
  <2>1. /\ \E p \in Places : epc' = [epc EXCEPT ![w] = p]
        /\ status' = status \/ \E c \in Codes : status' = [status EXCEPT ![w] = c]
    BY <1>4 DEF WriteTmp, RenameTmp, RenameFails, UnlinkTrigger, GoesTo, Refused
  <2>2. UNCHANGED <<building, hpc>> /\ clash' \subseteq clash \cup {IdOf(w)}
    BY <1>4 DEF WriteTmp, RenameTmp, RenameFails, UnlinkTrigger, Clashes, indexVars, hookVars
  <2>3. DOMAIN onTmp' = DOMAIN onTmp /\ DOMAIN onDisk' = DOMAIN onDisk
    BY <1>4 DEF WriteTmp, RenameTmp, RenameFails, UnlinkTrigger, Changes
  <2>4. fd' \in [WritersOf -> Descriptors]
    BY <1>1, <1>4 DEF WriteTmp, RenameTmp, RenameFails, UnlinkTrigger
  <2>5. epc' \in [WritersOf -> Places] /\ status' \in [WritersOf -> Codes]
    BY <1>1, <2>1
  <2>6. clash' \subseteq TriggerIds
    BY <1>1, <2>2, IdsAreIds
  <2> QED  BY <1>1, <2>2, <2>3, <2>4, <2>5, <2>6 DEF TriggersTypeOK
<1>5. ASSUME NEW w \in WritersOf, Invalidate(w)
      PROVE  TriggersTypeOK'
  BY <1>1, <1>5 DEF Invalidate, Acknowledged, GoesTo, hookVars, TriggersTypeOK
<1>6. ASSUME NEW h \in Hits, RefuseHit(h) \/ RouteHit(h) \/ MatchHit(h)
      PROVE  TriggersTypeOK'
  <2>1. /\ \/ hpc' = [hpc EXCEPT ![h] = "match"] /\ status' = status
           \/ \E c \in Codes : Ends(h, c)
        /\ UNCHANGED <<onDisk, onTmp, fd, epc, building, clash>>
    BY <1>6 DEF RefuseHit, RouteHit, MatchHit, editVars, indexVars
  <2>2. hpc' \in [Hits -> Stages] /\ status' \in [WritersOf -> Codes]
    BY <1>1, <2>1 DEF Ends
  <2> QED  BY <1>1, <2>1, <2>2 DEF TriggersTypeOK
<1>7. ASSUME NEW h \in Hits, LookUp(h)
      PROVE  TriggersTypeOK'
  <2>1. /\ UNCHANGED <<onDisk, onTmp, fd, epc, status, clash>>
        /\ \E p \in {"route", "looking"} : hpc' = [hpc EXCEPT ![h] = p]
    BY <1>7 DEF LookUp, editVars
  <2>2. \/ building' = building
        \/ building' = [joined EXCEPT ![h] = IF building = NoTrigger THEN h ELSE building][h]
    BY <1>7 DEF LookUp
  <2>3. building' \in Hits \cup {NoTrigger}
    BY <1>1, <2>2
  <2> QED  BY <1>1, <2>1, <2>3 DEF TriggersTypeOK
<1>8. ASSUME NEW h \in Hits, ReadTrigger(h) \/ FinishBuild(h) \/ TouchLastFired(h)
      PROVE  TriggersTypeOK'
  BY <1>1, <1>8 DEF ReadTrigger, FinishBuild, TouchLastFired, GoesTo, editVars, indexVars,
                    hookVars, TriggersTypeOK
<1>9. ASSUME NEW h \in Hits, LookUpFails(h)
      PROVE  TriggersTypeOK'
  <2>1. /\ UNCHANGED <<onDisk, onTmp, fd, epc, clash>> /\ \E c \in Codes : Ends(h, c)
        /\ building' = IF building = NoTrigger THEN h ELSE building
    BY <1>9 DEF LookUpFails, editVars
  <2>2. building' \in Hits \cup {NoTrigger}
    BY <1>1, <2>1
  <2>3. hpc' \in [Hits -> Stages] /\ status' \in [WritersOf -> Codes]
    <3>1. PICK c \in Codes : Ends(h, c)
      BY <2>1
    <3>2. hpc' = [hpc EXCEPT ![h] = "over"] /\ status' = [status EXCEPT ![h] = c]
      BY <3>1 DEF Ends
    <3>3. "over" \in Stages
      OBVIOUS
    <3> HIDE DEF Codes, Stages
    <3>4. hpc' \in [Hits -> Stages]
      BY <1>1, <3>2, <3>3
    <3>5. status' \in [WritersOf -> Codes]
      BY <1>1, <3>2
    <3> QED  BY <3>4, <3>5
  <2> QED  BY <1>1, <2>1, <2>2, <2>3 DEF TriggersTypeOK
<1>10. CASE UNCHANGED triggerVars
  BY <1>1, <1>10 DEF triggerVars, TriggersTypeOK
<1> QED  BY <1>2, <1>3, <1>4, <1>5, <1>6, <1>7, <1>8, <1>9, <1>10
         DEF TriggersNext, WriterNext, EditNext, HitNext

LEMMA FilesKeep ==
  ASSUME FileInv, TriggersTypeOK', [TriggersNext]_triggerVars
  PROVE  FileInv'
<1>1. Edits \subseteq WritersOf /\ Hits \subseteq WritersOf
  BY DEF WritersOf
<1>2. ASSUME NEW w \in Edits, EditArrives(w) \/ ValidateEdit(w)
      PROVE  FileInv'
  <2>1. PICK p \in {"validate", "read", "unlink", "over"} : epc' = [epc EXCEPT ![w] = p]
    BY <1>2, TriggersAssumption DEF EditArrives, ValidateEdit, GoesTo, Refused
  <2>2. /\ UNCHANGED <<onDisk, onTmp, fd, found, meant, clash>>
        /\ epc[w] \in {"new", "validate"}
    BY <1>2 DEF EditArrives, ValidateEdit
  <2>3. p \in {"validate", "read"} => Edit(w).op # "delete"
    <3>1. CASE epc[w] = "validate"
      BY <1>1, <3>1 DEF FileInv, ReadsFit
    <3>2. CASE epc[w] = "new" /\ Edit(w).op = "delete"
      <4>1. epc' = [epc EXCEPT ![w] = "unlink"]
        BY <1>2, <3>2 DEF EditArrives, ValidateEdit, GoesTo
      <4>2. p = "unlink"
        BY <1>1, <2>1, <4>1 DEF FileInv, TriggersTypeOK
      <4> QED  BY <4>2
    <3> QED  BY <2>2, <3>1, <3>2
  <2> QED  BY <1>1, <2>1, <2>2, <2>3, MoveKeeps DEF Midway
<1>3. ASSUME NEW w \in WritersOf, RenameFails(w) \/ Invalidate(w)
      PROVE  FileInv'
  <2>1. /\ \E p \in {"over"} : epc' = [epc EXCEPT ![w] = p]
        /\ UNCHANGED <<onDisk, onTmp, found, meant, clash>>
        /\ fd' = fd \/ fd' = [fd EXCEPT ![w] = "closed"]
        /\ epc[w] \in {"rename", "changed"}
        /\ epc[w] = "rename" => onTmp[IdOf(w)] = NoTrigger
    BY <1>3 DEF RenameFails, Invalidate, Acknowledged, GoesTo, Refused
  <2> QED  BY <2>1, MoveKeeps DEF Midway
<1>4. ASSUME NEW h \in Hits, TouchLastFired(h)
      PROVE  FileInv'
  <2>1. /\ epc' = [epc EXCEPT ![h] = "read"] /\ epc[h] = "new"
        /\ UNCHANGED <<onDisk, onTmp, fd, found, meant, clash>>
    BY <1>4 DEF TouchLastFired, GoesTo
  <2> QED  BY <1>1, <2>1, IdsAreIds, MoveKeeps DEF Midway
<1>5. CASE UNCHANGED <<editVars, clash>>
  BY <1>5 DEF editVars, FileInv, TriggersTypeOK, FileTypes, ReadsFit, FoundStands, TmpHeld,
              TmpIsMine, Replacement, ChangesStand
<1>6. ASSUME NEW h \in Hits,
             \/ RefuseHit(h) \/ LookUp(h) \/ LookUpFails(h) \/ ReadTrigger(h)
             \/ FinishBuild(h) \/ RouteHit(h) \/ MatchHit(h)
      PROVE  UNCHANGED <<editVars, clash>>
  BY <1>6 DEF RefuseHit, LookUp, LookUpFails, ReadTrigger, FinishBuild, RouteHit, MatchHit
<1>7. CASE UNCHANGED triggerVars
  BY <1>5, <1>7 DEF triggerVars, editVars
<1> QED  BY <1>1, <1>2, <1>3, <1>4, <1>5, <1>6, <1>7, ReadKeeps, OpenKeeps, WriteKeeps,
            RenameKeeps, UnlinkKeeps DEF TriggersNext, WriterNext, EditNext, HitNext

-----------------------------------------------------------------------------
(* Lookups                                                                 *)

(* A step that changes no file and nothing that lookups read.              *)
LEMMA LookupsRest ==
  ASSUME LookupInv,
         \A h \in Hits : /\ hpc'[h] = "looking" <=> hpc[h] = "looking"
                         /\ hpc'[h] \in {"route", "match"} => hpc[h] \in {"route", "match"},
         UNCHANGED <<onDisk, index, build, joined, hit, fresh, given, clash>>
  PROVE  LookupInv'
  BY DEF LookupInv, LookupTypes, DiskIsFresh, Looking, IndexIsFresh, BuildsRead,
         JudgedByCurrentTrigger

(* A file changes: no build is reading, or it is noted that one was.       *)
LEMMA ChangeKeeps ==
  ASSUME LookupInv, FileTypes, NEW i \in TriggerIds, NEW t \in Files, Changes(i, t),
         clash \subseteq clash', i \in clash' \/ ~BuildsRunning,
         UNCHANGED <<index, build, hpc, joined, hit>>
  PROVE  LookupInv'
<1>1. /\ \A j \in TriggerIds : /\ onDisk'[j] = IF j = i THEN t ELSE onDisk[j]
                               /\ fresh'[j] = IF j = i THEN fresh[j] \cup {t} ELSE fresh[j]
      /\ fresh' \in [TriggerIds -> SUBSET Files]
  BY DEF Changes, LookupInv, LookupTypes, FileTypes
<1>2. /\ \A h \in Hits : given'[h] = IF h \in Looking /\ Hit(h).id = i
                                    THEN given[h] \cup {t} ELSE given[h]
      /\ given' \in [Hits -> SUBSET Files]
  BY DEF Changes, LookupInv, LookupTypes
<1>3. \A h \in Hits : Hit(h).id \in TriggerIds
  BY TriggersAssumption
<1>4. LookupTypes' /\ DiskIsFresh'
  BY <1>1, <1>2, <1>3 DEF LookupInv, LookupTypes, DiskIsFresh, Looking
<1>5. IndexIsFresh' /\ BuildsRead'
  BY <1>1 DEF LookupInv, IndexIsFresh, BuildsRead, BuildsRunning
<1>6. JudgedByCurrentTrigger'
  BY <1>2 DEF LookupInv, JudgedByCurrentTrigger
<1> QED  BY <1>4, <1>5, <1>6 DEF LookupInv

LEMMA WritersKeepLookups ==
  ASSUME FileInv, LookupInv, NEW w \in WritersOf,
         WriteTmp(w) \/ RenameTmp(w) \/ UnlinkTrigger(w)
  PROVE  LookupInv'
<1>1. IdOf(w) \in TriggerIds
  BY IdsAreIds
<1>2. UNCHANGED <<index, build, hpc, joined, hit>>
  BY DEF WriteTmp, RenameTmp, UnlinkTrigger, indexVars, hookVars
<1>3. CASE WriteTmp(w)
  <2>1. CASE fd[w] = "target"
    <3>1. Changes(IdOf(w), Replacement(w)) /\ clash' = clash /\ epc[w] = "write"
      BY <1>3, <2>1 DEF WriteTmp
    <3>2. IdOf(w) \in clash /\ Replacement(w) \in Files
      BY <2>1, <3>1, Replaces DEF FileInv, TmpHeld, Files, Midway
    <3> QED  BY <1>1, <1>2, <3>1, <3>2, ChangeKeeps DEF FileInv
  <2>2. CASE fd[w] # "target"
    BY <1>2, <1>3, <2>2, LookupsRest DEF WriteTmp
  <2> QED  BY <2>1, <2>2
<1>4. CASE RenameTmp(w) \/ (UnlinkTrigger(w) /\ onDisk[IdOf(w)] # NoTrigger)
  <2>1. PICK t \in Files : Changes(IdOf(w), t)
    BY <1>1, <1>4 DEF RenameTmp, UnlinkTrigger, FileInv, FileTypes, Files
  <2>2. Clashes(w, IdOf(w))
    BY <1>4 DEF RenameTmp, UnlinkTrigger
  <2> QED  BY <1>1, <1>2, <2>1, <2>2, ChangeKeeps DEF FileInv, Clashes
<1>5. CASE UnlinkTrigger(w) /\ onDisk[IdOf(w)] = NoTrigger
  BY <1>2, <1>5, LookupsRest DEF UnlinkTrigger
<1> QED  BY <1>3, <1>4, <1>5

LEMMA InvalidateKeepsLookups ==
  ASSUME FileInv, LookupInv, NEW w \in WritersOf, Invalidate(w)
  PROVE  LookupInv'
<1>1. /\ index' = NoTrigger /\ UNCHANGED <<onDisk, build, hpc, joined, hit, given, clash>>
      /\ fresh' = fresh \/ fresh' = [fresh EXCEPT ![IdOf(w)] = {onDisk[IdOf(w)]}]
  BY DEF Invalidate, Announced, hookVars
<1>2. IdOf(w) \in TriggerIds /\ \A i \in TriggerIds : onDisk[i] \in Files
  BY IdsAreIds DEF FileInv, FileTypes
<1>3. LookupTypes' /\ DiskIsFresh'
  BY <1>1, <1>2 DEF LookupInv, LookupTypes, DiskIsFresh, Looking
<1>4. IndexIsFresh' /\ BuildsRead' /\ JudgedByCurrentTrigger'
  BY <1>1 DEF LookupInv, IndexIsFresh, BuildsRead, JudgedByCurrentTrigger
<1> QED  BY <1>3, <1>4 DEF LookupInv

LEMMA LookUpKeeps ==
  ASSUME FileInv, LookupInv, NEW h \in Hits, LookUp(h)
  PROVE  LookupInv'
<1> DEFINE id == Hit(h).id
<1>1. id \in TriggerIds
  BY TriggersAssumption
<1>2. /\ hpc[h] = "new" /\ given' = [given EXCEPT ![h] = fresh[id]]
      /\ UNCHANGED <<onDisk, index, fresh, clash>>
  BY DEF LookUp, ComesIn, editVars
<1>3. PICK p \in {"route", "looking"} :
        hpc' = [hpc EXCEPT ![h] = p] /\ (p = "route" <=> index # NoTrigger)
  BY DEF LookUp
<1>4. \A g \in Hits : /\ hpc'[g] = IF g = h THEN p ELSE hpc[g]
                      /\ given'[g] = IF g = h THEN fresh[id] ELSE given[g]
  BY <1>2, <1>3 DEF FileInv, TriggersTypeOK, LookupInv, LookupTypes
<1>5. given' \in [Hits -> SUBSET Files]
  BY <1>1, <1>2 DEF LookupInv, LookupTypes
<1>6. DiskIsFresh' /\ IndexIsFresh'
  BY <1>1, <1>2, <1>4 DEF LookupInv, DiskIsFresh, IndexIsFresh, Looking
<1>7. CASE index # NoTrigger
  <2>1. hit' = [hit EXCEPT ![h] = index[id]] /\ UNCHANGED <<joined, build>>
    BY <1>7 DEF LookUp
  <2>2. index[id] \in Files /\ (id \notin clash => index[id] \in fresh[id])
    BY <1>1, <1>7 DEF LookupInv, LookupTypes, IndexIsFresh
  <2>3. \A g \in Hits : hit'[g] = IF g = h THEN index[id] ELSE hit[g]
    BY <2>1 DEF LookupInv, LookupTypes
  <2>4. LookupTypes'
    BY <1>2, <1>5, <2>1, <2>2 DEF LookupInv, LookupTypes
  <2>5. BuildsRead' /\ JudgedByCurrentTrigger'
    BY <1>2, <1>4, <2>1, <2>2, <2>3 DEF LookupInv, BuildsRead, JudgedByCurrentTrigger
  <2> QED  BY <1>6, <2>4, <2>5 DEF LookupInv
<1>8. CASE index = NoTrigger
  <2> DEFINE b == [NoBuild EXCEPT !.on = TRUE,
                                  !.todo = {i \in TriggerIds : onDisk[i] # NoTrigger}]
  <2>1. /\ hit' = hit
        /\ joined' = [joined EXCEPT ![h] = IF building = NoTrigger THEN h ELSE building]
        /\ build' = IF building # NoTrigger THEN build ELSE [build EXCEPT ![h] = b]
    BY <1>8 DEF LookUp
  <2>2. /\ b \in Builds /\ \A i \in TriggerIds : i \notin b.todo => b.got[i] = onDisk[i]
    BY DEF NoBuild, Builds, Files
  <2> HIDE DEF b
  <2>3. joined' \in [Hits -> Hits \cup {NoTrigger}]
    BY <2>1 DEF LookupInv, LookupTypes, FileInv, TriggersTypeOK
  <2>4. build' \in [Hits -> Builds] /\ \A g \in Hits : build'[g] \in {build[g], b}
    BY <2>1, <2>2 DEF LookupInv, LookupTypes
  <2>5. LookupTypes'
    BY <1>2, <1>5, <2>1, <2>3, <2>4 DEF LookupInv, LookupTypes
  <2>6. BuildsRead'
    BY <1>2, <2>2, <2>4 DEF LookupInv, BuildsRead
  <2>7. JudgedByCurrentTrigger'
    BY <1>2, <1>3, <1>4, <1>8, <2>1 DEF LookupInv, JudgedByCurrentTrigger
  <2> QED  BY <1>6, <2>5, <2>6, <2>7 DEF LookupInv
<1> QED  BY <1>7, <1>8

LEMMA ReadTriggerKeeps ==
  ASSUME FileInv, LookupInv, NEW h \in Hits, ReadTrigger(h)
  PROVE  LookupInv'
<1>1. PICK i \in build[h].todo :
        build' = [build EXCEPT ![h].todo = @ \ {i},
                               ![h].got[i] = IF onDisk[i] = TornFile THEN NoTrigger ELSE onDisk[i]]
  BY DEF ReadTrigger
<1>2. UNCHANGED <<onDisk, index, hpc, joined, hit, fresh, given, clash>>
  BY DEF ReadTrigger, editVars, hookVars
<1> DEFINE read == IF onDisk[i] = TornFile THEN NoTrigger ELSE onDisk[i]
<1>3. /\ i \in TriggerIds /\ read \in Files /\ build[h] \in Builds
      /\ i \notin clash => read = onDisk[i]
  <2>1. i \in TriggerIds /\ build[h] \in Builds
    BY DEF LookupInv, LookupTypes, Builds
  <2>2. read \in Files
    BY <2>1 DEF FileInv, FileTypes, Files
  <2>3. i \notin clash => onDisk[i] # TornFile
    BY <2>1, IdsAreIds DEF FileInv, FileTypes, ChangesStand
  <2> QED  BY <2>1, <2>2, <2>3
<1> HIDE DEF read
<1>4. build'[h] = [on |-> build[h].on, todo |-> build[h].todo \ {i},
                   got |-> [build[h].got EXCEPT ![i] = read]]
  BY <1>1, <1>3 DEF LookupInv, LookupTypes, Builds, read
<1>5. build' \in [Hits -> Builds] /\ \A g \in Hits \ {h} : build'[g] = build[g]
  BY <1>1, <1>3, <1>4 DEF LookupInv, LookupTypes, Builds
<1>6. BuildsRead'
  <2> SUFFICES ASSUME build[h].on, NEW j \in TriggerIds \ clash, j \notin build'[h].todo
               PROVE  build'[h].got[j] = onDisk[j]
    <3>1. ASSUME NEW g \in Hits \ {h}, build'[g].on,
                 NEW j \in TriggerIds \ clash, j \notin build'[g].todo
          PROVE  build'[g].got[j] = onDisk[j]
      BY <1>5, <3>1 DEF LookupInv, BuildsRead
    <3>2. build'[h].on = build[h].on
      BY <1>4
    <3> QED  BY <1>2, <3>1, <3>2 DEF BuildsRead
  <2>1. CASE j = i
    BY <1>3, <1>4, <2>1 DEF Builds
  <2>2. CASE j # i
    BY <1>3, <1>4, <2>2 DEF Builds, LookupInv, BuildsRead
  <2> QED  BY <2>1, <2>2
<1> QED  BY <1>2, <1>5, <1>6
         DEF LookupInv, LookupTypes, DiskIsFresh, Looking, IndexIsFresh, JudgedByCurrentTrigger

LEMMA FinishBuildKeeps ==
  ASSUME FileInv, LookupInv, NEW h \in Hits, FinishBuild(h)
  PROVE  LookupInv'
<1> DEFINE with == {g \in Hits : hpc[g] = "looking" /\ joined[g] = h}
           got == build[h].got
<1>1. /\ build[h].on /\ build[h].todo = {} /\ index' = got
      /\ hpc' = [g \in Hits |-> IF g \in with THEN "route" ELSE hpc[g]]
      /\ hit' = [g \in Hits |-> IF g \in with THEN got[Hit(g).id] ELSE hit[g]]
      /\ build' = [build EXCEPT ![h] = NoBuild]
      /\ UNCHANGED <<onDisk, joined, fresh, given, clash>>
  BY DEF FinishBuild, editVars
<1>2. got \in [TriggerIds -> Files] /\ \A i \in TriggerIds \ clash : got[i] = onDisk[i]
  BY <1>1 DEF LookupInv, LookupTypes, Builds, BuildsRead
<1>3. \A g \in Hits : Hit(g).id \in TriggerIds
  BY TriggersAssumption
<1> HIDE DEF got
<1>4. LookupTypes'
  <2>1. NoBuild \in Builds
    BY DEF NoBuild, Builds, Files
  <2> QED  BY <1>1, <1>2, <1>3, <2>1 DEF LookupInv, LookupTypes
<1>5. DiskIsFresh' /\ IndexIsFresh'
  BY <1>1, <1>2 DEF LookupInv, DiskIsFresh, IndexIsFresh, Looking
<1>6. BuildsRead'
  <2>1. ~NoBuild.on /\ \A g \in Hits : build'[g] = IF g = h THEN NoBuild ELSE build[g]
    BY <1>1 DEF NoBuild, LookupInv, LookupTypes
  <2> QED  BY <1>1, <2>1 DEF LookupInv, BuildsRead
<1>7. JudgedByCurrentTrigger'
  <2> SUFFICES ASSUME NEW g \in Hits, hpc'[g] \in {"route", "match"}, Hit(g).id \notin clash
               PROVE  hit'[g] \in given[g]
    BY <1>1 DEF JudgedByCurrentTrigger
  <2>1. CASE g \in with
    BY <1>1, <1>2, <1>3, <2>1 DEF LookupInv, DiskIsFresh, Looking
  <2>2. CASE g \notin with
    BY <1>1, <2>2 DEF LookupInv, JudgedByCurrentTrigger
  <2> QED  BY <2>1, <2>2
<1> QED  BY <1>4, <1>5, <1>6, <1>7 DEF LookupInv

LEMMA LookupsKeep ==
  ASSUME FileInv, LookupInv, [TriggersNext]_triggerVars
  PROVE  LookupInv'
<1>1. Edits \subseteq WritersOf
  BY DEF WritersOf
<1>2. ASSUME NEW w \in WritersOf,
             \/ EditArrives(w) \/ ValidateEdit(w) \/ ReadTarget(w) \/ OpenTmp(w)
             \/ RenameFails(w) \/ TouchLastFired(w) \/ UNCHANGED triggerVars
      PROVE  LookupInv'
  <2>1. UNCHANGED <<onDisk, index, build, hpc, joined, hit, fresh, given, clash>>
    BY <1>2 DEF EditArrives, ValidateEdit, ReadTarget, OpenTmp, RenameFails, TouchLastFired,
                indexVars, hookVars, triggerVars
  <2> QED  BY <2>1, LookupsRest
<1>3. ASSUME NEW h \in Hits, RefuseHit(h) \/ LookUpFails(h) \/ RouteHit(h) \/ MatchHit(h)
      PROVE  LookupInv'
  <2>1. /\ UNCHANGED <<onDisk, index, build, joined, hit, fresh, given, clash>>
        /\ \E p \in {"match", "over"} : hpc' = [hpc EXCEPT ![h] = p]
        /\ hpc[h] # "looking" /\ (hpc[h] = "new" => hpc' = [hpc EXCEPT ![h] = "over"])
    BY <1>3 DEF RefuseHit, LookUpFails, ComesIn, RouteHit, MatchHit, Ends, editVars, indexVars
  <2>2. \A g \in Hits : /\ hpc'[g] = "looking" <=> hpc[g] = "looking"
                        /\ hpc'[g] \in {"route", "match"} => hpc[g] \in {"route", "match"}
    BY <1>3, <2>1 DEF FileInv, TriggersTypeOK, RefuseHit, LookUpFails, ComesIn, RouteHit, MatchHit
  <2> QED  BY <2>1, <2>2, LookupsRest
<1>4. CASE UNCHANGED triggerVars
  <2>1. UNCHANGED <<onDisk, index, build, hpc, joined, hit, fresh, given, clash>>
    BY <1>4 DEF triggerVars
  <2> QED  BY <2>1, LookupsRest
<1>5. Hits \subseteq WritersOf
  BY DEF WritersOf
<1> QED  BY <1>1, <1>2, <1>3, <1>4, <1>5, WritersKeepLookups, InvalidateKeepsLookups,
            LookUpKeeps, ReadTriggerKeeps, FinishBuildKeeps
         DEF TriggersNext, WriterNext, EditNext, HitNext

LEMMA TriggersStart == TriggersInit => FileInv /\ LookupInv
<1> SUFFICES ASSUME TriggersInit  PROVE FileInv /\ LookupInv
  OBVIOUS
<1>1. /\ Initial \in [TriggerIds -> TriggerRecords \cup {NoTrigger}]
      /\ NoTrigger \in Files /\ TriggerRecords \subseteq Files
      /\ \A h \in Hits : Hit(h).id \in TriggerIds
  BY TriggersAssumption DEF Files
<1>2. FileInv
  BY <1>1 DEF TriggersInit, FileInv, TriggersTypeOK, FileTypes, ReadsFit, FoundStands, TmpHeld,
              TmpIsMine, ChangesStand, Midway
<1>3. LookupTypes
  <2>1. NoBuild \in Builds
    BY <1>1 DEF NoBuild, Builds
  <2> QED  BY <1>1, <2>1 DEF TriggersInit, LookupTypes
<1>4. DiskIsFresh /\ IndexIsFresh /\ BuildsRead /\ JudgedByCurrentTrigger
  BY <1>1 DEF TriggersInit, DiskIsFresh, Looking, IndexIsFresh, BuildsRead, NoBuild,
              JudgedByCurrentTrigger
<1> QED  BY <1>2, <1>3, <1>4 DEF LookupInv

(* A webhook request is judged by a trigger as it was on file while the    *)
(* request was looked up, however the index is built, joined, invalidated  *)
(* and filled meanwhile, and no change of a trigger is lost, except for a  *)
(* file with overlapping changes (trigger-store.ts, trigger-index.ts).     *)
THEOREM TriggersAreCurrent == TriggersSpec => []TriggersHold
<1>1. FileInv /\ LookupInv /\ [TriggersNext]_triggerVars => (FileInv /\ LookupInv)'
  <2>1. FileInv /\ LookupInv => TriggersTypeOK /\ DOMAIN joined = Hits
    BY DEF FileInv, LookupInv, LookupTypes
  <2> QED  BY <2>1, TriggerTypesKeep, FilesKeep, LookupsKeep
<1>2. FileInv /\ LookupInv => TriggersHold
  BY DEF FileInv, LookupInv, TriggersHold
<1> QED  BY <1>1, <1>2, TriggersStart, PTL DEF TriggersSpec

-----------------------------------------------------------------------------
(* Output of children                                                      *)

Hows == {"line", "tail", "cut", "half", "text", "subagent", "tool", "result", "subagent result",
         "tool result"}
Tokens == (1 .. Len(Lines)) \X Hows
InOrder(s) == \A i, j \in 1 .. Len(s) : i < j => s[i][1] < s[j][1]
TokensOf(i) == {t \in Tokens : t[1] = i /\ \E x \in 1 .. Len(stdout) : stdout[x] = t}

OutputTypes ==
  /\ child \in Outputs
  /\ units \in 0 .. 3 * Len(Lines) /\ seen \in 0 .. Whole
  /\ inflight \in [ToolIds -> {"none", "Task", "other"}]
  /\ stdout \in Seq(Tokens) /\ console \in Seq(Tokens)
  /\ ended \in Exits \cup {Running, NotSpawned}
  /\ ended # Running => seen = Whole
  /\ ended = NotSpawned => units = 0
  /\ returned.branch \in {"none", "next", "error"}
  /\ returned # Nothing => ended # Running

(* The lines taken out so far have been shown, each as it should, and the  *)
(* parser knows which calls among them are tasks.                          *)
ShownAs(i, S) == /\ S \subseteq Expected(i)
                 /\ S = {} <=> Expected(i) = {} \/ (child.of = "stream" /\ Lines[i].k = "silent")
TaskCalled(id, n) ==
  \E j \in 1 .. n : /\ Lines[j] = Line("task", id)
                    /\ \A m \in j + 1 .. n : Lines[m].k # "summary" /\ Lines[m] # Line("tool", id)
LinesShown ==
  child.of # "script" =>
    /\ console = stdout /\ InOrder(stdout)
    /\ \A i \in 1 .. seen : ShownAs(i, TokensOf(i))
    /\ ended = Running => \A x \in 1 .. Len(stdout) : stdout[x][1] <= seen
    /\ (ended # Running /\ units % 3 = 2 /\ Verbatim(Lines[Whole + 1]) /\ Lines[Whole + 1].k # "blank")
         => Last(stdout) = <<Whole + 1, "tail">>
TasksKnown ==
  child.of = "stream" => \A id \in ToolIds : inflight[id] = "Task" <=> TaskCalled(id, seen)

(* A script's lines are kept as they come, and the unfinished one after.   *)
LinesKept ==
  child.of = "script" =>
    /\ \A i \in 1 .. Len(stdout) : stdout[i][1] = i /\ (i <= seen => stdout[i][2] = "line")
    /\ Len(stdout) = IF ended \notin {Running, NotSpawned} /\ units % 3 # 0 THEN seen + 1 ELSE seen

OutInv == OutputTypes /\ LinesShown /\ TasksKnown /\ LinesKept /\ ScriptResultIsLast

-----------------------------------------------------------------------------
LEMMA UnitsOfLines ==
  ASSUME NEW n \in Nat, NEW u \in 0 .. 3 * n
  PROVE  /\ u \div 3 \in 0 .. n /\ u % 3 \in 0 .. 2
         /\ u % 3 # 0 => u \div 3 < n
         /\ u = 3 * n => u \div 3 = n /\ u % 3 = 0
         /\ \A v \in u .. 3 * n : u \div 3 <= v \div 3
OBVIOUS

LEMMA OutputIsKnown ==
  ASSUME OutputTypes
  PROVE  /\ Len(Lines) \in Nat /\ Whole \in 0 .. Len(Lines) /\ units % 3 \in 0 .. 2
         /\ units % 3 # 0 => Whole < Len(Lines)
         /\ \A i \in 1 .. Len(Lines) : Lines[i] \in [k : STRING, id : ToolIds]
         /\ child.of = "stream" => \A i \in 1 .. Len(Lines) : Lines[i].k \in StreamKinds
         /\ child.of \in {"stream", "plain", "script"}
<1>1. Lines \in Seq([k : STRING, id : ToolIds])
  BY OutputAssumption DEF OutputTypes, Lines
<1>2. Len(Lines) \in Nat /\ \A i \in 1 .. Len(Lines) : Lines[i] \in [k : STRING, id : ToolIds]
  BY <1>1, ElementOfSeq, LenProperties
<1>3. Whole \in 0 .. Len(Lines) /\ units % 3 \in 0 .. 2 /\ (units % 3 # 0 => Whole < Len(Lines))
  BY <1>2, UnitsOfLines DEF OutputTypes, Whole
<1>4. /\ child.of = "stream" => \A i \in 1 .. Len(Lines) : Lines[i].k \in StreamKinds
      /\ child.of \in {"stream", "plain", "script"}
  BY OutputAssumption DEF OutputTypes, Lines
<1> QED  BY <1>2, <1>3, <1>4

LEMMA ExitsAreEnds == Running # NotSpawned /\ \A e \in Exits : e \notin {Running, NotSpawned}
<1>1. \A e \in Exits : e.exit \in {"0", "1", "null"} /\ e.spawnError = FALSE
  BY DEF Exits
<1>2. Running.exit = "running" /\ NotSpawned.exit = "null" /\ NotSpawned.spawnError = TRUE
  BY DEF Running, NotSpawned
<1> QED  BY <1>1, <1>2

LEMMA OutputStarts == OutputInit => OutInv
<1> SUFFICES ASSUME OutputInit  PROVE  OutInv
  OBVIOUS
<1>1. OutputTypes
  <2>1. Len(Lines) \in Nat /\ Whole = 0
    BY OutputAssumption DEF OutputInit, Lines, Whole
  <2>2. stdout \in Seq(Tokens) /\ console \in Seq(Tokens)
    BY DEF OutputInit
  <2> QED  BY <2>1, <2>2 DEF OutputInit, OutputTypes, Nothing, Running, NotSpawned, Exits
<1>2. LinesShown
  BY DEF OutputInit, LinesShown, InOrder
<1>3. TasksKnown
  BY DEF OutputInit, TasksKnown, TaskCalled
<1>4. LinesKept
  BY DEF OutputInit, LinesKept
<1>5. ScriptResultIsLast
  BY DEF OutputInit, ScriptResultIsLast
<1> QED  BY <1>1, <1>2, <1>3, <1>4, <1>5 DEF OutInv

(* One more line: what is shown for it, and what is known of tasks after.  *)
LEMMA LineIsShown ==
  ASSUME OutInv, NEW n \in 1 .. Len(Lines), n = seen + 1, child.of # "script"
  PROVE  \/ Emit(n, "line") = <<>> /\ ShownAs(n, {})
         \/ \E how \in Hows : /\ Emit(n, "line") = Show(n, how)
                                /\ ShownAs(n, {<<n, how>>})
<1>1. /\ child.of \in {"stream", "plain"} /\ Lines[n] \in [k : STRING, id : ToolIds]
      /\ child.of = "stream" => Lines[n].k \in StreamKinds
  BY OutputIsKnown DEF OutInv
<1>2. CASE Lines[n].k = "blank"
  <2>1. Emit(n, "line") = <<>> /\ Expected(n) = {}
    BY <1>2 DEF Emit, Expected
  <2> QED  BY <2>1 DEF ShownAs
<1>3. CASE Lines[n].k # "blank" /\ Verbatim(Lines[n])
  <2>1. Emit(n, "line") = Show(n, "line") /\ Expected(n) = {<<n, "line">>}
    BY <1>3 DEF Emit, Expected, Verbatim
  <2>2. ~(child.of = "stream" /\ Lines[n].k = "silent")
    BY <1>1, <1>3 DEF Verbatim
  <2>3. ShownAs(n, {<<n, "line">>}) /\ "line" \in Hows
    BY <2>1, <2>2 DEF ShownAs, Hows
  <2> QED  BY <2>1, <2>3
<1>4. CASE Lines[n].k # "blank" /\ ~Verbatim(Lines[n]) /\ Lines[n].k = "reply"
  <2>1. child.of = "stream" /\ Lines[n].id \in ToolIds
    BY <1>1, <1>4 DEF Verbatim
  <2>2. inflight[Lines[n].id] = "Task" <=> TaskCalled(Lines[n].id, seen)
    BY <2>1 DEF OutInv, TasksKnown
  <2>3. TaskCalled(Lines[n].id, seen) <=> RepliesToTask(n)
    <3>1. n - 1 = seen /\ \A j \in 1 .. seen : seen \in Nat
      BY DEF OutInv, OutputTypes, Whole
    <3> QED  BY <3>1 DEF TaskCalled, RepliesToTask
  <2> DEFINE how == IF RepliesToTask(n) THEN "subagent result" ELSE "tool result"
  <2>4. Emit(n, "line") = Rendered(n, Lines[n])
    BY <1>4 DEF Emit
  <2>5. Rendered(n, Lines[n]) = Show(n, how)
    BY <1>4, <2>2, <2>3 DEF Rendered
  <2>6. Expected(n) = {<<n, how>>}
    BY <1>4, <2>1 DEF Expected
  <2>7. how \in Hows
    BY DEF Hows
  <2> HIDE DEF how
  <2> QED  BY <1>4, <2>4, <2>5, <2>6, <2>7 DEF ShownAs
<1>5. CASE Lines[n].k # "blank" /\ ~Verbatim(Lines[n]) /\ Lines[n].k # "reply"
  <2>1. /\ child.of = "stream"
        /\ Lines[n].k \in {"delta", "task", "tool", "summary", "silent"}
    BY <1>1, <1>5 DEF Verbatim, StreamKinds
  <2>2. Emit(n, "line") = Rendered(n, Lines[n])
    BY <1>5 DEF Emit
  <2>3. Expected(n) = {<<n, h>> : h \in {"text", "subagent", "tool", "result"}}
    BY <1>5 DEF Expected
  <2>4. CASE Lines[n].k = "silent"
    <3>1. Rendered(n, Lines[n]) = <<>>
      BY <2>4 DEF Rendered
    <3> QED  BY <2>1, <2>2, <2>3, <2>4, <3>1 DEF ShownAs
  <2>5. CASE Lines[n].k # "silent"
    <3>1. \E h \in {"text", "subagent", "tool", "result"} : Rendered(n, Lines[n]) = Show(n, h)
      BY <2>1, <2>5 DEF Rendered
    <3>2. PICK h \in {"text", "subagent", "tool", "result"} : Rendered(n, Lines[n]) = Show(n, h)
      BY <3>1
    <3>3. h \in Hows /\ <<n, h>> \in Expected(n)
      BY <2>3 DEF Hows
    <3> QED  BY <2>2, <2>5, <3>2, <3>3 DEF ShownAs
  <2> QED  BY <2>4, <2>5
<1> QED  BY <1>2, <1>3, <1>4, <1>5

LEMMA TaskNoted ==
  ASSUME OutInv, NEW n \in 1 .. Len(Lines), n = seen + 1, child.of = "stream",
         NEW id \in ToolIds
  PROVE  /\ Inflight(Lines[n])[id] \in {"none", "Task", "other"}
         /\ Inflight(Lines[n])[id] = "Task" <=> TaskCalled(id, n)
<1>1. /\ Lines[n] \in [k : STRING, id : ToolIds] /\ seen \in Nat
      /\ inflight \in [ToolIds -> {"none", "Task", "other"}]
  BY OutputIsKnown DEF OutInv, OutputTypes, Whole
<1>2. inflight[id] = "Task" <=> TaskCalled(id, seen)
  BY DEF OutInv, TasksKnown
<1>3. ASSUME Lines[n].k # "summary", Lines[n] # Line("tool", id), Lines[n] # Line("task", id)
      PROVE  TaskCalled(id, n) <=> TaskCalled(id, seen)
  <2>1. \A j \in 1 .. n : Lines[j] = Line("task", id) => j \in 1 .. seen
    BY <1>1, <1>3
  <2>2. \A j \in 1 .. seen : \A m \in j + 1 .. n : m \in j + 1 .. seen \/ m = n
    BY <1>1
  <2>3. \A j \in 1 .. seen : j \in 1 .. n /\ \A m \in j + 1 .. seen : m \in j + 1 .. n
    BY <1>1
  <2> QED  BY <1>3, <2>1, <2>2, <2>3 DEF TaskCalled
<1>4. Lines[n] = Line("task", id) => TaskCalled(id, n)
  BY <1>1 DEF TaskCalled
<1>5. ASSUME Lines[n].k = "summary" \/ Lines[n] = Line("tool", id)  PROVE  ~TaskCalled(id, n)
  <2>1. Lines[n] # Line("task", id)
    BY <1>5 DEF Line
  <2>2. \A j \in 1 .. n : j = n \/ n \in j + 1 .. n
    BY <1>1
  <2> QED  BY <1>5, <2>1, <2>2 DEF TaskCalled
<1>6. /\ Lines[n].k = "task" => (Lines[n] = Line("task", id) <=> Lines[n].id = id)
      /\ Lines[n].k = "tool" => (Lines[n] = Line("tool", id) <=> Lines[n].id = id)
      /\ Lines[n] = Line("task", id) => Lines[n].k = "task" /\ Lines[n].id = id
      /\ Lines[n] = Line("tool", id) => Lines[n].k = "tool" /\ Lines[n].id = id
  BY <1>1 DEF Line
<1>7. Inflight(Lines[n])[id] = IF Lines[n].k = "task" /\ Lines[n].id = id THEN "Task"
                               ELSE IF Lines[n].k = "tool" /\ Lines[n].id = id THEN "other"
                               ELSE IF Lines[n].k = "summary" THEN "none"
                               ELSE inflight[id]
  BY <1>1 DEF Inflight
<1> QED  BY <1>1, <1>2, <1>3, <1>4, <1>5, <1>6, <1>7

LEMMA SameChild ==
  ASSUME child' = child
  PROVE  /\ Lines' = Lines /\ Tokens' = Tokens
         /\ \A i : Expected(i)' = Expected(i)
         /\ \A id, n : TaskCalled(id, n)' <=> TaskCalled(id, n)
         /\ \A line : Verbatim(line)' <=> Verbatim(line)
<1>1. Lines' = Lines /\ Tokens' = Tokens
  BY DEF Lines, Tokens
<1>2. \A line : Verbatim(line)' <=> Verbatim(line)
  BY DEF Verbatim
<1>3. \A i : RepliesToTask(i)' <=> RepliesToTask(i)
  BY <1>1 DEF RepliesToTask
<1>4. \A i : Expected(i)' = Expected(i)
  BY <1>1, <1>2, <1>3 DEF Expected
<1>6. \A id, n : TaskCalled(id, n)' <=> TaskCalled(id, n)
  BY <1>1 DEF TaskCalled
<1> QED  BY <1>1, <1>2, <1>4, <1>6

(* What of the next line is shown, whether whole or not, disturbs nothing  *)
(* of the lines before.                                                    *)
LEMMA OutputGrows ==
  ASSUME OutInv, child.of # "script", ended = Running, child' = child,
         NEW n \in 1 .. Len(Lines), n = seen + 1, NEW how \in Hows,
         stdout' = stdout \o Show(n, how), console' = console \o Show(n, how)
  PROVE  /\ stdout' \in Seq(Tokens)' /\ console' = stdout' /\ InOrder(stdout')
         /\ \A i \in 1 .. seen : TokensOf(i)' = TokensOf(i)
         /\ TokensOf(n)' = {<<n, how>>}
         /\ \A x \in 1 .. Len(stdout') : stdout'[x][1] <= n
         /\ Last(stdout') = <<n, how>>
<1>1. /\ stdout \in Seq(Tokens) /\ seen \in Nat /\ console = stdout /\ InOrder(stdout)
      /\ \A x \in 1 .. Len(stdout) : stdout[x][1] <= seen
  BY DEF OutInv, OutputTypes, LinesShown, Whole
<1>2. \A x \in 1 .. Len(stdout) : stdout[x] \in Tokens
  BY <1>1, ElementOfSeq
<1>3. /\ \A x \in 1 .. Len(stdout) : stdout[x][1] \in Nat /\ stdout[x][1] < n
      /\ <<n, how>> \in Tokens
  BY <1>1, <1>2 DEF Tokens
<1> PICK t : t = stdout'
  OBVIOUS
<1>4. /\ t \in Seq(Tokens) /\ Len(t) = Len(stdout) + 1 /\ t[Len(stdout) + 1] = <<n, how>>
      /\ \A x \in 1 .. Len(stdout) : t[x] = stdout[x]
      /\ Len(stdout) \in Nat /\ DOMAIN t = 1 .. Len(t) /\ DOMAIN stdout = 1 .. Len(stdout)
  BY <1>1, <1>3 DEF Show
<1>5. \A x \in 1 .. Len(t) : x \in 1 .. Len(stdout) \/ x = Len(stdout) + 1
  BY <1>1, <1>4, LenProperties
<1>6. \A x \in 1 .. Len(t) : t[x][1] <= n
  BY <1>3, <1>4, <1>5
<1>7. \A i : TokensOf(i)' = IF i = n THEN TokensOf(i) \cup {<<n, how>>} ELSE TokensOf(i)
  <2>1. \A u : (\E x \in 1 .. Len(t) : t[x] = u)
                 <=> (\E x \in 1 .. Len(stdout) : stdout[x] = u) \/ u = <<n, how>>
    <3>1. \A u, x : x \in 1 .. Len(t) /\ t[x] = u
                      => (\E y \in 1 .. Len(stdout) : stdout[y] = u) \/ u = <<n, how>>
      BY <1>4, <1>5
    <3>2. \A x \in 1 .. Len(stdout) : x \in 1 .. Len(t) /\ stdout[x] = t[x]
      BY <1>4
    <3>3. Len(stdout) + 1 \in 1 .. Len(t)
      BY <1>4
    <3> QED  BY <1>4, <3>1, <3>2, <3>3
  <2>2. <<n, how>>[1] = n /\ <<n, how>> \in Tokens /\ Tokens' = Tokens
    BY <1>3, SameChild
  <2>3. \A i : TokensOf(i)' = {u \in Tokens : u[1] = i /\ \E x \in 1 .. Len(t) : t[x] = u}
    BY <2>2 DEF TokensOf
  <2> TAKE i
  <2>4. \A u : u \in TokensOf(i)' <=> u \in TokensOf(i) \/ (u = <<n, how>> /\ u[1] = i)
    BY <2>1, <2>2, <2>3 DEF TokensOf
  <2>5. CASE i = n
    BY <2>2, <2>4, <2>5
  <2>6. CASE i # n
    BY <2>2, <2>4, <2>6
  <2> QED  BY <2>5, <2>6
<1>8. TokensOf(n) = {}
  BY <1>3, <1>4 DEF TokensOf
<1>9. /\ InOrder(t) /\ Last(t) = <<n, how>>
  <2>1. InOrder(t)
    BY <1>1, <1>3, <1>4, <1>5 DEF InOrder
  <2> QED  BY <1>4, <2>1 DEF Last
<1>10. \A i \in 1 .. seen : TokensOf(i)' = TokensOf(i)
  <2>1. \A i \in 1 .. seen : n # i
    BY <1>1
  <2> QED  BY <1>7, <2>1
<1> QED  BY <1>1, <1>4, <1>6, <1>7, <1>8, <1>9, <1>10, SameChild

(* Steps of a CLI's child.                                                 *)
LEMMA CliLineKeeps == OutInv /\ CliLine => OutInv'
<1> SUFFICES ASSUME OutInv, CliLine  PROVE  OutInv'
  OBVIOUS
<1> PICK n : n = seen + 1
  OBVIOUS
<1>1. /\ child' = child /\ units' = units /\ ended' = ended /\ returned' = returned
      /\ seen' = n /\ child.of # "script" /\ ended = Running
      /\ n \in 1 .. Len(Lines) /\ n \in 0 .. Whole /\ seen \in Nat
  <2>1. Len(Lines) \in Nat /\ Whole \in 0 .. Len(Lines) /\ seen \in 0 .. Whole
    BY OutputIsKnown DEF OutInv, OutputTypes
  <2> QED  BY <2>1 DEF OutInv, OutputTypes, CliLine
<1>2. Lines' = Lines /\ Tokens' = Tokens /\ Whole' = Whole
  BY <1>1, SameChild DEF Whole
<1>3. OutputTypes /\ LinesShown /\ TasksKnown
  BY DEF OutInv
<1> DEFINE Shown ==
      /\ stdout' \in Seq(Tokens) /\ console' = stdout' /\ InOrder(stdout')
      /\ \A i \in 1 .. seen : TokensOf(i)' = TokensOf(i)
      /\ ShownAs(n, TokensOf(n)')
      /\ \A x \in 1 .. Len(stdout') : stdout'[x][1] <= n
<1>4. Shown
  <2>1. CASE Emit(n, "line") = <<>> /\ ShownAs(n, {})
    <3>1. stdout' = stdout /\ console' = console
      BY <1>3, <2>1 DEF CliLine, Write, OutputTypes
    <3>2. \A x \in 1 .. Len(stdout) : stdout[x][1] \in Nat /\ stdout[x][1] <= seen
      <4>1. \A x \in 1 .. Len(stdout) : stdout[x] \in Tokens
        BY <1>3, ElementOfSeq DEF OutputTypes
      <4> QED  BY <1>1, <1>3, <4>1 DEF LinesShown, Tokens
    <3>3. TokensOf(n) = {}
      BY <1>1, <3>2 DEF TokensOf
    <3>4. \A i : TokensOf(i)' = TokensOf(i)
      BY <1>2, <3>1 DEF TokensOf
    <3>5. \A x \in 1 .. Len(stdout) : stdout[x][1] <= n
      BY <1>1, <3>2
    <3>6. TokensOf(n)' = {}
      BY <3>3, <3>4
    <3>7. ShownAs(n, TokensOf(n)')
      BY <2>1, <3>6
    <3>8. InOrder(stdout) /\ console = stdout /\ stdout \in Seq(Tokens)
      BY <1>1, <1>3 DEF OutputTypes, LinesShown
    <3>9. \A i \in 1 .. seen : TokensOf(i)' = TokensOf(i)
      BY <3>4
    <3> QED  BY <3>1, <3>5, <3>7, <3>8, <3>9
  <2>2. ASSUME NEW how \in Hows, Emit(n, "line") = Show(n, how), ShownAs(n, {<<n, how>>})
        PROVE  Shown
    <3>1. stdout' = stdout \o Show(n, how) /\ console' = console \o Show(n, how)
      BY <2>2 DEF CliLine, Write
    <3> QED  BY <1>1, <1>2, <2>2, <3>1, OutputGrows
  <2>3. \/ Emit(n, "line") = <<>> /\ ShownAs(n, {})
        \/ \E how \in Hows : Emit(n, "line") = Show(n, how) /\ ShownAs(n, {<<n, how>>})
    BY <1>1, LineIsShown
  <2>4. CASE \E how \in Hows : Emit(n, "line") = Show(n, how) /\ ShownAs(n, {<<n, how>>})
    <3>1. PICK how \in Hows : Emit(n, "line") = Show(n, how) /\ ShownAs(n, {<<n, how>>})
      BY <2>4
    <3> HIDE DEF Shown
    <3> QED  BY <2>2, <3>1
  <2> HIDE DEF Shown
  <2> QED  BY <2>1, <2>3, <2>4
<1>5. inflight' \in [ToolIds -> {"none", "Task", "other"}] /\ TasksKnown'
  <2>1. CASE child.of = "stream"
    <3>1. inflight' = Inflight(Lines[n])
      BY <2>1 DEF CliLine
    <3>2. DOMAIN Inflight(Lines[n]) = ToolIds /\ Inflight(Lines[n]) = [i \in ToolIds |-> Inflight(Lines[n])[i]]
      BY <1>3 DEF Inflight, OutputTypes
    <3>4. \A id \in ToolIds : /\ Inflight(Lines[n])[id] \in {"none", "Task", "other"}
                              /\ Inflight(Lines[n])[id] = "Task" <=> TaskCalled(id, n)
      BY <1>1, <2>1, TaskNoted
    <3>5. inflight' \in [ToolIds -> {"none", "Task", "other"}]
      BY <3>1, <3>2, <3>4
    <3>7. \A id : TaskCalled(id, seen)' <=> TaskCalled(id, n)
      BY <1>1, <1>2 DEF TaskCalled
    <3> QED  BY <1>1, <3>1, <3>4, <3>5, <3>7 DEF TasksKnown
  <2>2. CASE child.of # "stream"
    BY <1>1, <1>3, <2>2 DEF CliLine, TasksKnown, OutputTypes
  <2> QED  BY <2>1, <2>2
<1>6. OutputTypes'
  BY <1>1, <1>2, <1>3, <1>4, <1>5 DEF OutputTypes
<1>7. LinesShown'
  <2>1. \A i \in 1 .. n : ShownAs(i, TokensOf(i))'
    <3>1. \A i \in 1 .. n : i \in 1 .. seen \/ i = n
      BY <1>1
    <3>2. \A i \in 1 .. n : ShownAs(i, TokensOf(i)')
      BY <1>1, <1>3, <1>4, <3>1 DEF LinesShown
    <3>3. \A i : Expected(i)' = Expected(i)
      BY <1>1, SameChild
    <3> QED  BY <1>1, <1>2, <3>2, <3>3 DEF ShownAs
  <2> QED  BY <1>1, <1>4, <2>1 DEF LinesShown
<1>8. LinesKept' /\ ScriptResultIsLast'
  BY <1>1 DEF LinesKept, ScriptResultIsLast
<1> QED  BY <1>5, <1>6, <1>7, <1>8 DEF OutInv

LEMMA TailIsShown ==
  ASSUME OutInv, child.of # "script", units % 3 # 0
  PROVE  /\ seen = Whole => Whole + 1 \in 1 .. Len(Lines)
         /\ \/ CliTail = <<>>
            \/ \E how \in Hows : CliTail = Show(seen + 1, how)
         /\ (units % 3 = 2 /\ Verbatim(Lines[seen + 1]) /\ Lines[seen + 1].k # "blank")
              => CliTail = Show(seen + 1, "tail")
<1>1. /\ Whole + 1 \in 1 .. Len(Lines) /\ units % 3 \in {1, 2} /\ units % 3 # 0
  BY OutputIsKnown DEF OutInv
<1>2. CASE units % 3 = 1
  <2>1. CliTail = IF Lines[seen + 1].k = "blank" THEN <<>> ELSE Show(seen + 1, "cut")
    BY <1>2 DEF CliTail, Tail1
  <2>2. "cut" \in Hows
    BY DEF Hows
  <2> QED  BY <1>1, <1>2, <2>1, <2>2
<1>3. CASE units % 3 = 2
  <2> PICK n : n = seen + 1
    OBVIOUS
  <2>1. CliTail = Emit(n, "tail")
    BY <1>3 DEF CliTail, Tail1
  <2>2. CASE Lines[n].k = "blank"
    BY <1>1, <2>1, <2>2 DEF Emit
  <2>3. CASE Lines[n].k # "blank" /\ Verbatim(Lines[n])
    BY <1>1, <2>1, <2>3 DEF Emit, Hows
  <2>4. CASE Lines[n].k # "blank" /\ ~Verbatim(Lines[n])
    <3>1. CliTail = Rendered(n, Lines[n])
      BY <2>1, <2>4 DEF Emit
    <3>2. Rendered(n, Lines[n]) = <<>> \/ \E how \in Hows : Rendered(n, Lines[n]) = Show(n, how)
      BY DEF Rendered, Hows
    <3> QED  BY <1>1, <2>4, <3>1, <3>2
  <2> QED  BY <2>2, <2>3, <2>4
<1> QED  BY <1>1, <1>2, <1>3

LEMMA CliCloseKeeps == OutInv /\ CliClose => OutInv'
<1> SUFFICES ASSUME OutInv, CliClose  PROVE  OutInv'
  OBVIOUS
<1> PICK n : n = seen + 1
  OBVIOUS
<1>1. /\ child' = child /\ units' = units /\ seen' = seen /\ inflight' = inflight
      /\ returned' = returned /\ ended' \in Exits /\ ended = Running /\ child.of # "script"
      /\ seen = Whole /\ n = Whole + 1 /\ seen \in Nat /\ ended' \notin {Running, NotSpawned}
  <2>1. Whole \in Nat /\ seen = Whole
    BY OutputIsKnown DEF OutInv, CliClose
  <2>2. ended' \in Exits => ended' \notin {Running, NotSpawned}
    BY ExitsAreEnds
  <2> QED  BY <2>1, <2>2 DEF CliClose
<1>2. Lines' = Lines /\ Tokens' = Tokens /\ Whole' = Whole
      /\ (\A i : Expected(i)' = Expected(i)) /\ (\A line : Verbatim(line)' <=> Verbatim(line))
  BY <1>1, SameChild DEF Whole
<1>3. OutputTypes /\ LinesShown /\ TasksKnown
  BY DEF OutInv
<1> DEFINE Shown ==
      /\ stdout' \in Seq(Tokens) /\ console' = stdout' /\ InOrder(stdout')
      /\ \A i \in 1 .. seen : TokensOf(i)' = TokensOf(i)
      /\ (units % 3 = 2 /\ Verbatim(Lines[n]) /\ Lines[n].k # "blank")
            => Last(stdout') = <<n, "tail">>
<1>4. Shown
  <2>1. ASSUME CliTail = <<>>, ~(units % 3 = 2 /\ Verbatim(Lines[n]) /\ Lines[n].k # "blank")
        PROVE  Shown
    <3>1. stdout' = stdout /\ console' = console
      BY <1>3, <2>1 DEF CliClose, Write, OutputTypes
    <3>2. \A i : TokensOf(i)' = TokensOf(i)
      BY <1>2, <3>1 DEF TokensOf
    <3> QED  BY <1>1, <1>3, <2>1, <3>1, <3>2 DEF OutputTypes, LinesShown
  <2>2. ASSUME NEW how \in Hows, CliTail = Show(n, how), n \in 1 .. Len(Lines),
               (units % 3 = 2 /\ Verbatim(Lines[n]) /\ Lines[n].k # "blank")
                 => CliTail = Show(n, "tail")
        PROVE  Shown
    <3>1. stdout' = stdout \o Show(n, how) /\ console' = console \o Show(n, how)
      BY <2>2 DEF CliClose, Write
    <3>2. Show(n, how) = Show(n, "tail") => how = "tail"
      BY DEF Show
    <3>3. /\ stdout' \in Seq(Tokens)' /\ console' = stdout' /\ InOrder(stdout')
          /\ \A i \in 1 .. seen : TokensOf(i)' = TokensOf(i)
          /\ Last(stdout') = <<n, how>>
      BY <1>1, <2>2, <3>1, OutputGrows
    <3> QED  BY <1>2, <2>2, <3>2, <3>3
  <2> HIDE DEF Shown
  <2>3. CASE units % 3 = 0
    <3>1. CliTail = <<>>
      BY <2>3 DEF CliTail
    <3> QED  BY <2>1, <2>3, <3>1
  <2>4. CASE units % 3 # 0
    <3>1. n \in 1 .. Len(Lines) /\ (CliTail = <<>> \/ \E how \in Hows : CliTail = Show(n, how))
      BY <1>1, <2>4, TailIsShown
    <3>2. (units % 3 = 2 /\ Verbatim(Lines[n]) /\ Lines[n].k # "blank")
            => CliTail = Show(n, "tail")
      BY <1>1, <2>4, TailIsShown
    <3>3. Show(n, "tail") # <<>>
      BY DEF Show
    <3>4. CASE CliTail = <<>>
      BY <2>1, <3>2, <3>3, <3>4
    <3>5. CASE \E how \in Hows : CliTail = Show(n, how)
      <4>1. PICK how \in Hows : CliTail = Show(n, how)
        BY <3>5
      <4> QED  BY <2>2, <3>1, <3>2, <4>1
    <3> QED  BY <3>1, <3>4, <3>5
  <2> QED  BY <2>3, <2>4
<1>5. OutputTypes'
  BY <1>1, <1>2, <1>3, <1>4 DEF OutputTypes, Exits, NotSpawned
<1>6. LinesShown'
  <2>1. \A i \in 1 .. seen : ShownAs(i, TokensOf(i))'
    BY <1>1, <1>2, <1>3, <1>4 DEF LinesShown, ShownAs
  <2>2. (units' % 3 = 2 /\ Verbatim(Lines[Whole + 1])' /\ Lines'[Whole' + 1].k # "blank")
          => Last(stdout') = <<Whole' + 1, "tail">>
    <3>1. Verbatim(Lines[Whole + 1])' <=> Verbatim(Lines[n])
      BY <1>1, <1>2 DEF Verbatim
    <3> QED  BY <1>1, <1>2, <1>4, <3>1
  <2> QED  BY <1>1, <1>4, <2>1, <2>2 DEF LinesShown
<1>7. TasksKnown'
  BY <1>1, <1>2, <1>3 DEF TasksKnown, TaskCalled
<1>8. LinesKept' /\ ScriptResultIsLast'
  BY <1>1 DEF LinesKept, ScriptResultIsLast
<1> QED  BY <1>5, <1>6, <1>7, <1>8 DEF OutInv

(* Steps of any child: data arrives, and the binary cannot be started.     *)
LEMMA ChunkKeeps == OutInv /\ Chunk => OutInv'
<1> SUFFICES ASSUME OutInv, Chunk  PROVE  OutInv'
  OBVIOUS
<1>1. /\ child' = child /\ seen' = seen /\ inflight' = inflight /\ ended' = ended
      /\ returned' = returned /\ stdout' = stdout /\ console' = console /\ ended = Running
      /\ OutputTypes /\ LinesShown /\ TasksKnown /\ LinesKept /\ ended # NotSpawned
  BY ExitsAreEnds DEF OutInv, Chunk
<1>2. Lines' = Lines /\ Tokens' = Tokens /\ \A i : Expected(i)' = Expected(i)
  BY <1>1, SameChild
<1>3. OutputTypes'
  <2>1. PICK u \in units + 1 .. 3 * Len(Lines) : units' = u
    BY DEF Chunk
  <2>2. units \in 0 .. 3 * Len(Lines) /\ Len(Lines) \in Nat /\ seen \in 0 .. Whole
    BY <1>1, OutputIsKnown DEF OutputTypes
  <2>3. u \in 0 .. 3 * Len(Lines) /\ u \in units .. 3 * Len(Lines)
    BY <2>2
  <2>4. units \div 3 <= u \div 3 /\ u \div 3 \in Nat /\ units \div 3 \in Nat
    BY <2>2, <2>3, UnitsOfLines
  <2>5. seen \in 0 .. u \div 3 /\ Whole' = u \div 3
    BY <2>1, <2>2, <2>4 DEF Whole
  <2> QED  BY <1>1, <1>2, <2>1, <2>3, <2>5 DEF OutputTypes
<1>4. \A i : TokensOf(i)' = TokensOf(i)
  BY <1>1, <1>2 DEF TokensOf
<1>5. LinesShown'
  BY <1>1, <1>2, <1>4 DEF LinesShown, ShownAs
<1>6. TasksKnown'
  BY <1>1, <1>2 DEF TasksKnown, TaskCalled
<1>7. LinesKept' /\ ScriptResultIsLast'
  BY <1>1 DEF LinesKept, ScriptResultIsLast, OutputTypes
<1> QED  BY <1>3, <1>5, <1>6, <1>7 DEF OutInv

LEMMA SpawnFailsKeeps == OutInv /\ SpawnFails => OutInv'
<1> SUFFICES ASSUME OutInv, SpawnFails  PROVE  OutInv'
  OBVIOUS
<1>1. /\ child' = child /\ seen' = seen /\ inflight' = inflight /\ ended' = NotSpawned
      /\ returned' = returned /\ stdout' = stdout /\ console' = console /\ ended = Running
      /\ OutputTypes /\ LinesShown /\ TasksKnown /\ LinesKept /\ Running # NotSpawned
      /\ units = 0 /\ units' = 0
  BY ExitsAreEnds DEF OutInv, SpawnFails
<1>2. Lines' = Lines /\ Tokens' = Tokens /\ \A i : Expected(i)' = Expected(i)
  BY <1>1, SameChild
<1>3. Whole = 0 /\ Whole' = 0 /\ seen = 0
  BY <1>1 DEF OutputTypes, Whole
<1>4. OutputTypes'
  BY <1>1, <1>2, <1>3 DEF OutputTypes
<1>5. \A i : TokensOf(i)' = TokensOf(i)
  BY <1>1, <1>2 DEF TokensOf
<1>6. LinesShown'
  BY <1>1, <1>2, <1>5 DEF LinesShown, ShownAs
<1>7. TasksKnown'
  BY <1>1, <1>2 DEF TasksKnown, TaskCalled
<1>8. LinesKept' /\ ScriptResultIsLast'
  BY <1>1 DEF LinesKept, ScriptResultIsLast, OutputTypes
<1> QED  BY <1>4, <1>6, <1>7, <1>8 DEF OutInv

(* Steps of a script's child.                                              *)
LEMMA ScriptPrints ==
  ASSUME OutInv, child.of = "script", child' = child, Len(stdout) = seen,
         NEW n \in 1 .. Len(Lines), n = seen + 1, NEW how \in {"line", "cut", "half", "tail"},
         ScriptPrint(n, how)
  PROVE  /\ stdout' \in Seq(Tokens) /\ console' \in Seq(Tokens)
         /\ Len(stdout') = n /\ stdout'[n] = <<n, how>>
         /\ \A i \in 1 .. seen : stdout'[i] = stdout[i]
<1>1. <<n, how>> \in Tokens
  BY DEF Tokens, Hows
<1>2. stdout \in Seq(Tokens) /\ console \in Seq(Tokens) /\ seen \in Nat
  BY DEF OutInv, OutputTypes, Whole
<1>3. stdout' = stdout \o <<<<n, how>>>>
  BY DEF ScriptPrint, Show
<1>4. console' \in Seq(Tokens)
  BY <1>1, <1>2 DEF ScriptPrint, Show
<1> PICK t : t = stdout'
  OBVIOUS
<1>5. /\ t \in Seq(Tokens) /\ Len(t) = Len(stdout) + 1 /\ t[Len(stdout) + 1] = <<n, how>>
      /\ \A x \in 1 .. Len(stdout) : t[x] = stdout[x]
  BY <1>1, <1>2, <1>3
<1> QED  BY <1>2, <1>4, <1>5

LEMMA ScriptLineKeeps == OutInv /\ ScriptLine => OutInv'
<1> SUFFICES ASSUME OutInv, ScriptLine  PROVE  OutInv'
  OBVIOUS
<1> PICK n : n = seen + 1
  OBVIOUS
<1>1. /\ child' = child /\ units' = units /\ inflight' = inflight /\ ended' = ended
      /\ returned' = returned /\ ended = Running /\ child.of = "script" /\ seen' = n
      /\ n \in 1 .. Len(Lines) /\ n \in 0 .. Whole /\ seen \in Nat
  <2>1. Len(Lines) \in Nat /\ Whole \in 0 .. Len(Lines) /\ seen \in 0 .. Whole
    BY OutputIsKnown DEF OutInv, OutputTypes
  <2> QED  BY <2>1 DEF OutInv, OutputTypes, ScriptLine
<1>2. Lines' = Lines /\ Tokens' = Tokens /\ Whole' = Whole
  BY <1>1, SameChild DEF Whole
<1>3. OutputTypes /\ LinesKept /\ Len(stdout) = seen
  BY <1>1 DEF OutInv, LinesKept
<1>4. /\ stdout' \in Seq(Tokens) /\ console' \in Seq(Tokens)
      /\ Len(stdout') = n /\ stdout'[n] = <<n, "line">>
      /\ \A i \in 1 .. seen : stdout'[i] = stdout[i]
  <2>1. ScriptPrint(n, "line")
    BY DEF ScriptLine
  <2> QED  BY <1>1, <1>3, <2>1, ScriptPrints
<1>5. OutputTypes'
  BY <1>1, <1>2, <1>3, <1>4 DEF OutputTypes
<1>6. LinesKept'
  <2>1. \A i \in 1 .. n : i \in 1 .. seen \/ i = n
    BY <1>1
  <2>2. \A i \in 1 .. n : stdout'[i][1] = i /\ stdout'[i][2] = "line"
    BY <1>1, <1>3, <1>4, <2>1 DEF LinesKept
  <2> QED  BY <1>1, <1>4, <2>2 DEF LinesKept
<1>7. LinesShown' /\ TasksKnown'
  BY <1>1 DEF LinesShown, TasksKnown
<1>8. ScriptResultIsLast'
  BY <1>1, <1>3 DEF ScriptResultIsLast, OutputTypes
<1> QED  BY <1>5, <1>6, <1>7, <1>8 DEF OutInv

LEMMA ScriptCloseKeeps == OutInv /\ ScriptClose => OutInv'
<1> SUFFICES ASSUME OutInv, ScriptClose  PROVE  OutInv'
  OBVIOUS
<1> PICK n : n = seen + 1
  OBVIOUS
<1>1. /\ child' = child /\ units' = units /\ seen' = seen /\ inflight' = inflight
      /\ returned' = returned /\ ended = Running /\ child.of = "script" /\ seen = Whole
      /\ Whole \in Nat /\ units % 3 \in 0 .. 2 /\ (units % 3 # 0 => n \in 1 .. Len(Lines))
      /\ ended' \in Exits /\ ended' # Running /\ ended' # NotSpawned
  <2>1. /\ Len(Lines) \in Nat /\ Whole \in 0 .. Len(Lines) /\ units % 3 \in 0 .. 2
        /\ units % 3 # 0 => Whole < Len(Lines)
    BY OutputIsKnown DEF OutInv
  <2> QED  BY <2>1, ExitsAreEnds DEF ScriptClose
<1>2. Lines' = Lines /\ Tokens' = Tokens /\ Whole' = Whole
  BY <1>1, SameChild DEF Whole
<1>3. OutputTypes /\ LinesKept /\ Len(stdout) = seen
  BY <1>1 DEF OutInv, LinesKept
<1>4. CASE units % 3 = 0
  <2>1. stdout' = stdout /\ console' = console
    <3>1. units % 3 # 1 /\ units % 3 # 2
      BY <1>4
    <3> QED  BY <1>4, <3>1, Zenon DEF ScriptClose
  <2>2. OutputTypes'
    BY <1>1, <1>2, <1>3, <2>1 DEF OutputTypes
  <2>3. LinesKept'
    BY <1>1, <1>3, <1>4, <2>1 DEF LinesKept
  <2> QED  BY <1>1, <1>3, <2>2, <2>3 DEF OutInv, LinesShown, TasksKnown, ScriptResultIsLast, OutputTypes
<1>5. CASE units % 3 # 0
  <2>1. PICK how \in {"line", "cut", "half", "tail"} : ScriptPrint(n, how)
    <3>1. (units % 3 = 1 /\ units % 3 # 2) \/ (units % 3 = 2 /\ units % 3 # 1)
      BY <1>1, <1>5
    <3>2. CASE units % 3 = 1
      <4>1. \E how \in CutHows(Lines[n].k) : ScriptPrint(n, how)
        BY <1>5, <3>1, <3>2, Zenon DEF ScriptClose, Tail1
      <4>2. CutHows(Lines[n].k) \subseteq {"line", "cut", "half", "tail"}
        BY DEF CutHows
      <4> QED  BY <4>1, <4>2
    <3>3. CASE units % 3 = 2
      <4>1. units % 3 # 1
        BY <3>3
      <4>2. ScriptPrint(n, "tail")
        BY <1>5, <3>3, <4>1, Zenon DEF ScriptClose, Tail1
      <4> QED  BY <4>2
    <3> QED  BY <3>1, <3>2, <3>3
  <2>2. /\ stdout' \in Seq(Tokens) /\ console' \in Seq(Tokens)
        /\ Len(stdout') = n /\ stdout'[n] = <<n, how>>
        /\ \A i \in 1 .. seen : stdout'[i] = stdout[i]
    BY <1>1, <1>3, <1>5, <2>1, ScriptPrints
  <2>3. OutputTypes'
    BY <1>1, <1>2, <1>3, <2>2 DEF OutputTypes
  <2>4. LinesKept'
    <3>1. \A i \in 1 .. n : i \in 1 .. seen \/ i = n
      BY <1>1
    <3>2. \A i \in 1 .. n : stdout'[i][1] = i /\ (i <= seen => stdout'[i][2] = "line")
      BY <1>1, <1>3, <2>2, <3>1 DEF LinesKept
    <3> QED  BY <1>1, <1>5, <2>2, <3>2 DEF LinesKept
  <2> QED  BY <1>1, <1>3, <2>3, <2>4 DEF OutInv, LinesShown, TasksKnown, ScriptResultIsLast, OutputTypes
<1> QED  BY <1>4, <1>5

LEMMA LastOf ==
  ASSUME NEW n \in Nat, NEW S \in SUBSET (1 .. n), S # {}
  PROVE  \E i \in S : \A j \in S : i >= j
<1> DEFINE T == {k \in 0 .. n : n - k \in S}
<1>1. PICK s \in S : s \in 1 .. n
  OBVIOUS
<1>2. n - s \in 0 .. n /\ n - (n - s) = s
  BY <1>1
<1>3. T \subseteq Nat /\ T # {}
  <2>1. n - s \in T
    BY <1>2
  <2>2. T \subseteq Nat
    OBVIOUS
  <2> HIDE DEF T
  <2> QED  BY <2>1, <2>2
<1>4. \E k \in T : \A l \in T : ~(<<l, k>> \in OpToRel(<, Nat))
  BY <1>3, NatLessThanWellFounded, WFMin
<1>5. PICK k \in T : \A l \in T : ~(<<l, k>> \in OpToRel(<, Nat))
  BY <1>4
<1>6. \A j \in S : j \in 1 .. n /\ n - j \in T
  <2>1. \A j \in 1 .. n : n - j \in 0 .. n /\ n - (n - j) = j
    OBVIOUS
  <2> QED  BY <2>1
<1>7. \A l, m \in Nat : <<l, m>> \in OpToRel(<, Nat) \/ m <= l
  BY DEF OpToRel
<1>8. k \in Nat /\ n - k \in S /\ \A j \in S : k <= n - j
  BY <1>3, <1>5, <1>6, <1>7
<1> QED  BY <1>6, <1>8

(* All but one item of a sequence stay.                                    *)
LEMMA RemoveAtKeeps ==
  ASSUME NEW S, NEW s \in Seq(S), NEW r \in 1 .. Len(s), NEW x \in 1 .. Len(s), x # r
  PROVE  \E y \in DOMAIN RemoveAt(s, r) : RemoveAt(s, r)[y] = s[x]
<1>1. Len(s) \in Nat /\ \A i \in 1 .. Len(s) : s[i] \in S
  BY ElementOfSeq, LenProperties
<1>a. PICK a : a = SubSeq(s, 1, r - 1)
  OBVIOUS
<1>b. PICK b : b = SubSeq(s, r + 1, Len(s))
  OBVIOUS
<1>2. a \in Seq(S) /\ Len(a) = r - 1 /\ \A i \in 1 .. r - 1 : a[i] = s[i]
  BY <1>1, <1>a, SubSeqProperties
<1>3. b \in Seq(S) /\ Len(b) = Len(s) - r /\ \A i \in 1 .. Len(s) - r : b[i] = s[r + i]
  BY <1>1, <1>b, SubSeqProperties
<1>c. PICK c : c = a \o b
  OBVIOUS
<1>4. RemoveAt(s, r) = c
  BY <1>a, <1>b, <1>c DEF RemoveAt
<1>5. /\ c \in Seq(S) /\ Len(c) = Len(a) + Len(b)
      /\ \A i \in 1 .. Len(a) + Len(b) :
            c[i] = IF i <= Len(a) THEN a[i] ELSE b[i - Len(a)]
  BY <1>2, <1>3, <1>c, ConcatProperties
<1>6. DOMAIN c = 1 .. Len(s) - 1
  BY <1>1, <1>2, <1>3, <1>5, LenProperties
<1>7. CASE x < r
  <2>1. x \in 1 .. Len(s) - 1 /\ x \in 1 .. r - 1 /\ x \in 1 .. Len(a) + Len(b) /\ x <= Len(a)
    BY <1>1, <1>2, <1>3, <1>7
  <2>2. c[x] = s[x]
    BY <1>2, <1>5, <2>1
  <2> QED  BY <1>4, <1>6, <2>1, <2>2
<1>8. CASE x > r
  <2>1. /\ x - 1 \in 1 .. Len(s) - 1 /\ x - 1 \in 1 .. Len(a) + Len(b) /\ ~(x - 1 <= Len(a))
        /\ x - r \in 1 .. Len(s) - r /\ (x - 1) - Len(a) = x - r /\ r + (x - r) = x
    BY <1>1, <1>2, <1>3, <1>8
  <2>2. c[x - 1] = b[x - r]
    BY <1>5, <2>1
  <2>3. b[x - r] = s[x]
    BY <1>3, <2>1
  <2> QED  BY <1>4, <1>6, <2>1, <2>2, <2>3
<1> QED  BY <1>1, <1>7, <1>8

LEMMA NodeReturnsKeeps == OutInv /\ NodeReturns => OutInv'
<1> SUFFICES ASSUME OutInv, NodeReturns  PROVE  OutInv'
  OBVIOUS
<1>1. /\ child' = child /\ units' = units /\ seen' = seen /\ inflight' = inflight
      /\ ended' = ended /\ stdout' = stdout /\ console' = console /\ ended # Running
      /\ OutputTypes /\ LinesShown /\ TasksKnown /\ LinesKept /\ seen = Whole
      /\ returned'.branch \in {"none", "next", "error"}
  BY DEF OutInv, NodeReturns, OutputTypes
<1>2. /\ Lines' = Lines /\ Tokens' = Tokens /\ Whole' = Whole
      /\ \A i : Expected(i)' = Expected(i)
  BY <1>1, SameChild DEF Whole
<1>3. OutputTypes'
  BY <1>1, <1>2 DEF OutputTypes
<1>4. \A i : TokensOf(i)' = TokensOf(i)
  BY <1>1, <1>2 DEF TokensOf
<1>5. LinesShown'
  BY <1>1, <1>2, <1>4 DEF LinesShown, ShownAs, Verbatim
<1>6. TasksKnown' /\ LinesKept'
  BY <1>1, <1>2 DEF TasksKnown, TaskCalled, LinesKept
<1>7. ASSUME child.of = "script"  PROVE  ScriptResultIsLast'
  <2>1. /\ returned'.stdout = Sanitized /\ returned'.declared = Declared
    BY <1>7 DEF NodeReturns
  <2>2. /\ Len(Lines) \in Nat /\ Whole \in 0 .. Len(Lines)
        /\ units = 3 * Len(Lines) => Whole = Len(Lines) 
        /\ stdout \in Seq(Tokens) /\ DOMAIN stdout = 1 .. Len(stdout) /\ Len(stdout) \in Nat
    BY <1>1, OutputIsKnown, UnitsOfLines, LenProperties DEF OutInv, OutputTypes, Whole
  <2>3. /\ Len(stdout) \in {Whole, Whole + 1}
        /\ \A i \in 1 .. Len(stdout) : stdout[i][1] = i
        /\ \A i \in 1 .. Whole : i \in 1 .. Len(stdout) /\ stdout[i][2] = "line"
    BY <1>1, <1>7, <2>2 DEF LinesKept
  <2>4. units = 3 * Len(Lines) => Len(stdout) = Whole
    BY <1>1, <1>7, <2>2, UnitsOfLines DEF LinesKept, OutputTypes
  <2>5. \A i \in 1 .. Whole : IsSentinel(stdout[i]) <=> Lines[i].k \in SentinelKinds
    BY <2>3 DEF IsSentinel
  <2> DEFINE at == {i \in DOMAIN stdout : IsSentinel(stdout[i])}
  <2>6. CASE at = {}
    <3>1. ResultAt = 0
      BY <2>6 DEF ResultAt
    <3>2. returned'.stdout = stdout /\ returned'.declared = 0
      BY <2>1, <3>1 DEF Sanitized, Declared
    <3>3. \A i \in 1 .. Whole : Lines[i].k \notin SentinelKinds
      BY <2>2, <2>3, <2>5, <2>6
    <3>4. (units = 3 * Len(Lines) /\ Lines # <<>>) => Last(Lines).k \notin {"object", "indented"}
      <4>1. Lines # <<>> => Len(Lines) >= 1
        BY <2>2, OutputIsKnown, EmptySeq DEF OutInv
      <4> QED  BY <2>2, <3>3, <4>1 DEF Last, SentinelKinds
    <3>5. \A i \in 1 .. Whole : \E x \in DOMAIN stdout : stdout[x][1] = i
      BY <2>2, <2>3
    <3> QED  BY <1>1, <1>2, <3>2, <3>4, <3>5 DEF ScriptResultIsLast
  <2>7. CASE at # {}
    <3>1. PICK r \in at : \A j \in at : r >= j
      BY <2>2, <2>7, LastOf
    <3>2. /\ r \in 1 .. Len(stdout) /\ IsSentinel(stdout[r]) /\ stdout[r][1] = r
          /\ r \in 1 .. Whole + 1 /\ Lines[r].k \in SentinelKinds
      BY <2>2, <2>3, <3>1 DEF IsSentinel
    <3>3. ResultAt = r
      <4>1. \A q \in at : (\A j \in at : q >= j) => q = r
        BY <2>2, <3>1
      <4> QED  BY <2>7, <3>1, <4>1 DEF ResultAt
    <3>4. \A i \in r + 1 .. Whole : Lines[i].k \notin SentinelKinds
      <4>1. \A i \in r + 1 .. Whole : i \in 1 .. Whole /\ i \notin at
        BY <2>2, <3>1, <3>2
      <4> QED  BY <2>2, <2>3, <2>5, <4>1
    <3>5. r # 0 /\ returned'.declared \in {0, r}
          /\ (returned'.declared = 0 /\ r <= Whole => Lines[r].k \notin {"object", "indented"})
      <4>1. r <= Whole => r \in 1 .. Whole
        BY <2>2, <3>2
      <4>2. r <= Whole /\ Lines[r].k \in {"object", "indented"} => ~NoJson(stdout[r])
        BY <2>3, <3>2, <4>1 DEF NoJson
      <4> QED  BY <2>1, <3>2, <3>3, <4>2 DEF Declared
    <3>6. (returned'.declared = 0 /\ units = 3 * Len(Lines) /\ Lines # <<>>)
            => Last(Lines).k \notin {"object", "indented"}
      <4>1. Lines # <<>> => Len(Lines) >= 1
        BY <2>2, OutputIsKnown, EmptySeq DEF OutInv
      <4>2. units = 3 * Len(Lines) => r <= Len(Lines) /\ Whole = Len(Lines)
        BY <2>2, <2>4, <3>2
      <4>3. (units = 3 * Len(Lines) /\ r # Len(Lines)) => Len(Lines) \in r + 1 .. Whole
        BY <2>2, <3>2, <4>2
      <4>4. (units = 3 * Len(Lines) /\ r = Len(Lines)) => r <= Whole
        BY <2>2
      <4> QED  BY <3>4, <3>5, <4>1, <4>3, <4>4 DEF Last, SentinelKinds
    <3>7. ASSUME NEW i \in 1 .. Whole, Lines[i].k \notin SentinelKinds \ {"broken"}
          PROVE  \E y \in DOMAIN returned'.stdout : returned'.stdout[y][1] = i
      <4>1. i \in 1 .. Len(stdout) /\ stdout[i][1] = i
        BY <2>3
      <4>2. CASE NoJson(stdout[r])
        <5>1. returned'.stdout = stdout
          BY <2>1, <3>3, <4>2 DEF Sanitized
        <5> QED  BY <2>2, <4>1, <5>1
      <4>3. CASE ~NoJson(stdout[r])
        <5>1. returned'.stdout = RemoveAt(stdout, r)
          BY <2>1, <3>3, <3>5, <4>3 DEF Sanitized
        <5>2. i # r
          BY <3>2, <3>7, <4>3 DEF NoJson
        <5>3. PICK y \in DOMAIN RemoveAt(stdout, r) : RemoveAt(stdout, r)[y] = stdout[i]
          BY <2>2, <3>2, <4>1, <5>2, RemoveAtKeeps
        <5> QED  BY <4>1, <5>1, <5>3
      <4> QED  BY <4>2, <4>3
    <3>8. \A i \in returned'.declared + 1 .. Whole :
            returned'.declared # 0 => Lines[i].k \notin SentinelKinds
      BY <3>4, <3>5
    <3> QED  BY <1>1, <1>2, <3>6, <3>7, <3>8 DEF ScriptResultIsLast
  <2> QED  BY <2>6, <2>7
<1>8. child.of # "script" => ScriptResultIsLast'
  BY <1>1 DEF ScriptResultIsLast
<1> QED  BY <1>3, <1>5, <1>6, <1>7, <1>8 DEF OutInv

LEMMA OutputStutters == OutInv /\ UNCHANGED outputVars => OutInv'
<1> SUFFICES ASSUME OutInv, UNCHANGED outputVars  PROVE  OutInv'
  OBVIOUS
<1>1. /\ child' = child /\ units' = units /\ seen' = seen /\ inflight' = inflight
      /\ ended' = ended /\ stdout' = stdout /\ console' = console /\ returned' = returned
  BY DEF outputVars
<1>2. /\ Lines' = Lines /\ Tokens' = Tokens /\ Whole' = Whole
      /\ \A i : Expected(i)' = Expected(i)
  BY <1>1, SameChild DEF Whole
<1>3. \A i : TokensOf(i)' = TokensOf(i)
  BY <1>1, <1>2 DEF TokensOf
<1>4. OutputTypes'
  BY <1>1, <1>2 DEF OutInv, OutputTypes
<1>5. LinesShown'
  BY <1>1, <1>2, <1>3 DEF OutInv, LinesShown, ShownAs, Verbatim
<1>6. TasksKnown' /\ LinesKept' /\ ScriptResultIsLast'
  BY <1>1, <1>2 DEF OutInv, TasksKnown, TaskCalled, LinesKept, ScriptResultIsLast
<1> QED  BY <1>4, <1>5, <1>6 DEF OutInv

LEMMA OutputSaid == OutInv => OutputIsWhole
<1> SUFFICES ASSUME OutInv  PROVE  OutputIsWhole
  OBVIOUS
<1>1. OutputTypes /\ LinesShown
  BY DEF OutInv
<1>2. /\ Len(Lines) \in Nat /\ Whole \in 0 .. Len(Lines) /\ DOMAIN Lines = 1 .. Len(Lines)
      /\ stdout \in Seq(Tokens) /\ DOMAIN stdout = 1 .. Len(stdout)
      /\ console \in Seq(Tokens) /\ DOMAIN console = 1 .. Len(console)
  <2>1. Lines \in Seq([k : STRING, id : ToolIds])
    BY <1>1, OutputAssumption DEF OutputTypes, Lines
  <2> QED  BY <1>1, <2>1, OutputIsKnown, LenProperties DEF OutInv, OutputTypes
<1>3. /\ \A i \in DOMAIN stdout : stdout[i] \in Tokens /\ stdout[i][1] \in DOMAIN Lines
      /\ \A i \in DOMAIN console : console[i] \in Tokens /\ console[i][1] \in DOMAIN Lines
  <2>1. \A t \in Tokens : t[1] \in 1 .. Len(Lines)
    BY DEF Tokens
  <2> QED  BY <1>2, <2>1, ElementOfSeq
<1>4. OutputTypeOK
  <2>1. seen \in 0 .. Len(Lines)
    BY <1>1, <1>2 DEF OutputTypes
  <2> QED  BY <1>1, <1>3, <2>1 DEF OutputTypes, OutputTypeOK
<1>5. ASSUME child.of # "script", ended # Running  PROVE  CliOutputIsWhole
  <2>1. \A i : {t \in {stdout[x] : x \in DOMAIN stdout} : t[1] = i} = TokensOf(i)
    <3> TAKE i
    <3>1. \A t : t \in {stdout[x] : x \in DOMAIN stdout}
                   <=> t \in Tokens /\ \E x \in 1 .. Len(stdout) : stdout[x] = t
      BY <1>2, <1>3
    <3> QED  BY <3>1 DEF TokensOf
  <2>2. \A i \in 1 .. Whole : ShownAs(i, TokensOf(i))
    BY <1>1, <1>5 DEF LinesShown, OutputTypes
  <2>3. \A i, j \in DOMAIN stdout : i < j => stdout[i][1] < stdout[j][1]
    BY <1>1, <1>2, <1>5 DEF LinesShown, InOrder
  <2> QED  BY <1>1, <1>5, <2>1, <2>2, <2>3 DEF CliOutputIsWhole, LinesShown, ShownAs
<1>6. CliOutputIsWhole
  BY <1>5 DEF CliOutputIsWhole
<1> QED  BY <1>4, <1>6 DEF OutInv, OutputIsWhole

(* What a CLI or a script prints arrives whole: for every line a child may *)
(* print and every set of tool ids, however the output is cut into chunks  *)
(* and whenever the child ends.                                            *)
THEOREM OutputArrivesWhole == OutputSpec => []OutputIsWhole
<1>1. OutInv /\ [OutputNext]_outputVars => OutInv'
  <2> SUFFICES ASSUME OutInv, [OutputNext]_outputVars  PROVE  OutInv'
    OBVIOUS
  <2> QED  BY ChunkKeeps, CliLineKeeps, CliCloseKeeps, ScriptLineKeeps, ScriptCloseKeeps,
              SpawnFailsKeeps, NodeReturnsKeeps, OutputStutters DEF OutputNext
<1> QED  BY <1>1, OutputStarts, OutputSaid, PTL DEF OutputSpec
=============================================================================
