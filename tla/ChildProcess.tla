---------------------------- MODULE ChildProcess ----------------------------
(***************************************************************************)
(* The child processes of agent and script nodes: runCliProvider() of      *)
(* providers/runner.ts and runInterpreter() of nodes/script.ts (the same   *)
(* code twice), the registry of process groups (child-registry.ts) and the *)
(* shutdown of the server (server.ts).                                     *)
(*                                                                         *)
(* A call spawns the leader of a process group; the leader may start a     *)
(* helper in the same group.  Signals, timers and exits interleave freely. *)
(* The steps of the operating system go on when the server is gone.        *)
(*                                                                         *)
(* The registry is there twice.  server.ts is run as it stands ("bun       *)
(* server.ts") and imports child-registry.ts itself; runner.ts and         *)
(* script.ts are compiled into the bundles of Next's routes, with a copy   *)
(* of child-registry.ts.  Its `active` is a plain Set of the module, not   *)
(* pinned to globalThis as the event bus is, so each copy has one of its   *)
(* own.                                                                    *)
(***************************************************************************)
EXTENDS Naturals

CONSTANT ChildCalls      \* the calls of runProvider() and runInterpreter()

Members == {"leader", "helper"}
Copies == {"bundles", "server"}     \* of child-registry.ts

VARIABLES
  pc,        \* the promise of each call: "idle", "pending" or "settled"
  up,        \* the processes that run
  doomed,    \* those that a signal will end
  piped,     \* the calls whose helper holds the inherited stdout open
  stopped,   \* the calls whose AbortSignal has fired
  alarm,     \* timeoutTimer of each call: "off", "armed" or "fired"
  killer,    \* killTimer of each call: "off", "armed" or "fired"
  active,    \* the registry's set, in each copy of the module
  server     \* "up", "closing" or "exited"

os == <<up, doomed, piped>>
js == <<pc, stopped, alarm, killer, active>>
childVars == <<os, js, server>>

Procs == ChildCalls \X Members
Leader(c) == <<c, "leader">>
Helper(c) == <<c, "helper">>
Group(c)  == {c} \X Members

ChildInit == /\ pc = [c \in ChildCalls |-> "idle"]
        /\ up = {}
        /\ doomed = {}
        /\ piped = {}
        /\ stopped = {}
        /\ alarm = [c \in ChildCalls |-> "off"]
        /\ killer = [c \in ChildCalls |-> "off"]
        /\ active = [m \in Copies |-> {}]
        /\ server = "up"

JsRuns == server # "exited"

-----------------------------------------------------------------------------
(* Signals                                                                 *)

(* A process may catch or ignore SIGTERM.                                  *)
Sigterm(procs) == \E x \in SUBSET (procs \cap up) : doomed' = doomed \cup x

Sigkill(procs) == doomed' = doomed \cup (procs \cap up)

(* Slip of ScheduleSigkill: SIGTERM is all that is sent.                   *)
NoSigkill(c) == UNCHANGED killer

(* scheduleSigkill(): one timer per call, never armed twice.               *)
ScheduleSigkill(c) ==
  killer' = [killer EXCEPT ![c] = IF @ = "off" THEN "armed" ELSE @]

(* killGroup('SIGTERM'); scheduleSigkill()                                 *)
Terminate(c) == Sigterm(Group(c)) /\ ScheduleSigkill(c)

-----------------------------------------------------------------------------
(* A call                                                                  *)

(* The child is spawned and registered; if the signal has fired already,   *)
(* it is told to end at once.                                              *)
Spawn(c) ==
  /\ JsRuns
  /\ pc[c] = "idle"
  /\ pc' = [pc EXCEPT ![c] = "pending"]
  /\ up' = up \cup {Leader(c)}
  /\ active' = [active EXCEPT !["bundles"] = @ \cup {c}]
  /\ \E a \in {"armed", "off"} : alarm' = [alarm EXCEPT ![c] = a]
  /\ IF c \in stopped
     THEN /\ doomed' \in {doomed, doomed \cup {Leader(c)}}
          /\ ScheduleSigkill(c)
     ELSE UNCHANGED <<doomed, killer>>
  /\ UNCHANGED <<piped, stopped, server>>

(* No binary, no cwd, or an aborted script: there is no child, and the     *)
(* promise resolves with a failure.                                        *)
NoChild(c) ==
  /\ JsRuns
  /\ pc[c] = "idle"
  /\ pc' = [pc EXCEPT ![c] = "settled"]
  /\ UNCHANGED <<os, stopped, alarm, killer, active, server>>

Abort(c) ==
  /\ JsRuns
  /\ pc[c] # "settled"
  /\ c \notin stopped
  /\ stopped' = stopped \cup {c}
  /\ IF pc[c] = "pending" THEN Terminate(c) ELSE UNCHANGED <<doomed, killer>>
  /\ UNCHANGED <<up, piped, pc, alarm, active, server>>

OnTimeout(c) ==
  /\ JsRuns
  /\ alarm[c] = "armed"
  /\ alarm' = [alarm EXCEPT ![c] = "fired"]
  /\ Terminate(c)
  /\ UNCHANGED <<up, piped, pc, stopped, active, server>>

KillTimerFires(c) ==
  /\ JsRuns
  /\ killer[c] = "armed"
  /\ killer' = [killer EXCEPT ![c] = "fired"]
  /\ Sigkill(Group(c))
  /\ UNCHANGED <<up, piped, pc, stopped, alarm, active, server>>

(* Slip of Finish: the clean-up forgets the timers.                        *)
FinishNoCleanup(c) ==
  /\ pc' = [pc EXCEPT ![c] = "settled"]
  /\ active' = [active EXCEPT !["bundles"] = @ \ {c}]
  /\ UNCHANGED <<alarm, killer>>

(* Slip of Finish: the pid stays registered.                               *)
FinishStaysListed(c) ==
  /\ pc' = [pc EXCEPT ![c] = "settled"]
  /\ alarm' = [alarm EXCEPT ![c] = "off"]
  /\ killer' = [killer EXCEPT ![c] = "off"]
  /\ UNCHANGED active

(* finish(): both timers are cleared and the pid is unregistered.          *)
Finish(c) ==
  /\ pc' = [pc EXCEPT ![c] = "settled"]
  /\ alarm' = [alarm EXCEPT ![c] = "off"]
  /\ killer' = [killer EXCEPT ![c] = "off"]
  /\ active' = [active EXCEPT !["bundles"] = @ \ {c}]

(* 'close': the leader has exited and nobody holds its stdout open.        *)
Closed(c) == Leader(c) \notin up /\ ~(c \in piped /\ Helper(c) \in up)

Close(c) ==
  /\ JsRuns
  /\ pc[c] = "pending"
  /\ Closed(c)
  /\ Finish(c)
  /\ UNCHANGED <<os, stopped, server>>

-----------------------------------------------------------------------------
(* The operating system                                                    *)

(* The leader starts a helper, which inherits stdout or redirects it.      *)
Fork(c) ==
  /\ Leader(c) \in up \ doomed
  /\ Helper(c) \notin up
  /\ up' = up \cup {Helper(c)}
  /\ piped' \in {piped \cup {c}, piped \ {c}}
  /\ UNCHANGED <<doomed, js, server>>

(* A process ends, by itself or by a signal.                               *)
ProcessEnds(p) ==
  /\ p \in up
  /\ up' = up \ {p}
  /\ doomed' = doomed \ {p}
  /\ UNCHANGED <<piped, js, server>>

-----------------------------------------------------------------------------
(* shutdown()                                                              *)

Groups(cs) == cs \X Members

(* killAllChildren() and activeChildCount() of server.ts look at its own   *)
(* copy of the registry.                                                   *)
OwnChildren == active["server"]

(* The first SIGINT, SIGTERM or SIGHUP.                                    *)
Shutdown ==
  /\ server = "up"
  /\ server' = "closing"
  /\ Sigterm(Groups(OwnChildren))
  /\ UNCHANGED <<up, piped, js>>

(* The second signal, or the end of the grace period.                      *)
ForceExit ==
  /\ server = "closing"
  /\ server' = "exited"
  /\ Sigkill(Groups(OwnChildren))
  /\ UNCHANGED <<up, piped, js>>

(* The HTTP server has drained, and no child is registered.                *)
EarlyExit ==
  /\ server = "closing"
  /\ OwnChildren = {}
  /\ server' = "exited"
  /\ UNCHANGED <<os, js>>

-----------------------------------------------------------------------------
ChildNext == \/ \E c \in ChildCalls : \/ Spawn(c)
                            \/ NoChild(c)
                            \/ Abort(c)
                            \/ OnTimeout(c)
                            \/ KillTimerFires(c)
                            \/ Close(c)
                            \/ Fork(c)
        \/ \E p \in Procs : ProcessEnds(p)
        \/ Shutdown
        \/ ForceExit
        \/ EarlyExit

(* Timers fire, 'close' is delivered and signals take effect.  A process   *)
(* owes nobody an exit.                                                    *)
ChildFairness ==
  /\ \A c \in ChildCalls : /\ WF_childVars(OnTimeout(c))
                      /\ WF_childVars(KillTimerFires(c))
                      /\ WF_childVars(Close(c))
  /\ \A p \in Procs : WF_childVars(p \in doomed /\ ProcessEnds(p))

ChildSpec == ChildInit /\ [][ChildNext]_childVars /\ ChildFairness

-----------------------------------------------------------------------------
(* Properties                                                              *)

Timers == [ChildCalls -> {"off", "armed", "fired"}]

(* The types of the variables.                                             *)
ChildTypeOK ==
  /\ pc \in [ChildCalls -> {"idle", "pending", "settled"}]
  /\ up \subseteq Procs
  /\ doomed \subseteq up
  /\ piped \subseteq ChildCalls
  /\ stopped \subseteq ChildCalls
  /\ alarm \in Timers
  /\ killer \in Timers
  /\ active \in [Copies -> SUBSET ChildCalls]
  /\ server \in {"up", "closing", "exited"}

(* No timer of a settled call is left to signal a group whose number may   *)
(* have been given to another process.                                     *)
NoStrayTimer ==
  \A c \in ChildCalls : pc[c] = "settled" => alarm[c] # "armed" /\ killer[c] # "armed"

(* The spawn sites keep their copy of the registry exact, whatever ends a  *)
(* call and whenever: a child that runs can be found there, also once the  *)
(* server is closing, and a call that has returned cannot, whose pid may   *)
(* have been given to another process.                                     *)
RegistryIsExact ==
  \A c \in ChildCalls :
    /\ Leader(c) \in up => c \in active["bundles"]
    /\ c \in active["bundles"] => pc[c] = "pending"

(* "Each spawn site registers its pid here so server.ts can reap the lot   *)
(* on shutdown": the server exits only when every child it started is gone *)
(* or was killed.                                                          *)
NoOrphanAfterExit ==
  server = "exited" => \A c \in ChildCalls : Leader(c) \in up => Leader(c) \in doomed

(* Stop and timeouts end a call, even of a child that ignores SIGTERM and  *)
(* of one whose helper keeps the pipe open.                                *)
KilledCallReturns ==
  \A c \in ChildCalls : pc[c] = "pending" /\ (c \in stopped \/ alarm[c] = "armed")
                     ~> pc[c] = "settled" \/ server = "exited"

(* "Kill the whole group (including grandchildren like `sleep`) on         *)
(* timeout/abort": when a call that was to be killed returns, nothing of   *)
(* its group goes on.                                                      *)
KilledGroupDies ==
  [][\A c \in ChildCalls : killer[c] # "off" /\ pc[c] = "pending" /\ pc'[c] = "settled"
                        => Group(c) \cap up \subseteq doomed]_childVars
=============================================================================
