---------------------------- MODULE EventStream -----------------------------
(***************************************************************************)
(* The event bus (event-bus.ts), what the engine keeps of it for late      *)
(* comers (workflow-engine.ts), the event stream of GET /api/events, and a *)
(* browser that follows it and connects again when it breaks               *)
(* (ws-client.ts, the run part of workflow-store-client.ts).               *)
(*                                                                         *)
(* Emitting is synchronous: an event is captured and put on every open     *)
(* stream in the turn that emits it.  The frames of a stream arrive later, *)
(* in order, or are lost with the connection.                              *)
(***************************************************************************)
EXTENDS Naturals, Sequences, SequencesExt

CONSTANTS
  EventCap,     \* EVENT_HISTORY_CAP, 5000
  MaxRuns,      \* bound: runs
  MaxEvents,    \* bound: events besides run_started and run_finished, in all
  MaxConnects   \* bound: connections

ASSUME StreamAssumption == /\ EventCap \in Nat \ {0}
                           /\ MaxRuns \in Nat /\ MaxEvents \in Nat /\ MaxConnects \in Nat

VARIABLES
  engineStatus,  \* snapshot.status
  capturing,     \* the engine's subscription to the bus
  recent,        \* recentEvents
  runs,          \* runs so far
  events,        \* events so far
  wire,          \* frames on their way to the browser
  connected,     \* the stream is subscribed to the bus
  connects,      \* connections so far
  link,          \* the browser's connectionStatus
  viewStatus,    \* the browser's runStatus
  viewLog        \* the browser's runEvents

engineVars == <<engineStatus, capturing, recent, runs, events>>
viewVars == <<link, viewStatus, viewLog>>
streamVars == <<engineStatus, capturing, recent, runs, events, wire, connected, connects,
                link, viewStatus, viewLog>>

EventStreamInit ==
  /\ engineStatus = "idle" /\ capturing = FALSE
  /\ recent = <<>> /\ runs = 0 /\ events = 0
  /\ wire = <<>> /\ connected = FALSE /\ connects = 0
  /\ link = "connecting" /\ viewStatus = "idle" /\ viewLog = <<>>

-----------------------------------------------------------------------------
(* recentEvents.push(), and shift() beyond the cap.                        *)
Captured(log, event) == LET all == Append(log, event)
                        IN IF Len(all) > EventCap THEN Tail(all) ELSE all

(* emit(): the subscribers are the stream and, during a run, the engine.   *)
Deliver(frame) == wire' = IF connected THEN Append(wire, frame) ELSE wire
Frame(type, state) == [type |-> type, status |-> state, log |-> <<>>, nr |-> 0]
Event(frame) == <<frame.type, frame.nr>>

(* start(): the snapshot, an empty log, the subscription, run_started.     *)
StartRun ==
  /\ engineStatus # "running" /\ runs < MaxRuns
  /\ engineStatus' = "running" /\ capturing' = TRUE
  /\ runs' = runs + 1
  /\ recent' = <<<<"run_started", 0>>>>
  /\ Deliver(Frame("run_started", "running"))
  /\ UNCHANGED <<events, connected, connects, viewVars>>

(* Any other event: of a node, of the trigger queue, a failed save.        *)
OtherEvent ==
  /\ events < MaxEvents
  /\ events' = events + 1
  /\ recent' = IF capturing THEN Captured(recent, <<"other", events + 1>>) ELSE recent
  /\ Deliver([Frame("other", "none") EXCEPT !.nr = events + 1])
  /\ UNCHANGED <<engineStatus, capturing, runs, connected, connects, viewVars>>

(* The run settles: the snapshot, run_finished, and no more capturing.     *)
FinishRun ==
  /\ engineStatus = "running"
  /\ \E s \in {"succeeded", "failed", "cancelled"} :
       engineStatus' = s /\ Deliver(Frame("run_finished", s))
  /\ recent' = Captured(recent, <<"run_finished", 0>>)
  /\ capturing' = FALSE
  /\ UNCHANGED <<runs, events, connected, connects, viewVars>>

-----------------------------------------------------------------------------
(* Slip of Connect: the bus is subscribed to a turn after the snapshot was *)
(* taken, or the snapshot is of a turn before.                             *)
ConnectLate ==
  /\ ~connected /\ connects < MaxConnects
  /\ connected' = TRUE /\ connects' = connects + 1
  /\ wire' = <<[type |-> "state_snapshot", status |-> "idle", log |-> <<>>, nr |-> 0]>>
  /\ link' = "open"
  /\ UNCHANGED <<engineVars, viewStatus, viewLog>>

(* GET /api/events: the snapshot is the first frame, and the bus is        *)
(* subscribed to in the same turn.                                         *)
Connect ==
  /\ ~connected /\ connects < MaxConnects
  /\ connected' = TRUE /\ connects' = connects + 1
  /\ wire' = <<[type |-> "state_snapshot", status |-> engineStatus, log |-> recent,
                  nr |-> 0]>>
  /\ link' = "open"
  /\ UNCHANGED <<engineVars, viewStatus, viewLog>>

(* The connection breaks: the frames on their way are lost and cleanup()   *)
(* unsubscribes.  EventSource connects again by itself.                    *)
Disconnect ==
  /\ connected
  /\ connected' = FALSE /\ wire' = <<>>
  /\ link' = "closed"
  /\ UNCHANGED <<engineVars, connects, viewStatus, viewLog>>

(* hydrateRun() for the snapshot, appendRunEvent() for events.             *)
Apply(f) ==
  CASE f.type = "state_snapshot" -> viewStatus' = f.status /\ viewLog' = f.log
    [] f.type = "run_started" -> viewStatus' = f.status /\ viewLog' = <<Event(f)>>
    [] f.type = "run_finished" -> viewStatus' = f.status /\ viewLog' = Append(viewLog, Event(f))
    [] f.type = "other" -> viewLog' = Append(viewLog, Event(f)) /\ UNCHANGED viewStatus

Receive ==
  /\ wire # <<>>
  /\ Apply(Head(wire))
  /\ wire' = Tail(wire)
  /\ UNCHANGED <<engineVars, connected, connects, link>>

-----------------------------------------------------------------------------
EventStreamNext == \/ StartRun \/ OtherEvent \/ FinishRun
                   \/ Connect \/ Disconnect \/ Receive

EventStreamSpec == EventStreamInit /\ [][EventStreamNext]_streamVars

-----------------------------------------------------------------------------
(* Properties                                                              *)
EngineStatuses == {"idle", "running", "succeeded", "failed", "cancelled"}

(* The types of the variables that are not logs.                           *)
EventStreamTypeOK ==
  /\ engineStatus \in EngineStatuses /\ viewStatus \in EngineStatuses
  /\ capturing \in BOOLEAN /\ connected \in BOOLEAN
  /\ runs \in 0 .. MaxRuns /\ events \in 0 .. MaxEvents /\ connects \in 0 .. MaxConnects
  /\ link \in {"connecting", "open", "closed"}
  /\ Len(recent) <= EventCap

(* A browser that has read an open stream to its end shows the status of   *)
(* the engine and, of a run in progress, every event that the engine has   *)
(* kept, in order and once each: whatever was lost with the connections    *)
(* before, and whichever run they were about.                              *)
BrowserSeesTheRun ==
  connected /\ wire = <<>> =>
    /\ viewStatus = engineStatus
    /\ engineStatus = "running" =>
         /\ IsSuffix(recent, viewLog)
         /\ \A j, k \in 1 .. Len(viewLog) : viewLog[j] = viewLog[k] => j = k

(* What the browser shows of a run, and the types.                         *)
BrowserFollows == EventStreamTypeOK /\ BrowserSeesTheRun
=============================================================================
