------------------------------ MODULE HttpCall ------------------------------
(***************************************************************************)
(* One call of runHttpProvider() (http-runner.ts): a request whose answer  *)
(* is a stream of server-sent events, read chunk by chunk while the user's *)
(* abort signal and the timeout may fire.  The end of the stream, [DONE],  *)
(* an error, the timeout and the abort compete for the result.             *)
(*                                                                         *)
(* An event is sent in two halves, so that a chunk may end inside one; a   *)
(* chunk is any number of halves.  Whether an abort of the controller      *)
(* reaches a pending read() by itself differs between implementations of   *)
(* fetch (the comment at 149-152): `propagates` is chosen at the start.    *)
(***************************************************************************)
EXTENDS Naturals, Sequences, FiniteSets

CONSTANTS
  Streams,     \* the answers a server may have to give: sequences of events
  Manifests    \* [profile, auth]: profile BOOLEAN (one was chosen or there is
               \* a default); auth "none", "inline", "env", "envUnset"

Events == {"delta", "junk", "comment", "done"}

ASSUME HttpAssumption == Streams \subseteq Seq(Events)

VARIABLES
  manifest, stream, propagates,
  hphase,      \* "idle", "fetching", "errorBody", "reading", "cancelling",
               \* "returned"
  callerAborted, httpTimedOut, controllerAborted,
  timer,       \* timeoutTimer is armed
  listening,   \* the listener on opts.signal is registered
  got,         \* halves of events received
  handled,     \* events handled
  out,         \* stdout: the positions of the deltas emitted
  junk,        \* stderr: the positions of the payloads that were no JSON
  hresult      \* [exit, timedOut] or NoResult

httpCtl == <<manifest, stream, propagates>>
httpVars == <<manifest, stream, propagates, hphase, callerAborted, httpTimedOut,
              controllerAborted, timer, listening, got, handled, out, junk, hresult>>

NoResult == [exit |-> "none", timedOut |-> FALSE]
Result(e, t) == [exit |-> e, timedOut |-> t]

HttpInit ==
  /\ manifest \in Manifests /\ stream \in Streams /\ propagates \in BOOLEAN
  /\ hphase = "idle"
  /\ callerAborted \in BOOLEAN
  /\ httpTimedOut = FALSE /\ controllerAborted = FALSE
  /\ timer = FALSE /\ listening = FALSE
  /\ got = 0 /\ handled = 0 /\ out = <<>> /\ junk = <<>>
  /\ hresult = NoResult

Cleaned == timer' = FALSE /\ listening' = FALSE

Cleanup == Cleaned

Return(exit) == /\ hphase' = "returned"
                /\ hresult' = Result(exit, httpTimedOut)
                /\ Cleanup
                /\ UNCHANGED <<httpCtl, callerAborted, httpTimedOut, controllerAborted,
                               got, handled, out, junk>>

(* No profile, or the variable of the bearer token is not set.             *)
RefuseCall == /\ hphase = "idle"
              /\ ~manifest.profile \/ manifest.auth = "envUnset"
              /\ Return("1")

(* The timer is armed first; a signal that has already fired aborts the    *)
(* request and gets no listener.                                           *)
SendRequest ==
  /\ hphase = "idle" /\ manifest.profile /\ manifest.auth # "envUnset"
  /\ hphase' = "fetching"
  /\ timer' \in BOOLEAN               \* opts.timeoutMs > 0
  /\ controllerAborted' = callerAborted
  /\ listening' = ~callerAborted
  /\ UNCHANGED <<httpCtl, callerAborted, httpTimedOut, got, handled, out, junk, hresult>>

(* The user's Stop, or a Parallel node that cancels its branch.            *)
CallerAborts ==
  /\ hphase # "returned" /\ ~callerAborted
  /\ callerAborted' = TRUE
  /\ controllerAborted' = (controllerAborted \/ listening)
  /\ UNCHANGED <<httpCtl, hphase, httpTimedOut, timer, listening, got, handled, out, junk,
                 hresult>>

TimerFires ==
  /\ timer
  /\ timer' = FALSE                   \* it fires once
  /\ httpTimedOut' = TRUE /\ controllerAborted' = TRUE
  /\ UNCHANGED <<httpCtl, hphase, callerAborted, listening, got, handled, out, junk,
                 hresult>>

(* fetch() rejects: the abort, or the network.                             *)
FetchFails == /\ hphase = "fetching"
              /\ IF controllerAborted THEN Return("null") ELSE Return("1")

(* The headers arrive: `!resp.ok || !resp.body`, or a stream to read.      *)
HeadersArrive ==
  /\ hphase = "fetching" /\ ~controllerAborted
  /\ hphase' \in {"errorBody", "reading"}
  /\ UNCHANGED <<httpCtl, callerAborted, httpTimedOut, controllerAborted, timer, listening,
                 got, handled, out, junk, hresult>>

(* resp.text(): whether it resolves or rejects, the call reports status 1. *)
ErrorBodyEnds == hphase = "errorBody" /\ Return("1")

-----------------------------------------------------------------------------
(* The complete events of the buffer that handleEvent() sees: up to and    *)
(* with the first [DONE].                                                  *)
FirstDone(n) == {i \in handled + 1 .. n : stream[i] = "done"}
UpTo(n) == IF FirstDone(n) = {} THEN n
           ELSE CHOOSE i \in FirstDone(n) : \A j \in FirstDone(n) : i <= j

HandledBy(halves) == UpTo(halves \div 2)

(* q lists the numbers of S in their order.                                *)
Lists(q, S) == /\ {q[m] : m \in DOMAIN q} = S
               /\ \A m, n \in DOMAIN q : m < n => q[m] < q[n]

(* The positions of kind k among the events i+1 .. j.                      *)
Positions(k, i, j) == LET S == {p \in i + 1 .. j : stream[p] = k}
                      IN CHOOSE q \in [1 .. Cardinality(S) -> S] : Lists(q, S)

ChunkArrives ==
  /\ hphase = "reading"
  /\ \E n \in got + 1 .. 2 * Len(stream) :
       LET h == HandledBy(n) IN
       /\ got' = n
       /\ handled' = h
       /\ out' = out \o Positions("delta", handled, h)
       /\ junk' = junk \o Positions("junk", handled, h)
       /\ hphase' = IF h > 0 /\ stream[h] = "done" THEN "cancelling" ELSE "reading"
  /\ UNCHANGED <<httpCtl, callerAborted, httpTimedOut, controllerAborted, timer, listening,
                 hresult>>

(* After the loop: the timeout wins over the abort, the abort over success.*)
(* Slip of Outcome: a cancelled reader looks like the end of the stream.   *)
OutcomeByLoop == "0"

Outcome == IF httpTimedOut \/ callerAborted THEN "null" ELSE "0"

(* read() says done: the server closed, or the reader was cancelled by     *)
(* onAbortCancelReader.  A half event left in the buffer is dropped.       *)
StreamCloses ==
  /\ hphase = "reading"
  /\ Return(Outcome)

(* onAbortCancelReader.                                                    *)
(* Slip of CancelReader: the reader is not cancelled when the controller   *)
(* aborts.                                                                 *)
LeaveReader == FALSE

CancelReader == hphase = "reading" /\ controllerAborted /\ Return(Outcome)

(* read() rejects: with AbortError if fetch passes the abort on, else with *)
(* an error of the connection.                                             *)
ReadRejects ==
  /\ hphase = "reading"
  /\ \/ controllerAborted /\ propagates /\ Return("null")
     \/ ~controllerAborted /\ Return("1")

(* After [DONE]: `await reader.cancel()`, whose failure is ignored.        *)
ReaderCancelled == hphase = "cancelling" /\ Return(Outcome)

HttpNext == \/ RefuseCall \/ SendRequest \/ CallerAborts \/ TimerFires
            \/ FetchFails \/ HeadersArrive \/ ErrorBodyEnds
            \/ ChunkArrives \/ StreamCloses \/ CancelReader \/ ReadRejects
            \/ ReaderCancelled

(* What the runtime owes the call: an aborted fetch() rejects, a cancelled *)
(* reader ends.  Nothing is assumed of the server.                         *)
HttpFairness == /\ WF_httpVars(hphase = "fetching" /\ controllerAborted /\ FetchFails)
                /\ WF_httpVars(CancelReader)
                /\ WF_httpVars(ReaderCancelled)

HttpSpec == HttpInit /\ [][HttpNext]_httpVars /\ HttpFairness

-----------------------------------------------------------------------------
HttpTypeOK ==
  /\ manifest \in Manifests /\ stream \in Streams /\ propagates \in BOOLEAN
  /\ hphase \in {"idle", "fetching", "errorBody", "reading", "cancelling", "returned"}
  /\ {callerAborted, httpTimedOut, controllerAborted, timer, listening} \subseteq BOOLEAN
  /\ got \in Nat /\ handled \in 0 .. Len(stream)
  /\ out \in Seq(1 .. Len(stream)) /\ junk \in Seq(1 .. Len(stream))
  /\ hresult \in [exit : {"none", "0", "1", "null"}, timedOut : BOOLEAN]

(* Exit code 0 stands for a stream that ended by itself: neither the user  *)
(* nor the timeout interfered before the call returned, the output is      *)
(* every delta of the events that arrived whole, once and in order, up to  *)
(* [DONE], and nothing of an event cut in half or of what follows [DONE].  *)
(* http-runner.ts:160-276.                                                 *)
HttpSuccessIsWhole ==
  hresult.exit = "0" =>
    /\ ~httpTimedOut /\ ~hresult.timedOut
    /\ LET whole == got \div 2
           dones == {i \in 1 .. whole : stream[i] = "done"}
           last  == IF dones = {} THEN whole ELSE CHOOSE i \in dones : \A j \in dones : i <= j
       IN Lists(out, {i \in 1 .. last : stream[i] = "delta"})

(* Whichever way the call ends, its timer is cleared and its listener is   *)
(* off the signal of the run, which outlives it (a loop makes thousands of *)
(* calls on one signal); and while it runs, a Stop reaches its request:    *)
(* the listener is there or the controller is aborted.  cleanup(), 79-85.  *)
HttpLeavesNothing ==
  /\ hphase = "returned" => ~timer /\ ~listening
  /\ hphase \in {"fetching", "errorBody", "reading", "cancelling"} /\ callerAborted
       => controllerAborted
  /\ hphase \notin {"idle", "returned"} => listening \/ controllerAborted

(* An abort or a timeout ends the call even if the server never sends      *)
(* another byte and fetch does not pass the abort on to a pending read.    *)
(* (An error body that never ends is not covered: 120-139 read it with     *)
(* text(), which no reader can cancel.)  http-runner.ts:145-158.           *)
HttpKillReturns ==
  (hphase \in {"fetching", "reading", "cancelling"} /\ controllerAborted)
    ~> (hphase = "returned")

(* The three, as one property of a call.                                   *)
HttpEndsWell == HttpTypeOK /\ HttpSuccessIsWhole /\ HttpLeavesNothing
=============================================================================
