----------------------------- MODULE CallOutput -----------------------------
(***************************************************************************)
(* What becomes of the standard output of a child process: the line loop   *)
(* of runCliProvider() with the parser of its manifest (runner.ts,         *)
(* claude-stream-json.ts), and the one of the Script node with the search  *)
(* for its result (nodes/script.ts).                                       *)
(*                                                                         *)
(* A line is sent as three units: a first part, the rest and the newline.  *)
(* A chunk is any number of units, and the child may end after any of      *)
(* them.  A line is [k, id]; what is emitted for it is a token: its        *)
(* position and how it is rendered.  One turn of the loop is one step;     *)
(* nothing else happens between the turns of one data event.               *)
(***************************************************************************)
EXTENDS Naturals, Sequences, SequencesExt

CONSTANTS
  Outputs,    \* what a child may print: [of, lines], of "stream", "plain" or
              \* "script"
  ToolIds

Line(k, id) == [k |-> k, id |-> id]

\* Lines as the parser of stream-json tells them apart: "noise" is no JSON,
\* "silent" is an event that it renders as nothing.
StreamKinds == {"delta", "task", "tool", "reply", "summary", "silent", "noise", "blank"}

ASSUME OutputAssumption ==
  \A o \in Outputs : /\ o.of \in {"stream", "plain", "script"}
                     /\ o.lines \in Seq([k : STRING, id : ToolIds])
                     /\ o.of = "stream" =>
                          \A i \in 1 .. Len(o.lines) : o.lines[i].k \in StreamKinds

VARIABLES
  child,      \* the member of Outputs
  units,      \* units received
  seen,       \* lines taken out of lineBuf
  inflight,   \* inflightTools: the tool each id stands for, or "none"
  stdout,     \* what the result will hold
  console,    \* what onStdoutChunk() was given
  ended,      \* [exit, timedOut, spawnError], or Running
  returned    \* what the node's executor returned, or Nothing

outputVars == <<child, units, seen, inflight, stdout, console, ended, returned>>

Running == [exit |-> "running", timedOut |-> FALSE, spawnError |-> FALSE]
Nothing == [branch |-> "none", stdout |-> <<>>, declared |-> 0]

OutputInit ==
  /\ child \in Outputs
  /\ units = 0 /\ seen = 0
  /\ inflight = [i \in ToolIds |-> "none"]
  /\ stdout = <<>> /\ console = <<>>
  /\ ended = Running /\ returned = Nothing

Lines == child.lines
Whole == units \div 3
Show(i, how) == <<<<i, how>>>>

(* Lines of a script that begin with the sentinel, be they the harness's   *)
(* or the user's: with an object, an array, or no JSON behind it, or with  *)
(* blanks before it.                                                       *)
SentinelKinds == {"object", "array", "broken", "indented"}

(* What the harness's own print may look like.  It writes no newline first *)
(* (script.ts:69, :91): blanks or text that the user's code left without   *)
(* one stand before the sentinel ("indented", "glued").                    *)
ResultKinds == {"object", "indented", "glued"}

-----------------------------------------------------------------------------
(* renderAssistant(), and `inflightTools.clear()`.                         *)
Inflight(line) ==
  CASE line.k = "task"    -> [inflight EXCEPT ![line.id] = "Task"]
    [] line.k = "tool"    -> [inflight EXCEPT ![line.id] = "other"]
    [] line.k = "summary" -> [i \in ToolIds |-> "none"]
    [] OTHER              -> inflight

(* createClaudeStreamJsonParser(): what a JSON line is rendered as.        *)
Rendered(i, line) ==
  CASE line.k = "delta"   -> Show(i, "text")
    [] line.k = "task"    -> Show(i, "subagent")
    [] line.k = "tool"    -> Show(i, "tool")
    [] line.k = "reply"   -> Show(i, IF inflight[line.id] = "Task" THEN "subagent result"
                                     ELSE "tool result")
    [] line.k = "summary" -> Show(i, "result")
    [] OTHER              -> <<>>             \* message, other stream events

Verbatim(line) == child.of = "plain" \/ line.k = "noise"

(* One line without its newline: `how` is used for lines that are no JSON. *)
Emit(i, how) == CASE Lines[i].k = "blank" -> <<>>
                  [] Lines[i].k # "blank" /\ Verbatim(Lines[i]) -> Show(i, how)
                  [] OTHER -> Rendered(i, Lines[i])

Write(token) == stdout' = stdout \o token /\ console' = console \o token

(* child.stdout 'data'                                                     *)
Chunk == /\ ended = Running /\ seen = Whole
         /\ \E n \in units + 1 .. 3 * Len(Lines) : units' = n
         /\ UNCHANGED <<child, seen, inflight, stdout, console, ended, returned>>

CliLine ==
  /\ child.of # "script" /\ seen < Whole
  /\ seen' = seen + 1
  /\ Write(Emit(seen + 1, "line"))
  /\ inflight' = IF child.of = "stream" THEN Inflight(Lines[seen + 1]) ELSE inflight
  /\ UNCHANGED <<child, units, ended, returned>>

(* The unfinished line in lineBuf at 'close': its content is whole, or cut *)
(* and then no JSON any more.                                              *)
Tail1 == seen + 1
CliTail == CASE units % 3 = 0 -> <<>>
             [] units % 3 = 1 -> IF Lines[Tail1].k = "blank" THEN <<>> ELSE Show(Tail1, "cut")
             [] units % 3 = 2 -> Emit(Tail1, "tail")

Exits == [exit : {"0", "1", "null"}, timedOut : BOOLEAN, spawnError : {FALSE}]
NotSpawned == [exit |-> "null", timedOut |-> FALSE, spawnError |-> TRUE]

CliClose ==
  /\ child.of # "script" /\ ended = Running /\ seen = Whole
  /\ ended' \in Exits
  /\ Write(CliTail)
  /\ UNCHANGED <<child, units, seen, inflight, returned>>

(* Script: every line goes to stdout; one that starts with the sentinel is *)
(* kept off the console, one that holds it further on is not.              *)
ScriptPrint(i, how) ==
  /\ stdout' = stdout \o Show(i, how)
  /\ console' = IF Lines[i].k \in SentinelKinds \ {"indented"} /\ how # "cut"
                  THEN console ELSE console \o Show(i, how)

ScriptLine == /\ child.of = "script" /\ seen < Whole
              /\ seen' = seen + 1
              /\ ScriptPrint(seen + 1, "line")
              /\ UNCHANGED <<child, units, inflight, ended, returned>>

(* A cut line: in a line with the sentinel the cut may fall within it, or  *)
(* behind it and leave half a payload.                                     *)
CutHows(kind) == IF kind \in SentinelKinds THEN {"cut", "half"} ELSE {"cut"}

ScriptClose ==
  /\ child.of = "script" /\ ended = Running /\ seen = Whole
  /\ ended' \in Exits
  /\ CASE units % 3 = 0 -> UNCHANGED <<stdout, console>>
       [] units % 3 = 1 -> \E how \in CutHows(Lines[Tail1].k) : ScriptPrint(Tail1, how)
       [] units % 3 = 2 -> ScriptPrint(Tail1, "tail")
  /\ UNCHANGED <<child, units, seen, inflight, returned>>

(* 'error': the binary cannot be started.                                  *)
SpawnFails == /\ ended = Running /\ units = 0
              /\ ended' = NotSpawned
              /\ UNCHANGED <<child, units, seen, inflight, stdout, console, returned>>

-----------------------------------------------------------------------------
(* `line.trim().startsWith(RESULT_SENTINEL)`                               *)
IsSentinel(token) == Lines[token[1]].k \in SentinelKinds /\ token[2] # "cut"

(* JSON.parse() fails.                                                     *)
NoJson(token) == Lines[token[1]].k = "broken" \/ token[2] = "half"

(* Slip of ResultAt: the first such line, which the user's code may print. *)
FirstResult == LET at == {i \in DOMAIN stdout : IsSentinel(stdout[i])}
               IN IF at = {} THEN 0 ELSE CHOOSE i \in at : \A j \in at : i <= j

(* extractResult() looks for the sentinel from the end.                    *)
ResultAt == LET at == {i \in DOMAIN stdout : IsSentinel(stdout[i])}
            IN IF at = {} THEN 0 ELSE CHOOSE i \in at : \A j \in at : i >= j

(* A payload that does not parse stays in the output.                      *)
Sanitized == IF ResultAt = 0 \/ NoJson(stdout[ResultAt]) THEN stdout
             ELSE RemoveAt(stdout, ResultAt)

(* Where the declared outputs come from: a line, or nowhere.               *)
Declared == IF /\ ResultAt # 0
               /\ ~NoJson(stdout[ResultAt])
               /\ Lines[stdout[ResultAt][1]].k \in {"object", "indented"}
              THEN stdout[ResultAt][1] ELSE 0

Success == ended.exit = "0" /\ ~ended.timedOut /\ ~ended.spawnError

NodeReturns ==
  /\ ended # Running /\ returned = Nothing
  /\ returned' = [branch   |-> IF Success THEN "next" ELSE "error",
                  stdout   |-> IF child.of = "script" THEN Sanitized ELSE stdout,
                  declared |-> IF child.of = "script" THEN Declared ELSE 0]
  /\ UNCHANGED <<child, units, seen, inflight, stdout, console, ended>>

OutputNext == Chunk \/ CliLine \/ CliClose \/ ScriptLine \/ ScriptClose \/ SpawnFails
              \/ NodeReturns

OutputSpec == OutputInit /\ [][OutputNext]_outputVars

-----------------------------------------------------------------------------
OutputTypeOK ==
  /\ child \in Outputs
  /\ units \in 0 .. 3 * Len(Lines) /\ seen \in 0 .. Len(Lines)
  /\ inflight \in [ToolIds -> {"none", "Task", "other"}]
  /\ {stdout[i][1] : i \in DOMAIN stdout} \subseteq DOMAIN Lines
  /\ {console[i][1] : i \in DOMAIN console} \subseteq DOMAIN Lines
  /\ ended \in Exits \cup {Running, NotSpawned}
  /\ returned.branch \in {"none", "next", "error"}

(* The tool a reply belongs to, said without the parser's state: the last  *)
(* call with its id, unless a result message came in between.              *)
RepliesToTask(i) ==
  \E j \in 1 .. i - 1 :
    /\ Lines[j] = Line("task", Lines[i].id)
    /\ \A m \in j + 1 .. i - 1 :
         Lines[m].k # "summary" /\ Lines[m] # Line("tool", Lines[i].id)

Expected(i) ==
  CASE Lines[i].k = "blank" -> {}
    [] Lines[i].k # "blank" /\ Verbatim(Lines[i]) -> {<<i, "line">>}
    [] Lines[i].k = "reply" /\ child.of = "stream" ->
         {<<i, IF RepliesToTask(i) THEN "subagent result" ELSE "tool result">>}
    [] OTHER -> {<<i, h>> : h \in {"text", "subagent", "tool", "result"}}

(* How a CLI's output is cut into chunks makes no difference: each line    *)
(* that arrived whole is rendered once, in order, as its own content and   *)
(* the tool calls before it demand, the unfinished last one is kept, and   *)
(* the run log shows what the node's result holds.  runner.ts:199-257.     *)
CliOutputIsWhole ==
  (child.of # "script" /\ ended # Running) =>
    /\ console = stdout
    /\ \A i, j \in DOMAIN stdout : i < j => stdout[i][1] < stdout[j][1]
    /\ \A i \in 1 .. Whole :
         LET got == {t \in {stdout[x] : x \in DOMAIN stdout} : t[1] = i}
         IN /\ got \subseteq Expected(i)
            /\ got = {} <=> Expected(i) = {} \/ (child.of = "stream" /\ Lines[i].k = "silent")
    /\ (units % 3 = 2 /\ Verbatim(Lines[Whole + 1]) /\ Lines[Whole + 1].k # "blank")
         => Last(stdout) = <<Whole + 1, "tail">>

(* The declared outputs of a script come from the last line that starts    *)
(* with the sentinel, whatever the user's code printed before it, and they *)
(* do come from the harness's line when that arrived and begins with it;   *)
(* the output keeps every line that is not that one.  script.ts:98-126.    *)
(* (A result behind text that ended without a newline is not claimed here: *)
(* see ResultComesThrough.)                                                *)
ScriptResultIsLast ==
  (child.of = "script" /\ returned # Nothing) =>
    /\ \A i \in returned.declared + 1 .. Whole :
         returned.declared # 0 => Lines[i].k \notin SentinelKinds
    /\ (returned.declared = 0 /\ units = 3 * Len(Lines) /\ Lines # <<>>)
         => Last(Lines).k \notin {"object", "indented"}
    /\ LET kept == {returned.stdout[x][1] : x \in DOMAIN returned.stdout}
       IN \A i \in 1 .. Whole : i \in kept \/ Lines[i].k \in SentinelKinds \ {"broken"}

(* "Sentinel emitted by the harness on its own stdout line.  The line is   *)
(* stripped from the user-visible stdout before storage": when the harness *)
(* has printed the result of run() last and everything arrived, the node   *)
(* gets its outputs from there and nobody sees the line.                   *)
ResultComesThrough ==
  (/\ child.of = "script" /\ returned # Nothing
   /\ units = 3 * Len(Lines) /\ Lines # <<>> /\ Last(Lines).k \in ResultKinds) =>
     /\ returned.declared = Len(Lines)
     /\ \A x \in DOMAIN returned.stdout : returned.stdout[x][1] # Len(Lines)

(* What CLIs and scripts print arrives whole, however it is cut up, and    *)
(* the types.                                                              *)
OutputIsWhole == OutputTypeOK /\ CliOutputIsWhole /\ ScriptResultIsLast
=============================================================================
