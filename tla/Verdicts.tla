------------------------------ MODULE Verdicts ------------------------------
(***************************************************************************)
(* The nodes that decide: Judge (nodes/judge.ts), Condition with its three *)
(* strategies (nodes/condition.ts, conditions/) and Branch                 *)
(* (nodes/branch.ts, predicate.ts).  One execution of one node, with the   *)
(* calls it makes of a provider or a shell, while Stop may come.           *)
(***************************************************************************)
EXTENDS Integers, Sequences

CONSTANTS
  Decisions,  \* the nodes executed: [node, valid, ...], see the actions
  Replies     \* what a judge may print: [line, parses, object, winner, scores]

ASSUME VerdictAssumption == \A d \in Decisions : d.node = "judge" => d.candidates \in Nat

VARIABLES
  dec,        \* the node
  vpc,        \* "start", "calling" or "returned"
  attempts,   \* Judge: the results of its calls so far
  vaborted,   \* ctx.signal has fired
  abortedAt,  \* history: calls begun when it did
  begun,      \* calls begun
  branch      \* what execute() returned, or "none"

verdictVars == <<dec, vpc, attempts, vaborted, abortedAt, begun, branch>>

VerdictInit == /\ dec \in Decisions
               /\ vpc = "start" /\ attempts = <<>>
               /\ vaborted \in BOOLEAN
               /\ abortedAt = 0 /\ begun = 0
               /\ branch = "none"

ReturnBranch(b) == /\ vpc' = "returned" /\ branch' = b
                   /\ UNCHANGED <<dec, vaborted, abortedAt, begun>>

Aborts == /\ vpc # "returned" /\ ~vaborted
          /\ vaborted' = TRUE /\ abortedAt' = begun
          /\ UNCHANGED <<dec, vpc, attempts, begun, branch>>

Call == /\ vpc' = "calling" /\ begun' = begun + 1
        /\ UNCHANGED <<dec, attempts, vaborted, abortedAt, branch>>

-----------------------------------------------------------------------------
(* Branch: '==', '!=', 'contains' and 'matches' of two strings, abstracted *)
(* to whether they are equal, one contains the other, or match.            *)
Holds(op, rel) == CASE op = "==" -> rel = "equal"
                    [] op = "!=" -> rel # "equal"
                    [] op = "contains" -> rel \in {"equal", "contains"}
                    [] op = "matches" -> rel \in {"equal", "matches"}

ExecuteBranch ==
  /\ vpc = "start" /\ dec.node = "branch"
  /\ ReturnBranch(IF ~dec.valid \/ (dec.op = "matches" /\ dec.rel = "badRegex") THEN "error"
                  ELSE IF Holds(dec.op, dec.rel) THEN "true" ELSE "false")
  /\ UNCHANGED attempts

(* Condition: no config or an unknown kind is an error, a strategy's own   *)
(* config that is wrong is `not_met`.                                      *)
RefuseCondition ==
  /\ vpc = "start" /\ dec.node = "condition"
  /\ \/ dec.kind = "unknown" /\ ReturnBranch("error")
     \/ dec.kind # "unknown" /\ ~dec.valid /\ ReturnBranch("not_met")
  /\ UNCHANGED attempts

(* sentinel: a pattern, or a regular expression that may not compile.      *)
Sentinel == /\ vpc = "start" /\ dec.node = "condition" /\ dec.kind = "sentinel" /\ dec.valid
            /\ ReturnBranch(IF dec.found /\ ~dec.badRegex THEN "met" ELSE "not_met")
            /\ UNCHANGED attempts

CallStrategy == /\ vpc = "start" /\ dec.node = "condition" /\ dec.valid
                /\ dec.kind \in {"command", "judge"}
                /\ Call

(* command: exec() of a shell, killed after 30 s; the abort signal of the  *)
(* run does not reach it.                                                  *)
CommandEnds ==
  /\ vpc = "calling" /\ dec.node = "condition" /\ dec.kind = "command"
  /\ \E exit \in {"0", "1", "signal"}, timedOut \in BOOLEAN :
       ReturnBranch(IF exit = "0" /\ ~timedOut THEN "met" ELSE "not_met")
  /\ UNCHANGED attempts

(* judge: the first line of the answer is MET or NOT_MET; its own          *)
(* AbortController never fires.                                            *)
ConditionJudged ==
  /\ vpc = "calling" /\ dec.node = "condition" /\ dec.kind = "judge"
  /\ \E exit \in {"0", "1", "null"}, timedOut \in BOOLEAN,
        answer \in {"MET", "NOT_MET", "other", "empty"} :
       ReturnBranch(IF exit = "0" /\ ~timedOut /\ answer = "MET" THEN "met" ELSE "not_met")
  /\ UNCHANGED attempts

-----------------------------------------------------------------------------
(* Judge: fewer than two candidates, or an unknown provider.               *)
RefuseJudge == /\ vpc = "start" /\ dec.node = "judge"
               /\ ~dec.valid \/ dec.candidates < 2
               /\ ReturnBranch("error")
               /\ UNCHANGED attempts

FirstAttempt == vpc = "start" /\ dec.node = "judge" /\ dec.valid /\ dec.candidates >= 2 /\ Call

(* Slip of Acceptable: the index is compared with <=.                      *)
AcceptableOffByOne(r, n) ==
  /\ r.line /\ r.parses /\ r.object
  /\ r.winner \in 0 .. n
  /\ Len(r.scores) = n /\ \A i \in 1 .. n : r.scores[i] \in 1 .. 10

(* parseAndValidate(): the last line that looks like an object.            *)
Acceptable(r, n) ==
  /\ r.line /\ r.parses /\ r.object
  /\ r.winner \in 0 .. n - 1
  /\ Len(r.scores) = n /\ \A i \in 1 .. n : r.scores[i] \in 1 .. 10

Accepted(a) == ~a.aborted /\ ~a.timedOut /\ a.exit = "0" /\ Acceptable(a.reply, dec.candidates)

(* One attempt ends: a verdict, one retry with a stricter prompt unless    *)
(* the signal has fired, or an error.                                      *)
AttemptEnds ==
  /\ vpc = "calling" /\ dec.node = "judge"
  /\ \E exit \in {"0", "1", "null"}, timedOut \in BOOLEAN, r \in Replies :
       LET a == [exit |-> exit, timedOut |-> timedOut, reply |-> r, aborted |-> vaborted]
       IN /\ attempts' = Append(attempts, a)
          /\ IF ~Accepted(a) /\ ~vaborted /\ begun = 1
               THEN /\ begun' = 2
                    /\ UNCHANGED <<dec, vpc, vaborted, abortedAt, branch>>
               ELSE ReturnBranch(IF vaborted \/ ~Accepted(a) THEN "error" ELSE "next")

VerdictNext == \/ Aborts \/ ExecuteBranch \/ RefuseCondition \/ Sentinel \/ CallStrategy
               \/ CommandEnds \/ ConditionJudged \/ RefuseJudge \/ FirstAttempt \/ AttemptEnds

VerdictSpec == VerdictInit /\ [][VerdictNext]_verdictVars

-----------------------------------------------------------------------------
VerdictTypeOK ==
  /\ dec \in Decisions /\ vpc \in {"start", "calling", "returned"}
  /\ Len(attempts) <= begun /\ begun \in 0 .. 2
  /\ vaborted \in BOOLEAN /\ abortedAt \in 0 .. begun
  /\ branch \in {"none", "true", "false", "error", "met", "not_met", "next"}

(* A Judge that goes on by `next` names one of its candidates, with a      *)
(* score from 1 to 10 for each, on the word of its last call, which ended  *)
(* in time and before any Stop; and it makes one call more at most, none   *)
(* once it has been stopped.  judge.ts:175-241.                            *)
JudgeVerdictIsSound ==
  dec.node = "judge" =>
    /\ branch = "next" =>
         LET a == attempts[Len(attempts)]
         IN /\ ~vaborted /\ ~a.timedOut /\ a.exit = "0" /\ a.reply.line
            /\ a.reply.winner >= 0 /\ a.reply.winner < dec.candidates
            /\ Len(a.reply.scores) = dec.candidates
    /\ vaborted => begun <= IF abortedAt = 0 THEN 1 ELSE abortedAt

(* The verdict of a Judge node, and the types.                             *)
VerdictsAreSound == VerdictTypeOK /\ JudgeVerdictIsSound
=============================================================================
