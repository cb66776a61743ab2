----------------------------- MODULE MCDocuments -----------------------------
(***************************************************************************)
(* Small instances of what a workflow document goes through: the editor    *)
(* and its auto-save, the server's files, the templates of its nodes when  *)
(* it runs, and the records of its runs.  As in MCServices, `part` names   *)
(* the one that moves.                                                     *)
(***************************************************************************)
EXTENDS Editor, WorkflowStore, Templates, RunHistory

VARIABLE part

-----------------------------------------------------------------------------
(* The editor: a workflow with a loop, a node in it and an edge to that,   *)
(* in a file from before its geometry was normalised, and one that is made *)
(* meanwhile.                                                              *)
MCLinks == {<<"start", "leaf">>}
MCBlank == [wf |-> "w2", parent |-> [start |-> Top], edges |-> {}, look |-> "plain"]
MCInitial ==
  [w1 |-> [wf |-> "w1", parent |-> [start |-> Top, loop |-> Top, leaf |-> "loop"],
           edges |-> MCLinks, look |-> Stale],
   w2 |-> NoDoc]

(* The files: a library workflow, b, that runs a; a user's copy of it, a   *)
(* workflow a with two inline triggers, and one, c, that runs a.           *)
File(subs, legacy) == [subs |-> subs, version |-> 1, legacy |-> legacy]
MCLibrary == [a |-> NoFile, b |-> File({"a"}, {}), c |-> NoFile]
MCUserFiles == [a |-> File({}, {"t1", "t2"}), b |-> File({}, {}), c |-> File({"a"}, {})]
MCSave(s) ==
  CASE s = "s1" -> [id |-> "a", subs |-> {"b"}, valid |-> TRUE, get |-> TRUE]
    [] s = "s2" -> [id |-> "b", subs |-> {"c"}, valid |-> TRUE, get |-> FALSE]
    [] s = "s3" -> [id |-> "a", subs |-> {"c"}, valid |-> TRUE, get |-> FALSE]
    [] s = "s4" -> [id |-> "c", subs |-> {}, valid |-> FALSE, get |-> FALSE]

(* The templates: a loop around a race, whose body is left by a condition, *)
(* before a subworkflow; the subworkflow, which can also be run by itself; *)
(* the Team preset (workflows/library/team.json); and a workflow whose     *)
(* edges lead back to a node, past empty containers.                       *)
Container(kind, in, first, extra) == [kind |-> kind, in |-> in, first |-> first, extra |-> extra]
Plain(kind, in) == Container(kind, in, NoNode, {})
Input(type, default) == [type |-> type, default |-> default]
MCFlows ==
  [one |-> [nodes |-> [s |-> Plain("start", NoNode),
                       l |-> Container("loop", NoNode, "x", {}),
                       x |-> Plain("agent", "l"),
                       p |-> Container("parallel", "l", "race", {}),
                       b |-> Plain("agent", "p"),
                       d |-> Container("script", "p", NoNode, {"o"}),
                       e |-> Plain("branch", "p"),
                       c |-> Plain("condition", "l"),
                       y |-> Container("subworkflow", NoNode, "two",
                                       [o |-> <<"k", "stdout">>, m |-> <<"k", "none">>]),
                       z |-> Plain("script", NoNode)],
            edges |-> {<<"s", "next", "l">>, <<"x", "next", "p">>, <<"x", "error", "c">>,
                       <<"p", "first_done", "c">>, <<"p", "error", "c">>, <<"b", "next", "d">>,
                       <<"l", "next", "y">>, <<"y", "next", "z">>, <<"y", "error", "z">>},
            globals |-> {"g"},
            inputs |-> [i |-> Input("number", "numeral"), j |-> Input("boolean", NoNode)]],
   two |-> [nodes |-> [s |-> Plain("start", NoNode),
                       k |-> Plain("agent", NoNode),
                       q |-> Container("parallel", NoNode, "quorum", {}),
                       r |-> Plain("judge", "q"),
                       u |-> Plain("branch", "q"),
                       v |-> Plain("agent", NoNode),
                       t |-> Plain("end", NoNode)],
            edges |-> {<<"s", "next", "k">>, <<"k", "next", "q">>, <<"k", "error", "v">>,
                       <<"q", "quorum_met", "v">>, <<"v", "next", "t">>},
            globals |-> {"h"},
            inputs |-> [i |-> Input("string", NoNode)]],
   team |-> [nodes |-> [s |-> Plain("start", NoNode),
                        p |-> Container("parallel", NoNode, "wait-all", {}),
                        implementer |-> Plain("agent", "p"),
                        alternative |-> Plain("agent", "p"),
                        conservative |-> Plain("agent", "p"),
                        judge |-> Plain("judge", NoNode),
                        t |-> Plain("end", NoNode),
                        f |-> Plain("end", NoNode)],
             edges |-> {<<"s", "next", "p">>, <<"p", "all_done", "judge">>, <<"p", "error", "f">>,
                        <<"judge", "next", "t">>, <<"judge", "error", "f">>},
             globals |-> {},
             inputs |-> <<>>],
   ring |-> [nodes |-> [s |-> Plain("start", NoNode),
                        a |-> Plain("agent", NoNode),
                        l |-> Container("loop", NoNode, NoNode, {}),
                        p |-> Container("parallel", NoNode, "wait-all", {}),
                        q |-> Container("parallel", NoNode, "wait-all", {}),
                        b |-> Plain("agent", "q"),
                        n |-> Plain("sidenote", NoNode)],
             edges |-> {<<"s", "next", "a">>, <<"a", "next", "l">>, <<"l", "next", "p">>,
                        <<"p", "all_done", "q">>, <<"q", "all_done", "n">>, <<"q", "error", "a">>},
             globals |-> {},
             inputs |-> <<>>]]

MaxStarted == 3  \* bound: saves of workflows begun, of the four
MaxSaving == 2   \* bound: saves of run records in progress at once

-----------------------------------------------------------------------------
Parts == {"editor", "files", "templates", "history"}

DocumentsInit == part \in Parts /\ EditorInit /\ TemplatesInit /\ HistoryInit
                 /\ StoreInit /\ (part # "files" => triggers = {})

Still(moving) ==
  /\ UNCHANGED part
  /\ IF moving = "editor" THEN TRUE ELSE UNCHANGED editorVars
  /\ IF moving = "files" THEN TRUE ELSE UNCHANGED storeVars
  /\ IF moving = "templates" THEN TRUE ELSE UNCHANGED templateVars
  /\ IF moving = "history" THEN TRUE ELSE UNCHANGED historyVars

DocumentsNext ==
  \/ part = "editor" /\ EditorNext /\ Still("editor")
  \/ /\ part = "files" /\ StoreNext /\ Still("files")
     /\ Cardinality({s \in Saves : pc[s] # "idle"}') <= MaxStarted
  \/ part = "templates" /\ TemplatesNext /\ Still("templates")
  \/ /\ part = "history" /\ HistoryNext /\ Still("history")
     /\ Cardinality(SavesInFlight') <= MaxSaving

documentVars == <<part, editorVars, storeVars, templateVars, historyVars>>

(* Only the editor owes anything; see EditorFairness.                      *)
DocumentsSpec == DocumentsInit /\ [][DocumentsNext]_documentVars /\ EditorFairness

(* The editor alone.                                                       *)
EditorRun == DocumentsInit /\ part = "editor" /\ [][DocumentsNext]_documentVars

(* The templates alone.                                                    *)
TemplatesRun == DocumentsInit /\ part = "templates" /\ [][DocumentsNext]_documentVars
=============================================================================
