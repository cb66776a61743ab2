------------------------------- MODULE Editor -------------------------------
(***************************************************************************)
(* The browser's document: the store of workflow-store-client.ts with its  *)
(* undo history, the graph helpers that it edits with (workflow-graph.ts), *)
(* the auto-save (use-auto-save.ts), the menu that makes, loads, renames   *)
(* and deletes workflows (WorkflowMenu.tsx), and the server's copy behind  *)
(* /api/workflows and /api/workflows/[id].                                 *)
(*                                                                         *)
(* A document is [wf, parent, edges, look]: the workflow's id, the parent  *)
(* of each of its nodes (Top or a container), its edges as pairs of nodes, *)
(* and everything else (names, configurations, positions) as one value.    *)
(***************************************************************************)
EXTENDS Naturals, Sequences, FiniteSets, SequencesExt

CONSTANTS
  Workflows,     \* ids of workflows
  NodeIds,       \* ids of nodes
  Start,         \* the start node's
  Containers,    \* nodes that may have children
  Links,         \* the pairs of nodes the user may connect
  Looks,         \* values of `look`; Stale is none of them
  Initial,       \* the documents that the server starts with, by workflow, or NoDoc
  Blank,         \* NEW_WORKFLOW_DEFAULTS(), but for the id
  Stale,         \* the look of a file whose geometry is not normalised
  Top,           \* parent of the nodes that are in no container
  NoDoc,         \* no document
  Gone,          \* the server's copy of a workflow that was deleted
  HistoryLimit,  \* HISTORY_LIMIT: 50
  Selectable,    \* bound: the nodes that the user selects
  MaxActs,       \* bound: the user's edits and uses of the menu
  MaxSaves       \* bound: PUT requests

ASSUME EditorAssumption ==
  /\ Start \in NodeIds /\ Containers \subseteq NodeIds \ {Start}
  /\ HistoryLimit \in Nat \ {0}
  /\ MaxActs \in Nat /\ MaxSaves \in Nat

VARIABLES
  doc,        \* currentWorkflow
  dirty,      \* isDirty
  selected,   \* selectedNodeId, or Top
  past,       \* the undo stack
  future,     \* the redo stack
  gesture,    \* the last push was less than HISTORY_COALESCE_MS ago
  armed,      \* the timer of useAutoSave() runs
  puts,       \* PUT requests, oldest first: [body, at], at "sent", "done", "failed", "over",
              \* "lost"; or, of those that rename another workflow, "asked", "other", "over"
  picked,     \* the answer to GET on its way, or NoDoc
  stored,     \* id -> the server's copy
  acts,
  overtaken,  \* history: the document or the other PUT changed, since it was loaded,
              \* while a PUT was on its way
  behind,     \* history: the copy was deleted or renamed behind the document's back
  discarded   \* history: how often unsaved changes were discarded by a load

editorVars == <<doc, dirty, selected, past, future, gesture, armed, puts, picked, stored,
                acts, overtaken, behind, discarded>>

NodesOf(d) == DOMAIN d.parent
Documents == [wf : Workflows,
              parent : UNION {[S -> NodeIds \cup {Top}] : S \in SUBSET NodeIds},
              edges : SUBSET (NodeIds \X NodeIds),
              look : Looks \cup {Stale}]

(* Edges between nodes that there are, and containers that nest once.      *)
IsGraph(d) == /\ \A e \in d.edges : {e[1], e[2]} \subseteq NodesOf(d)
              /\ \A n \in NodesOf(d) :
                   \/ d.parent[n] = Top
                   \/ n \notin Containers /\ d.parent[n] \in Containers \cap NodesOf(d)

ASSUME DocumentAssumption ==
  /\ Top \notin NodeIds /\ {NoDoc, Gone} \cap Documents = {}
  /\ Links \subseteq NodeIds \X NodeIds /\ Looks # {}
  /\ Initial \in [Workflows -> Documents \cup {NoDoc}]
  /\ \A w \in Workflows : Initial[w] # NoDoc => Initial[w].wf = w /\ IsGraph(Initial[w])
  /\ Blank \in Documents /\ IsGraph(Blank)

EditorInit ==
  /\ doc = NoDoc /\ dirty = FALSE /\ selected = Top
  /\ past = <<>> /\ future = <<>> /\ gesture = FALSE
  /\ armed = FALSE /\ puts = <<>> /\ picked = NoDoc
  /\ stored = Initial
  /\ acts = 0
  /\ overtaken = FALSE /\ behind = FALSE /\ discarded = 0

OnTheWay == \E k \in 1 .. Len(puts) : puts[k].at \in {"sent", "done", "failed"}

(* Slip of ArmsTimer: an effect of the document's id alone.                *)
ArmsTimerOnLoad == armed' = IF doc = NoDoc \/ doc'.wf # doc.wf THEN dirty' ELSE armed

(* useAutoSave(): when isDirty or the id of the document has changed, the  *)
(* timer is cleared, and set when there is something to save.              *)
ArmsTimer == armed' = IF dirty' # dirty \/ (doc # NoDoc /\ doc'.wf # doc.wf) \/ doc = NoDoc
                      THEN dirty' ELSE armed

-----------------------------------------------------------------------------
(* The graph helpers.                                                      *)
Above(d, n) == IF n = Top \/ d.parent[n] = Top THEN {} ELSE {d.parent[n]}

(* Slip of Subtree: the node alone.                                        *)
NodeAlone(d, n) == {n}

(* collectNodeSubtreeIdsById(): containers nest once.                      *)
Subtree(d, n) == {n} \cup {m \in NodesOf(d) : n \in Above(d, m)}

(* removeNode(): the subtree goes, and every edge that touches it.         *)
Without(d, n) ==
  [d EXCEPT !.parent = [m \in NodesOf(d) \ ({n} \cup {l \in NodesOf(d) : d.parent[l] = n}) |->
                          d.parent[m]],
            !.edges = {e \in d.edges : {e[1], e[2]} \cap Subtree(d, n) = {}}]

With(d, n, p) == [d EXCEPT !.parent = [m \in NodesOf(d) \cup {n} |->
                                         IF m = n THEN p ELSE d.parent[m]]]

(* normalizeWorkflowGeometry(): a new object when the geometry was off.    *)
Normalized(d) == IF d.look = Stale THEN [d EXCEPT !.look = CHOOSE l \in Looks : TRUE] ELSE d

-----------------------------------------------------------------------------
(* The undo history.                                                       *)

(* pushPast(): one entry for a gesture, HISTORY_LIMIT in all.              *)
PushPast(d) ==
  /\ past' = IF gesture THEN past
             ELSE LET all == Append(past, d)
                  IN IF Len(all) > HistoryLimit THEN Tail(all) ELSE all
  /\ gesture' = TRUE
  /\ future' = <<>>

(* What every edit does besides its own change.                            *)
Edit(new) ==
  /\ doc # NoDoc /\ acts < MaxActs
  /\ acts' = acts + 1
  /\ doc' = new
  /\ dirty' = TRUE
  /\ PushPast(doc)
  /\ ArmsTimer
  /\ overtaken' = (overtaken \/ OnTheWay)
  /\ UNCHANGED <<behind, discarded>>

(* More than HISTORY_COALESCE_MS pass.                                     *)
Pause == /\ gesture /\ gesture' = FALSE
         /\ UNCHANGED <<doc, dirty, selected, past, future, armed, puts, picked, stored, acts,
                        overtaken, behind, discarded>>

(* addNode() and addChildNode(), with an id that nextWorkflowNodeId() has  *)
(* found to be free.                                                       *)
AddNode(n) ==
  /\ doc # NoDoc /\ n \notin NodesOf(doc)
  /\ \E p \in {Top} \cup (Containers \cap NodesOf(doc)) :
       /\ p # Top => n \notin Containers
       /\ Edit(With(doc, n, p))
  /\ UNCHANGED <<selected, puts, picked, stored>>

RemoveNode(n) ==
  /\ doc # NoDoc /\ n \in NodesOf(doc)
  /\ Edit(Without(doc, n))
  /\ selected' = IF selected = n THEN Top ELSE selected
  /\ UNCHANGED <<puts, picked, stored>>

AddEdge(e) ==
  /\ doc # NoDoc /\ {e[1], e[2]} \subseteq NodesOf(doc) /\ e \notin doc.edges
  /\ Edit([doc EXCEPT !.edges = @ \cup {e}])
  /\ UNCHANGED <<selected, puts, picked, stored>>

RemoveEdge(e) ==
  /\ doc # NoDoc /\ e \in doc.edges
  /\ Edit([doc EXCEPT !.edges = @ \ {e}])
  /\ UNCHANGED <<selected, puts, picked, stored>>

(* updateNode(), setGlobals() and setWorkflowInputs(); setNodes() and      *)
(* setEdges() have no caller.                                              *)
Restyle(look) ==
  /\ doc # NoDoc /\ doc.look # look
  /\ Edit([doc EXCEPT !.look = look])
  /\ UNCHANGED <<selected, puts, picked, stored>>

SelectNode(n) ==
  /\ doc # NoDoc /\ n \in NodesOf(doc) \cup {Top} /\ selected # n
  /\ selected' = n
  /\ UNCHANGED <<doc, dirty, past, future, gesture, armed, puts, picked, stored, acts,
                 overtaken, behind, discarded>>

(* The common part of undo() and redo().                                   *)
Restore(d) ==
  /\ doc' = d /\ dirty' = TRUE /\ gesture' = FALSE
  /\ ArmsTimer
  /\ selected' = IF selected \in NodesOf(d) THEN selected ELSE Top
  /\ overtaken' = (overtaken \/ OnTheWay)
  /\ UNCHANGED <<behind, discarded>>

Undo == /\ past # <<>>
        /\ past' = Front(past) /\ future' = Append(future, doc)
        /\ Restore(Last(past))
        /\ UNCHANGED <<puts, picked, stored, acts>>

Redo == /\ future # <<>>
        /\ future' = Front(future) /\ past' = Append(past, doc)
        /\ Restore(Last(future))
        /\ UNCHANGED <<puts, picked, stored, acts>>

-----------------------------------------------------------------------------
(* Saving and loading.                                                     *)
Put(body) == /\ Len(puts) < MaxSaves
             /\ puts' = Append(puts, [body |-> body, at |-> "sent"])

(* The timer fires: saveCurrentWorkflow() sends the document as it is.     *)
TimerFires ==
  /\ armed /\ armed' = FALSE
  /\ Put(doc)
  /\ overtaken' = (overtaken \/ OnTheWay)
  /\ UNCHANGED <<doc, dirty, selected, past, future, gesture, picked, stored, acts,
                 behind, discarded>>

(* renameCurrentWorkflow() edits and sends at once, timer or not.          *)
Rename(look) ==
  /\ doc # NoDoc /\ doc.look # look
  /\ Edit([doc EXCEPT !.look = look])
  /\ Put([doc EXCEPT !.look = look])
  /\ UNCHANGED <<selected, picked, stored>>

(* validateWorkflow(), on the server.                                      *)
Acceptable(d) == /\ Start \in NodesOf(d)
                 /\ \A e \in d.edges : {e[1], e[2]} \subseteq NodesOf(d)

(* PUT /api/workflows/[id], or the network fails before or after it.       *)
ServerSaves(k) ==
  /\ puts[k].at = "sent"
  /\ \/ /\ Acceptable(puts[k].body)
        /\ stored' = [stored EXCEPT ![puts[k].body.wf] = puts[k].body]
        /\ behind' = (behind /\ doc # puts[k].body)
        /\ \E at \in {"done", "failed"} : puts' = [puts EXCEPT ![k].at = at]
     \/ /\ puts' = [puts EXCEPT ![k].at = "failed"]
        /\ UNCHANGED <<stored, behind>>
  /\ UNCHANGED <<doc, dirty, selected, past, future, gesture, armed, picked, acts,
                 overtaken, discarded>>

Answered(how) == [body |-> NoDoc, at |-> how]

(* Slip of SaveReturns: a failed save is taken for a saved document.       *)
SaveReturnsAnyhow(k) ==
  /\ puts[k].at \in {"done", "failed"}
  /\ puts' = [puts EXCEPT ![k] = Answered("over")]
  /\ dirty' = FALSE
  /\ IF doc = NoDoc THEN UNCHANGED armed ELSE ArmsTimer
  /\ UNCHANGED <<doc, selected, past, future, gesture, picked, stored, acts,
                 overtaken, behind, discarded>>

(* The answer: the document, whatever it is by now, is marked as saved; a  *)
(* failure is logged and leaves it dirty, without a timer.                 *)
SaveReturns(k) ==
  /\ \/ /\ puts[k].at = "done"
        /\ puts' = [puts EXCEPT ![k] = Answered("over")]
        /\ dirty' = FALSE
     \/ /\ puts[k].at = "failed"
        /\ puts' = [puts EXCEPT ![k] = Answered("lost")]
        /\ UNCHANGED dirty
  /\ armed' = IF dirty' # dirty THEN FALSE ELSE armed
  /\ UNCHANGED <<doc, selected, past, future, gesture, picked, stored, acts,
                 overtaken, behind, discarded>>

(* onPickRow(): the user picks a workflow, whose copy is on its way (bound:*)
(* one at a time).                                                         *)
There(w) == stored[w] \notin {NoDoc, Gone}
Pick(w) ==
  /\ picked = NoDoc /\ acts < MaxActs /\ There(w)
  /\ acts' = acts + 1
  /\ picked' = stored[w]
  /\ UNCHANGED <<doc, dirty, selected, past, future, gesture, armed, puts, stored,
                 overtaken, behind, discarded>>

(* onNew(): POST makes a workflow with a new id, and the answer is loaded. *)
MakeNew(w) ==
  /\ picked = NoDoc /\ acts < MaxActs /\ stored[w] = NoDoc
  /\ acts' = acts + 1
  /\ picked' = [Blank EXCEPT !.wf = w]
  /\ stored' = [stored EXCEPT ![w] = [Blank EXCEPT !.wf = w]]
  /\ UNCHANGED <<doc, dirty, selected, past, future, gesture, armed, puts,
                 overtaken, behind, discarded>>

(* loadWorkflow(), over whatever is there, saved or not.                   *)
Load ==
  /\ picked # NoDoc /\ picked' = NoDoc
  /\ doc' = Normalized(picked)
  /\ dirty' = (Normalized(picked) # picked)
  /\ ArmsTimer
  /\ selected' = Top /\ past' = <<>> /\ future' = <<>> /\ gesture' = FALSE
  /\ overtaken' = OnTheWay
  /\ behind' = (picked # stored[picked.wf])
  /\ discarded' = IF dirty THEN discarded + 1 ELSE discarded
  /\ UNCHANGED <<puts, stored, acts>>

(* The answer is an error, or does not come: nothing is loaded.            *)
PickFails ==
  /\ picked # NoDoc /\ picked' = NoDoc
  /\ UNCHANGED <<doc, dirty, selected, past, future, gesture, armed, puts, stored, acts,
                 overtaken, behind, discarded>>

IsOpen(w) == doc # NoDoc /\ doc.wf = w

(* onDeleteRow(), of any workflow in the list; the document stays.         *)
DeleteRow(w) ==
  /\ acts < MaxActs /\ There(w)
  /\ acts' = acts + 1
  /\ stored' = [stored EXCEPT ![w] = Gone]
  /\ behind' = (behind \/ IsOpen(w))
  /\ UNCHANGED <<doc, dirty, selected, past, future, gesture, armed, puts, picked,
                 overtaken, discarded>>

(* commitEdit(), of a workflow that is not open: its copy is asked for and *)
(* comes back with the new name, by when it may have been opened.          *)
RenameRow(w, look) ==
  /\ acts < MaxActs /\ Len(puts) < MaxSaves
  /\ ~IsOpen(w) /\ There(w) /\ stored[w].look # look
  /\ acts' = acts + 1
  /\ puts' = Append(puts, [body |-> [stored[w] EXCEPT !.look = look], at |-> "asked"])
  /\ UNCHANGED <<doc, dirty, selected, past, future, gesture, armed, picked, stored,
                 overtaken, behind, discarded>>

RowAnswers(k) ==
  LET w == puts[k].body.wf
      look == puts[k].body.look
  IN
  /\ \/ /\ puts[k].at = "asked" /\ There(w)
        /\ puts' = [puts EXCEPT ![k] = [body |-> [stored[w] EXCEPT !.look = look], at |-> "other"]]
        /\ UNCHANGED <<stored, behind>>
     \/ /\ puts[k].at = "other" /\ Acceptable(puts[k].body)
        /\ puts' = [puts EXCEPT ![k] = Answered("over")]
        /\ stored' = [stored EXCEPT ![w] = puts[k].body]
        /\ behind' = (behind \/ IsOpen(w))
     \/ /\ puts[k].at \in {"asked", "other"}
        /\ puts' = [puts EXCEPT ![k] = Answered("over")]
        /\ UNCHANGED <<stored, behind>>
  /\ UNCHANGED <<doc, dirty, selected, past, future, gesture, armed, picked, acts,
                 overtaken, discarded>>

-----------------------------------------------------------------------------
UserNext ==
  \/ \E n \in NodeIds : AddNode(n) \/ RemoveNode(n)
  \/ \E n \in Selectable \cup {Top} : SelectNode(n)
  \/ \E e \in Links : AddEdge(e) \/ RemoveEdge(e)
  \/ \E look \in Looks : Restyle(look) \/ Rename(look)
  \/ Undo \/ Redo \/ Pause
  \/ \E w \in Workflows : Pick(w) \/ MakeNew(w) \/ DeleteRow(w)
  \/ \E w \in Workflows, look \in Looks : RenameRow(w, look)
Answers == \E k \in 1 .. Len(puts) : ServerSaves(k) \/ SaveReturns(k) \/ RowAnswers(k)

EditorNext == UserNext \/ TimerFires \/ Answers \/ Load \/ PickFails

(* Timers fire and requests are answered; the user owes nothing.           *)
EditorFairness == WF_editorVars(TimerFires) /\ WF_editorVars(Answers) /\ WF_editorVars(Load)

EditorSpec == EditorInit /\ [][EditorNext]_editorVars /\ EditorFairness

-----------------------------------------------------------------------------
(* Properties                                                              *)

(* The types of the variables that are not documents, and the undo stack's *)
(* limit.                                                                  *)
EditorTypeOK ==
  /\ dirty \in BOOLEAN /\ gesture \in BOOLEAN /\ armed \in BOOLEAN
  /\ overtaken \in BOOLEAN /\ behind \in BOOLEAN /\ discarded \in Nat
  /\ selected \in NodeIds \cup {Top}
  /\ Len(past) <= HistoryLimit
  /\ acts \in 0 .. MaxActs /\ Len(puts) <= MaxSaves

InPlay == (IF doc = NoDoc THEN {} ELSE {doc}) \cup Range(past) \cup Range(future)
          \cup (Range(stored) \ {NoDoc, Gone}) \cup ({puts[k].body : k \in 1 .. Len(puts)} \ {NoDoc})

(* Whatever is edited, undone, redone, loaded and saved, in any order: no  *)
(* document has an edge to a node that it lacks, or a node in a container  *)
(* that it lacks, and all that can be undone or redone is of the workflow  *)
(* being edited, and within the limit, which redo() does not check.        *)
EditedGraphsAreWhole ==
  /\ EditorTypeOK
  /\ \A d \in InPlay : IsGraph(d)
  /\ \A d \in Range(past) \cup Range(future) : d.wf = doc.wf

(* A document that is not marked as changed is the server's copy, unless,  *)
(* since it was loaded, it changed or was sent again while a PUT was on its*)
(* way, was loaded with one on its way (overtaken), or its workflow was    *)
(* deleted or renamed from the list (behind), until it is saved again.     *)
CleanIsSaved == doc # NoDoc /\ ~dirty /\ ~overtaken /\ ~behind => doc = stored[doc.wf]

(* The server comes to have a changed document, without the user doing     *)
(* anything more, unless a load discards the changes, a save fails, or a   *)
(* request is overtaken; what is deleted or renamed in the list is no      *)
(* reason.                                                                 *)
IsSaved == doc # NoDoc /\ \/ doc = stored[doc.wf]
                          \/ \E k \in 1 .. Len(puts) : puts[k] = [body |-> doc, at |-> "done"]
SomeFailed == \E k \in 1 .. Len(puts) : puts[k].at = "lost"
EditsGetSaved ==
  \A n \in 0 .. MaxActs :
    (dirty /\ discarded = n) ~>
      (\/ IsSaved \/ discarded > n \/ SomeFailed \/ overtaken
       \/ armed /\ Len(puts) = MaxSaves)

(* The comment of useAutoSave(), not what it does: a change made after a   *)
(* save has failed is saved, or at least about to be.                      *)
NextEditRetries ==
  [][SomeFailed /\ acts' > acts /\ dirty' /\ doc' # doc => armed' \/ OnTheWay']_editorVars
=============================================================================
