--------------------------- MODULE DocumentsProofs ---------------------------
(***************************************************************************)
(* Proofs about workflow documents: Editor, for every set of nodes, links  *)
(* and workflows and every limit of the undo history; WorkflowStore, for   *)
(* every set of files, saves and deletes; and Templates, for all workflows *)
(* that validateWorkflow() accepts.                                        *)
(*                                                                         *)
(* That a clean document is the server's copy rests on what is on its way  *)
(* while nothing has overtaken it: one PUT at most, whose body is still    *)
(* the document (OnePut, PutsAreCurrent).  That saves make no cycle        *)
(* rests on what the walk of a save has cleared: nodes that run only nodes *)
(* it has cleared (Walked), so that it ends with a set that contains all   *)
(* the saved workflow will run, and not the workflow itself (Harmless).    *)
(*                                                                         *)
(* That the lint of templates is right rests on what the scope of a walk   *)
(* holds when the walk comes to a node (Good): nothing but the outputs of  *)
(* nodes upstream of that node or of nodes it may come to again, and all   *)
(* the outputs of the nodes that last ended well (Covers).                 *)
(***************************************************************************)
EXTENDS Editor, WorkflowStore, Templates, SequenceTheorems, TLAPS

Graphs == {d \in Documents : IsGraph(d)}
PutRecords == [body : Graphs, at : {"sent", "done", "failed", "asked", "other"}]
              \cup [body : {NoDoc}, at : {"over", "lost"}]

(* The documents are graphs; and the undo history never exceeds its limit, *)
(* though only pushPast() looks at that, for redo() undoes undo().         *)
DocsOK ==
  /\ doc \in Graphs \cup {NoDoc}
  /\ past \in Seq(Graphs) /\ future \in Seq(Graphs)
  /\ puts \in Seq(PutRecords)
  /\ picked \in Graphs \cup {NoDoc}
  /\ stored \in [Workflows -> Graphs \cup {NoDoc, Gone}]
  /\ \A w \in Workflows : There(w) => stored[w].wf = w
HistoryOK ==
  /\ Len(past) + Len(future) <= HistoryLimit
  /\ \A k \in 1 .. Len(past) : past[k].wf = doc.wf /\ doc # NoDoc
  /\ \A k \in 1 .. Len(future) : future[k].wf = doc.wf /\ doc # NoDoc
SomeDoc == armed => doc # NoDoc

OnWay(k) == puts[k].at \in {"sent", "done", "failed"}
OnePut == ~overtaken => \A j, k \in 1 .. Len(puts) : OnWay(j) /\ OnWay(k) => j = k
PutsAreCurrent ==
  ~overtaken => \A k \in 1 .. Len(puts) :
    /\ OnWay(k) => puts[k].body = doc
    /\ puts[k].at = "done" /\ ~behind => stored[doc.wf] = doc

EInv == /\ EditorTypeOK /\ DocsOK /\ HistoryOK /\ SomeDoc
        /\ OnePut /\ PutsAreCurrent /\ CleanIsSaved

-----------------------------------------------------------------------------
(* The graph helpers                                                       *)

LEMMA NoDocIsNoGraph == NoDoc \notin Graphs /\ Gone \notin Graphs
BY DocumentAssumption DEF Graphs

LEMMA BlankIsGraph ==
  ASSUME NEW w \in Workflows
  PROVE  LET new == [Blank EXCEPT !.wf = w] IN new \in Graphs /\ new.wf = w
BY DocumentAssumption DEF Graphs, Documents, IsGraph, NodesOf

LEMMA ThereIsGraph ==
  ASSUME EInv, NEW w \in Workflows
  PROVE  There(w) <=> stored[w] \in Graphs
BY NoDocIsNoGraph DEF EInv, DocsOK, There

LEMMA RemovedIsGraph ==
  ASSUME NEW d \in Graphs, NEW n \in NodesOf(d)
  PROVE  Without(d, n) \in Graphs /\ Without(d, n).wf = d.wf
<1> DEFINE gone == {n} \cup {l \in NodesOf(d) : d.parent[l] = n}
           left == NodesOf(d) \ gone
           new == Without(d, n)
<1>1. /\ d \in Documents /\ IsGraph(d) /\ NodesOf(d) \in SUBSET NodeIds
      /\ d.parent \in [NodesOf(d) -> NodeIds \cup {Top}]
  BY DEF Graphs, Documents, NodesOf
<1>2. Subtree(d, n) = gone
  BY <1>1, DocumentAssumption DEF Subtree, Above, NodesOf
<1>3. /\ new.parent = [m \in left |-> d.parent[m]]
      /\ new.edges = {e \in d.edges : {e[1], e[2]} \cap gone = {}}
      /\ new.wf = d.wf /\ new.look = d.look
      /\ new = [wf |-> new.wf, parent |-> new.parent, edges |-> new.edges, look |-> new.look]
  <2> DEFINE links == {e \in d.edges : {e[1], e[2]} \cap gone = {}}
             kept == [m \in left |-> d.parent[m]]
  <2>1. new = [d EXCEPT !.parent = kept, !.edges = links]
    BY <1>2 DEF Without
  <2> HIDE DEF new, links, kept
  <2>2. /\ new.parent = kept /\ new.edges = links /\ new.wf = d.wf /\ new.look = d.look
        /\ new = [wf |-> new.wf, parent |-> new.parent, edges |-> new.edges, look |-> new.look]
    BY <1>1, <2>1 DEF Documents
  <2> QED BY <2>2 DEF links, kept
<1>4. new.parent \in [left -> NodeIds \cup {Top}] /\ left \in SUBSET NodeIds
  BY <1>1, <1>3
<1>5. new \in Documents
  BY <1>1, <1>3, <1>4 DEF Documents
<1>6. IsGraph(new)
  <2>1. NodesOf(new) = left
    BY <1>3 DEF NodesOf
  <2>2. ASSUME NEW e \in new.edges PROVE {e[1], e[2]} \subseteq left
    BY <1>1, <1>3, <2>2 DEF IsGraph
  <2>3. ASSUME NEW m \in left
        PROVE  \/ new.parent[m] = Top
               \/ m \notin Containers /\ new.parent[m] \in Containers \cap left
    <3>1. new.parent[m] = d.parent[m] /\ d.parent[m] # n
      BY <1>3
    <3>2. CASE d.parent[m] # Top
      <4>1. m \notin Containers /\ d.parent[m] \in Containers \cap NodesOf(d)
        BY <1>1, <3>2 DEF IsGraph
      <4>2. d.parent[d.parent[m]] = Top
        BY <1>1, <4>1 DEF IsGraph
      <4> QED BY <1>1, <3>1, <4>1, <4>2, DocumentAssumption
    <3> QED BY <3>1, <3>2
  <2> QED BY <2>1, <2>2, <2>3 DEF IsGraph
<1> QED BY <1>3, <1>5, <1>6 DEF Graphs

LEMMA AddedIsGraph ==
  ASSUME NEW d \in Graphs, NEW n \in NodeIds \ NodesOf(d),
         NEW p \in {Top} \cup (Containers \cap NodesOf(d)), p # Top => n \notin Containers
  PROVE  With(d, n, p) \in Graphs /\ With(d, n, p).wf = d.wf
<1> DEFINE new == With(d, n, p)
           all == NodesOf(d) \cup {n}
<1>1. /\ d \in Documents /\ IsGraph(d) /\ NodesOf(d) \in SUBSET NodeIds
      /\ d.parent \in [NodesOf(d) -> NodeIds \cup {Top}]
  BY DEF Graphs, Documents, NodesOf
<1>2. /\ new.parent = [m \in all |-> IF m = n THEN p ELSE d.parent[m]]
      /\ new.edges = d.edges /\ new.wf = d.wf /\ new.look = d.look
      /\ new = [wf |-> new.wf, parent |-> new.parent, edges |-> new.edges, look |-> new.look]
  BY <1>1 DEF With, Documents, NodesOf
<1>3. new.parent \in [all -> NodeIds \cup {Top}] /\ all \in SUBSET NodeIds
  BY <1>1, <1>2
<1>4. new \in Documents
  BY <1>1, <1>2, <1>3 DEF Documents
<1>5. IsGraph(new)
  <2>1. NodesOf(new) = all
    BY <1>2 DEF NodesOf
  <2>2. ASSUME NEW e \in new.edges PROVE {e[1], e[2]} \subseteq all
    BY <1>1, <1>2, <2>2 DEF IsGraph
  <2>3. ASSUME NEW m \in all
        PROVE  \/ new.parent[m] = Top
               \/ m \notin Containers /\ new.parent[m] \in Containers \cap all
    BY <1>1, <1>2, <2>3 DEF IsGraph
  <2> QED BY <2>1, <2>2, <2>3 DEF IsGraph
<1> QED BY <1>2, <1>4, <1>5 DEF Graphs

LEMMA RelinkedIsGraph ==
  ASSUME NEW d \in Graphs, NEW e \in Links, {e[1], e[2]} \subseteq NodesOf(d)
  PROVE  LET new == [d EXCEPT !.edges = @ \cup {e}] IN new \in Graphs /\ new.wf = d.wf
BY DocumentAssumption DEF Graphs, Documents, IsGraph, NodesOf

LEMMA UnlinkedIsGraph ==
  ASSUME NEW d \in Graphs, NEW e
  PROVE  LET new == [d EXCEPT !.edges = @ \ {e}] IN new \in Graphs /\ new.wf = d.wf
BY DEF Graphs, Documents, IsGraph, NodesOf

LEMMA RestyledIsGraph ==
  ASSUME NEW d \in Graphs, NEW look \in Looks \cup {Stale}
  PROVE  LET new == [d EXCEPT !.look = look] IN new \in Graphs /\ new.wf = d.wf
BY DEF Graphs, Documents, IsGraph, NodesOf

LEMMA NormalizedIsGraph ==
  ASSUME NEW d \in Graphs PROVE Normalized(d) \in Graphs /\ Normalized(d).wf = d.wf
<1>1. (CHOOSE l \in Looks : TRUE) \in Looks
  BY DocumentAssumption
<1> QED BY <1>1, RestyledIsGraph DEF Normalized

-----------------------------------------------------------------------------
(* The parts that actions share                                            *)
LEMMA PutSends ==
  ASSUME EInv, NEW body \in Graphs, Put(body), overtaken' = (overtaken \/ OnTheWay)
  PROVE  /\ puts' \in Seq(PutRecords) /\ Len(puts') <= MaxSaves
         /\ OnePut'
         /\ ~overtaken' => \A k \in 1 .. Len(puts') :
              OnWay(k)' => puts'[k].body = body /\ puts'[k].at = "sent"
<1> DEFINE p == [body |-> body, at |-> "sent"]
<1>1. puts \in Seq(PutRecords) /\ p \in PutRecords /\ MaxSaves \in Nat
  BY EditorAssumption DEF EInv, DocsOK, PutRecords
<1>2. puts' = Append(puts, p) /\ Len(puts) < MaxSaves
  BY DEF Put
<1>3. /\ puts' \in Seq(PutRecords) /\ Len(puts') = Len(puts) + 1
      /\ puts'[Len(puts) + 1] = p
      /\ \A k \in 1 .. Len(puts) : puts'[k] = puts[k]
  BY <1>1, <1>2
<1>4. ~overtaken' => \A k \in 1 .. Len(puts) : ~OnWay(k)'
  BY <1>3 DEF OnTheWay, OnWay
<1>5. Len(puts) \in Nat
  BY <1>1
<1>6. ~overtaken' => \A k \in 1 .. Len(puts') : OnWay(k)' => k = Len(puts) + 1
  BY <1>3, <1>4, <1>5
<1> QED BY <1>1, <1>2, <1>3, <1>5, <1>6 DEF OnePut

(* An edit, restore or load that overtakes what is on its way.             *)
LEMMA NothingOnWay ==
  ASSUME EInv, UNCHANGED puts, ~overtaken' => ~OnTheWay
  PROVE  /\ OnePut' /\ PutsAreCurrent'
         /\ puts' \in Seq(PutRecords) /\ Len(puts') <= MaxSaves
<1>1. ~overtaken' => \A k \in 1 .. Len(puts') : ~OnWay(k)'
  BY DEF OnTheWay, OnWay
<1>2. \A k \in 1 .. Len(puts') : puts'[k].at = "done" => OnWay(k)'
  BY DEF OnWay
<1> QED BY <1>1, <1>2 DEF OnePut, PutsAreCurrent, EInv, DocsOK, EditorTypeOK

LEMMA PushPastBounds ==
  ASSUME EInv, doc \in Graphs, PushPast(doc)
  PROVE  /\ past' \in Seq(Graphs) /\ future' = <<>> /\ Len(past') <= HistoryLimit
         /\ \A k \in 1 .. Len(past') : past'[k].wf = doc.wf
<1> DEFINE all == Append(past, doc)
<1>1. /\ past \in Seq(Graphs) /\ Len(past) <= HistoryLimit /\ HistoryLimit \in Nat \ {0}
      /\ \A k \in 1 .. Len(past) : past[k].wf = doc.wf
  BY EditorAssumption DEF EInv, DocsOK, HistoryOK, EditorTypeOK
<1>2. /\ all \in Seq(Graphs) /\ Len(all) = Len(past) + 1 /\ all # <<>>
      /\ \A k \in 1 .. Len(all) : all[k].wf = doc.wf
  BY <1>1
<1>3. CASE gesture
  BY <1>1, <1>3 DEF PushPast
<1>4. CASE ~gesture /\ Len(all) > HistoryLimit
  <2>1. past' = Tail(all)
    BY <1>4 DEF PushPast
  <2>2. /\ Tail(all) \in Seq(Graphs) /\ Len(Tail(all)) = Len(all) - 1
        /\ \A k \in 1 .. Len(all) - 1 : Tail(all)[k] = all[k + 1]
    BY <1>2
  <2>3. \A k \in 1 .. Len(all) - 1 : k + 1 \in 1 .. Len(all)
    BY <1>2, LenProperties
  <2> QED BY <1>1, <1>2, <2>1, <2>2, <2>3 DEF PushPast
<1>5. CASE ~gesture /\ ~(Len(all) > HistoryLimit)
  BY <1>1, <1>2, <1>5, LenProperties DEF PushPast
<1> QED BY <1>3, <1>4, <1>5

(* Every edit; a rename also sends what it has made.                       *)
LEMMA EditKeepsInv ==
  ASSUME EInv, NEW new \in Graphs, doc # NoDoc => new.wf = doc.wf, Edit(new),
         UNCHANGED <<picked, stored>>, UNCHANGED puts \/ Put(new),
         selected' \in NodeIds \cup {Top}
  PROVE  EInv'
<1>1. doc \in Graphs /\ doc' = new /\ dirty' = TRUE /\ overtaken' = (overtaken \/ OnTheWay)
      /\ PushPast(doc) /\ ArmsTimer /\ doc' # NoDoc
  BY NoDocIsNoGraph DEF Edit, EInv, DocsOK
<1>2. /\ past' \in Seq(Graphs) /\ future' = <<>> /\ Len(past') <= HistoryLimit
      /\ \A k \in 1 .. Len(past') : past'[k].wf = doc.wf
  BY <1>1, PushPastBounds
<1>3. /\ OnePut' /\ PutsAreCurrent'
      /\ puts' \in Seq(PutRecords) /\ Len(puts') <= MaxSaves
  <2>1. CASE UNCHANGED puts
    BY <1>1, <2>1, NothingOnWay
  <2>2. CASE Put(new)
    <3>1. /\ puts' \in Seq(PutRecords) /\ Len(puts') <= MaxSaves
          /\ OnePut'
          /\ ~overtaken' => \A k \in 1 .. Len(puts') :
               OnWay(k)' => puts'[k].body = new /\ puts'[k].at = "sent"
      BY <1>1, <2>2, PutSends
    <3>2. \A k \in 1 .. Len(puts') : puts'[k].at = "done" => OnWay(k)'
      BY DEF OnWay
    <3> QED BY <1>1, <3>1, <3>2 DEF PutsAreCurrent
  <2> QED BY <2>1, <2>2
<1>4. DocsOK' /\ HistoryOK'
  <2>1. Len(past') \in Nat /\ Len(future') = 0 /\ future' \in Seq(Graphs) /\ HistoryLimit \in Nat
    BY <1>2, EditorAssumption
  <2>2. DocsOK'
    BY <1>1, <1>2, <1>3, <2>1 DEF EInv, DocsOK, There
  <2>3. doc # NoDoc /\ doc'.wf = doc.wf
    BY <1>1, NoDocIsNoGraph
  <2> QED BY <1>1, <1>2, <2>1, <2>2, <2>3 DEF HistoryOK
<1>5. EditorTypeOK'
  <2>1. acts' \in 0 .. MaxActs /\ gesture' \in BOOLEAN
    BY EditorAssumption DEF EInv, EditorTypeOK, Edit, PushPast
  <2>2. armed' \in BOOLEAN /\ overtaken' \in BOOLEAN /\ dirty' \in BOOLEAN
    BY <1>1 DEF EInv, EditorTypeOK, ArmsTimer, OnTheWay
  <2>3. UNCHANGED <<behind, discarded>>
    BY DEF Edit
  <2> QED BY <1>2, <1>3, <2>1, <2>2, <2>3 DEF EInv, EditorTypeOK
<1>6. SomeDoc' /\ CleanIsSaved'
  BY <1>1 DEF SomeDoc, CleanIsSaved, EInv
<1> QED BY <1>3, <1>4, <1>5, <1>6 DEF EInv

LEMMA RestoreKeepsInv ==
  ASSUME EInv, NEW d \in Graphs, doc # NoDoc, d.wf = doc.wf, Restore(d),
         past' \in Seq(Graphs), future' \in Seq(Graphs),
         Len(past') + Len(future') <= HistoryLimit,
         \A k \in 1 .. Len(past') : past'[k].wf = d.wf,
         \A k \in 1 .. Len(future') : future'[k].wf = d.wf,
         UNCHANGED <<puts, picked, stored, acts>>
  PROVE  EInv'
<1>1. doc' = d /\ dirty' = TRUE /\ doc' # NoDoc /\ overtaken' = (overtaken \/ OnTheWay)
  BY NoDocIsNoGraph DEF Restore
<1>2. OnePut' /\ PutsAreCurrent' /\ puts' \in Seq(PutRecords) /\ Len(puts') <= MaxSaves
  BY <1>1, NothingOnWay
<1>3. DocsOK' /\ HistoryOK'
  BY <1>1, <1>2 DEF EInv, DocsOK, HistoryOK, There
<1>4. EditorTypeOK'
  <2>1. Len(past') \in Nat /\ Len(future') \in Nat /\ HistoryLimit \in Nat
    BY EditorAssumption, LenProperties
  <2>2. selected' \in NodeIds \cup {Top}
    BY DEF Restore, EInv, EditorTypeOK
  <2>3. armed' \in BOOLEAN /\ overtaken' \in BOOLEAN /\ dirty' \in BOOLEAN /\ gesture' \in BOOLEAN
    BY <1>1 DEF EInv, EditorTypeOK, Restore, ArmsTimer, OnTheWay
  <2>4. UNCHANGED <<behind, discarded>>
    BY DEF Restore
  <2> QED BY <1>2, <2>1, <2>2, <2>3, <2>4 DEF EInv, EditorTypeOK
<1>5. SomeDoc' /\ CleanIsSaved'
  BY <1>1 DEF SomeDoc, CleanIsSaved, EInv
<1> QED BY <1>2, <1>3, <1>4, <1>5 DEF EInv

-----------------------------------------------------------------------------
(* The steps                                                               *)

LEMMA InitInv == EditorInit => EInv
<1> SUFFICES ASSUME EditorInit PROVE EInv
  OBVIOUS
<1> USE DEF EditorInit
<1>0. Len(past) = 0 /\ Len(future) = 0 /\ Len(puts) = 0
  OBVIOUS
<1>1. EditorTypeOK
  <2>1. acts \in 0 .. MaxActs /\ discarded \in Nat /\ Len(puts) <= MaxSaves
        /\ Len(past) <= HistoryLimit
    BY <1>0, EditorAssumption
  <2> QED BY <2>1 DEF EditorTypeOK
<1>2. DocsOK
  <2>1. /\ Initial \in [Workflows -> Graphs \cup {NoDoc}]
        /\ \A w \in Workflows : Initial[w] # NoDoc => Initial[w].wf = w
    BY DocumentAssumption DEF Graphs
  <2> QED BY <2>1 DEF DocsOK, There
<1>3. HistoryOK /\ SomeDoc /\ OnePut /\ PutsAreCurrent /\ CleanIsSaved
  BY <1>0, EditorAssumption DEF HistoryOK, SomeDoc, OnePut, PutsAreCurrent, CleanIsSaved
<1> QED BY <1>1, <1>2, <1>3 DEF EInv

(* AddNode to Rename.                                                      *)
LEMMA EditsKeepInv ==
  ASSUME EInv,
         \/ \E n \in NodeIds : AddNode(n) \/ RemoveNode(n)
         \/ \E e \in Links : AddEdge(e) \/ RemoveEdge(e)
         \/ \E look \in Looks : Restyle(look) \/ Rename(look)
  PROVE  EInv'
<1>1. doc \in Graphs /\ selected \in NodeIds \cup {Top}
  BY DEF EInv, DocsOK, EditorTypeOK, AddNode, RemoveNode, AddEdge, RemoveEdge, Restyle, Rename
<1>2. ASSUME NEW n \in NodeIds, AddNode(n) PROVE EInv'
  <2>1. PICK p \in {Top} \cup (Containers \cap NodesOf(doc)) :
          (p # Top => n \notin Containers) /\ Edit(With(doc, n, p))
    BY <1>2 DEF AddNode
  <2>2. With(doc, n, p) \in Graphs /\ With(doc, n, p).wf = doc.wf
    BY <1>1, <1>2, <2>1, AddedIsGraph DEF AddNode
  <2> QED BY <1>1, <1>2, <2>1, <2>2, EditKeepsInv DEF AddNode
<1>3. ASSUME NEW n \in NodeIds, RemoveNode(n) PROVE EInv'
  <2>1. Without(doc, n) \in Graphs /\ Without(doc, n).wf = doc.wf
    BY <1>1, <1>3, RemovedIsGraph DEF RemoveNode
  <2> QED BY <1>1, <1>3, <2>1, EditKeepsInv DEF RemoveNode
<1>4. ASSUME NEW e \in Links, AddEdge(e) PROVE EInv'
  BY <1>1, <1>4, RelinkedIsGraph, EditKeepsInv DEF AddEdge
<1>5. ASSUME NEW e \in Links, RemoveEdge(e) PROVE EInv'
  BY <1>1, <1>5, UnlinkedIsGraph, EditKeepsInv DEF RemoveEdge
<1>6. ASSUME NEW look \in Looks, Restyle(look) \/ Rename(look) PROVE EInv'
  BY <1>1, <1>6, RestyledIsGraph, EditKeepsInv DEF Restyle, Rename
<1> QED BY <1>2, <1>3, <1>4, <1>5, <1>6

LEMMA UndoKeepsInv == ASSUME EInv, Undo \/ Redo PROVE EInv'
<1>1. /\ past \in Seq(Graphs) /\ future \in Seq(Graphs)
      /\ Len(past) + Len(future) <= HistoryLimit
      /\ \A k \in 1 .. Len(past) : past[k].wf = doc.wf /\ doc # NoDoc
      /\ \A k \in 1 .. Len(future) : future[k].wf = doc.wf /\ doc # NoDoc
      /\ doc \in Graphs \cup {NoDoc}
  BY DEF EInv, DocsOK, HistoryOK
<1>2. ASSUME NEW s \in Seq(Graphs), s # <<>>
      PROVE  /\ Front(s) \in Seq(Graphs) /\ Len(Front(s)) = Len(s) - 1
             /\ \A k \in 1 .. Len(s) - 1 : Front(s)[k] = s[k]
             /\ Last(s) = s[Len(s)] /\ Last(s) \in Graphs /\ Len(s) \in 1 .. Len(s)
             /\ Len(s) \in Nat \ {0}
  <2>1. Len(s) \in Nat \ {0}
    BY <1>2, EmptySeq, LenProperties
  <2>2. Front(s) = [k \in 1 .. Len(s) - 1 |-> s[k]]
    BY <1>2, <2>1 DEF Front
  <2>3. \A k \in 1 .. Len(s) : s[k] \in Graphs
    BY <1>2, ElementOfSeq
  <2> QED BY <2>1, <2>2, <2>3 DEF Last
<1>3. ASSUME NEW s \in Seq(Graphs), doc \in Graphs
      PROVE  /\ Append(s, doc) \in Seq(Graphs) /\ Len(Append(s, doc)) = Len(s) + 1
             /\ \A k \in 1 .. Len(s) : Append(s, doc)[k] = s[k]
             /\ Append(s, doc)[Len(s) + 1] = doc /\ Len(s) \in Nat
  BY <1>3
<1>4. CASE Undo
  <2>1. past # <<>> /\ past' = Front(past) /\ future' = Append(future, doc) /\ Restore(Last(past))
        /\ UNCHANGED <<puts, picked, stored, acts>>
    BY <1>4 DEF Undo
  <2>2. doc # NoDoc /\ Last(past).wf = doc.wf
    BY <1>1, <1>2, <2>1
  <2>3. /\ past' \in Seq(Graphs) /\ future' \in Seq(Graphs) /\ Last(past) \in Graphs
        /\ Len(past') + Len(future') <= HistoryLimit
        /\ \A k \in 1 .. Len(past') : past'[k].wf = doc.wf
        /\ \A k \in 1 .. Len(future') : future'[k].wf = doc.wf
    <3>1. doc \in Graphs
      BY <1>1, <2>2
    <3>2. /\ past' \in Seq(Graphs) /\ Len(past') = Len(past) - 1 /\ Last(past) \in Graphs
          /\ \A k \in 1 .. Len(past) - 1 : past'[k] = past[k]
          /\ Len(past) \in Nat \ {0}
      BY <1>1, <1>2, <2>1
    <3>3. /\ future' \in Seq(Graphs) /\ Len(future') = Len(future) + 1
          /\ \A k \in 1 .. Len(future) : future'[k] = future[k]
          /\ future'[Len(future) + 1] = doc /\ Len(future) \in Nat
      BY <1>1, <1>3, <2>1, <3>1
    <3>4. Len(past') + Len(future') <= HistoryLimit
      BY <1>1, <3>2, <3>3, EditorAssumption
    <3>5. \A k \in 1 .. Len(past') : k \in 1 .. Len(past) - 1 /\ k \in 1 .. Len(past)
      BY <3>2
    <3>6. \A k \in 1 .. Len(future') : k \in 1 .. Len(future) \/ k = Len(future) + 1
      BY <3>3
    <3> QED BY <1>1, <3>2, <3>3, <3>4, <3>5, <3>6
  <2> QED BY <2>1, <2>2, <2>3, RestoreKeepsInv
<1>5. CASE Redo
  <2>1. future # <<>> /\ future' = Front(future) /\ past' = Append(past, doc)
        /\ Restore(Last(future)) /\ UNCHANGED <<puts, picked, stored, acts>>
    BY <1>5 DEF Redo
  <2>2. doc # NoDoc /\ Last(future).wf = doc.wf
    BY <1>1, <1>2, <2>1
  <2>3. /\ past' \in Seq(Graphs) /\ future' \in Seq(Graphs) /\ Last(future) \in Graphs
        /\ Len(past') + Len(future') <= HistoryLimit
        /\ \A k \in 1 .. Len(past') : past'[k].wf = doc.wf
        /\ \A k \in 1 .. Len(future') : future'[k].wf = doc.wf
    <3>1. doc \in Graphs
      BY <1>1, <2>2
    <3>2. /\ future' \in Seq(Graphs) /\ Len(future') = Len(future) - 1 /\ Last(future) \in Graphs
          /\ \A k \in 1 .. Len(future) - 1 : future'[k] = future[k]
          /\ Len(future) \in Nat \ {0}
      BY <1>1, <1>2, <2>1
    <3>3. /\ past' \in Seq(Graphs) /\ Len(past') = Len(past) + 1
          /\ \A k \in 1 .. Len(past) : past'[k] = past[k]
          /\ past'[Len(past) + 1] = doc /\ Len(past) \in Nat
      BY <1>1, <1>3, <2>1, <3>1
    <3>4. Len(past') + Len(future') <= HistoryLimit
      BY <1>1, <3>2, <3>3, EditorAssumption
    <3>5. \A k \in 1 .. Len(future') : k \in 1 .. Len(future) - 1 /\ k \in 1 .. Len(future)
      BY <3>2
    <3>6. \A k \in 1 .. Len(past') : k \in 1 .. Len(past) \/ k = Len(past) + 1
      BY <3>3
    <3> QED BY <1>1, <3>2, <3>3, <3>4, <3>5, <3>6
  <2> QED BY <2>1, <2>2, <2>3, RestoreKeepsInv
<1> QED BY <1>4, <1>5

(* Nothing that the invariant is about moves.                              *)
LEMMA SelectKeepsInv ==
  ASSUME EInv, Pause \/ (\E n \in Selectable \cup {Top} : SelectNode(n)) \/ UNCHANGED editorVars
  PROVE  EInv'
<1>1. UNCHANGED <<doc, dirty, past, future, armed, puts, picked, stored, acts, overtaken, behind,
                  discarded>>
  BY DEF Pause, SelectNode, editorVars
<1>2. gesture' \in BOOLEAN /\ selected' \in NodeIds \cup {Top}
  <2>1. doc # NoDoc => NodesOf(doc) \subseteq NodeIds
    BY DEF EInv, DocsOK, Graphs, Documents, NodesOf
  <2> QED BY <2>1 DEF EInv, EditorTypeOK, Pause, SelectNode, editorVars
<1>3. EditorTypeOK'
  BY <1>1, <1>2 DEF EInv, EditorTypeOK
<1> QED BY <1>1, <1>3 DEF EInv, DocsOK, HistoryOK, SomeDoc, OnePut, OnWay, PutsAreCurrent,
                          CleanIsSaved, There

LEMMA TimerKeepsInv == ASSUME EInv, TimerFires PROVE EInv'
<1>1. /\ doc \in Graphs /\ Put(doc) /\ overtaken' = (overtaken \/ OnTheWay) /\ armed' = FALSE
      /\ UNCHANGED <<doc, dirty, selected, past, future, gesture, picked, stored, acts, behind,
                     discarded>>
  BY DEF TimerFires, EInv, SomeDoc, DocsOK
<1>2. /\ puts' \in Seq(PutRecords) /\ Len(puts') <= MaxSaves
      /\ OnePut'
      /\ ~overtaken' => \A k \in 1 .. Len(puts') :
           OnWay(k)' => puts'[k].body = doc /\ puts'[k].at = "sent"
  BY <1>1, PutSends
<1>3. PutsAreCurrent'
  <2>1. \A k \in 1 .. Len(puts') : puts'[k].at = "done" => OnWay(k)'
    BY DEF OnWay
  <2> QED BY <1>1, <1>2, <2>1 DEF PutsAreCurrent
<1>4. EditorTypeOK'
  BY <1>1, <1>2 DEF EInv, EditorTypeOK, OnTheWay
<1> QED BY <1>1, <1>2, <1>3, <1>4 DEF EInv, DocsOK, HistoryOK, SomeDoc,
                                       CleanIsSaved, There

(* What an answer does to puts: only the place of one changes.             *)
LEMMA PutIsRecord == ASSUME EInv, NEW k \in 1 .. Len(puts) PROVE puts[k] \in PutRecords
<1>1. puts \in Seq(PutRecords)
  BY DEF EInv, DocsOK
<1> QED BY <1>1, ElementOfSeq

LEMMA PutMoves ==
  ASSUME EInv, NEW k \in 1 .. Len(puts), NEW p \in PutRecords,
         puts' = [puts EXCEPT ![k] = p]
  PROVE  /\ puts' \in Seq(PutRecords) /\ Len(puts') = Len(puts) /\ Len(puts') <= MaxSaves
         /\ puts'[k] = p
         /\ \A j \in 1 .. Len(puts) : j # k => puts'[j] = puts[j]
<1>1. puts \in Seq(PutRecords) /\ Len(puts) <= MaxSaves
  BY DEF EInv, DocsOK, EditorTypeOK
<1> QED BY <1>1, ExceptSeq

LEMMA AnsweredIsRecord ==
  \A how \in {"over", "lost"} : Answered(how) \in PutRecords /\ Answered(how).at = how
BY DEF Answered, PutRecords

LEMMA ServerKeepsInv ==
  ASSUME EInv, NEW k \in 1 .. Len(puts), ServerSaves(k) PROVE EInv'
<1> DEFINE body == puts[k].body
<1>1. /\ puts[k].at = "sent" /\ OnWay(k)
      /\ body \in Graphs /\ body.wf \in Workflows /\ puts[k] = [body |-> body, at |-> "sent"]
      /\ UNCHANGED <<doc, dirty, selected, past, future, gesture, armed, picked, acts,
                     overtaken, discarded>>
  <2>1. puts[k] \in PutRecords /\ puts[k].at = "sent"
    BY PutIsRecord DEF ServerSaves
  <2>2. body \in Graphs /\ puts[k] = [body |-> body, at |-> "sent"]
    BY <2>1 DEF PutRecords
  <2> QED BY <2>1, <2>2 DEF ServerSaves, OnWay, Graphs, Documents
<1>2. PICK at \in {"done", "failed"} :
        /\ puts' = [puts EXCEPT ![k].at = at]
        /\ \/ stored' = [stored EXCEPT ![body.wf] = body] /\ behind' = (behind /\ doc # body)
           \/ at = "failed" /\ UNCHANGED <<stored, behind>>
  BY DEF ServerSaves
<1> DEFINE p == [body |-> body, at |-> at]
<1>3. /\ puts' \in Seq(PutRecords) /\ Len(puts') = Len(puts) /\ Len(puts') <= MaxSaves
      /\ puts'[k] = p
      /\ \A j \in 1 .. Len(puts) : j # k => puts'[j] = puts[j]
  <2>1. p \in PutRecords
    BY <1>1 DEF PutRecords
  <2>2. [puts[k] EXCEPT !.at = at] = p
    BY <1>1
  <2>3. puts' = [puts EXCEPT ![k] = p]
    BY <1>2, <2>2
  <2> QED BY <2>1, <2>3, PutMoves
<1>4. /\ stored' \in [Workflows -> Graphs \cup {NoDoc, Gone}]
      /\ \A w \in Workflows : There(w)' => stored'[w].wf = w
  BY <1>1, <1>2 DEF EInv, DocsOK, There
<1>5. ~overtaken => /\ body = doc /\ \A j \in 1 .. Len(puts) : j # k => ~OnWay(j)
  BY <1>1 DEF EInv, OnePut, PutsAreCurrent
<1>6. /\ \/ stored' = stored /\ behind' = behind /\ at = "failed"
         \/ stored' \in [Workflows -> Graphs \cup {NoDoc, Gone}] /\ stored'[body.wf] = body
      /\ behind' \in BOOLEAN
  BY <1>1, <1>2, <1>4 DEF EInv, DocsOK, EditorTypeOK
<1>7. OnePut' /\ PutsAreCurrent'
  <2>1. ~overtaken' => \A j \in 1 .. Len(puts') : OnWay(j)' => j = k
    BY <1>1, <1>3, <1>5 DEF OnWay
  <2>2. ~overtaken' /\ at = "done" => stored'[doc.wf] = doc
    BY <1>1, <1>5, <1>6
  <2>3. \A j \in 1 .. Len(puts') : puts'[j].at = "done" => OnWay(j)'
    BY DEF OnWay
  <2> QED BY <1>1, <1>3, <1>5, <2>1, <2>2, <2>3 DEF OnePut, PutsAreCurrent
<1>8. CleanIsSaved'
  BY <1>1, <1>5, <1>6 DEF EInv, CleanIsSaved
<1>9. EditorTypeOK' /\ DocsOK' /\ HistoryOK' /\ SomeDoc'
  BY <1>1, <1>3, <1>4, <1>6 DEF EInv, EditorTypeOK, DocsOK, HistoryOK, SomeDoc, There
<1> QED BY <1>7, <1>8, <1>9 DEF EInv

LEMMA AnswerKeepsInv ==
  ASSUME EInv, NEW k \in 1 .. Len(puts), SaveReturns(k) PROVE EInv'
<1>1. /\ OnWay(k) /\ UNCHANGED <<doc, selected, past, future, gesture, picked, stored, acts,
                                 overtaken, behind, discarded>>
      /\ armed' \in {armed, FALSE} /\ dirty' \in {dirty, FALSE}
  BY DEF SaveReturns, OnWay
<1>2. PICK at \in {"over", "lost"} :
        /\ puts' = [puts EXCEPT ![k] = Answered(at)]
        /\ puts[k].at = "done" \/ UNCHANGED dirty
  BY DEF SaveReturns
<1>3. /\ puts' \in Seq(PutRecords) /\ Len(puts') = Len(puts) /\ Len(puts') <= MaxSaves
      /\ puts'[k].at = at
      /\ \A j \in 1 .. Len(puts) : j # k => puts'[j] = puts[j]
  BY <1>2, PutMoves, AnsweredIsRecord
<1>4. OnePut' /\ PutsAreCurrent'
  BY <1>1, <1>2, <1>3 DEF EInv, OnePut, PutsAreCurrent, OnWay
<1>5. CleanIsSaved'
  BY <1>1, <1>2 DEF EInv, CleanIsSaved, PutsAreCurrent, OnWay
<1>6. EditorTypeOK' /\ DocsOK' /\ HistoryOK' /\ SomeDoc'
  <2>1. dirty' \in BOOLEAN /\ armed' \in BOOLEAN /\ (armed' => armed)
    <3>1. dirty' = dirty \/ dirty' = FALSE
      BY <1>1, Zenon
    <3>2. armed' = armed \/ armed' = FALSE
      BY <1>1, Zenon
    <3>3. dirty \in BOOLEAN /\ armed \in BOOLEAN
      BY DEF EInv, EditorTypeOK
    <3>4. dirty' \in BOOLEAN /\ armed' \in BOOLEAN
      BY <3>1, <3>2, <3>3, Zenon
    <3>5. armed' => armed
      BY <3>2, Zenon
    <3> QED BY <3>4, <3>5
  <2> QED BY <1>1, <1>3, <2>1 DEF EInv, EditorTypeOK, DocsOK, HistoryOK, SomeDoc, There
<1> QED BY <1>4, <1>5, <1>6 DEF EInv

LEMMA LoadKeepsInv == ASSUME EInv, Load PROVE EInv'
<1>1. picked \in Graphs /\ doc' = Normalized(picked) /\ doc' \in Graphs /\ doc' # NoDoc
      /\ doc'.wf = picked.wf
  BY NormalizedIsGraph, NoDocIsNoGraph DEF Load, EInv, DocsOK
<1>2. OnePut' /\ PutsAreCurrent' /\ puts' \in Seq(PutRecords) /\ Len(puts') <= MaxSaves
  <2>1. UNCHANGED puts /\ (~overtaken' => ~OnTheWay)
    BY DEF Load
  <2> QED BY <2>1, NothingOnWay
<1>3. EditorTypeOK' /\ DocsOK' /\ HistoryOK' /\ SomeDoc'
  <2>1. /\ past' = <<>> /\ future' = <<>> /\ Len(past') = 0 /\ Len(future') = 0
        /\ selected' = Top /\ gesture' = FALSE /\ picked' = NoDoc
        /\ UNCHANGED <<puts, stored, acts>>
    BY DEF Load
  <2>2. dirty' \in BOOLEAN /\ armed' \in BOOLEAN /\ overtaken' \in BOOLEAN /\ behind' \in BOOLEAN
    BY DEF Load, ArmsTimer, EInv, EditorTypeOK, OnTheWay
  <2>3. discarded' \in Nat
    BY DEF Load, EInv, EditorTypeOK
  <2>4. EditorTypeOK'
    <3>1. Len(past') <= HistoryLimit
      BY <2>1, EditorAssumption
    <3> QED BY <1>2, <2>1, <2>2, <2>3, <3>1 DEF EInv, EditorTypeOK
  <2>5. DocsOK'
    BY <1>1, <1>2, <2>1 DEF EInv, DocsOK, There
  <2> QED BY <1>1, <2>1, <2>4, <2>5, EditorAssumption DEF HistoryOK, SomeDoc, There
<1>4. CleanIsSaved'
  BY <1>1 DEF EInv, CleanIsSaved, Load
<1> QED BY <1>2, <1>3, <1>4 DEF EInv

(* What the menu changes on the server is not the copy of a document that  *)
(* is held to be saved.                                                    *)
LEMMA MenuKeepsInv ==
  ASSUME EInv, NEW w \in Workflows, NEW copy \in Graphs \cup {NoDoc, Gone},
         copy \in Graphs => copy.wf = w,
         UNCHANGED stored \/ stored' = [stored EXCEPT ![w] = copy],
         behind' = behind \/ behind' = (behind \/ IsOpen(w)),
         UNCHANGED stored \/ stored[w] = NoDoc \/ (IsOpen(w) => behind'),
         picked' \in Graphs \cup {NoDoc}, acts' \in 0 .. MaxActs,
         UNCHANGED <<doc, dirty, selected, past, future, gesture, armed, overtaken, discarded>>,
         puts' \in Seq(PutRecords), Len(puts') <= MaxSaves,
         \A k \in 1 .. Len(puts') : OnWay(k)' => k \in 1 .. Len(puts) /\ puts'[k] = puts[k]
  PROVE  EInv'
<1>1. /\ stored' \in [Workflows -> Graphs \cup {NoDoc, Gone}]
      /\ \A v \in Workflows : There(v)' => stored'[v].wf = v
  BY NoDocIsNoGraph DEF EInv, DocsOK, There
<1>2. ASSUME ~behind', doc # NoDoc, doc = stored[doc.wf] PROVE doc = stored'[doc.wf]
  <2>1. doc \in Graphs /\ doc.wf \in Workflows
    BY <1>2 DEF EInv, DocsOK, Graphs, Documents
  <2> QED BY <1>2, <2>1 DEF EInv, DocsOK, IsOpen
<1>3. ~behind' => ~behind
  BY DEF EInv, EditorTypeOK
<1>4. EditorTypeOK' /\ DocsOK' /\ HistoryOK' /\ SomeDoc'
  <2>1. behind' \in BOOLEAN
    BY DEF EInv, EditorTypeOK, IsOpen
  <2> QED BY <1>1, <2>1 DEF EInv, EditorTypeOK, DocsOK, HistoryOK, SomeDoc, There
<1>5. OnePut'
  BY DEF EInv, OnePut, OnWay
<1>6. PutsAreCurrent' /\ CleanIsSaved'
  <2>1. ASSUME ~overtaken, NEW k \in 1 .. Len(puts'), OnWay(k)'
        PROVE  /\ puts'[k].body = doc
               /\ puts'[k].at = "done" /\ ~behind' => stored'[doc.wf] = doc
    <3>1. k \in 1 .. Len(puts) /\ puts'[k] = puts[k] /\ OnWay(k)
      BY <2>1 DEF OnWay
    <3>2. puts[k].body = doc /\ doc \in Graphs
      <4>1. puts[k] \in PutRecords
        BY <3>1, PutIsRecord
      <4> QED BY <2>1, <3>1, <4>1 DEF EInv, PutsAreCurrent, OnWay, PutRecords
    <3> QED BY <1>2, <1>3, <2>1, <3>1, <3>2, NoDocIsNoGraph DEF EInv, PutsAreCurrent
  <2>2. \A k \in 1 .. Len(puts') : puts'[k].at = "done" => OnWay(k)'
    BY DEF OnWay
  <2> QED BY <1>2, <1>3, <2>1, <2>2 DEF EInv, PutsAreCurrent, CleanIsSaved
<1> QED BY <1>4, <1>5, <1>6 DEF EInv

LEMMA RowsKeepInv ==
  ASSUME EInv,
         \/ \E w \in Workflows : Pick(w) \/ MakeNew(w) \/ DeleteRow(w)
         \/ \E w \in Workflows, look \in Looks : RenameRow(w, look)
         \/ \E k \in 1 .. Len(puts) : RowAnswers(k)
         \/ PickFails
  PROVE  EInv'
<1>1. /\ puts \in Seq(PutRecords) /\ Len(puts) <= MaxSaves /\ acts \in 0 .. MaxActs
      /\ picked \in Graphs \cup {NoDoc} /\ MaxActs \in Nat
      /\ stored \in [Workflows -> Graphs \cup {NoDoc, Gone}]
  BY EditorAssumption DEF EInv, DocsOK, EditorTypeOK
<1>2. acts < MaxActs => acts + 1 \in 0 .. MaxActs
  BY <1>1
<1>3. ASSUME NEW w \in Workflows, Pick(w) \/ MakeNew(w) \/ DeleteRow(w) PROVE EInv'
  <2> DEFINE new == [Blank EXCEPT !.wf = w]
  <2>1. UNCHANGED puts /\ UNCHANGED <<doc, dirty, selected, past, future, gesture, armed,
                                      overtaken, discarded>> /\ acts' \in 0 .. MaxActs
    BY <1>2, <1>3 DEF Pick, MakeNew, DeleteRow
  <2>2. new \in Graphs /\ new.wf = w
    BY BlankIsGraph
  <2> HIDE DEF new
  <2>3. CASE Pick(w)
    <3>1. /\ UNCHANGED <<stored, behind>> /\ picked' \in Graphs
      BY <2>3, ThereIsGraph DEF Pick
    <3> QED BY <1>1, <2>1, <3>1, NoDocIsNoGraph, MenuKeepsInv
  <2>4. CASE MakeNew(w)
    <3>1. /\ UNCHANGED behind /\ picked' = new /\ stored[w] = NoDoc
          /\ stored' = [stored EXCEPT ![w] = new]
      BY <2>4 DEF MakeNew, new
    <3> QED BY <1>1, <2>1, <2>2, <3>1, MenuKeepsInv
  <2>5. CASE DeleteRow(w)
    <3>1. /\ UNCHANGED picked /\ behind' = (behind \/ IsOpen(w))
          /\ stored' = [stored EXCEPT ![w] = Gone]
      BY <2>5 DEF DeleteRow
    <3>2. IsOpen(w) => behind'
      BY <3>1
    <3> QED BY <1>1, <2>1, <3>1, <3>2, NoDocIsNoGraph, MenuKeepsInv
  <2> QED BY <1>3, <2>3, <2>4, <2>5
<1>4. ASSUME NEW w \in Workflows, NEW look \in Looks, RenameRow(w, look) PROVE EInv'
  <2> DEFINE p == [body |-> [stored[w] EXCEPT !.look = look], at |-> "asked"]
  <2>1. p \in PutRecords
    BY <1>4, ThereIsGraph, RestyledIsGraph DEF RenameRow, PutRecords
  <2>2. /\ puts' = Append(puts, p) /\ Len(puts) < MaxSaves /\ acts' \in 0 .. MaxActs
        /\ UNCHANGED <<doc, dirty, selected, past, future, gesture, armed, picked, stored,
                       overtaken, behind, discarded>>
    BY <1>2, <1>4 DEF RenameRow
  <2>3. /\ puts' \in Seq(PutRecords) /\ Len(puts') <= MaxSaves
        /\ \A k \in 1 .. Len(puts') : OnWay(k)' => k \in 1 .. Len(puts) /\ puts'[k] = puts[k]
    <3>1. p.at = "asked"
      OBVIOUS
    <3> HIDE DEF p
    <3>2. /\ puts' \in Seq(PutRecords) /\ Len(puts') = Len(puts) + 1 /\ Len(puts) \in Nat
          /\ puts'[Len(puts) + 1] = p /\ \A k \in 1 .. Len(puts) : puts'[k] = puts[k]
      BY <1>1, <2>1, <2>2
    <3> QED BY <2>2, <3>1, <3>2, EditorAssumption DEF OnWay
  <2> QED BY <1>1, <2>2, <2>3, NoDocIsNoGraph, MenuKeepsInv
<1>5. ASSUME NEW k \in 1 .. Len(puts), RowAnswers(k) PROVE EInv'
  <2> DEFINE body == puts[k].body
             w == body.wf
             asked == [body |-> [stored[w] EXCEPT !.look = body.look], at |-> "other"]
  <2>1. /\ puts[k].at \in {"asked", "other"} /\ body \in Graphs /\ w \in Workflows
        /\ body.look \in Looks \cup {Stale}
    <3>1. puts[k] \in PutRecords /\ puts[k].at \in {"asked", "other"}
      BY <1>5, PutIsRecord DEF RowAnswers
    <3>2. body \in Graphs
      BY <3>1 DEF PutRecords
    <3> QED BY <3>1, <3>2 DEF Graphs, Documents
  <2>2. PICK p :
          /\ puts' = [puts EXCEPT ![k] = p]
          /\ (p = asked /\ There(w)) \/ p = Answered("over")
          /\ \/ UNCHANGED <<stored, behind>>
             \/ stored' = [stored EXCEPT ![w] = body] /\ behind' = (behind \/ IsOpen(w))
    <3>1. \/ /\ puts' = [puts EXCEPT ![k] = asked] /\ There(w)
             /\ UNCHANGED <<stored, behind>>
          \/ /\ puts' = [puts EXCEPT ![k] = Answered("over")]
             /\ stored' = [stored EXCEPT ![w] = body] /\ behind' = (behind \/ IsOpen(w))
          \/ /\ puts' = [puts EXCEPT ![k] = Answered("over")]
             /\ UNCHANGED <<stored, behind>>
      BY <1>5, Zenon DEF RowAnswers
    <3> HIDE DEF asked, body, w
    <3> QED BY <3>1
  <2>3. p \in PutRecords /\ p.at \in {"other", "over"}
    <3>1. There(w) => [stored[w] EXCEPT !.look = body.look] \in Graphs
      BY <2>1, ThereIsGraph, RestyledIsGraph
    <3>2. There(w) => asked \in PutRecords
      BY <3>1 DEF PutRecords
    <3> QED BY <2>2, <3>2, AnsweredIsRecord
  <2>4. /\ puts' \in Seq(PutRecords) /\ Len(puts') = Len(puts) /\ Len(puts') <= MaxSaves
        /\ puts'[k] = p /\ \A j \in 1 .. Len(puts) : j # k => puts'[j] = puts[j]
    <3> HIDE DEF asked
    <3> QED BY <2>2, <2>3, PutMoves
  <2>5. \A j \in 1 .. Len(puts') : OnWay(j)' => j \in 1 .. Len(puts) /\ puts'[j] = puts[j]
    BY <2>3, <2>4 DEF OnWay
  <2>6. UNCHANGED <<doc, dirty, selected, past, future, gesture, armed, picked, acts,
                    overtaken, discarded>>
    BY <1>5 DEF RowAnswers
  <2> HIDE DEF body, w, asked
  <2>7. UNCHANGED stored \/ (IsOpen(w) => behind')
    BY <2>2
  <2> QED BY <1>1, <2>1, <2>2, <2>4, <2>5, <2>6, <2>7, MenuKeepsInv DEF w
<1>6. ASSUME PickFails PROVE EInv'
  <2>1. /\ picked' = NoDoc /\ picked.wf \in Workflows
        /\ UNCHANGED <<doc, dirty, selected, past, future, gesture, armed, puts, stored, acts,
                       overtaken, behind, discarded>>
    BY <1>1, <1>6 DEF PickFails, Graphs, Documents
  <2>2. \A k \in 1 .. Len(puts') : OnWay(k)' => k \in 1 .. Len(puts) /\ puts'[k] = puts[k]
    BY <2>1 DEF OnWay
  <2> QED BY <1>1, <2>1, <2>2, NoDocIsNoGraph, MenuKeepsInv
<1> QED BY <1>3, <1>4, <1>5, <1>6

LEMMA StepInv == EInv /\ [EditorNext]_editorVars => EInv'
BY EditsKeepInv, UndoKeepsInv, SelectKeepsInv, TimerKeepsInv, ServerKeepsInv, AnswerKeepsInv,
   LoadKeepsInv, RowsKeepInv DEF EditorNext, UserNext, Answers

-----------------------------------------------------------------------------
(* A document that is not marked as changed is what the server has, for    *)
(* every order of edits, saves, loads, renames and deletions, but where a  *)
(* request was overtaken or the list went behind the document's back.      *)
(* use-auto-save.ts, workflow-store-client.ts:341-373, WorkflowMenu.tsx.   *)
THEOREM CleanMeansSaved == EditorSpec => []CleanIsSaved
<1>1. EditorInit => EInv
  BY InitInv
<1>2. EInv /\ [EditorNext]_editorVars => EInv'
  BY StepInv
<1>3. EInv => CleanIsSaved
  BY DEF EInv
<1> QED BY <1>1, <1>2, <1>3, PTL DEF EditorSpec

(* Documents stay graphs, and the undo history of one workflow and within  *)
(* its limit, whatever that is.  workflow-graph.ts:59-84,                  *)
(* workflow-store-client.ts:103-312.                                       *)
THEOREM EditsKeepGraphs == EditorSpec => []EditedGraphsAreWhole
<1>1. EditorInit => EInv
  BY InitInv
<1>2. EInv /\ [EditorNext]_editorVars => EInv'
  BY StepInv
<1>3. EInv => EditedGraphsAreWhole
  <2> SUFFICES ASSUME EInv PROVE EditedGraphsAreWhole
    OBVIOUS
  <2>1. ASSUME NEW d \in InPlay PROVE d \in Graphs
    <3>1. /\ \A k \in 1 .. Len(past) : past[k] \in Graphs
          /\ \A k \in 1 .. Len(future) : future[k] \in Graphs
          /\ DOMAIN past = 1 .. Len(past) /\ DOMAIN future = 1 .. Len(future)
      BY ElementOfSeq, LenProperties DEF EInv, DocsOK
    <3>2. \A w \in DOMAIN stored : stored[w] \in Graphs \cup {NoDoc, Gone}
      BY DEF EInv, DocsOK
    <3>3. \A k \in 1 .. Len(puts) : puts[k].body \in Graphs \cup {NoDoc}
      BY PutIsRecord DEF PutRecords
    <3>4. doc \in Graphs \cup {NoDoc}
      BY DEF EInv, DocsOK
    <3>5. \/ d = doc /\ doc # NoDoc
          \/ \E k \in 1 .. Len(past) : d = past[k]
          \/ \E k \in 1 .. Len(future) : d = future[k]
          \/ d \notin {NoDoc, Gone} /\ \E w \in DOMAIN stored : d = stored[w]
          \/ d # NoDoc /\ \E k \in 1 .. Len(puts) : d = puts[k].body
      BY <2>1, <3>1 DEF InPlay, Range
    <3> QED BY <3>1, <3>2, <3>3, <3>4, <3>5
  <2>2. \A d \in Range(past) \cup Range(future) : d.wf = doc.wf
    <3>1. /\ \A k \in 1 .. Len(past) : past[k].wf = doc.wf
          /\ \A k \in 1 .. Len(future) : future[k].wf = doc.wf
      BY DEF EInv, HistoryOK
    <3>2. DOMAIN past = 1 .. Len(past) /\ DOMAIN future = 1 .. Len(future)
      BY LenProperties DEF EInv, DocsOK
    <3> QED BY <3>1, <3>2 DEF Range
  <2> QED BY <2>1, <2>2 DEF EditedGraphsAreWhole, EInv, Graphs
<1> QED BY <1>1, <1>2, <1>3, PTL DEF EditorSpec

-----------------------------------------------------------------------------
(* Workflow files                                                          *)

Frames == [id : WorkflowIds, todo : SUBSET WorkflowIds]
Contents == Files \cup {NoFile, TornFile}
Places == {"idle", "got", "walk", "existing", "open", "write", "rename", "done", "refused"}
Busy == {"walk", "existing", "open", "write", "rename"}

StoreTypes ==
  /\ user \in [WorkflowIds -> Contents] /\ temp \in [WorkflowIds -> Contents]
  /\ writes \in [Saves -> {"none", "temp", "user", "gone"}] /\ pc \in [Saves -> Places]
  /\ path \in [Saves -> Seq(Frames)]
  /\ cleared \in [Saves -> SUBSET WorkflowIds] /\ old \in [Saves -> Nat]
  /\ triggers \subseteq TriggerIds /\ excused \subseteq TriggerIds
  /\ disturbed \in BOOLEAN /\ uncovered \in BOOLEAN

(* The walk is at nodes of which it has cleared none.                      *)
Unlike(p) == \A j, k \in 1 .. Len(p) : p[j].id = p[k].id => j = k
Uncleared(p, C) == \A k \in 1 .. Len(p) : p[k].id \notin C
PathsStand == \A s \in Saves : /\ pc[s] = "walk" => path[s] # <<>>
                               /\ pc[s] \in {"idle", "got"} => cleared[s] = {}
                               /\ Unlike(path[s]) /\ Uncleared(path[s], cleared[s])

(* The inline triggers of w are in files of their own, or excused.  A file *)
(* still has its own unless that is so; who got a file has seen to it.     *)
Accounted(w) == IsFile(UserFiles[w]) => UserFiles[w].legacy \subseteq triggers \cup excused
InlineKept == \A w \in WorkflowIds : user[w] = UserFiles[w] \/ Accounted(w)
SaversAccount == \A s \in Saves : \/ Accounted(Save(s).id)
                                  \/ /\ writes[s] # "user"
                                     /\ Save(s).get => pc[s] \in {"idle", "refused"}

TypeInv == StoreTypes /\ PathsStand /\ InlineKept /\ SaversAccount

(* While no save or delete overlaps another: only one save is in progress, *)
(* and what it writes goes to the temporary file.                          *)
Saved(s) == [subs |-> Save(s).subs, version |-> old[s] + 1, legacy |-> {}]
OneSaves == \A r, s \in Saves : Saving(r) /\ Saving(s) => r = s
TempIsOwn == \A s \in Saves : /\ pc[s] \in {"write", "rename"} => writes[s] = "temp"
                              /\ pc[s] = "rename" => temp[Save(s).id] = Saved(s)
NoneTorn == \A w \in WorkflowIds : user[w] # TornFile

(* The walk of a save clears nodes that run only nodes it has cleared, and *)
(* of the nodes it is at, all children but those it has to do are cleared, *)
(* or it is at them.                                                       *)
Children(u, p, subs, k) == IF k = 1 THEN subs ELSE RunsOf(u, p[k].id)
Ahead(p, k) == IF k < Len(p) THEN {p[k + 1].id} ELSE {}
Walked(u, p, C, id, subs) ==
  /\ p # <<>> /\ p[1].id = id
  /\ \A k \in 1 .. Len(p) : Children(u, p, subs, k) \ p[k].todo \subseteq C \cup Ahead(p, k)
  /\ Closed(u, C)
(* It ends with all that the workflow will run in a set without it.        *)
Harmless(u, id, subs) == \E S \in SUBSET WorkflowIds : Closed(u, S) /\ subs \subseteq S /\ id \notin S

WalksSound ==
  \A s \in Saves :
    /\ pc[s] = "walk" => Walked(user, path[s], cleared[s], Save(s).id, Save(s).subs)
    /\ pc[s] \in Busy \ {"walk"} => Harmless(user, Save(s).id, Save(s).subs)

AloneInv == ~disturbed => /\ OneSaves /\ TempIsOwn /\ NoneTorn /\ WalksSound
                          /\ ~uncovered => Acyclic(user)

-----------------------------------------------------------------------------
(* The graph                                                               *)

(* A workflow that is saved with harmless children runs itself no more     *)
(* than others do.                                                         *)
LEMMA SaveIsAcyclic ==
  ASSUME NEW u, NEW v, NEW id \in WorkflowIds, NEW subs \in SUBSET WorkflowIds,
         Acyclic(u), Harmless(u, id, subs), RunsOf(v, id) = subs,
         \A w \in WorkflowIds \ {id} : RunsOf(v, w) = RunsOf(u, w)
  PROVE  Acyclic(v)
<1>1. PICK C \in SUBSET WorkflowIds : Closed(u, C) /\ subs \subseteq C /\ id \notin C
  BY DEF Harmless
<1>2. Closed(v, C)
  BY <1>1 DEF Closed
<1> SUFFICES ASSUME NEW w \in WorkflowIds
             PROVE  \E S \in SUBSET WorkflowIds :
                      Closed(v, S) /\ RunsOf(v, w) \subseteq S /\ w \notin S
  BY DEF Acyclic
<1>3. CASE w = id
  BY <1>1, <1>2, <1>3
<1>4. CASE w # id
  <2>1. PICK S \in SUBSET WorkflowIds : Closed(u, S) /\ RunsOf(u, w) \subseteq S /\ w \notin S
    BY DEF Acyclic
  <2>2. CASE w \in C
    <3>1. Closed(v, S \cap C) /\ RunsOf(v, w) \subseteq S \cap C
      BY <1>1, <1>4, <2>1, <2>2 DEF Closed
    <3>2. w \notin S \cap C /\ S \cap C \in SUBSET WorkflowIds
      BY <2>1
    <3> QED  BY <3>1, <3>2
  <2>3. CASE w \notin C
    <3>1. Closed(v, S \cup C)
      BY <1>1, <1>2, <2>1 DEF Closed
    <3>2. RunsOf(v, w) \subseteq S \cup C /\ w \notin S \cup C /\ S \cup C \in SUBSET WorkflowIds
      BY <1>4, <2>1, <2>3
    <3> QED  BY <3>1, <3>2
  <2> QED  BY <2>2, <2>3
<1> QED  BY <1>3, <1>4

(* A workflow whose file is deleted runs nothing.                          *)
LEMMA DeleteIsAcyclic ==
  ASSUME NEW u, NEW v, NEW id \in WorkflowIds, Acyclic(u), RunsOf(v, id) = {},
         \A w \in WorkflowIds \ {id} : RunsOf(v, w) = RunsOf(u, w)
  PROVE  Acyclic(v)
<1>1. Closed(u, {})
  BY DEF Closed
<1>2. Harmless(u, id, {})
  BY <1>1 DEF Harmless
<1> QED  BY <1>2, SaveIsAcyclic

-----------------------------------------------------------------------------
(* The walk                                                                *)

LEMMA TopOfPath ==
  ASSUME NEW S, NEW p \in Seq(S), p # <<>>
  PROVE  /\ Len(p) \in Nat \ {0} /\ Last(p) = p[Len(p)] /\ Last(p) \in S
         /\ Front(p) \in Seq(S) /\ Len(Front(p)) = Len(p) - 1
         /\ \A k \in 1 .. Len(p) - 1 : Front(p)[k] = p[k]
<1>1. Len(p) \in Nat \ {0} /\ \A k \in 1 .. Len(p) : p[k] \in S
  BY EmptySeq, LenProperties, ElementOfSeq
<1> DEFINE n == Len(p) - 1
<1>2. n \in Nat /\ 1 \in 1 .. Len(p) + 1 /\ n \in 1 - 1 .. Len(p)
  BY <1>1
<1>3. Front(p) = SubSeq(p, 1, n)
  BY DEF Front
<1> HIDE DEF n
<1>4. /\ SubSeq(p, 1, n) \in Seq(S) /\ Len(SubSeq(p, 1, n)) = n - 1 + 1
      /\ \A i \in 1 .. n - 1 + 1 : SubSeq(p, 1, n)[i] = p[1 + i - 1]
  BY <1>1, <1>2, SubSeqProperties
<1>5. n - 1 + 1 = n /\ \A i \in 1 .. n : 1 + i - 1 = i
  BY <1>2
<1> QED  BY <1>1, <1>3, <1>4, <1>5 DEF Last, n

(* A child of the node on top is looked at.                                *)
LEMMA ChildTaken ==
  ASSUME NEW p \in Seq(Frames), p # <<>>, NEW w \in Last(p).todo, Unlike(p)
  PROVE  LET rest == Append(Front(p), [Last(p) EXCEPT !.todo = @ \ {w}]) IN
         /\ rest \in Seq(Frames) /\ Len(rest) = Len(p) /\ rest # <<>> /\ Unlike(rest)
         /\ \A k \in 1 .. Len(p) : /\ rest[k].id = p[k].id
                                   /\ rest[k].todo = IF k = Len(p) THEN p[k].todo \ {w}
                                                     ELSE p[k].todo
<1> DEFINE top == [Last(p) EXCEPT !.todo = @ \ {w}]
           rest == Append(Front(p), top)
<1>1. /\ Len(p) \in Nat \ {0} /\ Last(p) = p[Len(p)] /\ Last(p) \in Frames
      /\ Front(p) \in Seq(Frames) /\ Len(Front(p)) = Len(p) - 1
      /\ \A k \in 1 .. Len(p) - 1 : Front(p)[k] = p[k]
  BY TopOfPath
<1>2. top \in Frames /\ top.id = p[Len(p)].id /\ top.todo = p[Len(p)].todo \ {w}
  BY <1>1 DEF Frames
<1> HIDE DEF top
<1>3. /\ rest \in Seq(Frames) /\ Len(rest) = Len(p) /\ rest[Len(p)] = top
      /\ \A k \in 1 .. Len(p) - 1 : rest[k] = p[k]
  BY <1>1, <1>2
<1> HIDE DEF rest
<1>4. rest # <<>>
  BY <1>1, <1>3
<1>5. \A k \in 1 .. Len(p) : /\ rest[k].id = p[k].id
                             /\ rest[k].todo = IF k = Len(p) THEN p[k].todo \ {w} ELSE p[k].todo
  <2> TAKE k \in 1 .. Len(p)
  <2>1. CASE k = Len(p)
    BY <1>2, <1>3, <2>1
  <2>2. CASE k # Len(p)
    <3>1. k \in 1 .. Len(p) - 1
      BY <1>1, <2>2
    <3> QED  BY <1>3, <2>2, <3>1
  <2> QED  BY <2>1, <2>2
<1>6. Unlike(rest)
  <2>1. \A k \in 1 .. Len(rest) : k \in 1 .. Len(p) /\ rest[k].id = p[k].id
    BY <1>3, <1>5
  <2> QED  BY <2>1 DEF Unlike
<1> QED  BY <1>3, <1>4, <1>5, <1>6 DEF rest, top

(* A child that can be read is gone to.                                    *)
LEMMA ChildEntered ==
  ASSUME NEW p \in Seq(Frames), NEW f \in Frames, Unlike(p),
         \A k \in 1 .. Len(p) : p[k].id # f.id
  PROVE  LET all == Append(p, f) IN
         /\ all \in Seq(Frames) /\ Len(all) = Len(p) + 1 /\ all # <<>> /\ Unlike(all)
         /\ \A k \in 1 .. Len(p) : all[k] = p[k]
         /\ all[Len(p) + 1] = f
<1> DEFINE all == Append(p, f)
<1>1. /\ all \in Seq(Frames) /\ Len(all) = Len(p) + 1 /\ Len(p) \in Nat
      /\ \A k \in 1 .. Len(p) : all[k] = p[k]
      /\ all[Len(p) + 1] = f
  BY LenProperties
<1> HIDE DEF all
<1>2. all # <<>>
  BY <1>1
<1>3. \A k \in 1 .. Len(all) : k \in 1 .. Len(p) \/ k = Len(p) + 1
  BY <1>1
<1>4. Unlike(all)
  BY <1>1, <1>3 DEF Unlike
<1> QED  BY <1>1, <1>2, <1>4 DEF all

(* The walk goes on when a child has been looked at.                       *)
LEMMA SkipKeepsWalk ==
  ASSUME NEW u, NEW p \in Seq(Frames), NEW q \in Seq(Frames), NEW C \in SUBSET WorkflowIds,
         NEW D \in SUBSET WorkflowIds,
         NEW id, NEW subs, NEW w, Walked(u, p, C, id, subs), C \subseteq D, w \in D, Closed(u, D),
         Len(q) = Len(p),
         \A k \in 1 .. Len(p) : /\ q[k].id = p[k].id
                               /\ q[k].todo = IF k = Len(p) THEN p[k].todo \ {w} ELSE p[k].todo
  PROVE  Walked(u, q, D, id, subs)
<1>1. Len(p) \in Nat \ {0}
  BY EmptySeq, LenProperties DEF Walked
<1>2. q # <<>> /\ q[1].id = id
  <2>1. 1 \in 1 .. Len(p) /\ q # <<>>
    BY <1>1
  <2> QED  BY <2>1 DEF Walked
<1>3. ASSUME NEW k \in 1 .. Len(q)
      PROVE  Children(u, q, subs, k) \ q[k].todo \subseteq D \cup Ahead(q, k)
  <2>1. /\ Children(u, q, subs, k) = Children(u, p, subs, k)
        /\ q[k].todo = p[k].todo \/ q[k].todo = p[k].todo \ {w}
    BY DEF Children
  <2>2. Ahead(q, k) = Ahead(p, k)
    <3>1. k < Len(p) => k + 1 \in 1 .. Len(p)
      BY <1>1
    <3> QED  BY <3>1 DEF Ahead
  <2>3. Children(u, p, subs, k) \ p[k].todo \subseteq C \cup Ahead(p, k)
    BY DEF Walked
  <2> HIDE DEF Children, Ahead
  <2> QED  BY <2>1, <2>2, <2>3
<1> QED  BY <1>2, <1>3 DEF Walked

LEMMA EnterKeepsWalk ==
  ASSUME NEW u, NEW p \in Seq(Frames), NEW q \in Seq(Frames), NEW r \in Seq(Frames),
         NEW C \in SUBSET WorkflowIds, NEW id, NEW subs, NEW w, Walked(u, p, C, id, subs),
         Len(q) = Len(p),
         \A k \in 1 .. Len(p) : /\ q[k].id = p[k].id
                               /\ q[k].todo = IF k = Len(p) THEN p[k].todo \ {w} ELSE p[k].todo,
         Len(r) = Len(q) + 1, \A k \in 1 .. Len(q) : r[k] = q[k],
         r[Len(q) + 1] = [id |-> w, todo |-> RunsOf(u, w)]
  PROVE  Walked(u, r, C, id, subs)
<1>1. Len(p) \in Nat \ {0}
  BY EmptySeq, LenProperties DEF Walked
<1>2. r # <<>> /\ r[1].id = id
  <2>1. 1 \in 1 .. Len(p) /\ r # <<>>
    BY <1>1
  <2> QED  BY <2>1 DEF Walked
<1>3. ASSUME NEW k \in 1 .. Len(p)
      PROVE  Children(u, r, subs, k) \ r[k].todo \subseteq C \cup Ahead(r, k)
  <2>1. /\ Children(u, r, subs, k) = Children(u, p, subs, k)
        /\ r[k].todo = IF k = Len(p) THEN p[k].todo \ {w} ELSE p[k].todo
    BY DEF Children
  <2>2. Ahead(r, k) = IF k = Len(p) THEN {w} ELSE Ahead(p, k)
    <3>1. CASE k = Len(p)
      BY <1>1, <3>1 DEF Ahead
    <3>2. CASE k # Len(p)
      <4>1. k + 1 \in 1 .. Len(p) /\ k < Len(p) /\ k < Len(r)
        BY <1>1, <3>2
      <4>2. r[k + 1] = q[k + 1] /\ q[k + 1].id = p[k + 1].id
        BY <4>1
      <4> QED  BY <3>2, <4>1, <4>2 DEF Ahead
    <3> QED  BY <3>1, <3>2
  <2>3. Children(u, p, subs, k) \ p[k].todo \subseteq C \cup Ahead(p, k)
    BY DEF Walked
  <2>4. k = Len(p) => Ahead(p, k) = {}
    BY <1>1 DEF Ahead
  <2> HIDE DEF Children, Ahead
  <2> QED  BY <2>1, <2>2, <2>3, <2>4
<1>4. ASSUME NEW k \in 1 .. Len(r), k = Len(r)
      PROVE  Children(u, r, subs, k) \ r[k].todo = {}
  BY <1>1, <1>4 DEF Children
<1>5. \A k \in 1 .. Len(r) : k \in 1 .. Len(p) \/ k = Len(r)
  BY <1>1
<1>6. \A k \in 1 .. Len(r) : Children(u, r, subs, k) \ r[k].todo \subseteq C \cup Ahead(r, k)
  <2> HIDE DEF Children, Ahead
  <2> QED  BY <1>3, <1>4, <1>5
<1> QED  BY <1>2, <1>6 DEF Walked

(* The walk leaves a node, or is over.                                     *)
LEMMA LeaveKeepsWalk ==
  ASSUME NEW u, NEW p \in Seq(Frames), NEW C \in SUBSET WorkflowIds, NEW id,
         NEW subs \in SUBSET WorkflowIds, Walked(u, p, C, id, subs), Uncleared(p, C), Last(p).todo = {}
  PROVE  /\ Len(p) # 1 => Walked(u, Front(p), C \cup {Last(p).id}, id, subs)
         /\ Len(p) = 1 => Harmless(u, id, subs)
<1>1. /\ Len(p) \in Nat \ {0} /\ Last(p) = p[Len(p)]
      /\ Front(p) \in Seq(Frames) /\ Len(Front(p)) = Len(p) - 1
      /\ \A k \in 1 .. Len(p) - 1 : Front(p)[k] = p[k]
  BY TopOfPath DEF Walked
<1>2. Children(u, p, subs, Len(p)) \subseteq C
  <2>1. Children(u, p, subs, Len(p)) \ p[Len(p)].todo \subseteq C \cup Ahead(p, Len(p))
    BY <1>1 DEF Walked
  <2>2. Ahead(p, Len(p)) = {}
    BY <1>1 DEF Ahead
  <2> QED  BY <1>1, <2>1, <2>2
<1>3. CASE Len(p) = 1
  <2>1. subs \subseteq C /\ id \notin C
    BY <1>1, <1>2, <1>3 DEF Children, Walked, Uncleared
  <2> QED  BY <1>3, <2>1 DEF Harmless, Walked
<1>4. CASE Len(p) # 1
  <2> DEFINE D == C \cup {Last(p).id}
  <2>1. Closed(u, D)
    BY <1>1, <1>2, <1>4 DEF Children, Walked, Closed
  <2>2. Front(p) # <<>> /\ Front(p)[1].id = id
    BY <1>1, <1>4 DEF Walked
  <2>3. ASSUME NEW k \in 1 .. Len(p) - 1
        PROVE  Children(u, Front(p), subs, k) \ Front(p)[k].todo \subseteq D \cup Ahead(Front(p), k)
    <3>1. Children(u, Front(p), subs, k) = Children(u, p, subs, k) /\ Front(p)[k].todo = p[k].todo
      BY <1>1 DEF Children
    <3>2. Ahead(p, k) \subseteq Ahead(Front(p), k) \cup {Last(p).id}
      BY <1>1 DEF Ahead
    <3>3. Children(u, p, subs, k) \ p[k].todo \subseteq C \cup Ahead(p, k)
      BY <1>1 DEF Walked
    <3> HIDE DEF Children, Ahead
    <3> QED  BY <3>1, <3>2, <3>3
  <2> QED  BY <1>1, <1>4, <2>1, <2>2, <2>3 DEF Walked
<1> QED  BY <1>3, <1>4

-----------------------------------------------------------------------------
(* Types, paths and inline triggers                                        *)

LEMMA ReadTyped ==
  ASSUME NEW u \in [WorkflowIds -> Contents], NEW w \in WorkflowIds
  PROVE  /\ ReadOf(u, w) \in Contents /\ RunsOf(u, w) \in SUBSET WorkflowIds
         /\ IsFile(ReadOf(u, w)) => /\ ReadOf(u, w) \in Files
                                   /\ RunsOf(u, w) = ReadOf(u, w).subs
<1>1. ReadOf(u, w) \in Contents
  BY StoreAssumption DEF ReadOf, Contents
<1>2. IsFile(ReadOf(u, w)) => ReadOf(u, w) \in Files
  BY <1>1 DEF IsFile, Contents
<1> QED  BY <1>1, <1>2 DEF RunsOf, Files

LEMMA Migrates ==
  ASSUME StoreTypes, NEW f \in Files, Migrate(f)
  PROVE  /\ triggers' \subseteq TriggerIds /\ excused' \subseteq TriggerIds
         /\ triggers \cup excused \cup f.legacy \subseteq triggers' \cup excused'
<1>1. f.legacy \subseteq TriggerIds
  BY DEF Files
<1> QED  BY <1>1 DEF StoreTypes, Migrate

LEMMA VisitMigrates ==
  ASSUME StoreTypes, PathsStand, NEW s \in Saves, Visit(s)
  PROVE  /\ triggers' \subseteq TriggerIds /\ excused' \subseteq TriggerIds
         /\ triggers \cup excused \subseteq triggers' \cup excused'
<1>1. Last(path[s]).todo \subseteq WorkflowIds
  <2>1. path[s] \in Seq(Frames) /\ path[s] # <<>>
    BY DEF StoreTypes, PathsStand, Visit
  <2>2. Last(path[s]) \in Frames
    BY <2>1, TopOfPath
  <2> QED  BY <2>2 DEF Frames
<1>2. PICK w \in Last(path[s]).todo :
        \/ UNCHANGED <<triggers, excused>>
        \/ IsFile(Read(w)) /\ Migrate(Read(w))
  BY DEF Visit
<1>3. ASSUME IsFile(Read(w)), Migrate(Read(w))
      PROVE  /\ triggers' \subseteq TriggerIds /\ excused' \subseteq TriggerIds
             /\ triggers \cup excused \subseteq triggers' \cup excused'
  <2>1. Read(w) \in Files
    BY <1>1, <1>2, <1>3, ReadTyped DEF StoreTypes, Read
  <2> QED  BY <1>3, <2>1, Migrates
<1> QED  BY <1>2, <1>3 DEF StoreTypes

(* What looking at a child comes to: q is the path with the child looked   *)
(* at.                                                                     *)
LookedAt(s, w, q) ==
  /\ q \in Seq(Frames) /\ Len(q) = Len(path[s]) /\ q # <<>> /\ Unlike(q)
  /\ \A k \in 1 .. Len(path[s]) :
       /\ q[k].id = path[s][k].id
       /\ q[k].todo = IF k = Len(path[s]) THEN path[s][k].todo \ {w} ELSE path[s][k].todo
CycleFound(s, q) == pc'[s] = "refused" /\ path'[s] = q /\ cleared'[s] = cleared[s]
Skipped(s, w, q) ==
  w \in cleared[s] /\ pc'[s] = "walk" /\ path'[s] = q /\ cleared'[s] = cleared[s]
Unread(s, w, q) ==
  /\ RunsOf(user, w) = {} /\ \A k \in 1 .. Len(q) : q[k].id # w
  /\ pc'[s] = "walk" /\ path'[s] = q /\ cleared'[s] = cleared[s] \cup {w}
Entered(s, w, q) ==
  /\ w \notin cleared[s] /\ \A k \in 1 .. Len(q) : q[k].id # w
  /\ pc'[s] = "walk" /\ path'[s] = Append(q, [id |-> w, todo |-> RunsOf(user, w)])
  /\ cleared'[s] = cleared[s]

LEMMA VisitComesTo ==
  ASSUME StoreTypes, PathsStand, NEW s \in Saves, Visit(s)
  PROVE  \E w \in WorkflowIds, q \in Seq(Frames) :
           /\ LookedAt(s, w, q)
           /\ CycleFound(s, q) \/ Skipped(s, w, q) \/ Unread(s, w, q) \/ Entered(s, w, q)
<1>1. path[s] \in Seq(Frames) /\ path[s] # <<>> /\ Unlike(path[s])
  BY DEF StoreTypes, PathsStand, Visit
<1>2. Last(path[s]).todo \subseteq WorkflowIds
  <2>1. Last(path[s]) \in Frames
    BY <1>1, TopOfPath
  <2> QED  BY <2>1 DEF Frames
<1>3. PICK w \in Last(path[s]).todo :
        LET rest == Append(Front(path[s]), [Last(path[s]) EXCEPT !.todo = @ \ {w}])
            found == \E k \in 1 .. Len(rest) : rest[k].id = w
            skip == found \/ w \in cleared[s]
        IN /\ path' = [path EXCEPT ![s] = IF skip \/ ~IsFile(Read(w)) THEN rest
                                          ELSE Append(rest, [id |-> w, todo |-> Read(w).subs])]
           /\ cleared' = [cleared EXCEPT ![s] = IF ~skip /\ ~IsFile(Read(w)) THEN @ \cup {w}
                                                ELSE @]
           /\ IF found THEN Goto(s, "refused") ELSE UNCHANGED pc
  BY DEF Visit
<1>4. PICK q : q = Append(Front(path[s]), [Last(path[s]) EXCEPT !.todo = @ \ {w}])
  OBVIOUS
<1>5. LookedAt(s, w, q)
  BY <1>1, <1>3, <1>4, ChildTaken DEF LookedAt
<1> DEFINE found == \E k \in 1 .. Len(q) : q[k].id = w
           skip == found \/ w \in cleared[s]
<1>6. /\ path'[s] = IF skip \/ ~IsFile(Read(w)) THEN q
                    ELSE Append(q, [id |-> w, todo |-> Read(w).subs])
      /\ cleared'[s] = IF ~skip /\ ~IsFile(Read(w)) THEN cleared[s] \cup {w} ELSE cleared[s]
      /\ pc'[s] = IF found THEN "refused" ELSE "walk"
  <2>1. path'[s] = IF skip \/ ~IsFile(Read(w)) THEN q
                   ELSE Append(q, [id |-> w, todo |-> Read(w).subs])
    BY <1>3, <1>4 DEF StoreTypes
  <2>2. cleared'[s] = IF ~skip /\ ~IsFile(Read(w)) THEN cleared[s] \cup {w} ELSE cleared[s]
    BY <1>3, <1>4 DEF StoreTypes
  <2>3. IF found THEN Goto(s, "refused") ELSE UNCHANGED pc
    BY <1>3, <1>4
  <2>4. pc'[s] = IF found THEN "refused" ELSE "walk"
    BY <2>3 DEF StoreTypes, Goto, Visit
  <2> QED  BY <2>1, <2>2, <2>4
<1>7. RunsOf(user, w) = IF IsFile(Read(w)) THEN Read(w).subs ELSE {}
  BY DEF RunsOf, Read
<1>8. CycleFound(s, q) \/ Skipped(s, w, q) \/ Unread(s, w, q) \/ Entered(s, w, q)
  <2>1. CASE found
    BY <1>6, <2>1 DEF CycleFound
  <2>2. CASE ~found /\ w \in cleared[s]
    BY <1>6, <2>2 DEF Skipped
  <2>3. CASE ~found /\ w \notin cleared[s] /\ ~IsFile(Read(w))
    BY <1>6, <1>7, <2>3 DEF Unread
  <2>4. CASE ~found /\ w \notin cleared[s] /\ IsFile(Read(w))
    BY <1>6, <1>7, <2>4 DEF Entered
  <2> QED  BY <2>1, <2>2, <2>3, <2>4
<1> QED  BY <1>2, <1>3, <1>5, <1>8 DEF LookedAt

LEMMA StoreTypesStart == StoreInit => TypeInv /\ AloneInv
<1> SUFFICES ASSUME StoreInit  PROVE  TypeInv /\ AloneInv
  OBVIOUS
<1>1. StoreTypes
  <2>1. user \in [WorkflowIds -> Contents] /\ temp \in [WorkflowIds -> Contents]
    BY StoreAssumption DEF StoreInit, Contents
  <2>2. path \in [Saves -> Seq(Frames)]
    BY DEF StoreInit
  <2> QED  BY <2>1, <2>2 DEF StoreInit, StoreTypes, Places
<1>2. PathsStand
  BY DEF StoreInit, PathsStand, Unlike, Uncleared
<1>3. InlineKept /\ SaversAccount
  BY DEF StoreInit, InlineKept, SaversAccount
<1>4. OneSaves /\ TempIsOwn /\ WalksSound
  BY DEF StoreInit, OneSaves, TempIsOwn, WalksSound, Saving, Busy
<1>5. NoneTorn
  BY StoreAssumption DEF StoreInit, NoneTorn, Files
<1>6. Acyclic(user)
  BY StoreAssumption DEF StoreInit
<1> QED  BY <1>1, <1>2, <1>3, <1>4, <1>5, <1>6 DEF TypeInv, AloneInv

(* A child that cannot be read is taken off the path unseen.               *)
LEMMA VisitFailsComesTo ==
  ASSUME StoreTypes, PathsStand, NEW s \in Saves, VisitFails(s)
  PROVE  \E w \in WorkflowIds, q \in Seq(Frames) :
           /\ LookedAt(s, w, q) /\ \A k \in 1 .. Len(q) : q[k].id # w
           /\ path' = [path EXCEPT ![s] = q]
           /\ cleared' = [cleared EXCEPT ![s] = cleared[s] \cup {w}]
<1>1. path[s] \in Seq(Frames) /\ path[s] # <<>> /\ Unlike(path[s])
  BY DEF StoreTypes, PathsStand, VisitFails
<1>2. Last(path[s]).todo \subseteq WorkflowIds
  <2>1. Last(path[s]) \in Frames
    BY <1>1, TopOfPath
  <2> QED  BY <2>1 DEF Frames
<1>3. PICK w \in Last(path[s]).todo :
        LET rest == Append(Front(path[s]), [Last(path[s]) EXCEPT !.todo = @ \ {w}])
        IN /\ \A k \in 1 .. Len(rest) : rest[k].id # w
           /\ path' = [path EXCEPT ![s] = rest]
           /\ cleared' = [cleared EXCEPT ![s] = @ \cup {w}]
  BY DEF VisitFails
<1>4. PICK q : q = Append(Front(path[s]), [Last(path[s]) EXCEPT !.todo = @ \ {w}])
  OBVIOUS
<1>5. LookedAt(s, w, q)
  BY <1>1, <1>3, <1>4, ChildTaken DEF LookedAt
<1> QED  BY <1>2, <1>3, <1>4, <1>5 DEF LookedAt

LEMMA StoreTypesKeep == TypeInv /\ StoreNext => StoreTypes'
<1> SUFFICES ASSUME StoreTypes, PathsStand, StoreNext
             PROVE  StoreTypes'
  BY DEF TypeInv
<1>1. ASSUME NEW s \in Saves, Get(s)  PROVE  StoreTypes'
  <2>1. pc' \in [Saves -> Places]
    BY <1>1 DEF StoreTypes, Get, Goto, Places
  <2>2. triggers' \subseteq TriggerIds /\ excused' \subseteq TriggerIds
    <3>1. Read(Save(s).id) \in Contents /\ (IsFile(Read(Save(s).id)) => Read(Save(s).id) \in Files)
      BY ReadTyped, StoreAssumption DEF StoreTypes, Read
    <3>2. CASE IsFile(Read(Save(s).id)) /\ Migrate(Read(Save(s).id))
      BY <3>1, <3>2, Migrates
    <3>3. CASE UNCHANGED <<triggers, excused>>
      BY <3>3 DEF StoreTypes
    <3> QED  BY <1>1, <3>2, <3>3 DEF Get
  <2> QED  BY <1>1, <2>1, <2>2 DEF StoreTypes, Get
<1>2. ASSUME NEW s \in Saves, BeginSave(s)  PROVE  StoreTypes'
  <2>1. pc' \in [Saves -> Places]
    BY <1>2 DEF StoreTypes, BeginSave, Goto, Places
  <2>2. path' \in [Saves -> Seq(Frames)]
    <3>1. [id |-> Save(s).id, todo |-> Save(s).subs] \in Frames
      BY StoreAssumption DEF Frames
    <3>2. <<[id |-> Save(s).id, todo |-> Save(s).subs]>> \in Seq(Frames)
      BY <3>1
    <3> QED  BY <1>2, <3>2 DEF StoreTypes, BeginSave
  <2>3. disturbed' \in BOOLEAN
    BY <1>2 DEF StoreTypes, BeginSave
  <2> QED  BY <1>2, <2>1, <2>2, <2>3 DEF StoreTypes, BeginSave
<1>3. ASSUME NEW s \in Saves, Visit(s)  PROVE  StoreTypes'
  <2>1. PICK w \in WorkflowIds, q \in Seq(Frames) :
          /\ LookedAt(s, w, q)
          /\ CycleFound(s, q) \/ Skipped(s, w, q) \/ Unread(s, w, q) \/ Entered(s, w, q)
    BY <1>3, VisitComesTo
  <2>2. path'[s] \in Seq(Frames)
    <3>1. q \in Seq(Frames)
      BY <2>1 DEF LookedAt
    <3>2. [id |-> w, todo |-> RunsOf(user, w)] \in Frames
      BY ReadTyped DEF Frames, StoreTypes
    <3>3. Append(q, [id |-> w, todo |-> RunsOf(user, w)]) \in Seq(Frames)
      BY <3>1, <3>2
    <3> QED  BY <2>1, <3>1, <3>3 DEF CycleFound, Skipped, Unread, Entered
  <2>3. path' = [path EXCEPT ![s] = path'[s]] /\ cleared' = [cleared EXCEPT ![s] = cleared'[s]]
    BY <1>3 DEF StoreTypes, Visit
  <2>4. cleared'[s] \in SUBSET WorkflowIds
    BY <2>1 DEF StoreTypes, CycleFound, Skipped, Unread, Entered
  <2>5. path' \in [Saves -> Seq(Frames)] /\ cleared' \in [Saves -> SUBSET WorkflowIds]
    BY <2>2, <2>3, <2>4 DEF StoreTypes
  <2>6. pc' \in [Saves -> Places]
    BY <1>3 DEF StoreTypes, Visit, Goto, Places
  <2>7. triggers' \subseteq TriggerIds /\ excused' \subseteq TriggerIds
    BY <1>3, VisitMigrates
  <2> QED  BY <1>3, <2>5, <2>6, <2>7 DEF StoreTypes, Visit
<1>4. ASSUME NEW s \in Saves, Leave(s)  PROVE  StoreTypes'
  <2>1. path[s] \in Seq(Frames) /\ path[s] # <<>>
    BY <1>4 DEF StoreTypes, PathsStand, Leave
  <2>2. Front(path[s]) \in Seq(Frames) /\ Last(path[s]) \in Frames
    BY <2>1, TopOfPath
  <2>3. path' \in [Saves -> Seq(Frames)]
    BY <1>4, <2>2 DEF StoreTypes, Leave
  <2>4. cleared' \in [Saves -> SUBSET WorkflowIds]
    BY <1>4, <2>2 DEF StoreTypes, Leave, Frames
  <2>5. pc' \in [Saves -> Places]
    BY <1>4 DEF StoreTypes, Leave, Goto, Places
  <2> QED  BY <1>4, <2>3, <2>4, <2>5 DEF StoreTypes, Leave
<1>5. ASSUME NEW s \in Saves, ReadExisting(s)  PROVE  StoreTypes'
  <2>1. pc' \in [Saves -> Places]
    BY <1>5 DEF StoreTypes, ReadExisting, Goto, Places
  <2>2. IsFile(Read(Save(s).id)) => Read(Save(s).id).version \in Nat
    BY ReadTyped, StoreAssumption DEF StoreTypes, Read, Files
  <2>3. old' \in [Saves -> Nat]
    BY <1>5, <2>2 DEF StoreTypes, ReadExisting
  <2> QED  BY <1>5, <2>1, <2>3 DEF StoreTypes, ReadExisting
<1>6. ASSUME NEW s \in Saves, OpenTemp(s)  PROVE  StoreTypes'
  <2>1. pc' \in [Saves -> Places]
    BY <1>6 DEF StoreTypes, OpenTemp, Goto, Places
  <2>2. /\ temp' \in [WorkflowIds -> Contents]
        /\ writes' \in [Saves -> {"none", "temp", "user", "gone"}]
    BY <1>6 DEF StoreTypes, OpenTemp, Contents
  <2> QED  BY <1>6, <2>1, <2>2 DEF StoreTypes, OpenTemp
<1>7. ASSUME NEW s \in Saves, WriteTemp(s)  PROVE  StoreTypes'
  <2>1. pc' \in [Saves -> Places]
    BY <1>7 DEF StoreTypes, WriteTemp, Goto, Places
  <2>2. [subs |-> Save(s).subs, version |-> old[s] + 1, legacy |-> {}] \in Contents
    BY StoreAssumption DEF StoreTypes, Contents, Files
  <2>3. temp' \in [WorkflowIds -> Contents] /\ user' \in [WorkflowIds -> Contents]
    BY <1>7, <2>2 DEF StoreTypes, WriteTemp
  <2> QED  BY <1>7, <2>1, <2>3 DEF StoreTypes, WriteTemp
<1>8. ASSUME NEW s \in Saves, RenameTemp(s)  PROVE  StoreTypes'
  <2>1. pc' \in [Saves -> Places]
    <3>1. Goto(s, "refused") \/ Goto(s, "done")
      BY <1>8 DEF RenameTemp
    <3> QED  BY <3>1 DEF StoreTypes, Goto, Places
  <2>2. temp' \in [WorkflowIds -> Contents] /\ user' \in [WorkflowIds -> Contents]
    <3>1. temp[Save(s).id] \in Contents /\ NoFile \in Contents
      BY StoreAssumption DEF StoreTypes, Contents
    <3>2. temp' \in [WorkflowIds -> Contents]
      BY <1>8, <3>1 DEF StoreTypes, RenameTemp
    <3>3. user' \in [WorkflowIds -> Contents]
      BY <1>8, <3>1 DEF StoreTypes, RenameTemp
    <3> QED  BY <3>2, <3>3
  <2>3. writes' \in [Saves -> {"none", "temp", "user", "gone"}]
    BY <1>8 DEF StoreTypes, RenameTemp
  <2>4. excused' \subseteq TriggerIds
    <3>1. user[Save(s).id] \in Contents
      BY StoreAssumption DEF StoreTypes
    <3>2. IsFile(user[Save(s).id]) => user[Save(s).id].legacy \subseteq TriggerIds
      BY <3>1 DEF Contents, IsFile, Files
    <3> QED  BY <1>8, <3>2 DEF StoreTypes, RenameTemp
  <2> QED  BY <1>8, <2>1, <2>2, <2>3, <2>4 DEF StoreTypes, RenameTemp
<1>9. ASSUME NEW w \in WorkflowIds, Delete(w)  PROVE  StoreTypes'
  <2>1. user' \in [WorkflowIds -> Contents]
    BY <1>9 DEF StoreTypes, Delete, Contents
  <2>2. writes' \in [Saves -> {"none", "temp", "user", "gone"}]
    BY <1>9 DEF StoreTypes, Delete
  <2>3. disturbed' \in BOOLEAN /\ uncovered' \in BOOLEAN
    BY <1>9 DEF StoreTypes, Delete
  <2>4. excused' \subseteq TriggerIds
    <3>1. IsFile(user[w]) => user[w].legacy \subseteq TriggerIds
      BY DEF StoreTypes, Contents, IsFile, Files
    <3> QED  BY <1>9, <3>1 DEF StoreTypes, Delete
  <2> QED  BY <1>9, <2>1, <2>2, <2>3, <2>4 DEF StoreTypes, Delete
<1>10. ASSUME NEW t \in TriggerIds, DeleteTrigger(t)  PROVE  StoreTypes'
  BY <1>10 DEF StoreTypes, DeleteTrigger
<1>11. ASSUME NEW s \in Saves, VisitFails(s)  PROVE  StoreTypes'
  <2>1. PICK w \in WorkflowIds, q \in Seq(Frames) :
          /\ path' = [path EXCEPT ![s] = q]
          /\ cleared' = [cleared EXCEPT ![s] = cleared[s] \cup {w}]
    BY <1>11, VisitFailsComesTo
  <2>2. path' \in [Saves -> Seq(Frames)] /\ cleared' \in [Saves -> SUBSET WorkflowIds]
    BY <2>1 DEF StoreTypes
  <2>3. disturbed' \in BOOLEAN /\ UNCHANGED <<user, temp, writes, pc, old, triggers, uncovered, excused>>
    BY <1>11 DEF VisitFails
  <2> QED  BY <2>2, <2>3 DEF StoreTypes
<1> QED  BY <1>1, <1>2, <1>3, <1>4, <1>5, <1>6, <1>7, <1>8, <1>9, <1>10, <1>11 DEF StoreNext

LEMMA PathsKeep == TypeInv /\ StoreNext => PathsStand'
<1> SUFFICES ASSUME StoreTypes, PathsStand, StoreNext
             PROVE  PathsStand'
  BY DEF TypeInv
<1> DEFINE Stands(s) == /\ pc[s] = "walk" => path[s] # <<>>
                        /\ pc[s] \in {"idle", "got"} => cleared[s] = {}
                        /\ Unlike(path[s]) /\ Uncleared(path[s], cleared[s])
<1>0. \A s \in Saves : Stands(s)
  BY DEF PathsStand
<1>1. ASSUME NEW s \in Saves, \A r \in Saves \ {s} : /\ pc'[r] = pc[r] /\ path'[r] = path[r]
                                                    /\ cleared'[r] = cleared[r],
             Stands(s)'
      PROVE  PathsStand'
  <2>1. ASSUME NEW r \in Saves, r # s  PROVE  Stands(r)'
    BY <1>0, <1>1, <2>1
  <2> HIDE DEF Stands
  <2>2. \A r \in Saves : Stands(r)'
    BY <1>1, <2>1
  <2> QED  BY <2>2 DEF Stands, PathsStand
<1>2. ASSUME NEW s \in Saves, Get(s)  PROVE  PathsStand'
  <2>1. Stands(s)'
    BY <1>0, <1>2 DEF StoreTypes, Get, Goto
  <2>2. \A r \in Saves \ {s} : pc'[r] = pc[r] /\ path'[r] = path[r] /\ cleared'[r] = cleared[r]
    BY <1>2 DEF StoreTypes, Get, Goto
  <2> HIDE DEF Stands
  <2> QED  BY <1>1, <2>1, <2>2
<1>3. ASSUME NEW s \in Saves, BeginSave(s)  PROVE  PathsStand'
  <2>1. Stands(s)'
    <3>1. CASE Save(s).valid
      <4>1. /\ pc'[s] = "walk" /\ cleared'[s] = {}
            /\ path'[s] = <<[id |-> Save(s).id, todo |-> Save(s).subs]>>
        BY <1>0, <1>3, <3>1 DEF StoreTypes, BeginSave, Goto
      <4>2. path'[s] # <<>> /\ \A k \in 1 .. Len(path'[s]) : k = 1
        BY <4>1
      <4> QED  BY <4>1, <4>2 DEF Unlike, Uncleared
    <3>2. CASE ~Save(s).valid
      BY <1>0, <1>3, <3>2 DEF StoreTypes, BeginSave, Goto
    <3> QED  BY <3>1, <3>2
  <2>2. \A r \in Saves \ {s} : pc'[r] = pc[r] /\ path'[r] = path[r] /\ cleared'[r] = cleared[r]
    BY <1>3 DEF StoreTypes, BeginSave, Goto
  <2> HIDE DEF Stands
  <2> QED  BY <1>1, <2>1, <2>2
<1>4. ASSUME NEW s \in Saves, Visit(s)  PROVE  PathsStand'
  <2>1. PICK w \in WorkflowIds, q \in Seq(Frames) :
          /\ LookedAt(s, w, q)
          /\ CycleFound(s, q) \/ Skipped(s, w, q) \/ Unread(s, w, q) \/ Entered(s, w, q)
    BY <1>4, VisitComesTo
  <2>2. /\ q \in Seq(Frames) /\ q # <<>> /\ Unlike(q) /\ Uncleared(q, cleared[s])
        /\ Len(q) = Len(path[s])
    BY <1>0, <2>1 DEF LookedAt, Uncleared
  <2>3. Stands(s)'
    <3>1. CASE CycleFound(s, q)
      BY <2>2, <3>1 DEF CycleFound
    <3>2. CASE Skipped(s, w, q)
      BY <2>2, <3>2 DEF Skipped
    <3>3. CASE Unread(s, w, q)
      <4>1. Uncleared(q, cleared[s] \cup {w})
        BY <2>2, <3>3 DEF Unread, Uncleared
      <4> QED  BY <2>2, <3>3, <4>1 DEF Unread
    <3>4. CASE Entered(s, w, q)
      <4> DEFINE f == [id |-> w, todo |-> RunsOf(user, w)]
      <4>1. f \in Frames /\ f.id = w
        BY ReadTyped DEF Frames, StoreTypes
      <4> HIDE DEF f
      <4>2. /\ Append(q, f) # <<>> /\ Unlike(Append(q, f))
            /\ Len(Append(q, f)) = Len(q) + 1 /\ Append(q, f)[Len(q) + 1] = f
            /\ \A k \in 1 .. Len(q) : Append(q, f)[k] = q[k]
        BY <2>2, <3>4, <4>1, ChildEntered DEF Entered
      <4>3. \A k \in 1 .. Len(q) + 1 : k \in 1 .. Len(q) \/ k = Len(q) + 1
        BY <2>2, LenProperties
      <4>4. Uncleared(Append(q, f), cleared[s])
        BY <2>2, <3>4, <4>1, <4>2, <4>3 DEF Uncleared, Entered
      <4>5. path'[s] = Append(q, f) /\ pc'[s] = "walk" /\ cleared'[s] = cleared[s]
        BY <3>4 DEF Entered, f
      <4> QED  BY <4>2, <4>4, <4>5
    <3> HIDE DEF Stands
    <3> QED  BY <2>1, <3>1, <3>2, <3>3, <3>4
  <2>4. \A r \in Saves \ {s} : pc'[r] = pc[r] /\ path'[r] = path[r] /\ cleared'[r] = cleared[r]
    <3>1. Goto(s, "refused") \/ UNCHANGED pc
      BY <1>4 DEF Visit
    <3>2. \A r \in Saves \ {s} : pc'[r] = pc[r]
      BY <3>1 DEF StoreTypes, Goto
    <3>3. \A r \in Saves \ {s} : path'[r] = path[r] /\ cleared'[r] = cleared[r]
      BY <1>4 DEF StoreTypes, Visit
    <3> QED  BY <3>2, <3>3
  <2> HIDE DEF Stands
  <2> QED  BY <1>1, <2>3, <2>4
<1>5. ASSUME NEW s \in Saves, Leave(s)  PROVE  PathsStand'
  <2>1. path[s] \in Seq(Frames) /\ path[s] # <<>>
    BY <1>0, <1>5 DEF StoreTypes, Leave
  <2>2. /\ Len(path[s]) \in Nat \ {0} /\ Last(path[s]) = path[s][Len(path[s])]
        /\ Len(Front(path[s])) = Len(path[s]) - 1
        /\ \A k \in 1 .. Len(path[s]) - 1 : Front(path[s])[k] = path[s][k]
        /\ Front(path[s]) \in Seq(Frames)
    BY <2>1, TopOfPath
  <2>3. /\ path'[s] = Front(path[s]) /\ cleared'[s] = cleared[s] \cup {path[s][Len(path[s])].id}
        /\ pc'[s] = IF Len(path[s]) = 1 THEN "existing" ELSE "walk"
    BY <1>5, <2>2 DEF StoreTypes, Leave, Goto
  <2>4. \A k \in 1 .. Len(path[s]) - 1 : k \in 1 .. Len(path[s]) /\ k # Len(path[s])
    BY <2>2
  <2>5. Unlike(Front(path[s]))
    <3>1. \A k \in 1 .. Len(Front(path[s])) : /\ k \in 1 .. Len(path[s])
                                              /\ Front(path[s])[k] = path[s][k]
      BY <2>2, <2>4
    <3>2. Unlike(path[s])
      BY <1>0
    <3> QED  BY <3>1, <3>2 DEF Unlike
  <2>6. Uncleared(Front(path[s]), cleared'[s])
    <3>1. \A k \in 1 .. Len(path[s]) - 1 : path[s][k].id # path[s][Len(path[s])].id
      <4>1. \A j, k \in 1 .. Len(path[s]) : path[s][j].id = path[s][k].id => j = k
        BY <1>0, Zenon DEF Unlike
      <4>2. Len(path[s]) \in 1 .. Len(path[s])
        BY <2>2
      <4> QED  BY <2>4, <4>1, <4>2, Zenon
    <3>2. \A k \in 1 .. Len(path[s]) : path[s][k].id \notin cleared[s]
      BY <1>0 DEF Uncleared
    <3>3. \A k \in 1 .. Len(Front(path[s])) :
            k \in 1 .. Len(path[s]) - 1 /\ Front(path[s])[k] = path[s][k]
      BY <2>2
    <3>4. \A k \in 1 .. Len(path[s]) - 1 : path[s][k].id \notin cleared'[s]
      BY <2>3, <2>4, <3>1, <3>2
    <3> QED  BY <3>3, <3>4, Zenon DEF Uncleared
  <2>7. Len(path[s]) # 1 => Front(path[s]) # <<>>
    <3>1. Front(path[s]) = <<>> => Len(Front(path[s])) = 0
      OBVIOUS
    <3> QED  BY <2>2, <3>1
  <2>8. Stands(s)'
    BY <2>3, <2>5, <2>6, <2>7
  <2>9. \A r \in Saves \ {s} : pc'[r] = pc[r] /\ path'[r] = path[r] /\ cleared'[r] = cleared[r]
    BY <1>5 DEF StoreTypes, Leave, Goto
  <2> HIDE DEF Stands
  <2> QED  BY <1>1, <2>8, <2>9
<1>6. ASSUME NEW s \in Saves, NEW at \in {"existing", "open", "write", "rename", "done", "refused"},
             pc' = [pc EXCEPT ![s] = at], UNCHANGED <<path, cleared>>
      PROVE  PathsStand'
  <2>1. Stands(s)'
    BY <1>0, <1>6 DEF StoreTypes
  <2>2. \A r \in Saves \ {s} : pc'[r] = pc[r] /\ path'[r] = path[r] /\ cleared'[r] = cleared[r]
    BY <1>6 DEF StoreTypes
  <2> HIDE DEF Stands
  <2> QED  BY <1>1, <2>1, <2>2
<1>7. ASSUME NEW s \in Saves, ReadExisting(s) \/ OpenTemp(s) \/ WriteTemp(s) \/ RenameTemp(s)
      PROVE  PathsStand'
  <2>1. \E at \in {"existing", "open", "write", "rename", "done", "refused"} :
          pc' = [pc EXCEPT ![s] = at]
    BY <1>7 DEF ReadExisting, OpenTemp, WriteTemp, RenameTemp, Goto
  <2>2. UNCHANGED <<path, cleared>>
    BY <1>7 DEF ReadExisting, OpenTemp, WriteTemp, RenameTemp
  <2> QED  BY <1>6, <2>1, <2>2
<1>8. ASSUME NEW w \in WorkflowIds, Delete(w)  PROVE  PathsStand'
  BY <1>0, <1>8 DEF Delete, PathsStand
<1>9. ASSUME NEW t \in TriggerIds, DeleteTrigger(t)  PROVE  PathsStand'
  BY <1>0, <1>9 DEF DeleteTrigger, PathsStand
<1> HIDE DEF Stands
<1>10. ASSUME NEW s \in Saves, VisitFails(s)  PROVE  PathsStand'
  <2>1. PICK w \in WorkflowIds, q \in Seq(Frames) :
          /\ LookedAt(s, w, q) /\ \A k \in 1 .. Len(q) : q[k].id # w
          /\ path' = [path EXCEPT ![s] = q]
          /\ cleared' = [cleared EXCEPT ![s] = cleared[s] \cup {w}]
    BY <1>10, VisitFailsComesTo
  <2>2. pc' = pc /\ pc[s] = "walk"
    BY <1>10 DEF VisitFails
  <2>3. path'[s] = q /\ cleared'[s] = cleared[s] \cup {w}
    BY <2>1 DEF StoreTypes
  <2>4. q # <<>> /\ Unlike(q) /\ Uncleared(q, cleared[s] \cup {w})
    <3>1. Uncleared(path[s], cleared[s])
      BY <1>0 DEF Stands
    <3> QED  BY <2>1, <3>1 DEF LookedAt, Uncleared
  <2>5. Stands(s)'
    BY <2>2, <2>3, <2>4 DEF Stands
  <2>6. \A r \in Saves \ {s} : pc'[r] = pc[r] /\ path'[r] = path[r] /\ cleared'[r] = cleared[r]
    BY <2>1, <2>2 DEF StoreTypes
  <2> HIDE DEF Stands
  <2> QED  BY <1>1, <2>5, <2>6
<1> QED  BY <1>2, <1>3, <1>4, <1>5, <1>7, <1>8, <1>9, <1>10 DEF StoreNext

(* A step that takes no trigger away, and no file, and gives no save a     *)
(* file of the user's to write, keeps the inline triggers.                 *)
LEMMA KeptAlong ==
  ASSUME TypeInv, triggers \cup excused \subseteq triggers' \cup excused',
         \A w \in WorkflowIds : user'[w] = user[w] \/ Accounted(w) \/ Accounted(w)',
         \A s \in Saves : \/ Accounted(Save(s).id) \/ Accounted(Save(s).id)'
                          \/ /\ writes'[s] = "user" => writes[s] = "user"
                             /\ pc'[s] = pc[s] \/ pc'[s] \in {"idle", "refused"} \/ ~Save(s).get
  PROVE  InlineKept' /\ SaversAccount'
<1>1. \A w \in WorkflowIds : Accounted(w) => Accounted(w)'
  BY DEF Accounted
<1>2. InlineKept'
  BY <1>1 DEF TypeInv, InlineKept
<1>3. SaversAccount'
  BY <1>1, StoreAssumption DEF TypeInv, SaversAccount
<1> QED  BY <1>2, <1>3

LEMMA InlineKeeps == TypeInv /\ StoreNext => InlineKept' /\ SaversAccount'
<1> SUFFICES ASSUME TypeInv, StoreNext
             PROVE  InlineKept' /\ SaversAccount'
  OBVIOUS
<1>0. StoreTypes /\ PathsStand /\ InlineKept /\ SaversAccount
  BY DEF TypeInv
<1>1. ASSUME NEW s \in Saves, Get(s)  PROVE  InlineKept' /\ SaversAccount'
  <2> DEFINE f == Read(Save(s).id)
  <2>1. Save(s).id \in WorkflowIds
    BY StoreAssumption
  <2>2. CASE IsFile(f) /\ Migrate(f)
    <3>1. f \in Files
      BY <1>0, <2>1, <2>2, ReadTyped DEF StoreTypes, Read
    <3>2. Migrate(f)
      BY <2>2
    <3>3. triggers \cup excused \cup f.legacy \subseteq triggers' \cup excused'
      BY <1>0, <3>1, <3>2, Migrates
    <3>4. Accounted(Save(s).id)'
      <4>1. CASE user[Save(s).id] = UserFiles[Save(s).id] /\ IsFile(UserFiles[Save(s).id])
        <5>1. f = UserFiles[Save(s).id]
          BY <4>1 DEF Read, ReadOf, IsFile
        <5> QED  BY <3>3, <5>1 DEF Accounted
      <4>2. CASE Accounted(Save(s).id)
        BY <3>3, <4>2 DEF Accounted
      <4>3. CASE ~IsFile(UserFiles[Save(s).id])
        BY <4>3 DEF Accounted
      <4> QED  BY <1>0, <2>1, <4>1, <4>2, <4>3 DEF InlineKept
    <3>5. user' = user /\ writes' = writes /\ \A r \in Saves \ {s} : pc'[r] = pc[r]
      BY <1>0, <1>1 DEF Get, Goto, StoreTypes
    <3> HIDE DEF f
    <3> QED  BY <3>3, <3>4, <3>5, KeptAlong
  <2>3. CASE Goto(s, "refused") /\ UNCHANGED <<triggers, excused>>
    <3>1. \A r \in Saves : pc'[r] = pc[r] \/ pc'[r] = "refused"
      BY <1>0, <2>3 DEF Goto, StoreTypes
    <3>2. user' = user /\ writes' = writes /\ triggers' = triggers /\ excused' = excused
      BY <1>1, <2>3 DEF Get
    <3> QED  BY <3>1, <3>2, KeptAlong
  <2> HIDE DEF f
  <2>4. (IsFile(f) /\ Migrate(f)) \/ (Goto(s, "refused") /\ UNCHANGED <<triggers, excused>>)
    BY <1>1 DEF Get, f
  <2> QED  BY <2>2, <2>3, <2>4
<1>2. ASSUME NEW s \in Saves, UNCHANGED <<user, writes>>, pc[s] # "idle" \/ ~Save(s).get,
             pc[s] # "refused", \A r \in Saves \ {s} : pc'[r] = pc[r],
             triggers \cup excused \subseteq triggers' \cup excused'
      PROVE  InlineKept' /\ SaversAccount'
  <2>1. Accounted(Save(s).id) \/ ~Save(s).get
    BY <1>0, <1>2 DEF SaversAccount
  <2> QED  BY <1>2, <2>1, KeptAlong
<1>3. ASSUME NEW s \in Saves, BeginSave(s)  PROVE  InlineKept' /\ SaversAccount'
  <2>1. \A r \in Saves \ {s} : pc'[r] = pc[r]
    BY <1>0, <1>3 DEF BeginSave, Goto, StoreTypes
  <2>2. (pc[s] # "idle" \/ ~Save(s).get) /\ pc[s] # "refused"
    BY <1>3 DEF BeginSave
  <2>3. UNCHANGED <<user, writes, triggers, excused>>
    BY <1>3 DEF BeginSave
  <2> QED  BY <1>2, <2>1, <2>2, <2>3
<1>4. ASSUME NEW s \in Saves, Visit(s)  PROVE  InlineKept' /\ SaversAccount'
  <2>1. \A r \in Saves \ {s} : pc'[r] = pc[r]
    <3>1. Goto(s, "refused") \/ UNCHANGED pc
      BY <1>4 DEF Visit
    <3> QED  BY <1>0, <3>1 DEF StoreTypes, Goto
  <2>2. pc[s] = "walk" /\ UNCHANGED <<user, writes>>
    BY <1>4 DEF Visit
  <2>3. triggers \cup excused \subseteq triggers' \cup excused'
    BY <1>0, <1>4, VisitMigrates
  <2> QED  BY <1>2, <2>1, <2>2, <2>3
<1>5. ASSUME NEW s \in Saves, Leave(s) \/ ReadExisting(s) \/ OpenTemp(s)
      PROVE  InlineKept' /\ SaversAccount'
  <2>1. \A r \in Saves \ {s} : pc'[r] = pc[r]
    BY <1>0, <1>5 DEF Leave, ReadExisting, OpenTemp, Goto, StoreTypes
  <2>2. pc[s] \in {"walk", "existing", "open"} /\ UNCHANGED <<user, triggers, excused>>
    BY <1>5 DEF Leave, ReadExisting, OpenTemp
  <2>3. \A r \in Saves : writes'[r] = "user" => writes[r] = "user"
    BY <1>0, <1>5 DEF Leave, ReadExisting, OpenTemp, StoreTypes
  <2>4. Accounted(Save(s).id) \/ ~Save(s).get
    BY <1>0, <2>2 DEF SaversAccount
  <2> QED  BY <2>1, <2>2, <2>3, <2>4, KeptAlong
<1>6. ASSUME NEW s \in Saves, WriteTemp(s)  PROVE  InlineKept' /\ SaversAccount'
  <2>1. \A r \in Saves \ {s} : pc'[r] = pc[r]
    BY <1>0, <1>6 DEF WriteTemp, Goto, StoreTypes
  <2>2. pc[s] = "write" /\ UNCHANGED <<writes, triggers, excused>>
    BY <1>6 DEF WriteTemp
  <2>3. Accounted(Save(s).id) \/ ~Save(s).get
    BY <1>0, <2>2 DEF SaversAccount
  <2>4. \A w \in WorkflowIds : user'[w] = user[w] \/ (w = Save(s).id /\ writes[s] = "user")
    BY <1>0, <1>6 DEF WriteTemp, StoreTypes
  <2>5. writes[s] = "user" => Accounted(Save(s).id)
    BY <1>0 DEF SaversAccount
  <2> QED  BY <2>1, <2>2, <2>3, <2>4, <2>5, KeptAlong
<1>7. ASSUME NEW s \in Saves, RenameTemp(s)  PROVE  InlineKept' /\ SaversAccount'
  <2>1. \A r \in Saves \ {s} : pc'[r] = pc[r]
    <3>1. Goto(s, "refused") \/ Goto(s, "done")
      BY <1>7 DEF RenameTemp
    <3> QED  BY <1>0, <3>1 DEF Goto, StoreTypes
  <2>2. pc[s] = "rename" /\ triggers' = triggers
    BY <1>7 DEF RenameTemp
  <2>3. Accounted(Save(s).id) \/ ~Save(s).get
    BY <1>0, <2>2 DEF SaversAccount
  <2>4. CASE temp[Save(s).id] = NoFile
    <3>1. UNCHANGED <<user, writes, excused>>
      BY <1>7, <2>4 DEF RenameTemp
    <3> QED  BY <2>1, <2>2, <2>3, <3>1, KeptAlong
  <2>5. CASE temp[Save(s).id] # NoFile
    <3>1. /\ excused \subseteq excused'
          /\ ~Save(s).get /\ IsFile(user[Save(s).id]) => user[Save(s).id].legacy \subseteq excused'
      BY <1>7, <2>5 DEF RenameTemp
    <3>2. Accounted(Save(s).id)'
      <4>1. CASE Accounted(Save(s).id)
        BY <2>2, <3>1, <4>1 DEF Accounted
      <4>2. CASE ~Save(s).get /\ user[Save(s).id] = UserFiles[Save(s).id]
        BY <3>1, <4>2 DEF Accounted
      <4> QED  BY <1>0, <2>3, <4>1, <4>2, StoreAssumption DEF InlineKept
    <3>3. \A w \in WorkflowIds : user'[w] = user[w] \/ w = Save(s).id
      BY <1>0, <1>7, <2>5 DEF RenameTemp, StoreTypes
    <3>4. \A r \in Saves : Save(r).id = Save(s).id \/ writes'[r] = writes[r]
      BY <1>0, <1>7, <2>5 DEF RenameTemp, StoreTypes
    <3> QED  BY <2>1, <2>2, <3>1, <3>2, <3>3, <3>4, KeptAlong
  <2> QED  BY <2>4, <2>5
<1>8. ASSUME NEW w \in WorkflowIds, Delete(w)  PROVE  InlineKept' /\ SaversAccount'
  <2>1. /\ excused \subseteq excused' /\ triggers' = triggers /\ pc' = pc
        /\ IsFile(user[w]) => user[w].legacy \subseteq excused'
    BY <1>8 DEF Delete
  <2>2. Accounted(w)'
    <3>1. CASE Accounted(w)
      BY <2>1, <3>1 DEF Accounted
    <3>2. CASE user[w] = UserFiles[w]
      BY <2>1, <3>2 DEF Accounted
    <3> QED  BY <1>0, <3>1, <3>2 DEF InlineKept
  <2>3. \A v \in WorkflowIds : user'[v] = user[v] \/ v = w
    BY <1>0, <1>8 DEF Delete, StoreTypes
  <2>4. \A r \in Saves : writes'[r] = "user" => writes[r] = "user"
    BY <1>0, <1>8 DEF Delete, StoreTypes
  <2> QED  BY <2>1, <2>2, <2>3, <2>4, KeptAlong
<1>9. ASSUME NEW t \in TriggerIds, DeleteTrigger(t)  PROVE  InlineKept' /\ SaversAccount'
  <2>1. triggers \cup excused \subseteq triggers' \cup excused'
    BY <1>9 DEF DeleteTrigger
  <2>2. UNCHANGED <<user, writes, pc>>
    BY <1>9 DEF DeleteTrigger
  <2> QED  BY <2>1, <2>2, KeptAlong
<1>10. ASSUME NEW s \in Saves, VisitFails(s)  PROVE  InlineKept' /\ SaversAccount'
  <2>1. UNCHANGED <<user, writes, pc, triggers, excused>>
    BY <1>10 DEF VisitFails
  <2> QED  BY <2>1, KeptAlong
<1> QED  BY <1>1, <1>3, <1>4, <1>5, <1>6, <1>7, <1>8, <1>9, <1>10 DEF StoreNext

-----------------------------------------------------------------------------
(* A save alone                                                            *)

LEMMA OthersRest ==
  ASSUME AloneInv, UNCHANGED <<user, temp, writes, path, cleared, old, disturbed, uncovered>>,
         \A r \in Saves : pc'[r] = pc[r] \/ pc'[r] \notin Busy
  PROVE  AloneInv'
<1> SUFFICES ASSUME ~disturbed
             PROVE  OneSaves' /\ TempIsOwn' /\ NoneTorn' /\ WalksSound'
                    /\ (~uncovered => Acyclic(user))'
  BY DEF AloneInv
<1>1. OneSaves' /\ TempIsOwn' /\ NoneTorn'
  BY DEF AloneInv, OneSaves, TempIsOwn, NoneTorn, Saving, Saved, Busy
<1>2. WalksSound'
  BY DEF AloneInv, WalksSound, Busy
<1> QED  BY <1>1, <1>2 DEF AloneInv

LEMMA OneActs ==
  ASSUME NEW s \in Saves, \A r \in Saves \ {s} : pc'[r] \notin Busy,
         pc'[s] \in {"write", "rename"} => writes'[s] = "temp",
         pc'[s] = "rename" => temp'[Save(s).id] = Saved(s)',
         pc'[s] = "walk" => Walked(user', path'[s], cleared'[s], Save(s).id, Save(s).subs),
         pc'[s] \in Busy \ {"walk"} => Harmless(user', Save(s).id, Save(s).subs),
         NoneTorn', ~uncovered' => Acyclic(user')
  PROVE  AloneInv'
<1>1. OneSaves'
  BY DEF OneSaves, Saving, Busy
<1>2. TempIsOwn'
  BY DEF TempIsOwn, Busy
<1>3. WalksSound'
  BY DEF WalksSound, Busy
<1> QED  BY <1>1, <1>2, <1>3 DEF AloneInv

LEMMA AloneKeeps == TypeInv /\ AloneInv /\ StoreNext => AloneInv'
<1> SUFFICES ASSUME TypeInv, AloneInv, StoreNext, ~disturbed'
             PROVE  AloneInv'
  BY DEF AloneInv
<1>0. StoreTypes /\ PathsStand
  BY DEF TypeInv
<1>1. ~disturbed
  BY DEF StoreNext, Get, BeginSave, Visit, VisitFails, Leave, ReadExisting, OpenTemp, WriteTemp,
         RenameTemp, Delete, DeleteTrigger
<1>2. OneSaves /\ TempIsOwn /\ NoneTorn /\ WalksSound /\ (~uncovered => Acyclic(user))
  BY <1>1 DEF AloneInv
<1>3. ASSUME NEW s \in Saves, NEW r \in Saves \ {s}, pc[s] \in Busy, pc'[r] = pc[r]
      PROVE  pc'[r] \notin Busy
  BY <1>2, <1>3 DEF OneSaves, Saving, Busy
<1>4. ASSUME UNCHANGED user, UNCHANGED uncovered
      PROVE  NoneTorn' /\ (~uncovered' => Acyclic(user'))
  BY <1>2, <1>4 DEF NoneTorn
<1>5. ASSUME NEW s \in Saves, Get(s)  PROVE  AloneInv'
  <2>1. \A r \in Saves : pc'[r] = pc[r] \/ pc'[r] \notin Busy
    BY <1>0, <1>5 DEF StoreTypes, Get, Goto, Busy
  <2>2. UNCHANGED <<user, temp, writes, path, cleared, old, disturbed, uncovered>>
    BY <1>5 DEF Get
  <2> QED  BY <2>1, <2>2, OthersRest
<1>6. ASSUME NEW s \in Saves, BeginSave(s)  PROVE  AloneInv'
  <2>1. CASE Save(s).valid
    <3>1. /\ pc'[s] = "walk" /\ \A r \in Saves \ {s} : pc'[r] = pc[r]
          /\ path'[s] = <<[id |-> Save(s).id, todo |-> Save(s).subs]>>
          /\ cleared'[s] = {}
      BY <1>0, <1>6, <2>1 DEF StoreTypes, PathsStand, BeginSave, Goto
    <3>2. \A r \in Saves : pc[r] \notin Busy
      BY <1>6, <2>1 DEF BeginSave, Saving, Busy
    <3>3. Walked(user', path'[s], cleared'[s], Save(s).id, Save(s).subs)
      <4>1. /\ path'[s] # <<>> /\ path'[s][1].id = Save(s).id /\ path'[s][1].todo = Save(s).subs
            /\ \A k \in 1 .. Len(path'[s]) : k = 1
        BY <3>1
      <4> QED  BY <3>1, <4>1 DEF Walked, Children, Closed
    <3>4. NoneTorn' /\ (~uncovered' => Acyclic(user'))
      BY <1>4, <1>6 DEF BeginSave
    <3> QED  BY <3>1, <3>2, <3>3, <3>4, OneActs
  <2>2. CASE ~Save(s).valid
    <3>1. \A r \in Saves : pc'[r] = pc[r] \/ pc'[r] \notin Busy
      BY <1>0, <1>6, <2>2 DEF StoreTypes, BeginSave, Goto, Busy
    <3>2. UNCHANGED <<user, temp, writes, path, cleared, old, disturbed, uncovered>>
      BY <1>6, <2>2 DEF BeginSave
    <3> QED  BY <3>1, <3>2, OthersRest
  <2> QED  BY <2>1, <2>2
<1>7. ASSUME NEW s \in Saves, Visit(s)  PROVE  AloneInv'
  <2>1. PICK w \in WorkflowIds, q \in Seq(Frames) :
          /\ LookedAt(s, w, q)
          /\ CycleFound(s, q) \/ Skipped(s, w, q) \/ Unread(s, w, q) \/ Entered(s, w, q)
    BY <1>0, <1>7, VisitComesTo
  <2>2. pc[s] \in Busy /\ pc[s] = "walk" /\ UNCHANGED <<user, uncovered>>
    BY <1>7 DEF Visit, Busy
  <2>3. \A r \in Saves \ {s} : pc'[r] \notin Busy
    <3>1. Goto(s, "refused") \/ UNCHANGED pc
      BY <1>7 DEF Visit
    <3>2. \A r \in Saves \ {s} : pc'[r] = pc[r]
      BY <1>0, <3>1 DEF StoreTypes, Goto
    <3> QED  BY <1>3, <2>2, <3>2
  <2>4. /\ path[s] \in Seq(Frames) /\ cleared[s] \in SUBSET WorkflowIds
        /\ Walked(user, path[s], cleared[s], Save(s).id, Save(s).subs)
    BY <1>0, <1>2, <2>2 DEF StoreTypes, WalksSound
  <2>5. Closed(user, cleared[s])
    BY <2>4 DEF Walked
  <2>6. \/ pc'[s] = "refused"
        \/ /\ pc'[s] = "walk"
           /\ Walked(user, path'[s], cleared'[s], Save(s).id, Save(s).subs)
    <3>1. CASE CycleFound(s, q)
      BY <3>1 DEF CycleFound
    <3>2. CASE Skipped(s, w, q)
      <4>1. Walked(user, q, cleared[s], Save(s).id, Save(s).subs)
        BY <2>1, <2>4, <2>5, <3>2, SkipKeepsWalk DEF LookedAt, Skipped
      <4> QED  BY <3>2, <4>1 DEF Skipped
    <3>3. CASE Unread(s, w, q)
      <4>1. Closed(user, cleared[s] \cup {w})
        BY <2>5, <3>3 DEF Closed, Unread
      <4>2. Walked(user, q, cleared[s] \cup {w}, Save(s).id, Save(s).subs)
        BY <2>1, <2>4, <4>1, SkipKeepsWalk DEF LookedAt
      <4> QED  BY <3>3, <4>2 DEF Unread
    <3>4. CASE Entered(s, w, q)
      <4> DEFINE f == [id |-> w, todo |-> RunsOf(user, w)]
      <4>1. f \in Frames /\ f.id = w
        BY <1>0, ReadTyped DEF Frames, StoreTypes
      <4> HIDE DEF f
      <4>2. q \in Seq(Frames) /\ Unlike(q) /\ \A k \in 1 .. Len(q) : q[k].id # f.id
        BY <2>1, <3>4, <4>1 DEF LookedAt, Entered
      <4>3. PICK r : r = Append(q, f)
        OBVIOUS
      <4>4. /\ r \in Seq(Frames) /\ Len(r) = Len(q) + 1 /\ r[Len(q) + 1] = f
            /\ \A k \in 1 .. Len(q) : r[k] = q[k]
        BY <4>1, <4>2, <4>3, ChildEntered
      <4>5. r[Len(q) + 1] = [id |-> w, todo |-> RunsOf(user, w)]
        BY <4>4 DEF f
      <4>6. PICK p, C, id, subs : p = path[s] /\ C = cleared[s] /\ id = Save(s).id
                                  /\ subs = Save(s).subs
        OBVIOUS
      <4>7. Walked(user, r, C, id, subs)
        <5>1. /\ p \in Seq(Frames) /\ C \in SUBSET WorkflowIds /\ Walked(user, p, C, id, subs)
              /\ Len(q) = Len(p)
              /\ \A k \in 1 .. Len(p) :
                   /\ q[k].id = p[k].id
                   /\ q[k].todo = IF k = Len(p) THEN p[k].todo \ {w} ELSE p[k].todo
          BY <2>1, <2>4, <4>6 DEF LookedAt
        <5>2. q \in Seq(Frames)
          BY <4>2
        <5> QED  BY <4>4, <4>5, <5>1, <5>2, EnterKeepsWalk
      <4>8. path'[s] = r /\ pc'[s] = "walk" /\ cleared'[s] = cleared[s]
        BY <3>4, <4>3 DEF Entered, f
      <4> QED  BY <4>6, <4>7, <4>8
    <3> QED  BY <2>1, <3>1, <3>2, <3>3, <3>4
  <2>7. NoneTorn' /\ (~uncovered' => Acyclic(user'))
    BY <1>4, <2>2
  <2> QED  BY <2>2, <2>3, <2>6, <2>7, OneActs DEF Busy
<1>8. ASSUME NEW s \in Saves, Leave(s)  PROVE  AloneInv'
  <2>1. pc[s] \in Busy /\ pc[s] = "walk" /\ UNCHANGED <<user, uncovered>>
    BY <1>8 DEF Leave, Busy
  <2>2. \A r \in Saves \ {s} : pc'[r] \notin Busy
    <3>1. \A r \in Saves \ {s} : pc'[r] = pc[r]
      BY <1>0, <1>8 DEF Leave, StoreTypes, Goto
    <3> QED  BY <1>3, <2>1, <3>1
  <2>3. /\ path[s] \in Seq(Frames) /\ cleared[s] \in SUBSET WorkflowIds
        /\ Uncleared(path[s], cleared[s]) /\ Last(path[s]).todo = {}
        /\ Walked(user, path[s], cleared[s], Save(s).id, Save(s).subs)
    BY <1>0, <1>2, <1>8, <2>1 DEF StoreTypes, PathsStand, WalksSound, Leave
  <2>4. /\ Len(path[s]) # 1 => Walked(user, Front(path[s]), cleared[s] \cup {Last(path[s]).id},
                                      Save(s).id, Save(s).subs)
        /\ Len(path[s]) = 1 => Harmless(user, Save(s).id, Save(s).subs)
    BY <2>3, StoreAssumption, LeaveKeepsWalk
  <2>5. /\ path'[s] = Front(path[s]) /\ cleared'[s] = cleared[s] \cup {Last(path[s]).id}
        /\ pc'[s] = IF Len(path[s]) = 1 THEN "existing" ELSE "walk"
    BY <1>0, <1>8 DEF Leave, StoreTypes, Goto
  <2>6. NoneTorn' /\ (~uncovered' => Acyclic(user'))
    BY <1>4, <2>1
  <2> QED  BY <2>1, <2>2, <2>4, <2>5, <2>6, OneActs
<1>9. ASSUME NEW s \in Saves, ReadExisting(s) \/ OpenTemp(s) \/ WriteTemp(s)  PROVE  AloneInv'
  <2>1. pc[s] \in Busy \ {"walk"} /\ pc'[s] # "walk" /\ UNCHANGED uncovered
    BY <1>0, <1>9 DEF ReadExisting, OpenTemp, WriteTemp, Goto, StoreTypes, Busy
  <2>2. \A r \in Saves \ {s} : pc'[r] \notin Busy
    <3>1. \A r \in Saves \ {s} : pc'[r] = pc[r]
      BY <1>0, <1>9 DEF ReadExisting, OpenTemp, WriteTemp, StoreTypes, Goto
    <3> QED  BY <1>3, <2>1, <3>1
  <2>3. user' = user
    BY <1>2, <1>9 DEF ReadExisting, OpenTemp, WriteTemp, TempIsOwn
  <2>4. Harmless(user', Save(s).id, Save(s).subs)
    BY <1>2, <2>1, <2>3 DEF WalksSound
  <2>5. pc'[s] \in {"write", "rename"} => writes'[s] = "temp"
    <3>1. CASE ReadExisting(s)
      BY <1>0, <3>1 DEF ReadExisting, Goto, StoreTypes
    <3>2. CASE OpenTemp(s)
      BY <1>0, <3>2 DEF OpenTemp, StoreTypes
    <3>3. CASE WriteTemp(s)
      BY <1>2, <3>3 DEF WriteTemp, TempIsOwn
    <3> QED  BY <1>9, <3>1, <3>2, <3>3
  <2>6. pc'[s] = "rename" => temp'[Save(s).id] = Saved(s)'
    <3>1. CASE ReadExisting(s) \/ OpenTemp(s)
      BY <1>0, <3>1 DEF ReadExisting, OpenTemp, Goto, StoreTypes
    <3>2. CASE WriteTemp(s)
      <4>1. writes[s] = "temp" /\ Save(s).id \in WorkflowIds
        BY <1>2, <3>2, StoreAssumption DEF WriteTemp, TempIsOwn
      <4>2. temp' = [temp EXCEPT ![Save(s).id] = Saved(s)] /\ old' = old
        BY <3>2, <4>1 DEF WriteTemp, Saved
      <4> QED  BY <1>0, <4>1, <4>2 DEF StoreTypes, Saved
    <3> QED  BY <1>9, <3>1, <3>2
  <2>7. NoneTorn' /\ (~uncovered' => Acyclic(user'))
    BY <1>4, <2>1, <2>3
  <2> QED  BY <2>1, <2>2, <2>4, <2>5, <2>6, <2>7, OneActs
<1>10. ASSUME NEW s \in Saves, RenameTemp(s)  PROVE  AloneInv'
  <2> DEFINE id == Save(s).id
  <2>1. /\ pc[s] \in Busy /\ temp[id] = Saved(s) /\ id \in WorkflowIds
        /\ Save(s).subs \in SUBSET WorkflowIds /\ Harmless(user, id, Save(s).subs)
    BY <1>2, <1>10, StoreAssumption DEF RenameTemp, TempIsOwn, WalksSound, Busy
  <2>2. Saved(s) \in Files /\ IsFile(Saved(s)) /\ Saved(s).subs = Save(s).subs
    <3>1. Saved(s) \in Files /\ Saved(s).subs = Save(s).subs
      BY <1>0, <2>1 DEF Saved, Files, StoreTypes
    <3> QED  BY <3>1, StoreAssumption DEF IsFile
  <2>3. user' = [user EXCEPT ![id] = Saved(s)] /\ Goto(s, "done") /\ UNCHANGED uncovered
    BY <1>10, <2>1, <2>2 DEF RenameTemp, IsFile
  <2>4. user'[id] = Saved(s) /\ \A w \in WorkflowIds \ {id} : user'[w] = user[w]
    BY <1>0, <2>1, <2>3 DEF StoreTypes
  <2>5. NoneTorn'
    BY <1>2, <2>2, <2>4 DEF NoneTorn, IsFile
  <2>6. ASSUME ~uncovered'  PROVE  Acyclic(user')
    <3>1. RunsOf(user', id) = Save(s).subs
      BY <2>2, <2>4 DEF RunsOf, ReadOf, IsFile
    <3>2. \A w \in WorkflowIds \ {id} : RunsOf(user', w) = RunsOf(user, w)
      BY <2>4 DEF RunsOf, ReadOf
    <3>3. Acyclic(user)
      BY <1>2, <2>3, <2>6
    <3> QED  BY <2>1, <3>1, <3>2, <3>3, SaveIsAcyclic
  <2>7. pc'[s] = "done" /\ \A r \in Saves \ {s} : pc'[r] = pc[r]
    BY <1>0, <2>3 DEF Goto, StoreTypes
  <2>8. \A r \in Saves \ {s} : pc'[r] \notin Busy
    BY <1>3, <2>1, <2>7
  <2> QED  BY <2>5, <2>6, <2>7, <2>8, OneActs DEF Busy
<1>11. ASSUME NEW w \in WorkflowIds, Delete(w)  PROVE  AloneInv'
  <2>1. pc' = pc /\ \A r \in Saves : pc[r] \notin Busy
    BY <1>11 DEF Delete, Saving, Busy
  <2>2. user'[w] = NoFile /\ \A v \in WorkflowIds \ {w} : user'[v] = user[v]
    BY <1>0, <1>11 DEF Delete, StoreTypes
  <2>3. NoneTorn'
    BY <1>2, <2>2, StoreAssumption DEF NoneTorn
  <2>4. ASSUME ~uncovered'  PROVE  Acyclic(user')
    <3>1. ~uncovered /\ ~IsFile(Library[w])
      BY <1>11, <2>4 DEF Delete
    <3>2. RunsOf(user', w) = {}
      BY <2>2, <3>1 DEF RunsOf, ReadOf
    <3>3. \A v \in WorkflowIds \ {w} : RunsOf(user', v) = RunsOf(user, v)
      BY <2>2 DEF RunsOf, ReadOf
    <3> QED  BY <1>2, <3>1, <3>2, <3>3, DeleteIsAcyclic
  <2>5. OneSaves' /\ TempIsOwn' /\ WalksSound'
    BY <2>1 DEF OneSaves, TempIsOwn, WalksSound, Saving, Busy
  <2> QED  BY <2>3, <2>4, <2>5 DEF AloneInv
<1>12. ASSUME NEW t \in TriggerIds, DeleteTrigger(t)  PROVE  AloneInv'
  <2>1. UNCHANGED <<user, temp, writes, pc, path, cleared, old, disturbed, uncovered>>
    BY <1>12 DEF DeleteTrigger
  <2> QED  BY <2>1, OthersRest
<1>13. ASSUME NEW s \in Saves, VisitFails(s)  PROVE  AloneInv'
  BY <1>13 DEF VisitFails
<1> QED  BY <1>5, <1>6, <1>7, <1>8, <1>9, <1>10, <1>11, <1>12, <1>13 DEF StoreNext

(* As long as no two saves, and no save and delete, overlap, no workflow   *)
(* comes to run itself, unless a delete uncovers one of the library, and   *)
(* every file can be read; no inline trigger of an old file is lost, ever  *)
(* (workflow-store.ts).                                                    *)
THEOREM FilesAreSound == StoreSpec => []FilesHold
<1>1. TypeInv /\ AloneInv /\ [StoreNext]_storeVars => (TypeInv /\ AloneInv)'
  <2>1. TypeInv /\ AloneInv /\ StoreNext => (TypeInv /\ AloneInv)'
    BY StoreTypesKeep, PathsKeep, InlineKeeps, AloneKeeps DEF TypeInv
  <2>2. TypeInv /\ AloneInv /\ UNCHANGED storeVars => (TypeInv /\ AloneInv)'
    <3> SUFFICES ASSUME TypeInv, AloneInv, UNCHANGED storeVars  PROVE  TypeInv' /\ AloneInv'
      OBVIOUS
    <3>1. AloneInv'
      BY OthersRest DEF storeVars
    <3>2. InlineKept' /\ SaversAccount'
      BY KeptAlong DEF storeVars
    <3>3. StoreTypes' /\ PathsStand'
      BY DEF storeVars, TypeInv, StoreTypes, PathsStand
    <3> QED  BY <3>1, <3>2, <3>3 DEF TypeInv
  <2> QED  BY <2>1, <2>2
<1>2. TypeInv /\ AloneInv => FilesHold
  <2> SUFFICES ASSUME TypeInv, AloneInv  PROVE  FilesHold
    OBVIOUS
  <2>1. StoreTypeOK
    BY DEF TypeInv, StoreTypes, PathsStand, Uncleared, StoreTypeOK, Contents, Places
  <2>2. SubworkflowsAcyclic
    <3> SUFFICES ASSUME ~disturbed
                 PROVE  /\ ~uncovered => Acyclic(user)
                        /\ \A w \in WorkflowIds : user[w] # TornFile /\ Listed(w) = Read(w)
      BY DEF SubworkflowsAcyclic
    <3>1. NoneTorn /\ (~uncovered => Acyclic(user))
      BY DEF AloneInv
    <3>2. \A w \in WorkflowIds : user[w] # TornFile => Listed(w) = Read(w)
      BY DEF Listed, Read, ReadOf, IsFile
    <3> QED  BY <3>1, <3>2 DEF NoneTorn
  <2>3. LegacyTriggersSurvive
    BY DEF TypeInv, InlineKept, Accounted, LegacyTriggersSurvive
  <2> QED  BY <2>1, <2>2, <2>3 DEF FilesHold
<1> QED  BY <1>1, <1>2, StoreTypesStart, PTL DEF StoreSpec

-----------------------------------------------------------------------------
(* Templates                                                               *)

AllNodes == UNION {Nodes(w) : w \in DOMAIN Flows}
WalkFrames == [wf : DOMAIN Flows, at : AllNodes, in : AllNodes \cup {NoNode},
               state : {"visit", "inside"}, i : Nat]
Depends == {"loop", "parallel", "subworkflow"}
IsSeq(s) == s \in Seq({s[i] : i \in 1 .. Len(s)})

(* What must be upstream of a node for its outputs to be seen there.       *)
Strict(w, n) == Upstream(w, Sources(w, {n} \cup Around[w][n]))
Forks(w, n) == {c \in Around[w][n] : Node(w, c).kind = "parallel"}

(* What a scope that a walk has come with to a node holds, and `no`; of a  *)
(* loop it holds nothing.                                                  *)
Covers(f, s, no) ==
  /\ \A m \in DOMAIN s \cap Nodes(f.wf) : s[m] # {} =>
       /\ Repeats(f.wf, m) \/ m \in Strict(f.wf, f.at)
       /\ Node(f.wf, m).kind \notin {"start", "end", "sidenote"}
  /\ \A m \in no :
       (/\ m \in Nodes(f.wf) /\ Node(f.wf, m).kind # "loop"
        /\ Forks(f.wf, m) \subseteq Around[f.wf][f.at]) =>
         m \in DOMAIN s /\ Promised(f.wf, m) \subseteq s[m]

(* Besides the outputs of nodes.                                           *)
Based(f, s, level) ==
  /\ DOMAIN s \subseteq Nodes(f.wf) \cup {"globals", "inputs", "__inputs"}
  /\ IF level = 1 THEN /\ {"globals", "inputs"} \subseteq DOMAIN s
                       /\ s["globals"] = Flows[f.wf].globals
                       /\ s["inputs"] = DOMAIN Flows[f.wf].inputs
                  ELSE "globals" \notin DOMAIN s

(* The walks in progress: d numbers the scope of each, e its workflow.     *)
Opens(f) == IF f.state = "inside" /\ Kind(f) \in {"parallel", "subworkflow"} THEN 1 ELSE 0
Calls(f) == IF f.state = "inside" /\ Kind(f) = "subworkflow" THEN 1 ELSE 0

FrameOK(f) == /\ f.at \in Nodes(f.wf)
              /\ f.state = "inside" =>
                   Kind(f) \in Depends /\ (Kind(f) = "loop" => Node(f.wf, f.at).first # NoNode)
              /\ Orderly(f.wf) => f.in = Node(f.wf, f.at).in

Numbered(l, fr, d, e) ==
  /\ d \in [Nat -> Nat] /\ e \in [Nat -> Nat] /\ d[1] = 1 /\ e[1] = 1
  /\ \A k \in 1 .. l - 1 : d[k + 1] = d[k] + Opens(fr[k]) /\ e[k + 1] = e[k] + Calls(fr[k])
  /\ \A k \in 1 .. l : 1 <= e[k] /\ e[k] <= d[k]
  /\ \A j, k \in 1 .. l : j <= k => d[j] <= d[k] /\ e[j] <= e[k]

Linked(f, g, dj, dk, ej, ek) ==
  /\ f.state = "inside"
  /\ ej = ek => /\ f.wf = g.wf
                /\ Orderly(g.wf) => f.at \in Around[g.wf][g.at]
  /\ dj = dk => ej = ek /\ Kind(f) = "loop"

Nested(l, fr, d, e) ==
  \A j, k \in 1 .. l : j < k =>
    /\ Linked(fr[j], fr[k], d[j], d[k], e[j], e[k])
    /\ d[j] < d[k] /\ e[j] = e[k] =>
         \E q \in j .. k - 1 : Kind(fr[q]) = "parallel" /\ e[q] = e[j]

Shape(l, fr, d, e) ==
  /\ fr \in Seq(WalkFrames) /\ l = Len(fr)
  /\ \A k \in 1 .. l : FrameOK(fr[k])
  /\ Numbered(l, fr, d, e) /\ Nested(l, fr, d, e)

Good(f, s, no, level) == Orderly(f.wf) => Covers(f, s, no) /\ Based(f, s, level)
Held(l, fr, sc, no, d, e) == \A k \in 1 .. l : Good(fr[k], sc[d[k]], no[e[k]], e[k])

(* As the frame at the top sees it, and with what it has opened.           *)
Seen(l, fr, sc, no, d, e) ==
  /\ Shape(l, fr, d, e) /\ l > 0
  /\ IsSeq(sc) /\ no \in Seq(SUBSET AllNodes)
  /\ Len(sc) = d[l] /\ Len(no) = e[l]
  /\ Held(l, fr, sc, no, d, e)

Stack(l, fr, sc, no, d, e) ==
  /\ Shape(l, fr, d, e)
  /\ IsSeq(sc) /\ no \in Seq(SUBSET AllNodes)
  /\ Len(sc) = IF l = 0 THEN 1 ELSE d[l] + Opens(fr[l])
  /\ Len(no) = IF l = 0 THEN 1 ELSE e[l] + Calls(fr[l])
  /\ Held(l, fr, sc, no, d, e)

(* A frame has been entered, or one goes on with what another has returned.*)
Ready == /\ result = NoNode => frames # <<>> /\ Inner.state = "visit"
         /\ result # NoNode => frames = <<>> \/ Inner.state = "inside"

TemplateInv ==
  /\ run \in {"new", "refused", "walking", "over"}
  /\ \A x \in DOMAIN given : given[x] \in Values \cup {Refused}
  /\ signal \in {NoNode, "break", "continue"} /\ result \in {NoNode, "succeeded", "failed"}
  /\ run \in {"new", "refused"} => frames = <<>> /\ scopes = <<>> /\ normal = <<>> /\ result = NoNode
  /\ run \in {"walking", "over"} => /\ Refused \notin Range(given)
                                    /\ \E l, d, e : Stack(l, frames, scopes, normal, d, e)
  /\ run = "walking" => Ready
  /\ run = "over" => frames = <<>>

-----------------------------------------------------------------------------
(* Sequences of anything.                                                  *)
LEMMA IsSeqs == ASSUME NEW T, NEW s \in Seq(T)  PROVE IsSeq(s)
<1>1. s \in [1 .. Len(s) -> T] /\ Len(s) \in Nat
  BY LenProperties
<1>2. s \in [1 .. Len(s) -> {s[i] : i \in 1 .. Len(s)}]
  BY <1>1
<1> QED  BY <1>1, <1>2, SeqDef DEF IsSeq

LEMMA Appends ==
  ASSUME NEW s, IsSeq(s), NEW x
  PROVE  /\ IsSeq(Append(s, x)) /\ Len(Append(s, x)) = Len(s) + 1 /\ Len(s) \in Nat
         /\ \A i \in 1 .. Len(s) : Append(s, x)[i] = s[i]
         /\ Append(s, x)[Len(s) + 1] = x
<1>t. PICK T : T = {s[i] : i \in 1 .. Len(s)} \cup {x}
  OBVIOUS
<1>1. s \in Seq(T) /\ x \in T
  <2>1. {s[i] : i \in 1 .. Len(s)} \subseteq T
    BY <1>t
  <2> QED  BY <1>t, <2>1, SeqMonotonic DEF IsSeq
<1>2. /\ Append(s, x) \in Seq(T) /\ Len(Append(s, x)) = Len(s) + 1
      /\ \A i \in 1 .. Len(s) : Append(s, x)[i] = s[i]
      /\ Append(s, x)[Len(s) + 1] = x
  BY <1>1, AppendProperties
<1> QED  BY <1>1, <1>2, IsSeqs, LenProperties

LEMMA Fronts ==
  ASSUME NEW s, IsSeq(s), s # <<>>
  PROVE  /\ IsSeq(Front(s)) /\ Len(Front(s)) = Len(s) - 1 /\ Len(s) \in Nat /\ Len(s) > 0
         /\ \A i \in 1 .. Len(s) - 1 : Front(s)[i] = s[i]
         /\ Last(s) = s[Len(s)]
<1>t. PICK T : T = {s[i] : i \in 1 .. Len(s)}
  OBVIOUS
<1>1. s \in Seq(T) /\ Len(s) \in Nat /\ Len(s) > 0
  <2>1. s \in Seq(T)
    BY <1>t DEF IsSeq
  <2> QED  BY <2>1, EmptySeq, LenProperties
<1>2. /\ Front(s) \in Seq(T) /\ Len(Front(s)) = Len(s) - 1
      /\ \A i \in 1 .. Len(s) - 1 : Front(s)[i] = s[i]
  <2>1. 1 \in 1 .. Len(s) + 1 /\ Len(s) - 1 \in 1 - 1 .. Len(s)
    BY <1>1
  <2>2. SubSeq(s, 1, Len(s) - 1) \in Seq(T)
    BY <1>1, <2>1, SubSeqProperties
  <2>3. Len(SubSeq(s, 1, Len(s) - 1)) = IF 1 <= Len(s) - 1 THEN (Len(s) - 1) - 1 + 1 ELSE 0
    BY <1>1, <2>1, SubSeqProperties
  <2>4. \A i \in 1 .. (Len(s) - 1) - 1 + 1 : SubSeq(s, 1, Len(s) - 1)[i] = s[1 + i - 1]
    BY <1>1, <2>1, SubSeqProperties
  <2>5. \A i \in 1 .. Len(s) - 1 : SubSeq(s, 1, Len(s) - 1)[i] = s[i]
    BY <1>1, <2>4
  <2>f. PICK f : f = SubSeq(s, 1, Len(s) - 1)
    OBVIOUS
  <2>6. Front(s) = f
    BY <2>f DEF Front
  <2>7. f \in Seq(T) /\ Len(f) = Len(s) - 1
    <3>1. f \in Seq(T)
      BY <2>2, <2>f
    <3>2. Len(f) = IF 1 <= Len(s) - 1 THEN (Len(s) - 1) - 1 + 1 ELSE 0
      BY <2>3, <2>f, Zenon
    <3> HIDE <2>f
    <3>3. PICK n : n = Len(s)
      OBVIOUS
    <3> QED  BY <1>1, <3>1, <3>2, <3>3
  <2> QED  BY <2>5, <2>6, <2>7, <2>f
<1> QED  BY <1>1, <1>2, IsSeqs DEF Last

-----------------------------------------------------------------------------
(* Containers.                                                             *)
LEMMA AroundIs ==
  ASSUME NEW w \in DOMAIN Flows, NEW n \in Nodes(w)
  PROVE  Around[w][n] = {c \in Nodes(w) : \A R \in SUBSET Nodes(w) :
                                             Parents(w, R \cup {n}) \subseteq R => c \in R}
  BY DEF Around

LEMMA InAround ==
  ASSUME NEW w \in DOMAIN Flows, NEW n \in Nodes(w), NEW c \in Nodes(w)
  PROVE  c \in Around[w][n]
           <=> \A R \in SUBSET Nodes(w) : Parents(w, R \cup {n}) \subseteq R => c \in R
<1>a. PICK A : A = {b \in Nodes(w) : \A R \in SUBSET Nodes(w) :
                                         Parents(w, R \cup {n}) \subseteq R => b \in R}
  OBVIOUS
<1>1. Around[w][n] = A
  BY <1>a, AroundIs
<1>2. c \in A <=> \A R \in SUBSET Nodes(w) : Parents(w, R \cup {n}) \subseteq R => c \in R
  BY <1>a
<1> QED  BY <1>1, <1>2

LEMMA ParentsIn ==
  ASSUME NEW w \in DOMAIN Flows, NEW R \in SUBSET Nodes(w), NEW n \in Nodes(w)
  PROVE  Parents(w, R \cup {n}) \subseteq R
           <=> \A m \in R \cup {n} : Node(w, m).in # NoNode => Node(w, m).in \in R
  BY DEF Parents

LEMMA AroundCloses ==
  ASSUME NEW w \in DOMAIN Flows, NEW n \in Nodes(w)
  PROVE  /\ Around[w][n] \subseteq Nodes(w)
         /\ Node(w, n).in # NoNode => Node(w, n).in \in Around[w][n]
         /\ \A c \in Around[w][n] : Around[w][c] \subseteq Around[w][n]
         /\ n \notin Around[w][n]
<1>1. WellFormed(w)
  BY TemplatesAssumption
<1>2. Around[w][n] \subseteq Nodes(w) /\ n \notin Around[w][n]
  BY <1>1, AroundIs DEF WellFormed
<1>3. ASSUME Node(w, n).in # NoNode  PROVE Node(w, n).in \in Around[w][n]
  <2>1. Node(w, n).in \in Nodes(w)
    BY <1>1, <1>3 DEF WellFormed
  <2>2. \A R \in SUBSET Nodes(w) : Parents(w, R \cup {n}) \subseteq R => Node(w, n).in \in R
    BY <1>3, ParentsIn
  <2>p. PICK p : p = Node(w, n).in
    OBVIOUS
  <2> QED  BY <2>1, <2>2, <2>p, InAround
<1>4. ASSUME NEW c \in Around[w][n], NEW b \in Around[w][c]  PROVE b \in Around[w][n]
  <2>1. c \in Nodes(w) /\ b \in Nodes(w)
    BY <1>2, AroundIs
  <2>2. ASSUME NEW R \in SUBSET Nodes(w), Parents(w, R \cup {n}) \subseteq R  PROVE b \in R
    <3>1. c \in R
      BY <2>1, <2>2, InAround
    <3>2. \A m \in R \cup {n} : Node(w, m).in # NoNode => Node(w, m).in \in R
      BY <2>2, ParentsIn
    <3>3. \A m \in R \cup {c} : Node(w, m).in # NoNode => Node(w, m).in \in R
      BY <3>1, <3>2
    <3>4. Parents(w, R \cup {c}) \subseteq R
      BY <2>1, <3>3, ParentsIn
    <3> QED  BY <2>1, <3>4, InAround
  <2> QED  BY <2>1, <2>2, InAround
<1> QED  BY <1>2, <1>3, <1>4

LEMMA AroundLeast ==
  ASSUME NEW w \in DOMAIN Flows, NEW n \in Nodes(w), NEW R \in SUBSET Nodes(w),
         Node(w, n).in # NoNode => Node(w, n).in \in R,
         \A m \in R : Node(w, m).in # NoNode => Node(w, m).in \in R
  PROVE  Around[w][n] \subseteq R
<1>1. \A m \in R \cup {n} : Node(w, m).in # NoNode => Node(w, m).in \in R
  OBVIOUS
<1>2. Parents(w, R \cup {n}) \subseteq R
  BY <1>1, ParentsIn
<1>3. Around[w][n] \subseteq Nodes(w)
  BY AroundIs
<1> QED  BY <1>2, <1>3, InAround

(* The containers around a node are its own and those around that.         *)
LEMMA AroundUp ==
  ASSUME NEW w \in DOMAIN Flows, NEW n \in Nodes(w)
  PROVE  Around[w][n] = IF Node(w, n).in = NoNode THEN {}
                        ELSE {Node(w, n).in} \cup Around[w][Node(w, n).in]
<1>1. CASE Node(w, n).in = NoNode
  <2>e. PICK R : R = {}
    OBVIOUS
  <2>r. R \in SUBSET Nodes(w) /\ \A m \in R : Node(w, m).in # NoNode => Node(w, m).in \in R
    BY <2>e
  <2>1. Around[w][n] \subseteq R
    BY <1>1, <2>r, AroundLeast
  <2> QED  BY <1>1, <2>1, <2>e
<1>2. CASE Node(w, n).in # NoNode
  <2>p. PICK p : p = Node(w, n).in
    OBVIOUS
  <2>1. p \in Around[w][n] /\ p \in Nodes(w) /\ Around[w][p] \subseteq Around[w][n]
    BY <1>2, <2>p, AroundCloses
  <2>2. \A m \in {p} \cup Around[w][p] :
          Node(w, m).in # NoNode => Node(w, m).in \in {p} \cup Around[w][p]
    BY <2>1, AroundCloses
  <2>3. {p} \cup Around[w][p] \in SUBSET Nodes(w)
    BY <2>1, AroundCloses
  <2>r. PICK R : R = {p} \cup Around[w][p]
    OBVIOUS
  <2>4. Around[w][n] \subseteq R
    <3>1. Node(w, n).in \in R /\ R \in SUBSET Nodes(w)
      BY <2>p, <2>r, <2>3
    <3>2. \A m \in R : Node(w, m).in # NoNode => Node(w, m).in \in R
      BY <2>2, <2>r
    <3> QED  BY <3>1, <3>2, AroundLeast
  <2> QED  BY <1>2, <2>p, <2>1, <2>4, <2>r
<1> QED  BY <1>1, <1>2

(* Of two containers around a node one is around the other.                *)
LEMMA AroundLine ==
  ASSUME NEW w \in DOMAIN Flows, NEW n \in Nodes(w), NEW c \in Around[w][n], NEW b \in Around[w][n]
  PROVE  c = b \/ c \in Around[w][b] \/ b \in Around[w][c]
<1>r. PICK R : R = {x \in Around[w][n] : x = b \/ x \in Around[w][b] \/ b \in Around[w][x]}
  OBVIOUS
<1>1. R \in SUBSET Nodes(w) /\ b \in Nodes(w)
  BY <1>r, AroundCloses
<1>2. ASSUME Node(w, n).in # NoNode  PROVE Node(w, n).in \in R
  <2>p. PICK p : p = Node(w, n).in
    OBVIOUS
  <2>1. p \in Around[w][n] /\ Around[w][n] = {p} \cup Around[w][p]
    BY <1>2, <2>p, AroundCloses, AroundUp
  <2> QED  BY <1>r, <2>p, <2>1
<1>3. ASSUME NEW x \in R, Node(w, x).in # NoNode  PROVE Node(w, x).in \in R
  <2>p. PICK p : p = Node(w, x).in
    OBVIOUS
  <2>0. x \in Nodes(w) /\ x \in Around[w][n]
    BY <1>1, <1>r
  <2>1. p \in Around[w][x] /\ Around[w][x] = {p} \cup Around[w][p] /\ Around[w][x] \subseteq Around[w][n]
    BY <1>3, <2>p, <2>0, AroundCloses, AroundUp
  <2>2. CASE x = b
    BY <1>r, <2>p, <2>1, <2>2
  <2>3. CASE x \in Around[w][b]
    <3>1. Around[w][x] \subseteq Around[w][b]
      BY <1>1, <2>3, AroundCloses
    <3> QED  BY <1>r, <2>p, <2>1, <3>1
  <2>4. CASE b \in Around[w][x]
    BY <1>r, <2>p, <2>1, <2>4
  <2> QED  BY <1>r, <2>2, <2>3, <2>4
<1>4. Around[w][n] \subseteq R
  BY <1>1, <1>2, <1>3, AroundLeast
<1> QED  BY <1>r, <1>4

-----------------------------------------------------------------------------
(* Upstream.                                                               *)
LEMMA SourcesIn ==
  ASSUME NEW w \in DOMAIN Flows, NEW S
  PROVE  /\ Sources(w, S) \subseteq Nodes(w)
         /\ \A T : S \subseteq T => Sources(w, S) \subseteq Sources(w, T)
         /\ \A x \in Sources(w, S) : \E s \in S : x \in Sources(w, {s})
  BY TemplatesAssumption DEF WellFormed, Sources

LEMMA UpstreamCloses ==
  ASSUME NEW w \in DOMAIN Flows, NEW S \in SUBSET Nodes(w)
  PROVE  /\ S \subseteq Upstream(w, S) /\ Upstream(w, S) \subseteq Nodes(w)
         /\ Sources(w, Upstream(w, S)) \subseteq Upstream(w, S)
<1>1. S \subseteq Upstream(w, S) /\ Upstream(w, S) \subseteq Nodes(w)
  BY DEF Upstream
<1>2. ASSUME NEW m \in Sources(w, Upstream(w, S)), NEW R \in SUBSET Nodes(w),
             S \cup Sources(w, R) \subseteq R
      PROVE  m \in R
  <2>1. Upstream(w, S) \subseteq R
    BY <1>2 DEF Upstream
  <2> QED  BY <1>2, <2>1, SourcesIn
<1> QED  BY <1>1, <1>2, SourcesIn DEF Upstream

LEMMA UpstreamLeast ==
  ASSUME NEW w \in DOMAIN Flows, NEW S, NEW R \in SUBSET Nodes(w), S \subseteq R,
         Sources(w, R) \subseteq R
  PROVE  Upstream(w, S) \subseteq R
  BY DEF Upstream

LEMMA UpstreamGrows ==
  ASSUME NEW w \in DOMAIN Flows, NEW S, NEW T \in SUBSET Nodes(w), S \subseteq Upstream(w, T)
  PROVE  Upstream(w, S) \subseteq Upstream(w, T)
  BY UpstreamCloses, UpstreamLeast

(* What is upstream of some is upstream of one of them.                    *)
LEMMA UpstreamOfOne ==
  ASSUME NEW w \in DOMAIN Flows, NEW S \in SUBSET Nodes(w), NEW m \in Upstream(w, Sources(w, S))
  PROVE  \E s \in S : m \in Upstream(w, Sources(w, {s}))
<1>r. PICK R : R = {x \in Nodes(w) : \E s \in S : x \in Upstream(w, Sources(w, {s}))}
  OBVIOUS
<1>1. Sources(w, S) \subseteq R
  <2> SUFFICES ASSUME NEW x \in Sources(w, S)  PROVE x \in R
    OBVIOUS
  <2>1. PICK s \in S : x \in Sources(w, {s})
    BY SourcesIn
  <2>2. x \in Upstream(w, Sources(w, {s})) /\ x \in Nodes(w)
    BY <2>1, SourcesIn, UpstreamCloses
  <2> QED  BY <1>r, <2>2
<1>2. Sources(w, R) \subseteq R
  <2> SUFFICES ASSUME NEW x \in Sources(w, R)  PROVE x \in R
    OBVIOUS
  <2>1. PICK r \in R : x \in Sources(w, {r})
    BY SourcesIn
  <2>2. PICK s \in S : r \in Upstream(w, Sources(w, {s}))
    BY <1>r
  <2>3. Sources(w, {r}) \subseteq Sources(w, Upstream(w, Sources(w, {s})))
    BY <2>2, SourcesIn
  <2>4. x \in Upstream(w, Sources(w, {s})) /\ x \in Nodes(w)
    BY <2>1, <2>3, SourcesIn, UpstreamCloses
  <2> QED  BY <1>r, <2>4
<1>3. Upstream(w, Sources(w, S)) \subseteq R
  <2>a. PICK a : a = Sources(w, S)
    OBVIOUS
  <2>1. a \subseteq R /\ R \in SUBSET Nodes(w)
    BY <1>1, <1>r, <2>a
  <2>2. Upstream(w, a) \subseteq R
    BY <1>2, <2>1, UpstreamLeast
  <2> QED  BY <2>2, <2>a
<1> QED  BY <1>r, <1>3

LEMMA UpstreamBeside ==
  ASSUME NEW w \in DOMAIN Flows, Orderly(w), NEW s \in Nodes(w), NEW m \in Upstream(w, Sources(w, {s}))
  PROVE  m \in Nodes(w) /\ Node(w, m).in = Node(w, s).in
<1>r. PICK R : R = {x \in Nodes(w) : Node(w, x).in = Node(w, s).in}
  OBVIOUS
<1>1. \A S \in SUBSET R : Sources(w, S) \subseteq R
  BY <1>r, TemplatesAssumption DEF Sources, Orderly, WellFormed
<1>2. Upstream(w, Sources(w, {s})) \subseteq R
  <2>a. PICK a : a = Sources(w, {s})
    OBVIOUS
  <2>1. {s} \in SUBSET R /\ R \in SUBSET R
    BY <1>r
  <2>2. a \subseteq R /\ Sources(w, R) \subseteq R /\ R \in SUBSET Nodes(w)
    BY <1>1, <1>r, <2>1, <2>a
  <2>3. Upstream(w, a) \subseteq R
    BY <2>2, UpstreamLeast
  <2> QED  BY <2>3, <2>a
<1> QED  BY <1>r, <1>2

(* A node that is upstream of itself or of what it is around can be come to*)
(* again.                                                                  *)
LEMMA FlaggedRepeats ==
  ASSUME NEW w \in DOMAIN Flows, Orderly(w), NEW n \in Nodes(w), NEW m \in Strict(w, n),
         m \in {n} \cup Around[w][n]
  PROVE  Repeats(w, m)
<1>1. {n} \cup Around[w][n] \in SUBSET Nodes(w)
  BY AroundCloses
<1>2. PICK s \in {n} \cup Around[w][n] : m \in Upstream(w, Sources(w, {s}))
  BY <1>1, UpstreamOfOne DEF Strict
<1>3. m \in Nodes(w) /\ s \in Nodes(w) /\ Node(w, m).in = Node(w, s).in
  BY <1>1, <1>2, UpstreamBeside
<1>p. PICK p : p = Node(w, m).in
  OBVIOUS
<1>4. Around[w][m] = Around[w][s]
  <2>1. Around[w][m] = IF p = NoNode THEN {} ELSE {p} \cup Around[w][p]
    BY <1>3, <1>p, AroundUp
  <2>2. Around[w][s] = IF p = NoNode THEN {} ELSE {p} \cup Around[w][p]
    BY <1>3, <1>p, AroundUp
  <2> QED  BY <2>1, <2>2
<1>5. s \notin Around[w][m] /\ m \notin Around[w][s]
  BY <1>3, <1>4, AroundCloses
<1>6. m = s
  <2>1. CASE m = n
    BY <1>2, <1>5, <2>1
  <2>2. CASE s = n
    BY <1>5, <2>2
  <2>3. CASE m \in Around[w][n] /\ s \in Around[w][n]
    BY <1>5, <2>3, AroundLine
  <2> QED  BY <1>2, <2>1, <2>2, <2>3
<1> QED  BY <1>2, <1>6 DEF Repeats

-----------------------------------------------------------------------------
(* The frames.                                                             *)
LEMMA InSeq ==
  ASSUME NEW s, IsSeq(s), NEW T, \A i \in 1 .. Len(s) : s[i] \in T
  PROVE  s \in Seq(T)
<1>1. {s[i] : i \in 1 .. Len(s)} \subseteq T
  OBVIOUS
<1> QED  BY <1>1, SeqMonotonic DEF IsSeq

LEMMA Replaces ==
  ASSUME NEW s, IsSeq(s), s # <<>>, NEW x
  PROVE  /\ IsSeq(Append(Front(s), x)) /\ Len(Append(Front(s), x)) = Len(s)
         /\ \A i \in 1 .. Len(s) - 1 : Append(Front(s), x)[i] = s[i]
         /\ Append(Front(s), x)[Len(s)] = x
         /\ Len(s) \in Nat /\ Len(s) > 0 /\ Last(s) = s[Len(s)]
<1>f. PICK f : f = Front(s)
  OBVIOUS
<1>n. PICK n : n = Len(s)
  OBVIOUS
<1>1. /\ IsSeq(f) /\ Len(f) = n - 1 /\ n \in Nat /\ n > 0
      /\ \A i \in 1 .. n - 1 : f[i] = s[i]
      /\ Last(s) = s[n]
  BY <1>f, <1>n, Fronts
<1>2. /\ IsSeq(Append(f, x)) /\ Len(Append(f, x)) = Len(f) + 1
      /\ \A i \in 1 .. Len(f) : Append(f, x)[i] = f[i]
      /\ Append(f, x)[Len(f) + 1] = x
  BY <1>1, Appends
<1>3. Len(f) + 1 = n
  BY <1>1
<1> QED  BY <1>f, <1>n, <1>1, <1>2, <1>3

(* The frame at the top may be replaced by another within the same.        *)
LEMMA ShapeTop ==
  ASSUME NEW l, NEW fr, NEW d, NEW e, Shape(l, fr, d, e), l > 0, NEW g \in WalkFrames, FrameOK(g),
         g.wf = Last(fr).wf, Orderly(g.wf) => Around[g.wf][g.at] = Around[g.wf][Last(fr).at]
  PROVE  Shape(l, Append(Front(fr), g), d, e)
<1>r. PICK r : r = Append(Front(fr), g)
  OBVIOUS
<1>0. fr \in Seq(WalkFrames) /\ IsSeq(fr) /\ l = Len(fr) /\ l \in Nat /\ fr # <<>>
  <2>1. fr \in Seq(WalkFrames) /\ l = Len(fr)
    BY DEF Shape
  <2> QED  BY <2>1, IsSeqs, LenProperties, EmptySeq
<1>1. /\ IsSeq(r) /\ Len(r) = l
      /\ \A i \in 1 .. l - 1 : r[i] = fr[i]
      /\ r[l] = g /\ Last(fr) = fr[l]
  <2>1. /\ IsSeq(r) /\ Len(r) = Len(fr)
        /\ \A i \in 1 .. Len(fr) - 1 : r[i] = fr[i]
        /\ r[Len(fr)] = g /\ Last(fr) = fr[Len(fr)]
    <3>1. LET t == Append(Front(fr), g) IN
          /\ IsSeq(t) /\ Len(t) = Len(fr)
          /\ \A i \in 1 .. Len(fr) - 1 : t[i] = fr[i]
          /\ t[Len(fr)] = g /\ Last(fr) = fr[Len(fr)]
      BY <1>0, Replaces
    <3> QED  BY <1>r, <3>1, Zenon
  <2> QED  BY <1>0, <2>1, Zenon
<1>2. \A i \in 1 .. l : i # l => i \in 1 .. l - 1
  BY <1>0
<1>3. r \in Seq(WalkFrames)
  <2>1. \A i \in 1 .. l : r[i] \in WalkFrames
    BY <1>0, <1>1, <1>2, ElementOfSeq
  <2> QED  BY <1>1, <2>1, InSeq
<1>4. \A k \in 1 .. l : FrameOK(r[k])
  BY <1>1, <1>2 DEF Shape
<1>5. Numbered(l, r, d, e)
  <2>1. Numbered(l, fr, d, e)
    BY DEF Shape
  <2> QED  BY <1>1, <2>1, Zenon DEF Numbered
<1>6. ASSUME NEW j \in 1 .. l, NEW k \in 1 .. l, j < k
      PROVE  /\ Linked(r[j], r[k], d[j], d[k], e[j], e[k])
             /\ d[j] < d[k] /\ e[j] = e[k] =>
                  \E q \in j .. k - 1 : Kind(r[q]) = "parallel" /\ e[q] = e[j]
  <2>1. /\ Linked(fr[j], fr[k], d[j], d[k], e[j], e[k])
        /\ d[j] < d[k] /\ e[j] = e[k] =>
             \E q \in j .. k - 1 : Kind(fr[q]) = "parallel" /\ e[q] = e[j]
    BY <1>6 DEF Shape, Nested
  <2>2. r[j] = fr[j]
    BY <1>0, <1>1, <1>6
  <2>3. r[k] = fr[k] \/ k = l
    BY <1>1, <1>2
  <2>4. Linked(r[j], r[k], d[j], d[k], e[j], e[k])
    <3>1. CASE r[k] = fr[k]
      BY <2>1, <2>2, <3>1
    <3>2. CASE k = l
      BY <1>1, <2>1, <2>2, <3>2 DEF Linked
    <3> QED  BY <2>3, <3>1, <3>2
  <2>5. \A q \in j .. k - 1 : r[q] = fr[q]
    BY <1>0, <1>1, <1>6
  <2> QED  BY <2>1, <2>4, <2>5
<1>7. Nested(l, r, d, e)
  BY <1>6 DEF Nested
<1> QED  BY <1>1, <1>3, <1>4, <1>5, <1>7, <1>r DEF Shape

LEMMA ShapeFront ==
  ASSUME NEW l, NEW fr, NEW d, NEW e, Shape(l, fr, d, e), l > 0
  PROVE  Shape(l - 1, Front(fr), d, e)
<1>r. PICK r : r = Front(fr)
  OBVIOUS
<1>0. fr \in Seq(WalkFrames) /\ IsSeq(fr) /\ l = Len(fr) /\ l \in Nat /\ fr # <<>>
  <2>1. fr \in Seq(WalkFrames) /\ l = Len(fr)
    BY DEF Shape
  <2> QED  BY <2>1, IsSeqs, LenProperties, EmptySeq
<1>m. PICK m : m = l - 1
  OBVIOUS
<1>1. /\ IsSeq(r) /\ Len(r) = m
      /\ \A i \in 1 .. m : r[i] = fr[i]
  BY <1>r, <1>m, <1>0, Fronts
<1>2. /\ m \in Nat /\ \A i \in 1 .. m : i \in 1 .. l
      /\ \A i \in 1 .. m - 1 : i \in 1 .. l - 1 /\ i \in 1 .. m
  BY <1>0, <1>m
<1>3. r \in Seq(WalkFrames)
  <2>1. \A i \in 1 .. m : r[i] \in WalkFrames
    BY <1>0, <1>1, <1>2, ElementOfSeq
  <2> QED  BY <1>1, <2>1, InSeq
<1>4. \A k \in 1 .. m : FrameOK(r[k])
  BY <1>1, <1>2 DEF Shape
<1>5. Numbered(m, r, d, e)
  <2>1. Numbered(l, fr, d, e)
    BY DEF Shape
  <2> QED  BY <1>1, <1>2, <2>1, Zenon DEF Numbered
<1>6. ASSUME NEW j \in 1 .. m, NEW k \in 1 .. m, j < k
      PROVE  /\ Linked(r[j], r[k], d[j], d[k], e[j], e[k])
             /\ d[j] < d[k] /\ e[j] = e[k] =>
                  \E q \in j .. k - 1 : Kind(r[q]) = "parallel" /\ e[q] = e[j]
  <2>1. /\ Linked(fr[j], fr[k], d[j], d[k], e[j], e[k])
        /\ d[j] < d[k] /\ e[j] = e[k] =>
             \E q \in j .. k - 1 : Kind(fr[q]) = "parallel" /\ e[q] = e[j]
    BY <1>2, <1>6 DEF Shape, Nested
  <2>2. r[j] = fr[j] /\ r[k] = fr[k]
    BY <1>1
  <2>5. \A q \in j .. k - 1 : r[q] = fr[q]
    BY <1>1, <1>2, <1>6
  <2> QED  BY <2>1, <2>2, <2>5
<1>7. Nested(m, r, d, e)
  BY <1>6 DEF Nested
<1> QED  BY <1>1, <1>3, <1>4, <1>5, <1>7, <1>r, <1>m DEF Shape

(* A walk within what the frame at the top waits for.                      *)
LEMMA ShapePush ==
  ASSUME NEW l, NEW fr, NEW d, NEW e, Shape(l, fr, d, e), l > 0, NEW f, f = Last(fr), f.state = "inside",
         NEW g \in WalkFrames, FrameOK(g), NEW d2, NEW e2,
         d2 = [i \in Nat |-> IF i = l + 1 THEN d[l] + Opens(f) ELSE d[i]],
         e2 = [i \in Nat |-> IF i = l + 1 THEN e[l] + Calls(f) ELSE e[i]],
         Kind(f) \in {"loop", "parallel"} =>
           /\ g.wf = f.wf
           /\ Orderly(g.wf) => Around[g.wf][g.at] = {f.at} \cup Around[f.wf][f.at]
  PROVE  Shape(l + 1, Append(fr, g), d2, e2)
<1>r. PICK r : r = Append(fr, g)
  OBVIOUS
<1>0. fr \in Seq(WalkFrames) /\ IsSeq(fr) /\ l = Len(fr) /\ l \in Nat /\ fr # <<>> /\ f = fr[l]
  <2>1. fr \in Seq(WalkFrames) /\ l = Len(fr)
    BY DEF Shape
  <2> QED  BY <2>1, IsSeqs, LenProperties, EmptySeq, Fronts
<1>1. /\ IsSeq(r) /\ Len(r) = l + 1
      /\ \A i \in 1 .. l : r[i] = fr[i]
      /\ r[l + 1] = g
  BY <1>r, <1>0, Appends
<1>2. \A i \in 1 .. l + 1 : i \in 1 .. l \/ i = l + 1
  BY <1>0
<1>3. r \in Seq(WalkFrames)
  <2>1. \A i \in 1 .. l + 1 : r[i] \in WalkFrames
    BY <1>0, <1>1, <1>2, ElementOfSeq
  <2> QED  BY <1>1, <2>1, InSeq
<1>4. \A k \in 1 .. l + 1 : FrameOK(r[k])
  BY <1>1, <1>2 DEF Shape
<1>g. l \in Nat /\ l \in 1 .. l /\ l + 1 \in Nat
  BY <1>0
<1>p. /\ d \in [Nat -> Nat] /\ e \in [Nat -> Nat] /\ d[1] = 1 /\ e[1] = 1
      /\ \A k \in 1 .. l - 1 : d[k + 1] = d[k] + Opens(fr[k]) /\ e[k + 1] = e[k] + Calls(fr[k])
      /\ \A k \in 1 .. l : 1 <= e[k] /\ e[k] <= d[k]
      /\ \A j, k \in 1 .. l : j <= k => d[j] <= d[k] /\ e[j] <= e[k]
  BY Zenon DEF Shape, Numbered
<1>d. /\ d2 \in [Nat -> Nat] /\ e2 \in [Nat -> Nat]
      /\ \A i \in 1 .. l : d2[i] = d[i] /\ e2[i] = e[i] /\ d[i] \in Nat /\ e[i] \in Nat
      /\ d2[l + 1] = d[l] + Opens(f) /\ e2[l + 1] = e[l] + Calls(f)
      /\ Opens(f) \in {0, 1} /\ Calls(f) \in {0, 1} /\ Calls(f) <= Opens(f)
      /\ \A i \in 1 .. l : d[i] <= d[l] /\ e[i] <= e[l]
  <2>1. Opens(f) \in {0, 1} /\ Calls(f) \in {0, 1} /\ Calls(f) <= Opens(f)
    BY DEF Opens, Calls
  <2>0. \A i \in 1 .. l : i \in Nat /\ i <= l /\ i # l + 1
    BY <1>0
  <2>2. \A i \in 1 .. l : d[i] <= d[l] /\ e[i] <= e[l]
    BY <1>p, <1>g, <2>0, Zenon
  <2>3. /\ d \in [Nat -> Nat] /\ e \in [Nat -> Nat]
        /\ \A i \in 1 .. l : d[i] \in Nat /\ e[i] \in Nat
    BY <1>p, <2>0
  <2>o. PICK o : o = Opens(f)
    OBVIOUS
  <2>c. PICK c : c = Calls(f)
    OBVIOUS
  <2>4. d2 \in [Nat -> Nat] /\ d2[l + 1] = d[l] + o /\ \A i \in 1 .. l : d2[i] = d[i]
    <3>1. d[l] + o \in Nat
      BY <1>g, <2>1, <2>3, <2>o
    <3> QED  BY <1>g, <2>0, <2>3, <2>o, <3>1
  <2>5. e2 \in [Nat -> Nat] /\ e2[l + 1] = e[l] + c /\ \A i \in 1 .. l : e2[i] = e[i]
    <3>1. e[l] + c \in Nat
      BY <1>g, <2>1, <2>3, <2>c
    <3> QED  BY <1>g, <2>0, <2>3, <2>c, <3>1
  <2> QED  BY <2>1, <2>2, <2>3, <2>4, <2>5, <2>o, <2>c
<1>5. Numbered(l + 1, r, d2, e2)
  <2>1. d2[1] = 1 /\ e2[1] = 1
    BY <1>0, <1>d, <1>p
  <2>2. ASSUME NEW k \in 1 .. l
        PROVE  d2[k + 1] = d2[k] + Opens(r[k]) /\ e2[k + 1] = e2[k] + Calls(r[k])
    <3>1. CASE k = l
      BY <1>0, <1>1, <1>d, <3>1
    <3>2. CASE k # l
      <4>1. k \in 1 .. l - 1 /\ k + 1 \in 1 .. l
        BY <1>0, <3>2
      <4>2. d[k + 1] = d[k] + Opens(fr[k]) /\ e[k + 1] = e[k] + Calls(fr[k])
        BY <1>p, <4>1, Zenon
      <4>3. d2[k + 1] = d[k + 1] /\ e2[k + 1] = e[k + 1]
        BY <1>d, <4>1, Zenon
      <4>4. d2[k] = d[k] /\ e2[k] = e[k] /\ r[k] = fr[k]
        BY <1>1, <1>d, Zenon
      <4> QED  BY <4>2, <4>3, <4>4, Zenon
    <3> QED  BY <3>1, <3>2
  <2>3. ASSUME NEW k \in 1 .. l + 1  PROVE 1 <= e2[k] /\ e2[k] <= d2[k]
    <3>1. 1 <= e[l] /\ e[l] <= d[l] /\ \A i \in 1 .. l : 1 <= e[i] /\ e[i] <= d[i]
      BY <1>g, <1>p, Zenon
    <3>2. CASE k = l + 1
      BY <1>g, <1>d, <3>1, <3>2
    <3> QED  BY <1>2, <1>d, <3>1, <3>2
  <2>4. ASSUME NEW j \in 1 .. l + 1, NEW k \in 1 .. l + 1, j <= k
        PROVE  d2[j] <= d2[k] /\ e2[j] <= e2[k]
    <3>1. CASE k = l + 1
      BY <1>0, <1>2, <1>d, <3>1
    <3>2. CASE k \in 1 .. l
      <4>1. j \in 1 .. l
        BY <1>0, <2>4, <3>2
      <4> QED  BY <1>d, <1>p, <2>4, <3>2, <4>1
    <3> QED  BY <1>2, <3>1, <3>2
  <2>m. PICK m : m = l + 1
    OBVIOUS
  <2>5. m - 1 = l
    BY <1>0, <2>m
  <2>6. \A k \in 1 .. m - 1 : d2[k + 1] = d2[k] + Opens(r[k]) /\ e2[k + 1] = e2[k] + Calls(r[k])
    BY <2>2, <2>5
  <2>7. /\ \A k \in 1 .. m : 1 <= e2[k] /\ e2[k] <= d2[k]
        /\ \A j, k \in 1 .. m : j <= k => d2[j] <= d2[k] /\ e2[j] <= e2[k]
    BY <2>3, <2>4, <2>m, Zenon
  <2> QED  BY <1>d, <2>1, <2>6, <2>7, <2>m, Zenon DEF Numbered
<1>6. ASSUME NEW j \in 1 .. l + 1, NEW k \in 1 .. l + 1, j < k
      PROVE  /\ Linked(r[j], r[k], d2[j], d2[k], e2[j], e2[k])
             /\ d2[j] < d2[k] /\ e2[j] = e2[k] =>
                  \E q \in j .. k - 1 : Kind(r[q]) = "parallel" /\ e2[q] = e2[j]
  <2>0. j \in 1 .. l /\ r[j] = fr[j] /\ d2[j] = d[j] /\ e2[j] = e[j]
    BY <1>0, <1>1, <1>d, <1>6
  <2>q. \A q \in j .. k - 1 : q \in 1 .. l /\ r[q] = fr[q] /\ e2[q] = e[q]
    BY <1>0, <1>1, <1>d, <1>6
  <2>1. CASE k \in 1 .. l
    <3>1. /\ Linked(fr[j], fr[k], d[j], d[k], e[j], e[k])
          /\ d[j] < d[k] /\ e[j] = e[k] =>
               \E q \in j .. k - 1 : Kind(fr[q]) = "parallel" /\ e[q] = e[j]
      BY <1>6, <2>0, <2>1 DEF Shape, Nested
    <3>2. r[k] = fr[k] /\ d2[k] = d[k] /\ e2[k] = e[k]
      BY <1>1, <1>d, <2>1
    <3> QED  BY <2>0, <2>q, <3>1, <3>2
  <2>2. CASE k = l + 1
    <3>0. r[k] = g /\ d2[k] = d[l] + Opens(f) /\ e2[k] = e[l] + Calls(f)
      BY <1>1, <1>d, <2>2
    <3>1. /\ d[j] \in Nat /\ e[j] \in Nat /\ d[l] \in Nat /\ e[l] \in Nat
          /\ d[j] <= d[l] /\ e[j] <= e[l] /\ l \in j .. k - 1 /\ l \in 1 .. l
      BY <1>0, <1>d, <2>0, <2>2
    <3>k. Kind(f) \in Depends
      BY <1>0, <3>1 DEF Shape, FrameOK
    <3>2. e[j] = e2[k] => e[j] = e[l] /\ Kind(f) \in {"loop", "parallel"}
      BY <1>d, <3>0, <3>1, <3>k DEF Calls, Depends
    <3>3. d[j] = d2[k] => d[j] = d[l] /\ Kind(f) = "loop" /\ Calls(f) = 0
      BY <1>d, <3>0, <3>1, <3>k DEF Opens, Calls, Depends
    <3>4. Kind(f) = "loop" => d2[k] = d[l]
      BY <1>d, <3>0, <3>1 DEF Opens
    <3>5. CASE j = l
      <4>1. Linked(f, g, d[j], d2[k], e[j], e2[k])
        BY <3>0, <3>1, <3>2, <3>3, <3>5 DEF Linked
      <4>2. d[j] < d2[k] /\ e[j] = e2[k] => Kind(f) = "parallel" /\ e[l] = e[j]
        BY <3>1, <3>2, <3>4, <3>5
      <4> QED  BY <1>0, <2>0, <2>q, <3>0, <3>1, <3>5, <4>1, <4>2
    <3>6. CASE j # l
      <4>1. /\ Linked(fr[j], f, d[j], d[l], e[j], e[l])
            /\ d[j] < d[l] /\ e[j] = e[l] =>
                 \E q \in j .. l - 1 : Kind(fr[q]) = "parallel" /\ e[q] = e[j]
        <5>1. j < l
          BY <1>0, <2>0, <3>6
        <5> QED  BY <1>0, <2>0, <3>1, <5>1 DEF Shape, Nested
      <4>2. Linked(fr[j], g, d[j], d2[k], e[j], e2[k])
        <5>1. ASSUME e[j] = e2[k]
              PROVE  /\ fr[j].wf = g.wf
                     /\ Orderly(g.wf) => fr[j].at \in Around[g.wf][g.at]
          BY <3>2, <4>1, <5>1 DEF Linked
        <5>2. ASSUME d[j] = d2[k]  PROVE e[j] = e2[k] /\ Kind(fr[j]) = "loop"
          BY <3>0, <3>1, <3>3, <4>1, <5>2 DEF Linked
        <5> QED  BY <4>1, <5>1, <5>2 DEF Linked
      <4>3. ASSUME d[j] < d2[k], e[j] = e2[k]
            PROVE  \E q \in j .. k - 1 : Kind(r[q]) = "parallel" /\ e2[q] = e2[j]
        <5>1. CASE Kind(f) = "parallel"
          <6>1. e[j] = e[l] /\ l \in j .. k - 1 /\ r[l] = fr[l] /\ e2[l] = e[l]
            BY <2>q, <3>1, <3>2, <4>3
          <6>2. Kind(r[l]) = "parallel" /\ e2[l] = e2[j]
            BY <1>0, <2>0, <5>1, <6>1
          <6> QED  BY <6>1, <6>2, Zenon
        <5>2. CASE Kind(f) = "loop"
          <6>1. PICK q \in j .. l - 1 : Kind(fr[q]) = "parallel" /\ e[q] = e[j]
            BY <3>1, <3>2, <3>4, <4>1, <4>3, <5>2
          <6>2. q \in j .. k - 1
            BY <1>0, <2>2, <2>0
          <6> QED  BY <2>0, <2>q, <6>1, <6>2
        <5> QED  BY <3>2, <4>3, <5>1, <5>2
      <4> QED  BY <2>0, <3>0, <4>2, <4>3
    <3> QED  BY <3>5, <3>6
  <2> QED  BY <1>2, <2>1, <2>2
<1>7. Nested(l + 1, r, d2, e2)
  BY <1>6 DEF Nested
<1> QED  BY <1>1, <1>3, <1>4, <1>5, <1>7, <1>r DEF Shape

-----------------------------------------------------------------------------
(* What a node writes, and who sees it.                                    *)
Wrote(f, s, b, s2, b2) ==
  \/ s2 = s /\ (b2 = b \/ (Kind(f) = "loop" /\ b2 = b \cup {f.at}))
  \/ /\ DOMAIN s2 = DOMAIN s \cup {f.at} /\ \A m \in DOMAIN s \ {f.at} : s2[m] = s[m]
     /\ b2 \subseteq b \cup {f.at}
     /\ f.at \in b2 => Promised(f.wf, f.at) \subseteq s2[f.at]
     /\ Kind(f) \in {"start", "end", "sidenote"} => s2[f.at] = {}

Known(f) == f \in WalkFrames /\ FrameOK(f) /\ f.wf \in DOMAIN Flows

LEMMA StillBased ==
  ASSUME NEW f, Known(f), Orderly(f.wf), NEW g, g.wf = f.wf, NEW s, NEW b, NEW s2, NEW b2,
         Wrote(f, s, b, s2, b2), NEW v, Based(g, s, v)
  PROVE  Based(g, s2, v)
<1>1. f.at \in Nodes(g.wf) /\ f.at \notin {"globals", "inputs", "__inputs"}
  BY DEF Known, FrameOK, Orderly
<1>2. CASE s2 = s
  BY <1>2
<1>3. CASE DOMAIN s2 = DOMAIN s \cup {f.at} /\ \A m \in DOMAIN s \ {f.at} : s2[m] = s[m]
  <2>1. DOMAIN s2 \subseteq Nodes(g.wf) \cup {"globals", "inputs", "__inputs"}
    BY <1>1, <1>3 DEF Based
  <2>2. ASSUME v = 1
        PROVE  /\ {"globals", "inputs"} \subseteq DOMAIN s2
               /\ s2["globals"] = Flows[g.wf].globals
               /\ s2["inputs"] = DOMAIN Flows[g.wf].inputs
    BY <1>1, <1>3, <2>2 DEF Based
  <2>3. v # 1 => "globals" \notin DOMAIN s2
    BY <1>1, <1>3 DEF Based
  <2> QED  BY <2>1, <2>2, <2>3 DEF Based
<1> QED  BY <1>2, <1>3 DEF Wrote

LEMMA StrictFollows ==
  ASSUME NEW w \in DOMAIN Flows, NEW n \in Nodes(w), NEW t \in Nodes(w), n \in Sources(w, {t}),
         Around[w][t] = Around[w][n]
  PROVE  n \in Strict(w, t) /\ Strict(w, n) \subseteq Strict(w, t)
<1>a. PICK a : a = {t} \cup Around[w][t]
  OBVIOUS
<1>b. PICK b : b = {n} \cup Around[w][n]
  OBVIOUS
<1>s. PICK s : s = Sources(w, a)
  OBVIOUS
<1>1. {t} \subseteq a /\ a \in SUBSET Nodes(w) /\ b \in SUBSET Nodes(w) /\ Around[w][n] \subseteq a
  BY <1>a, <1>b, AroundCloses
<1>2. n \in s /\ s \in SUBSET Nodes(w)
  BY <1>1, <1>s, SourcesIn
<1>3. s \subseteq Upstream(w, s) /\ Sources(w, Upstream(w, s)) \subseteq Upstream(w, s)
  BY <1>2, UpstreamCloses
<1>4. Sources(w, b) \subseteq Upstream(w, s)
  <2> SUFFICES ASSUME NEW x \in Sources(w, b)  PROVE x \in Upstream(w, s)
    OBVIOUS
  <2>1. PICK y \in b : x \in Sources(w, {y})
    BY SourcesIn
  <2>2. CASE y = n
    <3>1. Sources(w, {n}) \subseteq Sources(w, Upstream(w, s))
      BY <1>2, <1>3, SourcesIn
    <3> QED  BY <1>3, <2>1, <2>2, <3>1
  <2>3. CASE y \in Around[w][n]
    <3>1. Sources(w, {y}) \subseteq s
      <4>1. {y} \subseteq a
        BY <1>1, <2>3
      <4> QED  BY <1>s, <4>1, SourcesIn
    <3> QED  BY <1>3, <2>1, <3>1
  <2> QED  BY <1>b, <2>1, <2>2, <2>3
<1>5. Upstream(w, Sources(w, b)) \subseteq Upstream(w, s)
  <2>c. PICK c : c = Sources(w, b)
    OBVIOUS
  <2> QED  BY <1>2, <1>4, <2>c, UpstreamGrows
<1> QED  BY <1>2, <1>3, <1>5, <1>a, <1>b, <1>s DEF Strict

(* The node that an edge leads to.                                         *)
LEMMA GoodNext ==
  ASSUME NEW f, Known(f), NEW s, NEW b, NEW v, Good(f, s, b, v), NEW s2, NEW b2,
         Wrote(f, s, b, s2, b2), NEW t, t \in Nodes(f.wf), f.at \in Sources(f.wf, {t}),
         Orderly(f.wf) => Around[f.wf][t] = Around[f.wf][f.at], NEW g, g.wf = f.wf, g.at = t
  PROVE  Good(g, s2, b2, v)
<1> SUFFICES ASSUME Orderly(f.wf)  PROVE Covers(g, s2, b2) /\ Based(g, s2, v)
  BY DEF Good
<1>w. PICK w : w = f.wf
  OBVIOUS
<1>n. PICK n : n = f.at
  OBVIOUS
<1>0. /\ Covers(f, s, b) /\ Based(f, s, v) /\ w \in DOMAIN Flows /\ n \in Nodes(w) /\ t \in Nodes(w)
      /\ Around[w][t] = Around[w][n] /\ n \in Sources(w, {t})
  BY <1>w, <1>n DEF Good, Known, FrameOK
<1>1. Based(g, s2, v)
  <2>1. Based(g, s, v)
    BY <1>0 DEF Based
  <2> QED  BY <2>1, StillBased
<1>2. n \in Strict(w, t) /\ Strict(w, n) \subseteq Strict(w, t)
  BY <1>0, StrictFollows
<1>3. ASSUME NEW m \in DOMAIN s2 \cap Nodes(w), s2[m] # {}
      PROVE  (Repeats(w, m) \/ m \in Strict(w, t)) /\ Node(w, m).kind \notin {"start", "end", "sidenote"}
  <2>1. CASE m \in DOMAIN s /\ s2[m] = s[m]
    BY <1>0, <1>2, <1>3, <1>w, <1>n, <2>1 DEF Covers
  <2>2. CASE m = n /\ (Kind(f) \in {"start", "end", "sidenote"} => s2[f.at] = {})
    BY <1>2, <1>3, <1>w, <1>n, <2>2 DEF Kind
  <2> QED  BY <1>3, <1>n, <2>1, <2>2 DEF Wrote
<1>4. ASSUME NEW m \in b2, m \in Nodes(w), Node(w, m).kind # "loop",
             Forks(w, m) \subseteq Around[w][t]
      PROVE  m \in DOMAIN s2 /\ Promised(w, m) \subseteq s2[m]
  <2>1. CASE m \in b /\ (m \in DOMAIN s => m \in DOMAIN s2 /\ s2[m] = s[m])
    BY <1>0, <1>4, <1>w, <1>n, <2>1 DEF Covers
  <2>2. CASE m = n /\ n \in DOMAIN s2 /\ Promised(f.wf, f.at) \subseteq s2[f.at]
    BY <1>w, <1>n, <2>2
  <2>3. Kind(f) = "loop" => m # n
    BY <1>4, <1>w, <1>n DEF Kind
  <2> QED  BY <1>4, <1>n, <2>1, <2>2, <2>3 DEF Wrote
<1>5. Covers(g, s2, b2)
  BY <1>3, <1>4, <1>w DEF Covers
<1> QED  BY <1>1, <1>5

(* A loop around the node, in the same scope.                              *)
LEMMA GoodLoop ==
  ASSUME NEW f, Known(f), NEW g, g.wf = f.wf, Kind(g) = "loop",
         Orderly(g.wf) => g.at \in Around[f.wf][f.at],
         NEW s, NEW b, NEW v, Good(g, s, b, v), NEW s2, NEW b2, Wrote(f, s, b, s2, b2),
         Orderly(f.wf) => Covers(f, s, b)
  PROVE  Good(g, s2, b2, v)
<1> SUFFICES ASSUME Orderly(f.wf)  PROVE Covers(g, s2, b2) /\ Based(g, s2, v)
  BY DEF Good
<1>w. PICK w : w = f.wf
  OBVIOUS
<1>n. PICK n : n = f.at
  OBVIOUS
<1>0. /\ Covers(g, s, b) /\ Based(g, s, v) /\ w \in DOMAIN Flows /\ n \in Nodes(w)
      /\ g.at \in Around[w][n] /\ Node(w, g.at).kind = "loop"
  BY <1>w, <1>n DEF Good, Known, FrameOK, Kind
<1>1. Based(g, s2, v)
  BY <1>0, StillBased
<1>2. Repeats(w, n)
  BY <1>0 DEF Repeats
<1>3. ASSUME NEW m \in DOMAIN s2 \cap Nodes(w), s2[m] # {}
      PROVE  (Repeats(w, m) \/ m \in Strict(w, g.at)) /\ Node(w, m).kind \notin {"start", "end", "sidenote"}
  <2>1. CASE m \in DOMAIN s /\ s2[m] = s[m]
    BY <1>0, <1>3, <1>w, <2>1 DEF Covers
  <2>2. CASE m = n /\ (Kind(f) \in {"start", "end", "sidenote"} => s2[f.at] = {})
    BY <1>2, <1>3, <1>w, <1>n, <2>2 DEF Kind
  <2> QED  BY <1>3, <1>n, <2>1, <2>2 DEF Wrote
<1>4. ASSUME NEW m \in b2, m \in Nodes(w), Node(w, m).kind # "loop",
             Forks(w, m) \subseteq Around[w][g.at]
      PROVE  m \in DOMAIN s2 /\ Promised(w, m) \subseteq s2[m]
  <2>1. CASE m \in b /\ (m \in DOMAIN s => m \in DOMAIN s2 /\ s2[m] = s[m])
    BY <1>0, <1>4, <1>w, <2>1 DEF Covers
  <2>2. CASE m = n /\ n \in DOMAIN s2 /\ Promised(f.wf, f.at) \subseteq s2[f.at]
    BY <1>w, <1>n, <2>2
  <2>3. Kind(f) = "loop" => m # n
    BY <1>4, <1>w, <1>n DEF Kind
  <2> QED  BY <1>4, <1>n, <2>1, <2>2, <2>3 DEF Wrote
<1>5. Covers(g, s2, b2)
  BY <1>3, <1>4, <1>w DEF Covers
<1> QED  BY <1>1, <1>5

(* A node around a parallel that the node is in: it has another scope.     *)
LEMMA GoodBeyond ==
  ASSUME NEW f, NEW g, g.wf = f.wf, NEW q,
         Orderly(f.wf) => q \in Forks(f.wf, f.at) /\ q \notin Around[f.wf][g.at],
         NEW s, NEW b, NEW v, Good(g, s, b, v), NEW b2, b2 \subseteq b \cup {f.at}
  PROVE  Good(g, s, b2, v)
  BY DEF Good, Covers

-----------------------------------------------------------------------------
(* The stack.                                                              *)
LEMMA Levels ==
  ASSUME NEW l, NEW fr, NEW d, NEW e, Shape(l, fr, d, e)
  PROVE  /\ fr \in Seq(WalkFrames) /\ IsSeq(fr) /\ l = Len(fr) /\ l \in Nat /\ (l = 0 <=> fr = <<>>)
         /\ l > 0 => l \in 1 .. l /\ Last(fr) = fr[l]
         /\ \A k \in 1 .. l : /\ Known(fr[k]) /\ k \in Nat /\ k <= l
                              /\ d[k] \in 1 .. d[l] /\ e[k] \in 1 .. e[l]
                              /\ d[k] \in Nat /\ e[k] \in Nat
         /\ d[1] = 1 /\ e[1] = 1
<1>1. fr \in Seq(WalkFrames) /\ l = Len(fr) /\ Numbered(l, fr, d, e)
  BY DEF Shape
<1>2. IsSeq(fr) /\ l \in Nat /\ (l = 0 <=> fr = <<>>)
  BY <1>1, IsSeqs, LenProperties, EmptySeq
<1>3. l > 0 => l \in 1 .. l /\ Last(fr) = fr[l]
  BY <1>1, <1>2, Fronts
<1>4. ASSUME NEW k \in 1 .. l
      PROVE  /\ Known(fr[k]) /\ k \in Nat /\ k <= l
             /\ d[k] \in 1 .. d[l] /\ e[k] \in 1 .. e[l]
             /\ d[k] \in Nat /\ e[k] \in Nat
  <2>1. k \in Nat /\ k <= l /\ l \in 1 .. l
    BY <1>2
  <2>2. fr[k] \in WalkFrames /\ FrameOK(fr[k]) /\ fr[k].wf \in DOMAIN Flows
    <3>1. fr[k] \in WalkFrames
      BY <1>1, ElementOfSeq
    <3>2. FrameOK(fr[k])
      BY DEF Shape
    <3> QED  BY <3>1, <3>2 DEF WalkFrames
  <2>3. d[k] \in Nat /\ e[k] \in Nat /\ d[l] \in Nat /\ e[l] \in Nat
    BY <1>1, <1>2, <2>1 DEF Numbered
  <2>4. 1 <= e[k] /\ e[k] <= d[k] /\ d[k] <= d[l] /\ e[k] <= e[l]
    BY <1>1, <2>1, Zenon DEF Numbered
  <2> QED  BY <2>1, <2>2, <2>3, <2>4 DEF Known
<1> QED  BY <1>1, <1>2, <1>3, <1>4 DEF Numbered

LEMMA HeldSame ==
  ASSUME NEW l, NEW fr, NEW d, NEW e, Shape(l, fr, d, e), NEW sc, NEW no, Held(l, fr, sc, no, d, e),
         NEW sc2, NEW no2, \A i \in 1 .. d[l] : sc2[i] = sc[i], \A i \in 1 .. e[l] : no2[i] = no[i]
  PROVE  Held(l, fr, sc2, no2, d, e)
  BY Levels DEF Held

(* What the frame at the top has opened goes when it goes on.              *)
LEMMA Trims ==
  ASSUME NEW l, NEW fr, NEW sc, NEW no, NEW d, NEW e, Stack(l, fr, sc, no, d, e), l > 0
  PROVE  LET f == Last(fr) IN
         /\ f.state = "visit" \/ Kind(f) = "loop" => Seen(l, fr, sc, no, d, e)
         /\ f.state = "inside" /\ Kind(f) = "parallel" => Seen(l, fr, Front(sc), no, d, e)
         /\ f.state = "inside" /\ Kind(f) = "subworkflow" => Seen(l, fr, Front(sc), Front(no), d, e)
<1>f. PICK f : f = fr[l]
  OBVIOUS
<1>s. PICK s : s = Front(sc)
  OBVIOUS
<1>n. PICK n : n = Front(no)
  OBVIOUS
<1>0. /\ Shape(l, fr, d, e) /\ Held(l, fr, sc, no, d, e)
      /\ IsSeq(sc) /\ no \in Seq(SUBSET AllNodes) /\ IsSeq(no)
      /\ Len(sc) = d[l] + Opens(f) /\ Len(no) = e[l] + Calls(f)
  BY <1>f, IsSeqs DEF Stack
<1>1. Last(fr) = f /\ d[l] \in Nat /\ e[l] \in Nat /\ 1 <= d[l] /\ 1 <= e[l]
  BY <1>0, <1>f, Levels
<1>2. ASSUME f.state = "visit" \/ Kind(f) = "loop"  PROVE Seen(l, fr, sc, no, d, e)
  <2>1. Len(sc) = d[l] /\ Len(no) = e[l]
    BY <1>0, <1>1, <1>2 DEF Opens, Calls
  <2> QED  BY <1>0, <2>1 DEF Seen
<1>3. ASSUME f.state = "inside", Kind(f) \in {"parallel", "subworkflow"}
      PROVE  IsSeq(s) /\ Len(s) = d[l] /\ \A i \in 1 .. d[l] : s[i] = sc[i]
  <2>1. Len(sc) = d[l] + 1
    BY <1>0, <1>3 DEF Opens
  <2>2. sc # <<>>
    BY <1>0, <1>1, <2>1
  <2>3. IsSeq(s) /\ Len(s) = Len(sc) - 1 /\ \A i \in 1 .. Len(sc) - 1 : s[i] = sc[i]
    BY <1>0, <1>s, <2>2, Fronts
  <2> QED  BY <1>1, <2>1, <2>3
<1>4. ASSUME f.state = "inside", Kind(f) = "parallel"  PROVE Seen(l, fr, s, no, d, e)
  <2>1. Len(no) = e[l]
    BY <1>0, <1>1, <1>4 DEF Calls
  <2>2. Held(l, fr, s, no, d, e)
    BY <1>0, <1>3, <1>4, HeldSame
  <2> QED  BY <1>0, <1>3, <1>4, <2>1, <2>2 DEF Seen
<1>5. ASSUME f.state = "inside", Kind(f) = "subworkflow"  PROVE Seen(l, fr, s, n, d, e)
  <2>1. Len(no) = e[l] + 1
    BY <1>0, <1>5 DEF Calls
  <2>2. no # <<>>
    BY <1>0, <1>1, <2>1
  <2>3. IsSeq(n) /\ Len(n) = Len(no) - 1 /\ \A i \in 1 .. Len(no) - 1 : n[i] = no[i]
    BY <1>0, <1>n, <2>2, Fronts
  <2>4. Len(n) = e[l] /\ \A i \in 1 .. e[l] : n[i] = no[i] /\ i \in 1 .. Len(no)
    BY <1>1, <2>1, <2>3
  <2>5. n \in Seq(SUBSET AllNodes)
    <3>1. \A i \in 1 .. Len(n) : n[i] \in SUBSET AllNodes
      BY <1>0, <2>4, ElementOfSeq
    <3> QED  BY <2>3, <3>1, InSeq
  <2>6. Held(l, fr, s, n, d, e)
    BY <1>0, <1>3, <1>5, <2>4, HeldSame
  <2> QED  BY <1>0, <1>3, <1>5, <2>4, <2>5, <2>6 DEF Seen
<1> QED  BY <1>1, <1>2, <1>4, <1>5, <1>s, <1>n

(* The node at the top has run: what it has set is in sc2 and no2.         *)
Ran(l, f, sc, no, d, e, sc2, no2) ==
  /\ IsSeq(sc2) /\ no2 \in Seq(SUBSET AllNodes)
  /\ Len(sc2) = Len(sc) /\ Len(no2) = Len(no)
  /\ \A i \in 1 .. Len(sc) - 1 : sc2[i] = sc[i]
  /\ \A i \in 1 .. Len(no) - 1 : no2[i] = no[i]
  /\ Wrote(f, sc[d[l]], no[e[l]], sc2[d[l]], no2[e[l]])

LEMMA Outer ==
  ASSUME NEW l, NEW fr, NEW sc, NEW no, NEW d, NEW e, Seen(l, fr, sc, no, d, e),
         NEW sc2, NEW no2, Ran(l, Last(fr), sc, no, d, e, sc2, no2), NEW k \in 1 .. l, k # l
  PROVE  Good(fr[k], sc2[d[k]], no2[e[k]], e[k])
<1>f. PICK f : f = fr[l]
  OBVIOUS
<1>g. PICK g : g = fr[k]
  OBVIOUS
<1>0. /\ Shape(l, fr, d, e) /\ l > 0 /\ Len(sc) = d[l] /\ Len(no) = e[l]
      /\ Good(g, sc[d[k]], no[e[k]], e[k]) /\ Good(f, sc[d[l]], no[e[l]], e[l])
  <2>1. Shape(l, fr, d, e) /\ l > 0 /\ Len(sc) = d[l] /\ Len(no) = e[l] /\ Held(l, fr, sc, no, d, e)
    BY DEF Seen
  <2> QED  BY <1>f, <1>g, <2>1, Levels DEF Held
<1>1. /\ Last(fr) = f /\ Known(f) /\ Known(g) /\ k < l /\ l \in Nat /\ k \in Nat /\ l \in 1 .. l
      /\ d[l] \in Nat /\ e[l] \in Nat /\ d[k] \in 1 .. d[l] /\ e[k] \in 1 .. e[l]
  BY <1>0, <1>f, <1>g, Levels
<1>2. /\ Linked(g, f, d[k], d[l], e[k], e[l])
      /\ d[k] < d[l] /\ e[k] = e[l] =>
           \E q \in k .. l - 1 : Kind(fr[q]) = "parallel" /\ e[q] = e[k]
  BY <1>0, <1>1, <1>f, <1>g DEF Shape, Nested
<1>3. /\ \A i \in 1 .. d[l] - 1 : sc2[i] = sc[i]
      /\ \A i \in 1 .. e[l] - 1 : no2[i] = no[i]
      /\ Wrote(f, sc[d[l]], no[e[l]], sc2[d[l]], no2[e[l]])
  BY <1>0, <1>1 DEF Ran
<1>4. CASE d[k] = d[l]
  <2>1. e[k] = e[l] /\ g.wf = f.wf /\ Kind(g) = "loop"
        /\ (Orderly(g.wf) => g.at \in Around[f.wf][f.at])
    BY <1>2, <1>4 DEF Linked
  <2>2. Orderly(f.wf) => Covers(f, sc[d[l]], no[e[l]])
    BY <1>0 DEF Good
  <2>3. Good(g, sc[d[l]], no[e[l]], e[k])
    BY <1>0, <1>4, <2>1
  <2>4. Good(g, sc2[d[l]], no2[e[l]], e[k])
    BY <1>1, <1>3, <2>1, <2>2, <2>3, GoodLoop
  <2> QED  BY <1>g, <1>4, <2>1, <2>4
<1>5. CASE d[k] # d[l]
  <2>1. sc2[d[k]] = sc[d[k]] /\ d[k] < d[l]
    BY <1>1, <1>3, <1>5
  <2>2. CASE e[k] # e[l]
    <3>1. no2[e[k]] = no[e[k]]
      BY <1>1, <1>3, <2>2
    <3> QED  BY <1>0, <1>g, <2>1, <3>1
  <2>3. CASE e[k] = e[l]
    <3>1. PICK q \in k .. l - 1 : Kind(fr[q]) = "parallel" /\ e[q] = e[k]
      BY <1>2, <2>1, <2>3
    <3>2. q \in 1 .. l /\ q < l /\ (q = k \/ k < q)
      BY <1>1, <3>1
    <3>3. Linked(fr[q], f, d[q], d[l], e[q], e[l]) /\ (k < q => Linked(g, fr[q], d[k], d[q], e[k], e[q]))
      BY <1>0, <1>1, <1>f, <1>g, <3>2 DEF Shape, Nested
    <3>4. fr[q].wf = f.wf /\ g.wf = f.wf
      BY <1>2, <2>3, <3>1, <3>3 DEF Linked
    <3>w. PICK w : w = f.wf
      OBVIOUS
    <3>5. ASSUME Orderly(f.wf)
          PROVE  fr[q].at \in Forks(f.wf, f.at) /\ fr[q].at \notin Around[f.wf][g.at]
      <4>1. fr[q].at \in Around[w][f.at] /\ w \in DOMAIN Flows /\ g.at \in Nodes(w) /\ fr[q].at \in Nodes(w)
        <5>1. fr[q].at \in Around[w][f.at]
          BY <2>3, <3>1, <3>3, <3>4, <3>5, <3>w DEF Linked
        <5>2. Known(fr[q])
          BY <1>0, <3>2, Levels
        <5> QED  BY <1>1, <3>4, <3>w, <5>1, <5>2 DEF Known, FrameOK
      <4>2. Node(w, fr[q].at).kind = "parallel"
        BY <3>1, <3>4, <3>w DEF Kind
      <4>3. fr[q].at \notin Around[w][g.at]
        <5>1. CASE q = k
          BY <1>g, <4>1, <5>1, AroundCloses
        <5>2. CASE k < q
          <6>1. g.at \in Around[w][fr[q].at]
            BY <3>1, <3>3, <3>4, <3>5, <3>w, <5>2 DEF Linked
          <6> QED  BY <4>1, <6>1, AroundCloses
        <5> QED  BY <3>2, <5>1, <5>2
      <4> QED  BY <3>w, <4>1, <4>2, <4>3 DEF Forks
    <3>6. no2[e[l]] \subseteq no[e[l]] \cup {f.at}
      BY <1>3 DEF Wrote
    <3>7. Good(g, sc[d[k]], no2[e[l]], e[k])
      <4>1. Good(g, sc[d[k]], no[e[l]], e[k])
        BY <1>0, <2>3
      <4> QED  BY <3>4, <3>5, <3>6, <4>1, GoodBeyond
    <3> QED  BY <1>g, <2>1, <2>3, <3>7
  <2> QED  BY <2>2, <2>3
<1> QED  BY <1>4, <1>5

(* The walk at the top returns.                                            *)
LEMMA Returns ==
  ASSUME NEW l, NEW fr, NEW sc, NEW no, NEW d, NEW e, Seen(l, fr, sc, no, d, e),
         NEW sc2, NEW no2, Ran(l, Last(fr), sc, no, d, e, sc2, no2)
  PROVE  Stack(l - 1, Front(fr), sc2, no2, d, e)
<1>r. PICK r : r = Front(fr)
  OBVIOUS
<1>m. PICK m : m = l - 1
  OBVIOUS
<1>0. Shape(l, fr, d, e) /\ l > 0 /\ Len(sc) = d[l] /\ Len(no) = e[l]
  BY DEF Seen
<1>1. /\ l \in Nat /\ IsSeq(fr) /\ fr # <<>> /\ l = Len(fr) /\ d[1] = 1 /\ e[1] = 1
  BY <1>0, Levels
<1>2. Shape(m, r, d, e)
  BY <1>0, <1>r, <1>m, ShapeFront
<1>3. m \in Nat /\ \A k \in 1 .. m : r[k] = fr[k] /\ k \in 1 .. l /\ k # l
  BY <1>0, <1>1, <1>r, <1>m, Fronts
<1>4. Held(m, r, sc2, no2, d, e)
  BY <1>3, Outer DEF Held
<1>5. /\ IsSeq(sc2) /\ no2 \in Seq(SUBSET AllNodes) /\ Len(sc2) = d[l] /\ Len(no2) = e[l]
  BY <1>0 DEF Ran
<1>6. CASE m = 0
  <2>0. l \in Nat
    BY <1>1
  <2>1. l = 1
    BY <1>m, <1>6, <2>0
  <2> QED  BY <1>1, <1>2, <1>4, <1>5, <1>6, <1>r, <1>m, <2>1 DEF Stack
<1>7. CASE m # 0
  <2>1. m \in 1 .. l - 1 /\ m + 1 = l /\ r[m] = fr[m]
    BY <1>1, <1>3, <1>m, <1>7
  <2>2. d[m + 1] = d[m] + Opens(fr[m]) /\ e[m + 1] = e[m] + Calls(fr[m])
    BY <1>0, <2>1, Zenon DEF Shape, Numbered
  <2>3. d[l] = d[m] + Opens(r[m]) /\ e[l] = e[m] + Calls(r[m])
    BY <2>1, <2>2
  <2> QED  BY <1>2, <1>4, <1>5, <1>7, <1>r, <1>m, <2>3 DEF Stack
<1> QED  BY <1>6, <1>7

LEMMA WalkIs ==
  ASSUME NEW w \in DOMAIN Flows, NEW n \in Nodes(w), NEW c \in AllNodes \cup {NoNode},
         Orderly(w) => c = Node(w, n).in
  PROVE  LET g == Walk(w, n, c) IN
         g \in WalkFrames /\ FrameOK(g) /\ g.wf = w /\ g.at = n /\ Opens(g) = 0 /\ Calls(g) = 0
  BY DEF Walk, WalkFrames, FrameOK, AllNodes, Opens, Calls

(* The walk at the top goes along an edge.                                 *)
LEMMA Goes ==
  ASSUME NEW l, NEW fr, NEW sc, NEW no, NEW d, NEW e, Seen(l, fr, sc, no, d, e),
         NEW sc2, NEW no2, Ran(l, Last(fr), sc, no, d, e, sc2, no2),
         NEW h, NEW t \in Targets(Last(fr), h)
  PROVE  Stack(l, Append(Front(fr), Walk(Last(fr).wf, t, Last(fr).in)), sc2, no2, d, e)
<1>f. PICK f : f = Last(fr)
  OBVIOUS
<1>g. PICK g : g = Walk(f.wf, t, f.in)
  OBVIOUS
<1>r. PICK r : r = Append(Front(fr), g)
  OBVIOUS
<1>0. /\ Shape(l, fr, d, e) /\ l > 0 /\ Len(sc) = d[l] /\ Len(no) = e[l]
      /\ Held(l, fr, sc, no, d, e)
  BY DEF Seen
<1>1. /\ l \in Nat /\ IsSeq(fr) /\ fr # <<>> /\ l = Len(fr) /\ f = fr[l] /\ l \in 1 .. l /\ Known(f)
  BY <1>0, <1>f, Levels
<1>2. t \in Nodes(f.wf) /\ f.at \in Sources(f.wf, {t})
  <2>1. PICK x \in Flows[f.wf].edges : x[1] = f.at /\ x[3] = t
    BY <1>f DEF Targets
  <2>2. WellFormed(f.wf)
    BY <1>1, TemplatesAssumption DEF Known
  <2> QED  BY <2>1, <2>2 DEF WellFormed, Sources
<1>3. Orderly(f.wf) => Node(f.wf, t).in = Node(f.wf, f.at).in
  BY <1>2 DEF Sources, Orderly
<1>4. Orderly(f.wf) => Around[f.wf][t] = Around[f.wf][f.at]
  <2> SUFFICES ASSUME Orderly(f.wf)  PROVE Around[f.wf][t] = Around[f.wf][f.at]
    OBVIOUS
  <2>w. PICK w : w = f.wf
    OBVIOUS
  <2>n. PICK n : n = f.at
    OBVIOUS
  <2>p. PICK p : p = Node(w, n).in
    OBVIOUS
  <2>0. w \in DOMAIN Flows /\ n \in Nodes(w) /\ t \in Nodes(w) /\ Node(w, t).in = p
    BY <1>1, <1>2, <1>3, <2>w, <2>n, <2>p DEF Known, FrameOK
  <2>1. Around[w][n] = IF p = NoNode THEN {} ELSE {p} \cup Around[w][p]
    BY <2>0, <2>p, AroundUp
  <2>2. Around[w][t] = IF p = NoNode THEN {} ELSE {p} \cup Around[w][p]
    BY <2>0, AroundUp
  <2> QED  BY <2>1, <2>2, <2>w, <2>n
<1>5. g \in WalkFrames /\ FrameOK(g) /\ g.wf = f.wf /\ g.at = t /\ Opens(g) = 0 /\ Calls(g) = 0
  <2>1. f.wf \in DOMAIN Flows /\ f.in \in AllNodes \cup {NoNode} /\ (Orderly(f.wf) => f.in = Node(f.wf, t).in)
    BY <1>1, <1>3 DEF Known, WalkFrames, FrameOK
  <2> QED  BY <1>2, <1>g, <2>1, WalkIs
<1>6. Shape(l, r, d, e)
  BY <1>0, <1>4, <1>5, <1>f, <1>r, ShapeTop
<1>7. /\ r[l] = g /\ \A k \in 1 .. l - 1 : r[k] = fr[k]
  BY <1>1, <1>r, Replaces
<1>8. /\ IsSeq(sc2) /\ no2 \in Seq(SUBSET AllNodes) /\ Len(sc2) = d[l] /\ Len(no2) = e[l]
      /\ Wrote(f, sc[d[l]], no[e[l]], sc2[d[l]], no2[e[l]])
  BY <1>0, <1>f DEF Ran
<1>9. Good(g, sc2[d[l]], no2[e[l]], e[l])
  <2>1. Good(f, sc[d[l]], no[e[l]], e[l])
    BY <1>0, <1>1 DEF Held
  <2> QED  BY <1>1, <1>2, <1>4, <1>5, <1>8, <2>1, GoodNext
<1>10. Held(l, r, sc2, no2, d, e)
  <2> SUFFICES ASSUME NEW k \in 1 .. l  PROVE Good(r[k], sc2[d[k]], no2[e[k]], e[k])
    BY DEF Held
  <2>1. CASE k = l
    BY <1>7, <1>9, <2>1
  <2>2. CASE k # l
    <3>1. k \in 1 .. l - 1
      BY <1>1, <2>2
    <3>2. Good(fr[k], sc2[d[k]], no2[e[k]], e[k])
      BY <2>2, Outer
    <3> QED  BY <1>7, <3>1, <3>2
  <2> QED  BY <2>1, <2>2
<1>11. Len(sc2) = d[l] + Opens(r[l]) /\ Len(no2) = e[l] + Calls(r[l])
  <2>1. d[l] \in Nat /\ e[l] \in Nat
    BY <1>0, <1>1, Levels
  <2> QED  BY <1>5, <1>7, <1>8, <2>1
<1>12. l # 0
  BY <1>0, <1>1
<1>13. Stack(l, r, sc2, no2, d, e)
  BY <1>6, <1>8, <1>10, <1>11, <1>12, Zenon DEF Stack
<1> QED  BY <1>13, <1>f, <1>g, <1>r

(* What is read within a container is what is read at it.                  *)
LEMMA AroundChild ==
  ASSUME NEW w \in DOMAIN Flows, NEW n \in Nodes(w), NEW x \in Nodes(w), Node(w, x).in = n
  PROVE  Around[w][x] = {n} \cup Around[w][n]
<1>1. n # NoNode
  BY TemplatesAssumption DEF WellFormed
<1> QED  BY <1>1, AroundUp

LEMMA GoodInside ==
  ASSUME NEW f, Known(f), Kind(f) \in {"loop", "parallel"}, NEW s, NEW b, NEW v, Good(f, s, b, v),
         NEW g, g.wf = f.wf, g.at \in Nodes(f.wf), Node(f.wf, g.at).in = f.at, NEW b2, b2 \subseteq b,
         Kind(f) = "parallel" => \A m \in b2 : f.at \notin Around[f.wf][m]
  PROVE  Good(g, s, b2, v)
<1> SUFFICES ASSUME Orderly(f.wf)  PROVE Covers(g, s, b2) /\ Based(g, s, v)
  BY DEF Good
<1>w. PICK w : w = f.wf
  OBVIOUS
<1>n. PICK n : n = f.at
  OBVIOUS
<1>x. PICK x : x = g.at
  OBVIOUS
<1>0. /\ Covers(f, s, b) /\ Based(f, s, v) /\ w \in DOMAIN Flows /\ n \in Nodes(w) /\ x \in Nodes(w)
      /\ Node(w, x).in = n
  BY <1>w, <1>n, <1>x DEF Good, Known, FrameOK
<1>1. Around[w][x] = {n} \cup Around[w][n] /\ Around[w][x] \in SUBSET Nodes(w)
  BY <1>0, AroundChild, AroundCloses
<1>2. Strict(w, n) \subseteq Strict(w, x)
  <2>a. PICK a : a = {n} \cup Around[w][n]
    OBVIOUS
  <2>b. PICK c : c = {x} \cup Around[w][x]
    OBVIOUS
  <2>s. PICK sa : sa = Sources(w, a)
    OBVIOUS
  <2>t. PICK sb : sb = Sources(w, c)
    OBVIOUS
  <2>1. sa \subseteq sb /\ sb \in SUBSET Nodes(w)
    <3>1. a \subseteq c
      BY <1>1, <2>a, <2>b
    <3> QED  BY <1>0, <2>s, <2>t, <3>1, SourcesIn
  <2>2. sa \subseteq Upstream(w, sb)
    BY <1>0, <2>1, UpstreamCloses
  <2>3. Upstream(w, sa) \subseteq Upstream(w, sb)
    BY <1>0, <2>1, <2>2, UpstreamGrows
  <2> QED  BY <2>3, <2>a, <2>b, <2>s, <2>t DEF Strict
<1>3. ASSUME NEW m \in DOMAIN s \cap Nodes(w), s[m] # {}
      PROVE  (Repeats(w, m) \/ m \in Strict(w, x)) /\ Node(w, m).kind \notin {"start", "end", "sidenote"}
  BY <1>0, <1>2, <1>3, <1>w, <1>n DEF Covers
<1>4. ASSUME NEW m \in b2, m \in Nodes(w), Node(w, m).kind # "loop",
             Forks(w, m) \subseteq Around[w][x]
      PROVE  m \in DOMAIN s /\ Promised(w, m) \subseteq s[m]
  <2>1. n \notin Forks(w, m)
    <3>1. CASE Kind(f) = "parallel"
      BY <1>4, <1>w, <1>n, <3>1 DEF Forks
    <3>2. CASE Kind(f) = "loop"
      BY <1>w, <1>n, <3>2 DEF Forks, Kind
    <3> QED  BY <3>1, <3>2
  <2>2. Forks(w, m) \subseteq Around[w][n]
    BY <1>1, <1>4, <2>1
  <2> QED  BY <1>0, <1>4, <1>w, <1>n, <2>2 DEF Covers
<1>5. Covers(g, s, b2)
  BY <1>3, <1>4, <1>w, <1>x DEF Covers
<1>6. Based(g, s, v)
  BY <1>0 DEF Based
<1> QED  BY <1>5, <1>6

LEMMA WaitingIs ==
  ASSUME NEW f, Known(f), Kind(f) \in Depends,
         Kind(f) = "loop" => Node(f.wf, f.at).first # NoNode, NEW u, u = Waiting(f)
  PROVE  /\ u \in WalkFrames /\ FrameOK(u) /\ u.wf = f.wf /\ u.at = f.at /\ u.state = "inside"
         /\ Kind(u) = Kind(f)
<1>1. f \in WalkFrames
  BY DEF Known
<1>2. /\ u \in WalkFrames /\ u.wf = f.wf /\ u.at = f.at /\ u.in = f.in /\ u.state = "inside"
  <2>1. u = [[f EXCEPT !.state = "inside"] EXCEPT !.i = f.i + 1]
    BY DEF Waiting
  <2>2. PICK g : g = [f EXCEPT !.state = "inside"]
    OBVIOUS
  <2>3. g \in WalkFrames /\ g.wf = f.wf /\ g.at = f.at /\ g.in = f.in /\ g.state = "inside" /\ g.i = f.i
    BY <1>1, <2>2 DEF WalkFrames
  <2>4. u = [g EXCEPT !.i = g.i + 1]
    BY <2>1, <2>2, <2>3
  <2> HIDE <2>1, <2>2
  <2> QED  BY <2>3, <2>4 DEF WalkFrames
<1>3. Kind(u) = Kind(f)
  BY <1>2 DEF Kind
<1> QED  BY <1>2, <1>3 DEF Known, FrameOK

(* A walk begins within the node at the top.                               *)
LEMMA Pushes ==
  ASSUME NEW l, NEW fr, NEW sc, NEW no, NEW d, NEW e, Seen(l, fr, sc, no, d, e),
         NEW f, f = Last(fr), Kind(f) \in Depends,
         Kind(f) = "loop" => Node(f.wf, f.at).first # NoNode, NEW u, u = Waiting(f),
         NEW g \in WalkFrames, FrameOK(g), g.state = "visit",
         Kind(f) \in {"loop", "parallel"} => g.wf = f.wf /\ Node(f.wf, g.at).in = f.at,
         NEW sc2, IsSeq(sc2), Len(sc2) = Len(sc) + Opens(u), \A i \in 1 .. Len(sc) : sc2[i] = sc[i],
         NEW no2 \in Seq(SUBSET AllNodes), Len(no2) = Len(no) + Calls(u),
         \A i \in 1 .. Len(no) : no2[i] \subseteq no[i],
         Good(g, sc2[Len(sc2)], no2[Len(no2)], Len(no2))
  PROVE  \E d2, e2 : Stack(l + 1, Append(Append(Front(fr), u), g), sc2, no2, d2, e2)
<1>q. PICK q : q = Append(Front(fr), u)
  OBVIOUS
<1>r. PICK r : r = Append(q, g)
  OBVIOUS
<1>d. PICK d2 : d2 = [i \in Nat |-> IF i = l + 1 THEN d[l] + Opens(u) ELSE d[i]]
  OBVIOUS
<1>e. PICK e2 : e2 = [i \in Nat |-> IF i = l + 1 THEN e[l] + Calls(u) ELSE e[i]]
  OBVIOUS
<1>0. /\ Shape(l, fr, d, e) /\ l > 0 /\ Len(sc) = d[l] /\ Len(no) = e[l]
      /\ Held(l, fr, sc, no, d, e)
  BY DEF Seen
<1>1. /\ l \in Nat /\ IsSeq(fr) /\ fr # <<>> /\ l = Len(fr) /\ f = fr[l] /\ Known(f)
  <2>1. l \in 1 .. l /\ f = fr[l]
    BY <1>0, Levels
  <2> QED  BY <1>0, <2>1, Levels
<1>2. /\ u \in WalkFrames /\ FrameOK(u) /\ u.wf = f.wf /\ u.at = f.at /\ u.state = "inside"
      /\ Kind(u) = Kind(f)
  BY <1>1, WaitingIs
<1>3. Shape(l, q, d, e)
  BY <1>0, <1>2, <1>q, ShapeTop
<1>4. /\ q # <<>> /\ u = Last(q) /\ Len(q) = l /\ IsSeq(q) /\ q[l] = u
      /\ \A k \in 1 .. l - 1 : q[k] = fr[k]
  <2>1. /\ Len(q) = l /\ IsSeq(q) /\ q[l] = u
        /\ \A k \in 1 .. l - 1 : q[k] = fr[k]
    <3>1. /\ Len(q) = Len(fr) /\ IsSeq(q) /\ q[Len(fr)] = u
          /\ \A k \in 1 .. Len(fr) - 1 : q[k] = fr[k]
      <4>1. LET t == Append(Front(fr), u) IN
            /\ Len(t) = Len(fr) /\ IsSeq(t) /\ t[Len(fr)] = u
            /\ \A k \in 1 .. Len(fr) - 1 : t[k] = fr[k]
        BY <1>1, Replaces
      <4> QED  BY <1>q, <4>1, Zenon
    <3> QED  BY <1>1, <3>1, Zenon
  <2> QED  BY <1>0, <1>3, <2>1, Levels
<1>5. Kind(u) \in {"loop", "parallel"} =>
         /\ g.wf = u.wf
         /\ Orderly(g.wf) => Around[g.wf][g.at] = {u.at} \cup Around[u.wf][u.at]
  <2> SUFFICES ASSUME Kind(u) \in {"loop", "parallel"}
               PROVE  g.wf = f.wf /\ Around[f.wf][g.at] = {f.at} \cup Around[f.wf][f.at]
    BY <1>2
  <2>w. PICK w : w = f.wf
    OBVIOUS
  <2>n. PICK n : n = f.at
    OBVIOUS
  <2>x. PICK x : x = g.at
    OBVIOUS
  <2>1. g.wf = w /\ w \in DOMAIN Flows /\ n \in Nodes(w) /\ x \in Nodes(w) /\ Node(w, x).in = n
    BY <1>1, <1>2, <2>w, <2>n, <2>x DEF Known, FrameOK
  <2>2. Around[w][x] = {n} \cup Around[w][n]
    BY <2>1, AroundChild
  <2> QED  BY <2>1, <2>2, <2>w, <2>n, <2>x
<1>6. Shape(l + 1, r, d2, e2)
  <2>1. u = Last(q) /\ u.state = "inside" /\ l > 0
    BY <1>0, <1>2, <1>4
  <2> QED  BY <1>3, <1>5, <1>d, <1>e, <1>r, <2>1, ShapePush, Zenon
<1>7. r[l + 1] = g /\ \A k \in 1 .. l : r[k] = q[k]
  BY <1>4, <1>r, Appends
<1>8. /\ Opens(u) \in {0, 1} /\ Calls(u) \in {0, 1} /\ d[l] \in Nat /\ e[l] \in Nat
      /\ \A k \in 1 .. l : d[k] \in 1 .. d[l] /\ e[k] \in 1 .. e[l] /\ k # l + 1 /\ k \in Nat
  <2>1. Opens(u) \in {0, 1} /\ Calls(u) \in {0, 1}
    BY DEF Opens, Calls
  <2>2. l \in 1 .. l
    BY <1>0, <1>1
  <2> QED  BY <1>0, <1>1, <2>1, <2>2, Levels
<1>9. /\ d2[l + 1] = Len(sc2) /\ e2[l + 1] = Len(no2)
      /\ \A k \in 1 .. l : d2[k] = d[k] /\ e2[k] = e[k]
  <2>1. l \in Nat /\ l + 1 \in Nat
    BY <1>1
  <2>2. d2[l + 1] = d[l] + Opens(u) /\ e2[l + 1] = e[l] + Calls(u)
    BY <2>1, <1>d, <1>e, Zenon
  <2>3. \A k \in 1 .. l : d2[k] = d[k] /\ e2[k] = e[k]
    BY <1>8, <1>d, <1>e, Zenon
  <2> QED  BY <1>0, <2>2, <2>3
<1>10. ASSUME NEW k \in 1 .. l + 1  PROVE Good(r[k], sc2[d2[k]], no2[e2[k]], e2[k])
  <2>1. CASE k = l + 1
    BY <1>7, <1>9, <2>1
  <2>2. CASE k \in 1 .. l
    <3>1. Good(fr[k], sc[d[k]], no[e[k]], e[k]) /\ sc2[d[k]] = sc[d[k]] /\ no2[e[k]] \subseteq no[e[k]]
      BY <1>0, <1>8, <2>2 DEF Held
    <3>2. Good(fr[k], sc2[d2[k]], no2[e2[k]], e2[k])
      BY <1>9, <2>2, <3>1 DEF Good, Covers
    <3>3. r[k].wf = fr[k].wf /\ r[k].at = fr[k].at
      <4>1. CASE k = l
        BY <1>1, <1>2, <1>4, <1>7, <2>2, <4>1
      <4>2. CASE k # l
        <5>1. k \in 1 .. l - 1
          BY <1>1, <2>2, <4>2
        <5> QED  BY <1>4, <1>7, <2>2, <5>1
      <4> QED  BY <4>1, <4>2
    <3> QED  BY <3>2, <3>3 DEF Good, Covers, Based
  <2>3. k = l + 1 \/ k \in 1 .. l
    BY <1>1
  <2> QED  BY <2>1, <2>2, <2>3
<1>11. /\ l + 1 # 0 /\ Len(sc2) = d2[l + 1] + Opens(r[l + 1])
       /\ Len(no2) = e2[l + 1] + Calls(r[l + 1])
  <2>1. Opens(g) = 0 /\ Calls(g) = 0
    BY DEF Opens, Calls
  <2>2. Len(sc2) \in Nat /\ Len(no2) \in Nat /\ l + 1 # 0
    BY <1>0, <1>1, <1>8
  <2> QED  BY <1>7, <1>9, <2>1, <2>2
<1>12. Held(l + 1, r, sc2, no2, d2, e2)
  BY <1>10 DEF Held
<1>13. Stack(l + 1, r, sc2, no2, d2, e2)
  BY <1>6, <1>11, <1>12, Zenon DEF Stack
<1> QED  BY <1>13, <1>q, <1>r

-----------------------------------------------------------------------------
(* The steps.                                                              *)
LEMMA Keeps ==
  ASSUME NEW l, NEW fr, NEW sc, NEW no, NEW d, NEW e, Seen(l, fr, sc, no, d, e), NEW f
  PROVE  Ran(l, f, sc, no, d, e, sc, no)
<1>1. Wrote(f, sc[d[l]], no[e[l]], sc[d[l]], no[e[l]])
  BY DEF Wrote
<1>2. IsSeq(sc) /\ no \in Seq(SUBSET AllNodes)
  BY DEF Seen
<1> QED  BY <1>1, <1>2 DEF Ran

LEMMA Leaves ==
  ASSUME NEW l, NEW fr, NEW sc, NEW no, NEW d, NEW e, Seen(l, fr, sc, no, d, e),
         NEW f, f = Last(fr), Kind(f) = "loop"
  PROVE  Ran(l, f, sc, no, d, e, sc, Noted(no, f.at, "next"))
<1>0. /\ Shape(l, fr, d, e) /\ l > 0 /\ IsSeq(sc) /\ no \in Seq(SUBSET AllNodes)
      /\ Len(sc) = d[l] /\ Len(no) = e[l]
  BY DEF Seen
<1>1. Known(f) /\ e[l] \in Nat /\ 1 <= e[l]
  BY <1>0, Levels
<1>n. PICK no2 : no2 = Noted(no, f.at, "next")
  OBVIOUS
<1>b. PICK b : b = no[e[l]] \cup {f.at}
  OBVIOUS
<1>2. no2 = [no EXCEPT ![e[l]] = b]
  BY <1>0, <1>b, <1>n DEF Noted
<1>3. e[l] \in 1 .. Len(no) /\ no[e[l]] \in SUBSET AllNodes /\ b \in SUBSET AllNodes
  <2>1. e[l] \in 1 .. Len(no)
    BY <1>0, <1>1
  <2>2. no[e[l]] \in SUBSET AllNodes
    BY <1>0, <2>1, ElementOfSeq
  <2>3. f.at \in AllNodes
    BY <1>1 DEF Known, WalkFrames, FrameOK, AllNodes
  <2> QED  BY <1>b, <2>1, <2>2, <2>3
<1>4. /\ no2 \in Seq(SUBSET AllNodes) /\ Len(no2) = e[l] /\ no2[e[l]] = b
      /\ \A i \in 1 .. e[l] - 1 : no2[i] = no[i]
  BY <1>0, <1>1, <1>2, <1>3
<1>5. Wrote(f, sc[d[l]], no[e[l]], sc[d[l]], no2[e[l]])
  BY <1>4, <1>b DEF Wrote
<1>6. Ran(l, f, sc, no, d, e, sc, no2)
  BY <1>0, <1>4, <1>5 DEF Ran
<1> QED  BY <1>6, <1>n

LEMMA Writes ==
  ASSUME NEW l, NEW fr, NEW sc, NEW no, NEW d, NEW e, Seen(l, fr, sc, no, d, e),
         NEW f, f = Last(fr), NEW fields, NEW h, h # "error" => Promised(f.wf, f.at) \subseteq fields,
         Kind(f) \in {"start", "end", "sidenote"} => fields = {}
  PROVE  Ran(l, f, sc, no, d, e, Append(Front(sc), Written(Last(sc), f.at, fields)), Noted(no, f.at, h))
<1>0. /\ Shape(l, fr, d, e) /\ l > 0 /\ IsSeq(sc) /\ no \in Seq(SUBSET AllNodes)
      /\ Len(sc) = d[l] /\ Len(no) = e[l]
  BY DEF Seen
<1>1. Known(f) /\ d[l] \in Nat /\ e[l] \in Nat /\ 1 <= d[l] /\ 1 <= e[l]
  BY <1>0, Levels
<1>w. PICK x : x = Written(Last(sc), f.at, fields)
  OBVIOUS
<1>s. PICK sc2 : sc2 = Append(Front(sc), x)
  OBVIOUS
<1>n. PICK no2 : no2 = Noted(no, f.at, h)
  OBVIOUS
<1>2. /\ IsSeq(sc2) /\ Len(sc2) = d[l] /\ \A i \in 1 .. d[l] - 1 : sc2[i] = sc[i]
      /\ sc2[d[l]] = x /\ Last(sc) = sc[d[l]]
  <2>1. sc # <<>>
    BY <1>0, <1>1
  <2>0. IsSeq(sc)
    BY <1>0
  <2>2. /\ IsSeq(sc2) /\ Len(sc2) = Len(sc) /\ \A i \in 1 .. Len(sc) - 1 : sc2[i] = sc[i]
        /\ sc2[Len(sc)] = x /\ Last(sc) = sc[Len(sc)]
    BY <1>s, <2>0, <2>1, Replaces
  <2>3. Len(sc) = d[l]
    BY <1>0
  <2> QED  BY <2>2, <2>3, Zenon
<1>3. /\ DOMAIN x = DOMAIN sc[d[l]] \cup {f.at} /\ x[f.at] = fields
      /\ \A m \in DOMAIN sc[d[l]] \ {f.at} : x[m] = sc[d[l]][m]
  BY <1>2, <1>w DEF Written
<1>b. PICK b : b = IF h = "error" THEN no[e[l]] \ {f.at} ELSE no[e[l]] \cup {f.at}
  OBVIOUS
<1>4. no2 = [no EXCEPT ![e[l]] = b]
  BY <1>0, <1>b, <1>n DEF Noted
<1>5. e[l] \in 1 .. Len(no) /\ no[e[l]] \in SUBSET AllNodes /\ b \in SUBSET AllNodes
  <2>1. e[l] \in 1 .. Len(no)
    BY <1>0, <1>1
  <2>2. no[e[l]] \in SUBSET AllNodes
    BY <1>0, <2>1, ElementOfSeq
  <2>3. f.at \in AllNodes
    BY <1>1 DEF Known, WalkFrames, FrameOK, AllNodes
  <2> QED  BY <1>b, <2>1, <2>2, <2>3
<1>6. /\ no2 \in Seq(SUBSET AllNodes) /\ Len(no2) = e[l] /\ no2[e[l]] = b
      /\ \A i \in 1 .. e[l] - 1 : no2[i] = no[i]
  BY <1>0, <1>1, <1>4, <1>5
<1>7. Wrote(f, sc[d[l]], no[e[l]], sc2[d[l]], no2[e[l]])
  BY <1>2, <1>3, <1>6, <1>b DEF Wrote
<1>8. Ran(l, f, sc, no, d, e, sc2, no2)
  BY <1>0, <1>2, <1>6, <1>7 DEF Ran
<1> QED  BY <1>8, <1>w, <1>s, <1>n

(* The walk at the top ends, or goes on.                                   *)
LEMMA EndsWell ==
  ASSUME NEW l, NEW sc, NEW no, NEW d, NEW e, Seen(l, frames, sc, no, d, e),
         NEW sc2, NEW no2, Ran(l, Inner, sc, no, d, e, sc2, no2),
         NEW v \in {"succeeded", "failed"}, ReturnWith(v)
  PROVE  (\E l2, d2, e2 : Stack(l2, frames', sc2, no2, d2, e2)) /\ Ready'
         /\ result' \in {NoNode, "succeeded", "failed"}
<1>0. Shape(l, frames, d, e) /\ l > 0
  BY DEF Seen
<1>1. /\ l \in Nat /\ IsSeq(frames) /\ frames # <<>> /\ l = Len(frames)
  BY <1>0, Levels
<1>2. Stack(l - 1, frames', sc2, no2, d, e)
  BY Returns DEF ReturnWith, Inner
<1>3. result' # NoNode /\ result' \in {NoNode, "succeeded", "failed"}
  BY TemplatesAssumption DEF ReturnWith
<1>4. frames' = <<>> \/ Inner'.state = "inside"
  <2>1. CASE l = 1
    <3>1. Shape(0, frames', d, e)
      BY <1>2, <2>1 DEF Stack
    <3> QED  BY <3>1, Levels
  <2>2. CASE l # 1
    <3>m. PICK m : m = l - 1
      OBVIOUS
    <3>0. l \in Nat
      BY <1>1
    <3>1. m \in 1 .. l /\ l \in 1 .. l /\ m < l /\ m \in 1 .. l - 1 /\ m > 0
      BY <1>0, <2>2, <3>0, <3>m
    <3>2. frames[m].state = "inside"
      BY <1>0, <3>1 DEF Shape, Nested, Linked
    <3>3. frames'[m] = frames[m]
      BY <1>1, <3>1, Fronts DEF ReturnWith
    <3>4. Last(frames') = frames'[m]
      <4>1. Shape(m, frames', d, e)
        BY <1>2, <3>m DEF Stack
      <4> QED  BY <3>1, <4>1, Levels
    <3> QED  BY <3>2, <3>3, <3>4 DEF Inner
  <2> QED  BY <2>1, <2>2
<1> QED  BY <1>2, <1>3, <1>4 DEF Ready

LEMMA FollowsWell ==
  ASSUME NEW l, NEW sc, NEW no, NEW d, NEW e, Seen(l, frames, sc, no, d, e),
         NEW sc2, NEW no2, Ran(l, Inner, sc, no, d, e, sc2, no2),
         NEW v \in {"succeeded", "failed"}, NEW h, Follow(h, v)
  PROVE  (\E l2, d2, e2 : Stack(l2, frames', sc2, no2, d2, e2)) /\ Ready'
         /\ result' \in {NoNode, "succeeded", "failed"}
<1>1. CASE ReturnWith(v)
  BY <1>1, EndsWell
<1>2. CASE /\ \E n \in Targets(Inner, h) : frames' = Append(Front(frames), Walk(Inner.wf, n, Inner.in))
           /\ result' = NoNode
  <2>1. PICK n \in Targets(Inner, h) : frames' = Append(Front(frames), Walk(Inner.wf, n, Inner.in))
    BY <1>2
  <2>2. Stack(l, frames', sc2, no2, d, e)
    BY <2>1, Goes DEF Inner
  <2>3. frames' # <<>> /\ Inner'.state = "visit"
    <3>0. Shape(l, frames, d, e) /\ l > 0
      BY DEF Seen
    <3>1. /\ l \in Nat /\ IsSeq(frames) /\ frames # <<>> /\ l = Len(frames)
      BY <3>0, Levels
    <3>2. frames'[l] = Walk(Inner.wf, n, Inner.in)
      BY <2>1, <3>1, Replaces
    <3>3. Shape(l, frames', d, e)
      BY <2>2 DEF Stack
    <3>4. Last(frames') = frames'[l] /\ frames' # <<>>
      <4>1. l # 0
        BY <3>0, <3>1
      <4> QED  BY <3>0, <3>3, <4>1, Levels
    <3> QED  BY <3>2, <3>4 DEF Inner, Walk
  <2> QED  BY <1>2, <2>2, <2>3 DEF Ready
<1> QED  BY <1>1, <1>2 DEF Follow

(* A walk begins within it.                                                *)
LEMMA PushesWell ==
  ASSUME NEW l, NEW d, NEW e, Seen(l, frames, scopes, normal, d, e), Kind(Inner) \in Depends,
         Kind(Inner) = "loop" => Node(Inner.wf, Inner.at).first # NoNode,
         NEW g \in WalkFrames, FrameOK(g), g.state = "visit", Push(g),
         Kind(Inner) \in {"loop", "parallel"} =>
           g.wf = Inner.wf /\ Node(Inner.wf, g.at).in = Inner.at,
         NEW sc2, IsSeq(sc2), Len(sc2) = Len(scopes) + Opens(Waiting(Inner)),
         \A i \in 1 .. Len(scopes) : sc2[i] = scopes[i],
         NEW no2 \in Seq(SUBSET AllNodes), Len(no2) = Len(normal) + Calls(Waiting(Inner)),
         \A i \in 1 .. Len(normal) : no2[i] \subseteq normal[i],
         Good(g, sc2[Len(sc2)], no2[Len(no2)], Len(no2))
  PROVE  (\E l2, d2, e2 : Stack(l2, frames', sc2, no2, d2, e2)) /\ frames' # <<>> /\ Inner'.state = "visit"
<1>1. \E d2, e2 : Stack(l + 1, frames', sc2, no2, d2, e2)
  BY Pushes DEF Push, Inner
<1>0. Shape(l, frames, d, e) /\ l > 0
  BY DEF Seen
<1>2. /\ l \in Nat /\ IsSeq(frames) /\ frames # <<>> /\ l = Len(frames)
  BY <1>0, Levels
<1>q. PICK q : q = Append(Front(frames), Waiting(Inner))
  OBVIOUS
<1>3. IsSeq(q) /\ Len(q) = l
  BY <1>2, <1>q, Replaces
<1>4. frames' = Append(q, g)
  BY <1>q DEF Push
<1>5. frames'[l + 1] = g
  BY <1>3, <1>4, Appends
<1>6. frames' # <<>> /\ Last(frames') = frames'[l + 1]
  <2>1. PICK d2, e2 : Shape(l + 1, frames', d2, e2)
    BY <1>1 DEF Stack
  <2>2. l + 1 # 0 /\ l + 1 > 0
    BY <1>0, <1>2
  <2> QED  BY <2>1, <2>2, Levels
<1> QED  BY <1>1, <1>5, <1>6 DEF Inner

LEMMA OutputsOK ==
  ASSUME NEW w, NEW n,
         Node(w, n).kind \in {"start", "end", "sidenote", "agent", "script", "condition", "branch", "judge"},
         NEW o \in Outputs(w, n)
  PROVE  /\ o.handle # "error" => Promised(w, n) \subseteq o.fields
         /\ Node(w, n).kind \in {"start", "end", "sidenote"} => o.fields = {}
<1>k. PICK k : k = Node(w, n).kind
  OBVIOUS
<1>s. PICK all : all = StaticOutputs(k)
  OBVIOUS
<1>m. PICK D : D = DynamicOutputs(w, n)
  OBVIOUS
<1>1. Promised(w, n) \subseteq all
  <2>1. CASE k = "script"
    <3>1. Available(w, n) = all \cup Node(w, n).extra /\ Occasional(w, n) = Node(w, n).extra
      BY <2>1, <1>k, <1>s DEF Available, DynamicOutputs, Occasional
    <3> QED  BY <3>1 DEF Promised
  <2>2. CASE k # "script"
    <3>1. DynamicOutputs(w, n) = {}
      BY <2>2, <1>k DEF DynamicOutputs
    <3> QED  BY <1>k, <1>s, <3>1 DEF Promised, Available
  <2> QED  BY <2>1, <2>2
<1>2. CASE k \in {"agent", "script"}
  <2>1. o \in {[fields |-> all \cup more, handle |-> h] :
                 more \in IF k = "script" THEN {{}, D} ELSE {{}, {"worktreePath"}},
                 h \in {"next", "error"}}
              \cup {Failure({"errorMessage"}), Failure(all \ {"exitCode"})}
    BY <1>2, <1>k, <1>s, <1>m DEF Outputs
  <2>2. o.handle # "error" => all \subseteq o.fields
    BY <2>1 DEF Failure
  <2> QED  BY <1>1, <1>2, <1>k, <2>2
<1>3. CASE k = "condition"
  <2>1. o \in {[fields |-> all, handle |-> h] : h \in {"met", "not_met", "error"}}
    BY <1>3, <1>k, <1>s DEF Outputs
  <2> QED  BY <1>1, <1>3, <1>k, <2>1
<1>4. CASE k = "branch"
  <2>1. o \in {[fields |-> all, handle |-> h] : h \in {"true", "false"}}
              \cup {Failure({"error"} \cup f) : f \in {{}, {"lhs", "rhs", "op"}}}
    BY <1>4, <1>k, <1>s DEF Outputs
  <2>2. o.handle # "error" => all \subseteq o.fields
    BY <2>1 DEF Failure
  <2> QED  BY <1>1, <1>4, <1>k, <2>2
<1>5. CASE k = "judge"
  <2>1. o \in {[fields |-> all, handle |-> "next"]}
              \cup {Failure({"errorMessage"} \cup f) : f \in {{}, {"raw"}}}
    BY <1>5, <1>k, <1>s DEF Outputs
  <2>2. o.handle # "error" => all \subseteq o.fields
    BY <2>1 DEF Failure
  <2> QED  BY <1>1, <1>5, <1>k, <2>2
<1>6. CASE k \in {"start", "end", "sidenote"}
  <2>1. o \in {[fields |-> {}, handle |-> "next"]}
    BY <1>6, <1>k DEF Outputs
  <2>2. all = {}
    BY <1>6, <1>s DEF StaticOutputs
  <2> QED  BY <1>1, <2>1, <2>2
<1> QED  BY <1>2, <1>3, <1>4, <1>5, <1>6, <1>k

(* What walking is, when a frame has been entered or one goes on.          *)
LEMMA WalkingOn ==
  ASSUME TemplateInv, run \in {"walking", "over"}
  PROVE  \E l, d, e : Stack(l, frames, scopes, normal, d, e)
  BY DEF TemplateInv

(* What the steps of a walk leave: the rest is as it was.                  *)
LEMMA StillInv ==
  ASSUME TemplateInv, run = "walking", UNCHANGED <<run, given>>,
         signal' \in {NoNode, "break", "continue"}, result' \in {NoNode, "succeeded", "failed"},
         \E l, d, e : Stack(l, frames', scopes', normal', d, e), Ready'
  PROVE  TemplateInv'
<1>1. run' = "walking" /\ given' = given
  OBVIOUS
<1>2. Refused \notin Range(given) /\ \A x \in DOMAIN given : given[x] \in Values \cup {Refused}
  BY DEF TemplateInv
<1> QED  BY <1>1, <1>2 DEF TemplateInv

LEMMA ReturnedWalks ==
  ASSUME TemplateInv, NEW kind, Returned(kind)
  PROVE  run = "walking" /\ Inner.state = "inside"
  BY DEF TemplateInv, Returned, Ready

LEMMA ExecuteKeeps == ASSUME TemplateInv, Execute  PROVE TemplateInv'
<1>0. run = "walking" /\ result = NoNode /\ Inner.state = "visit" /\ frames # <<>>
      /\ Kind(Inner) \in {"start", "end", "sidenote", "agent", "script", "condition", "branch", "judge"}
      /\ UNCHANGED <<run, given>> /\ signal \in {NoNode, "break", "continue"}
  BY DEF TemplateInv, Ready, Execute, Visiting
<1>1. PICK o \in Outputs(Inner.wf, Inner.at) :
     /\ scopes' = Append(Front(scopes), Written(Last(scopes), Inner.at, o.fields))
     /\ normal' = Noted(normal, Inner.at, o.handle)
     /\ IF Kind(Inner) = "end"
        THEN UNCHANGED signal /\ \E v \in {"succeeded", "failed"} : ReturnWith(v)
        ELSE IF InLoop(Inner) /\ o.handle \in {"met", "not_met"}
        THEN /\ signal' = IF o.handle = "met" THEN "break" ELSE "continue"
             /\ ReturnWith("succeeded")
        ELSE /\ signal' = IF InLoop(Inner) /\ o.handle # "error" /\ Targets(Inner, o.handle) = {}
                          THEN "continue" ELSE signal
             /\ Follow(o.handle, IF o.handle = "error" THEN "failed" ELSE "succeeded")
  BY DEF Execute
<1>2. PICK l, d, e : Stack(l, frames, scopes, normal, d, e)
  BY <1>0, WalkingOn
<1>3. Seen(l, frames, scopes, normal, d, e)
  <2>1. l > 0
    BY <1>0, <1>2, Levels DEF Stack
  <2> QED  BY <1>0, <1>2, <2>1, Trims DEF Inner
<1>4. /\ o.handle # "error" => Promised(Inner.wf, Inner.at) \subseteq o.fields
      /\ Kind(Inner) \in {"start", "end", "sidenote"} => o.fields = {}
  BY <1>0, OutputsOK DEF Kind
<1>5. Ran(l, Inner, scopes, normal, d, e, scopes', normal')
  BY <1>1, <1>3, <1>4, Writes DEF Inner
<1>6. /\ \E l2, d2, e2 : Stack(l2, frames', scopes', normal', d2, e2)
      /\ Ready' /\ result' \in {NoNode, "succeeded", "failed"}
  <2>1. CASE Kind(Inner) = "end"
    BY <1>1, <1>3, <1>5, <2>1, EndsWell
  <2>2. CASE Kind(Inner) # "end" /\ InLoop(Inner) /\ o.handle \in {"met", "not_met"}
    BY <1>1, <1>3, <1>5, <2>2, EndsWell
  <2>3. CASE Kind(Inner) # "end" /\ ~(InLoop(Inner) /\ o.handle \in {"met", "not_met"})
    <3>1. PICK v \in {"succeeded", "failed"} : Follow(o.handle, v)
      BY <1>1, <2>3
    <3> QED  BY <1>3, <1>5, <3>1, FollowsWell
  <2> QED  BY <2>1, <2>2, <2>3
<1>7. signal' \in {NoNode, "break", "continue"}
  BY <1>0, <1>1
<1> QED  BY <1>0, <1>6, <1>7, StillInv

LEMMA VisitingSees ==
  ASSUME TemplateInv, NEW kinds, Visiting(kinds)
  PROVE  /\ run = "walking" /\ result = NoNode /\ Kind(Inner) \in kinds /\ Known(Inner)
         /\ signal \in {NoNode, "break", "continue"}
         /\ \E l, d, e : Seen(l, frames, scopes, normal, d, e)
<1>0. /\ run = "walking" /\ result = NoNode /\ Inner.state = "visit" /\ frames # <<>>
      /\ Kind(Inner) \in kinds /\ signal \in {NoNode, "break", "continue"}
  BY DEF TemplateInv, Ready, Visiting
<1>1. PICK l, d, e : Stack(l, frames, scopes, normal, d, e)
  BY <1>0, WalkingOn
<1>2. Shape(l, frames, d, e) /\ l > 0
  BY <1>0, <1>1, Levels DEF Stack
<1>3. Seen(l, frames, scopes, normal, d, e)
  BY <1>0, <1>1, <1>2, Trims DEF Inner
<1>4. Known(Inner)
  BY <1>2, Levels DEF Inner
<1> QED  BY <1>0, <1>3, <1>4

LEMMA ReturnedSees ==
  ASSUME TemplateInv, NEW kind, Returned(kind)
  PROVE  /\ run = "walking" /\ Inner.state = "inside" /\ Kind(Inner) = kind /\ Known(Inner)
         /\ signal \in {NoNode, "break", "continue"} /\ result \in {"succeeded", "failed"}
         /\ \E l, d, e :
              /\ kind = "loop" => Seen(l, frames, scopes, normal, d, e)
              /\ kind = "parallel" => Seen(l, frames, Front(scopes), normal, d, e)
              /\ kind = "subworkflow" => Seen(l, frames, Front(scopes), Front(normal), d, e)
<1>0. /\ run = "walking" /\ Inner.state = "inside" /\ frames # <<>> /\ Kind(Inner) = kind
      /\ signal \in {NoNode, "break", "continue"} /\ result \in {"succeeded", "failed"}
  BY ReturnedWalks DEF TemplateInv, Returned
<1>1. PICK l, d, e : Stack(l, frames, scopes, normal, d, e)
  BY <1>0, WalkingOn
<1>2. Shape(l, frames, d, e) /\ l > 0
  BY <1>0, <1>1, Levels DEF Stack
<1>3. Known(Inner)
  BY <1>2, Levels DEF Inner
<1>4. /\ kind = "loop" => Seen(l, frames, scopes, normal, d, e)
      /\ kind = "parallel" => Seen(l, frames, Front(scopes), normal, d, e)
      /\ kind = "subworkflow" => Seen(l, frames, Front(scopes), Front(normal), d, e)
  BY <1>0, <1>1, <1>2, Trims DEF Inner
<1> QED  BY <1>0, <1>3, <1>4

LEMMA SeenGood ==
  ASSUME NEW l, NEW fr, NEW sc, NEW no, NEW d, NEW e, Seen(l, fr, sc, no, d, e)
  PROVE  /\ IsSeq(sc) /\ IsSeq(no) /\ no \in Seq(SUBSET AllNodes)
         /\ Len(sc) \in Nat /\ Len(no) \in Nat /\ Len(sc) > 0 /\ Len(no) > 0
         /\ Len(no) \in 1 .. Len(no) /\ Last(sc) = sc[Len(sc)]
         /\ Good(Last(fr), sc[Len(sc)], no[Len(no)], Len(no))
<1>1. /\ Shape(l, fr, d, e) /\ l > 0 /\ IsSeq(sc) /\ no \in Seq(SUBSET AllNodes) /\ IsSeq(no)
      /\ Len(sc) = d[l] /\ Len(no) = e[l] /\ Held(l, fr, sc, no, d, e)
  BY IsSeqs DEF Seen
<1>2. l \in 1 .. l /\ Last(fr) = fr[l] /\ d[l] \in Nat /\ e[l] \in Nat /\ 1 <= d[l] /\ 1 <= e[l]
  BY <1>1, Levels
<1>3. Good(Last(fr), sc[Len(sc)], no[Len(no)], Len(no))
  BY <1>1, <1>2 DEF Held
<1>4. sc # <<>>
  BY <1>1, <1>2
<1>5. Last(sc) = sc[Len(sc)]
  BY <1>1, <1>4, Fronts
<1> QED  BY <1>1, <1>2, <1>3, <1>5

(* The walk of a child of the node at the top.                             *)
LEMMA ChildWalk ==
  ASSUME NEW f, Known(f), NEW x \in Nodes(f.wf), Node(f.wf, x).in = f.at, NEW g, g = Walk(f.wf, x, f.at)
  PROVE  /\ g \in WalkFrames /\ FrameOK(g) /\ g.state = "visit" /\ g.wf = f.wf /\ g.at = x
         /\ Node(f.wf, g.at).in = f.at
<1>1. f.wf \in DOMAIN Flows /\ f.at \in AllNodes
  BY DEF Known, FrameOK, AllNodes
<1>2. g \in WalkFrames /\ FrameOK(g) /\ g.wf = f.wf /\ g.at = x
  BY <1>1, WalkIs
<1> QED  BY <1>2 DEF Walk

LEMMA LoopBegins ==
  ASSUME TemplateInv, run = "walking", NEW l, NEW d, NEW e, Seen(l, frames, scopes, normal, d, e),
         Known(Inner), Kind(Inner) = "loop", Node(Inner.wf, Inner.at).first # NoNode,
         Push(Walk(Inner.wf, Node(Inner.wf, Inner.at).first, Inner.at)),
         signal' = NoNode, result' = NoNode, UNCHANGED <<run, given, scopes, normal>>
  PROVE  TemplateInv'
<1>x. PICK x : x = Node(Inner.wf, Inner.at).first
  OBVIOUS
<1>1. x \in Nodes(Inner.wf) /\ Node(Inner.wf, x).in = Inner.at
  <2>1. WellFormed(Inner.wf) /\ Inner.at \in Nodes(Inner.wf)
    BY TemplatesAssumption DEF Known, FrameOK
  <2> QED  BY <1>x, <2>1 DEF WellFormed, Kind
<1>g. PICK g : g = Walk(Inner.wf, x, Inner.at)
  OBVIOUS
<1>2. /\ g \in WalkFrames /\ FrameOK(g) /\ g.state = "visit" /\ g.wf = Inner.wf /\ g.at = x
      /\ Node(Inner.wf, g.at).in = Inner.at
  BY <1>1, <1>g, ChildWalk
<1>3. /\ IsSeq(scopes) /\ normal \in Seq(SUBSET AllNodes) /\ Len(scopes) \in Nat /\ Len(normal) \in Nat
      /\ Good(Inner, scopes[Len(scopes)], normal[Len(normal)], Len(normal))
  BY SeenGood DEF Inner
<1>4. Good(g, scopes[Len(scopes)], normal[Len(normal)], Len(normal))
  BY <1>1, <1>2, <1>3, GoodInside
<1>5. Opens(Waiting(Inner)) = 0 /\ Calls(Waiting(Inner)) = 0
  <2>1. Kind(Waiting(Inner)) = "loop"
    BY WaitingIs DEF Depends
  <2> QED  BY <2>1 DEF Opens, Calls
<1>6. Len(scopes) = Len(scopes) + Opens(Waiting(Inner)) /\ Len(normal) = Len(normal) + Calls(Waiting(Inner))
  BY <1>3, <1>5
<1>7. Kind(Inner) \in Depends /\ Push(g)
  BY <1>x, <1>g DEF Depends
<1>8. /\ \E l2, d2, e2 : Stack(l2, frames', scopes, normal, d2, e2)
      /\ frames' # <<>> /\ Inner'.state = "visit"
  BY <1>2, <1>3, <1>4, <1>6, <1>7, PushesWell
<1>9. (\E l2, d2, e2 : Stack(l2, frames', scopes', normal', d2, e2)) /\ Ready'
  BY <1>8 DEF Ready
<1> QED  BY <1>9, StillInv

LEMMA EnterLoopKeeps == ASSUME TemplateInv, EnterLoop  PROVE TemplateInv'
<1>0. /\ run = "walking" /\ result = NoNode /\ Kind(Inner) = "loop" /\ Known(Inner)
      /\ signal \in {NoNode, "break", "continue"} /\ UNCHANGED <<run, given, scopes>>
  BY VisitingSees DEF EnterLoop
<1>1. PICK l, d, e : Seen(l, frames, scopes, normal, d, e)
  BY VisitingSees DEF EnterLoop
<1>2. CASE Node(Inner.wf, Inner.at).first = NoNode
  <2>1. Follow("next", "succeeded") /\ normal' = Noted(normal, Inner.at, "next") /\ UNCHANGED signal
    BY <1>2 DEF EnterLoop
  <2>2. Ran(l, Inner, scopes, normal, d, e, scopes', normal')
    BY <1>0, <1>1, <2>1, Leaves DEF Inner
  <2>3. /\ \E l2, d2, e2 : Stack(l2, frames', scopes', normal', d2, e2)
        /\ Ready' /\ result' \in {NoNode, "succeeded", "failed"}
    BY <1>1, <2>1, <2>2, FollowsWell
  <2> QED  BY <1>0, <2>1, <2>3, StillInv
<1>3. CASE Node(Inner.wf, Inner.at).first # NoNode
  <2>1. /\ Push(Walk(Inner.wf, Node(Inner.wf, Inner.at).first, Inner.at))
        /\ signal' = NoNode /\ result' = NoNode /\ UNCHANGED normal
    BY <1>0, <1>3 DEF EnterLoop
  <2> QED  BY <1>0, <1>1, <1>3, <2>1, LoopBegins
<1> QED  BY <1>2, <1>3

LEMMA LoopReturnsKeeps == ASSUME TemplateInv, LoopReturns  PROVE TemplateInv'
<1>0. /\ run = "walking" /\ Inner.state = "inside" /\ Kind(Inner) = "loop" /\ Known(Inner)
      /\ signal \in {NoNode, "break", "continue"} /\ result \in {"succeeded", "failed"}
      /\ UNCHANGED <<run, given, scopes>>
  BY ReturnedSees DEF LoopReturns
<1>1. PICK l, d, e : Seen(l, frames, scopes, normal, d, e)
  BY ReturnedSees DEF LoopReturns
<1>2. CASE signal = "continue" /\ Inner.i < MaxIterations
  <2>1. /\ Push(Walk(Inner.wf, Node(Inner.wf, Inner.at).first, Inner.at))
        /\ signal' = NoNode /\ result' = NoNode /\ UNCHANGED normal
    BY <1>2 DEF LoopReturns
  <2>2. Node(Inner.wf, Inner.at).first # NoNode
    BY <1>0 DEF Known, FrameOK
  <2> QED  BY <1>0, <1>1, <2>1, <2>2, LoopBegins
<1>3. CASE ~(signal = "continue" /\ Inner.i < MaxIterations)
  <2>1. /\ UNCHANGED signal
        /\ IF signal = NoNode THEN ReturnWith(result) /\ UNCHANGED normal
           ELSE Follow("next", "succeeded") /\ normal' = Noted(normal, Inner.at, "next")
    BY <1>3 DEF LoopReturns
  <2>2. Ran(l, Inner, scopes, normal, d, e, scopes', normal')
    <3>1. CASE signal = NoNode
      BY <1>0, <1>1, <2>1, <3>1, Keeps
    <3>2. CASE signal # NoNode
      BY <1>0, <1>1, <2>1, <3>2, Leaves DEF Inner
    <3> QED  BY <3>1, <3>2
  <2>3. /\ \E l2, d2, e2 : Stack(l2, frames', scopes', normal', d2, e2)
        /\ Ready' /\ result' \in {NoNode, "succeeded", "failed"}
    <3>1. CASE signal = NoNode
      BY <1>0, <1>1, <2>1, <2>2, <3>1, EndsWell
    <3>2. CASE signal # NoNode
      BY <1>1, <2>1, <2>2, <3>2, FollowsWell
    <3> QED  BY <3>1, <3>2
  <2> QED  BY <1>0, <2>1, <2>3, StillInv
<1> QED  BY <1>2, <1>3

LEMMA ParallelPromise ==
  ASSUME NEW w, NEW n, Node(w, n).kind = "parallel", NEW extra,
         Members(w, n) # {} => /\ Node(w, n).first = "race" => "winner" \in extra
                               /\ Node(w, n).first = "quorum" => "winners" \in extra
  PROVE  Promised(w, n) \subseteq Tally \cup extra
<1>1. Available(w, n) = Tally \cup {"winner", "winners"}
  BY DEF Available, StaticOutputs, DynamicOutputs, Tally
<1>2. CASE Members(w, n) = {}
  <2>1. {"winner", "winners"} \subseteq Occasional(w, n)
    BY <1>2 DEF Occasional
  <2> QED  BY <1>1, <2>1 DEF Promised
<1>3. CASE Members(w, n) # {}
  <2>1. /\ "winner" \in Occasional(w, n) \/ "winner" \in extra
        /\ "winners" \in Occasional(w, n) \/ "winners" \in extra
    BY <1>3 DEF Occasional
  <2> QED  BY <1>1, <2>1 DEF Promised
<1> QED  BY <1>2, <1>3

LEMMA EnterParallelKeeps == ASSUME TemplateInv, EnterParallel  PROVE TemplateInv'
<1>0. /\ run = "walking" /\ result = NoNode /\ Kind(Inner) = "parallel" /\ Known(Inner)
      /\ signal' \in {NoNode, "break", "continue"} /\ UNCHANGED <<run, given>>
  BY VisitingSees DEF EnterParallel
<1>1. PICK l, d, e : Seen(l, frames, scopes, normal, d, e)
  BY VisitingSees DEF EnterParallel
<1>2. CASE Members(Inner.wf, Inner.at) = {}
  <2>h. PICK h : h = SuccessHandle(Node(Inner.wf, Inner.at).first)
    OBVIOUS
  <2>1. /\ scopes' = Append(Front(scopes), Written(Last(scopes), Inner.at, Tally))
        /\ normal' = Noted(normal, Inner.at, h)
        /\ Follow(h, "succeeded")
    BY <1>2, <2>h DEF EnterParallel
  <2>2. Promised(Inner.wf, Inner.at) \subseteq Tally
    <3>1. Promised(Inner.wf, Inner.at) \subseteq Tally \cup {}
      BY <1>0, <1>2, ParallelPromise DEF Kind
    <3> QED  BY <3>1
  <2>3. Ran(l, Inner, scopes, normal, d, e, scopes', normal')
    BY <1>0, <1>1, <2>1, <2>2, Writes DEF Inner
  <2>4. /\ \E l2, d2, e2 : Stack(l2, frames', scopes', normal', d2, e2)
        /\ Ready' /\ result' \in {NoNode, "succeeded", "failed"}
    BY <1>1, <2>1, <2>3, FollowsWell
  <2> QED  BY <1>0, <2>4, StillInv
<1>3. CASE Members(Inner.wf, Inner.at) # {}
  <2>b. PICK b : b = {n \in normal[Len(normal)] : Inner.at \notin Around[Inner.wf][n]}
    OBVIOUS
  <2>1. PICK x \in Roots(Inner.wf, Inner.at) : Push(Walk(Inner.wf, x, Inner.at))
    BY <1>3 DEF EnterParallel
  <2>2. /\ scopes' = Append(scopes, Last(scopes)) /\ normal' = [normal EXCEPT ![Len(normal)] = b]
        /\ result' = NoNode
    BY <1>0, <1>3, <2>b DEF EnterParallel, Snapshot
  <2>3. x \in Nodes(Inner.wf) /\ Node(Inner.wf, x).in = Inner.at
    BY <2>1 DEF Roots, Members
  <2>g. PICK g : g = Walk(Inner.wf, x, Inner.at)
    OBVIOUS
  <2>4. /\ g \in WalkFrames /\ FrameOK(g) /\ g.state = "visit" /\ g.wf = Inner.wf /\ g.at = x
        /\ Node(Inner.wf, g.at).in = Inner.at
    BY <1>0, <2>3, <2>g, ChildWalk
  <2>5. /\ IsSeq(scopes) /\ normal \in Seq(SUBSET AllNodes) /\ Len(scopes) \in Nat /\ Len(normal) \in Nat
        /\ Len(normal) \in 1 .. Len(normal) /\ Last(scopes) = scopes[Len(scopes)]
        /\ Good(Inner, scopes[Len(scopes)], normal[Len(normal)], Len(normal))
    BY <1>1, SeenGood DEF Inner
  <2>6. /\ IsSeq(scopes') /\ Len(scopes') = Len(scopes) + 1
        /\ \A i \in 1 .. Len(scopes) : scopes'[i] = scopes[i]
        /\ scopes'[Len(scopes')] = scopes[Len(scopes)]
    BY <2>2, <2>5, Appends
  <2>7. b \subseteq normal[Len(normal)] /\ b \in SUBSET AllNodes
    <3>1. normal[Len(normal)] \in SUBSET AllNodes
      BY <2>5, ElementOfSeq
    <3> QED  BY <2>b, <3>1
  <2>8. /\ normal' \in Seq(SUBSET AllNodes) /\ Len(normal') = Len(normal) /\ normal'[Len(normal)] = b
        /\ \A i \in 1 .. Len(normal) : normal'[i] \subseteq normal[i]
    BY <2>2, <2>5, <2>7
  <2>9. Good(g, scopes'[Len(scopes')], normal'[Len(normal')], Len(normal'))
    <3>1. \A m \in b : Inner.at \notin Around[Inner.wf][m]
      BY <2>b
    <3>2. Good(g, scopes[Len(scopes)], b, Len(normal))
      BY <1>0, <2>3, <2>4, <2>5, <2>7, <3>1, GoodInside
    <3> QED  BY <2>6, <2>8, <3>2
  <2>10. Opens(Waiting(Inner)) = 1 /\ Calls(Waiting(Inner)) = 0
    <3>1. Kind(Waiting(Inner)) = "parallel" /\ Waiting(Inner).state = "inside"
      BY <1>0, WaitingIs DEF Depends
    <3> QED  BY <3>1 DEF Opens, Calls
  <2>11. Len(scopes') = Len(scopes) + Opens(Waiting(Inner)) /\ Len(normal') = Len(normal) + Calls(Waiting(Inner))
    BY <2>5, <2>6, <2>8, <2>10
  <2>12. Kind(Inner) \in Depends /\ Push(g) /\ Kind(Inner) # "loop"
    BY <1>0, <2>1, <2>g DEF Depends
  <2>13. /\ \E l2, d2, e2 : Stack(l2, frames', scopes', normal', d2, e2)
         /\ frames' # <<>> /\ Inner'.state = "visit"
    BY <1>1, <2>4, <2>6, <2>8, <2>9, <2>11, <2>12, PushesWell
  <2>14. (\E l2, d2, e2 : Stack(l2, frames', scopes', normal', d2, e2)) /\ Ready'
    BY <2>2, <2>13 DEF Ready
  <2> QED  BY <1>0, <2>2, <2>14, StillInv
<1> QED  BY <1>2, <1>3

LEMMA ParallelReturnsKeeps == ASSUME TemplateInv, ParallelReturns  PROVE TemplateInv'
<1>0. /\ run = "walking" /\ Kind(Inner) = "parallel" /\ Known(Inner)
      /\ signal' \in {NoNode, "break", "continue"} /\ UNCHANGED <<run, given>>
  BY ReturnedSees DEF ParallelReturns
<1>s. PICK ours : ours = Front(scopes)
  OBVIOUS
<1>1. PICK l, d, e : Seen(l, frames, ours, normal, d, e)
  BY <1>s, ReturnedSees DEF ParallelReturns
<1>m. PICK mode : mode = Node(Inner.wf, Inner.at).first
  OBVIOUS
<1>2. PICK h, extra :
        /\ extra \in IF mode = "quorum" THEN {{"winners"}}
                     ELSE IF mode # "race" THEN {{}}
                     ELSE IF h # "error" THEN {{"winner"}} ELSE {{}, {"winner"}}
        /\ scopes' = Append(Front(ours), Written(Last(ours), Inner.at, Tally \cup extra))
        /\ normal' = Noted(normal, Inner.at, h)
        /\ Follow(h, IF h = "error" THEN "failed" ELSE "succeeded")
  BY <1>s, <1>m, Zenon DEF ParallelReturns
<1>3. h # "error" => Promised(Inner.wf, Inner.at) \subseteq Tally \cup extra
  <2> SUFFICES ASSUME h # "error"
               PROVE  Promised(Inner.wf, Inner.at) \subseteq Tally \cup extra
    OBVIOUS
  <2>1. (mode = "race" => "winner" \in extra) /\ (mode = "quorum" => "winners" \in extra)
    BY <1>2
  <2> QED  BY <1>0, <1>m, <2>1, ParallelPromise DEF Kind
<1>4. Ran(l, Inner, ours, normal, d, e, scopes', normal')
  BY <1>0, <1>1, <1>2, <1>3, Writes DEF Inner
<1>5. PICK v \in {"succeeded", "failed"} : Follow(h, v)
  BY <1>2
<1>6. /\ \E l2, d2, e2 : Stack(l2, frames', scopes', normal', d2, e2)
      /\ Ready' /\ result' \in {NoNode, "succeeded", "failed"}
  BY <1>1, <1>4, <1>5, FollowsWell
<1> QED  BY <1>0, <1>6, StillInv

LEMMA SubworkflowPromise ==
  ASSUME NEW w, NEW n, Node(w, n).kind = "subworkflow"
  PROVE  Promised(w, n) \subseteq {"status"}
  BY DEF Promised, Available, Occasional, StaticOutputs, DynamicOutputs

(* The seed of a subworkflow.                                              *)
LEMMA GoodCall ==
  ASSUME NEW f, NEW names, NEW v, v # 1
  PROVE  Good(f, [k \in {"inputs", "__inputs"} |-> names], {}, v)
<1>s. PICK s : s = [k \in {"inputs", "__inputs"} |-> names]
  OBVIOUS
<1>1. DOMAIN s = {"inputs", "__inputs"} /\ "globals" \notin DOMAIN s
  BY <1>s
<1>2. Based(f, s, v)
  BY <1>1 DEF Based
<1>3. Orderly(f.wf) => Covers(f, s, {})
  BY <1>1 DEF Covers, Orderly
<1>4. Good(f, s, {}, v)
  BY <1>2, <1>3 DEF Good
<1> QED  BY <1>s, <1>4

LEMMA StartIs ==
  ASSUME NEW w \in DOMAIN Flows, NEW g, g = Walk(w, StartOf(w), NoNode)
  PROVE  g \in WalkFrames /\ FrameOK(g) /\ g.state = "visit" /\ g.wf = w /\ Opens(g) = 0 /\ Calls(g) = 0
<1>1. StartOf(w) \in Starts(w)
  BY TemplatesAssumption DEF WellFormed, StartOf
<1>2. StartOf(w) \in Nodes(w) /\ Node(w, StartOf(w)).in = NoNode
  BY <1>1 DEF Starts
<1>n. PICK n : n = StartOf(w)
  OBVIOUS
<1>3. g \in WalkFrames /\ FrameOK(g) /\ g.wf = w /\ Opens(g) = 0 /\ Calls(g) = 0
  BY <1>2, <1>n, WalkIs
<1> QED  BY <1>3 DEF Walk

LEMMA EnterSubworkflowKeeps == ASSUME TemplateInv, EnterSubworkflow  PROVE TemplateInv'
<1>0. /\ run = "walking" /\ result = NoNode /\ Kind(Inner) = "subworkflow" /\ Known(Inner)
      /\ signal' \in {NoNode, "break", "continue"} /\ UNCHANGED <<run, given>>
  BY VisitingSees DEF EnterSubworkflow
<1>1. PICK l, d, e : Seen(l, frames, scopes, normal, d, e)
  BY VisitingSees DEF EnterSubworkflow
<1>2. CASE /\ scopes' = Append(Front(scopes), Written(Last(scopes), Inner.at, {"status", "errorMessage"}))
           /\ normal' = Noted(normal, Inner.at, "error")
           /\ Follow("error", "failed")
  <2>1. Ran(l, Inner, scopes, normal, d, e, scopes', normal')
    BY <1>0, <1>1, <1>2, Writes DEF Inner
  <2>2. /\ \E l2, d2, e2 : Stack(l2, frames', scopes', normal', d2, e2)
        /\ Ready' /\ result' \in {NoNode, "succeeded", "failed"}
    BY <1>1, <1>2, <2>1, FollowsWell
  <2> QED  BY <1>0, <2>2, StillInv
<1>3. CASE LET child == Node(Inner.wf, Inner.at).first
           IN \E names \in SUBSET InputNames :
                /\ child \in DOMAIN Flows
                /\ Push(Walk(child, StartOf(child), NoNode))
                /\ scopes' = Append(scopes, [k \in {"inputs", "__inputs"} |-> names])
                /\ normal' = Append(normal, {})
                /\ UNCHANGED result
  <2>c. PICK child : child = Node(Inner.wf, Inner.at).first
    OBVIOUS
  <2>1. PICK names \in SUBSET InputNames :
           /\ child \in DOMAIN Flows
           /\ Push(Walk(child, StartOf(child), NoNode))
           /\ scopes' = Append(scopes, [k \in {"inputs", "__inputs"} |-> names])
           /\ normal' = Append(normal, {})
           /\ result' = NoNode
    BY <1>0, <1>3, <2>c
  <2>g. PICK g : g = Walk(child, StartOf(child), NoNode)
    OBVIOUS
  <2>s. PICK s : s = [k \in {"inputs", "__inputs"} |-> names]
    OBVIOUS
  <2>2. g \in WalkFrames /\ FrameOK(g) /\ g.state = "visit"
    BY <2>1, <2>g, StartIs
  <2>3. /\ IsSeq(scopes) /\ IsSeq(normal) /\ normal \in Seq(SUBSET AllNodes)
        /\ Len(scopes) \in Nat /\ Len(normal) \in Nat /\ Len(normal) > 0
    BY <1>1, SeenGood
  <2>4. /\ IsSeq(scopes') /\ Len(scopes') = Len(scopes) + 1
        /\ \A i \in 1 .. Len(scopes) : scopes'[i] = scopes[i]
        /\ scopes'[Len(scopes) + 1] = s
    BY <2>1, <2>3, <2>s, Appends
  <2>5. /\ Len(normal') = Len(normal) + 1
        /\ \A i \in 1 .. Len(normal) : normal'[i] = normal[i]
        /\ normal'[Len(normal) + 1] = {}
    BY <2>1, <2>3, Appends
  <2>6. normal' \in Seq(SUBSET AllNodes)
    BY <2>1, <2>3, AppendProperties
  <2>7. Good(g, scopes'[Len(scopes')], normal'[Len(normal')], Len(normal'))
    <3>1. Len(normal) + 1 # 1
      BY <2>3
    <3>2. Good(g, s, {}, Len(normal) + 1)
      BY <2>s, <3>1, GoodCall
    <3> QED  BY <2>4, <2>5, <3>2
  <2>8. Opens(Waiting(Inner)) = 1 /\ Calls(Waiting(Inner)) = 1
    <3>1. Kind(Waiting(Inner)) = "subworkflow" /\ Waiting(Inner).state = "inside"
      BY <1>0, WaitingIs DEF Depends
    <3> QED  BY <3>1 DEF Opens, Calls
  <2>9. Kind(Inner) \in Depends /\ Kind(Inner) \notin {"loop", "parallel"} /\ Push(g)
    BY <1>0, <2>1, <2>g DEF Depends
  <2>10. Len(scopes') = Len(scopes) + Opens(Waiting(Inner)) /\ Len(normal') = Len(normal) + Calls(Waiting(Inner))
    BY <2>4, <2>5, <2>8
  <2>11. \A i \in 1 .. Len(normal) : normal'[i] \subseteq normal[i]
    BY <2>5
  <2>12. /\ \E l2, d2, e2 : Stack(l2, frames', scopes', normal', d2, e2)
         /\ frames' # <<>> /\ Inner'.state = "visit"
    BY <1>1, <2>2, <2>4, <2>6, <2>7, <2>9, <2>10, <2>11, PushesWell
  <2>13. (\E l2, d2, e2 : Stack(l2, frames', scopes', normal', d2, e2)) /\ Ready'
    BY <2>1, <2>12 DEF Ready
  <2> QED  BY <1>0, <2>1, <2>13, StillInv
<1> QED  BY <1>2, <1>3, Zenon DEF EnterSubworkflow

LEMMA SubworkflowReturnsKeeps == ASSUME TemplateInv, SubworkflowReturns  PROVE TemplateInv'
<1>0. /\ run = "walking" /\ Kind(Inner) = "subworkflow" /\ Known(Inner)
      /\ signal' \in {NoNode, "break", "continue"} /\ UNCHANGED <<run, given>>
  BY ReturnedSees DEF SubworkflowReturns
<1>s. PICK ours : ours = Front(scopes)
  OBVIOUS
<1>n. PICK no : no = Front(normal)
  OBVIOUS
<1>1. PICK l, d, e : Seen(l, frames, ours, no, d, e)
  BY <1>s, <1>n, ReturnedSees DEF SubworkflowReturns
<1>h. PICK h : h = IF result = "succeeded" THEN "next" ELSE "error"
  OBVIOUS
<1>x. PICK extra : extra = Node(Inner.wf, Inner.at).extra
  OBVIOUS
<1>f. PICK set : set = IF h = "error" THEN {"status", "errorMessage"}
                       ELSE {"status"} \cup {x \in DOMAIN extra : Resolves(Last(scopes), extra[x])}
  OBVIOUS
<1>2. /\ scopes' = Append(Front(ours), Written(Last(ours), Inner.at, set))
      /\ normal' = Noted(no, Inner.at, h)
      /\ Follow(h, IF h = "error" THEN "failed" ELSE "succeeded")
  BY <1>s, <1>n, <1>h, <1>x, <1>f DEF SubworkflowReturns
<1>3. Promised(Inner.wf, Inner.at) \subseteq set
  <2>1. {"status"} \subseteq set
    BY <1>f
  <2> QED  BY <1>0, <2>1, SubworkflowPromise DEF Kind
<1>4. Ran(l, Inner, ours, no, d, e, scopes', normal')
  BY <1>0, <1>1, <1>2, <1>3, Writes DEF Inner
<1>5. PICK v \in {"succeeded", "failed"} : Follow(h, v)
  BY <1>2
<1>6. /\ \E l2, d2, e2 : Stack(l2, frames', scopes', normal', d2, e2)
      /\ Ready' /\ result' \in {NoNode, "succeeded", "failed"}
  BY <1>1, <1>4, <1>5, FollowsWell
<1> QED  BY <1>0, <1>6, StillInv

LEMMA WalkReturnsKeeps == ASSUME TemplateInv, WalkReturns  PROVE TemplateInv'
<1>1. PICK l, d, e : Stack(l, frames, scopes, normal, d, e)
  BY WalkingOn DEF WalkReturns
<1>2. Stack(l, frames', scopes', normal', d, e)
  BY <1>1 DEF WalkReturns
<1>3. /\ run' = "over" /\ frames' = <<>> /\ given' = given
      /\ signal' \in {NoNode, "break", "continue"} /\ result' \in {NoNode, "succeeded", "failed"}
      /\ Refused \notin Range(given) /\ \A x \in DOMAIN given : given[x] \in Values \cup {Refused}
  BY DEF TemplateInv, WalkReturns
<1> QED  BY <1>2, <1>3 DEF TemplateInv

-----------------------------------------------------------------------------
(* The beginning.                                                          *)
LEMMA Coerced ==
  ASSUME NEW w \in DOMAIN Flows, NEW supplied \in Supplies(w), NEW r, r = ResolveRunInputs(w, supplied)
  PROVE  DOMAIN r = DOMAIN Flows[w].inputs /\ \A x \in DOMAIN r : r[x] \in Values \cup {Refused}
<1>1. DOMAIN r = DOMAIN Flows[w].inputs
  BY DEF ResolveRunInputs
<1>2. ASSUME NEW x \in DOMAIN Flows[w].inputs  PROVE r[x] \in Values \cup {Refused}
  <2>t. PICK type : type = Flows[w].inputs[x].type
    OBVIOUS
  <2>v. PICK raw : raw = IF supplied[x] = NoNode THEN Flows[w].inputs[x].default ELSE supplied[x]
    OBVIOUS
  <2>1. type \in {"string", "number", "boolean"}
    BY <2>t, TemplatesAssumption DEF WellFormed
  <2>2. r[x] = IF raw = NoNode THEN Refused ELSE Coerce(type, raw)
    BY <2>t, <2>v DEF ResolveRunInputs
  <2>3. Coerce(type, raw) \in Values \cup {Refused}
    BY <2>1 DEF Coerce, Values, Texts
  <2> QED  BY <2>2, <2>3
<1> QED  BY <1>1, <1>2

LEMMA SingleSeq == ASSUME NEW x  PROVE /\ IsSeq(<<x>>) /\ Len(<<x>>) = 1 /\ <<x>>[1] = x /\ <<x>> # <<>>
                                      /\ Last(<<x>>) = x
<1>1. Len(<<x>>) = 1 /\ <<x>>[1] = x /\ <<x>> # <<>> /\ <<x>> \in Seq({x})
  OBVIOUS
<1> QED  BY <1>1, IsSeqs DEF Last

LEMMA BeginKeeps ==
  ASSUME TemplateInv, NEW w \in Mains, NEW supplied \in Supplies(w), Begin(w, supplied)
  PROVE  TemplateInv'
<1>0. /\ w \in DOMAIN Flows /\ run = "new" /\ given' = ResolveRunInputs(w, supplied)
      /\ frames = <<>> /\ scopes = <<>> /\ normal = <<>> /\ result = NoNode
      /\ signal' \in {NoNode, "break", "continue"} /\ result' = NoNode
  BY TemplatesAssumption DEF TemplateInv, Begin
<1>1. DOMAIN given' = DOMAIN Flows[w].inputs /\ \A x \in DOMAIN given' : given'[x] \in Values \cup {Refused}
  BY <1>0, Coerced
<1>2. CASE Refused \in Range(given')
  <2>1. run' = "refused" /\ frames' = <<>> /\ scopes' = <<>> /\ normal' = <<>>
    BY <1>0, <1>2 DEF Begin
  <2> QED  BY <1>0, <1>1, <2>1 DEF TemplateInv
<1>3. CASE Refused \notin Range(given')
  <2>g. PICK g : g = Walk(w, StartOf(w), NoNode)
    OBVIOUS
  <2>s. PICK s : s = [k \in {"globals", "inputs"} |->
                        IF k = "globals" THEN Flows[w].globals ELSE DOMAIN given']
    OBVIOUS
  <2>d. PICK d : d = [i \in Nat |-> 1]
    OBVIOUS
  <2>1. run' = "walking" /\ frames' = <<g>> /\ scopes' = <<s>> /\ normal' = <<{}>>
    BY <1>3, <2>g, <2>s DEF Begin
  <2>2. g \in WalkFrames /\ FrameOK(g) /\ g.state = "visit" /\ g.wf = w /\ Opens(g) = 0 /\ Calls(g) = 0
    BY <1>0, <2>g, StartIs
  <2>3. /\ IsSeq(<<g>>) /\ Len(<<g>>) = 1 /\ <<g>>[1] = g /\ <<g>> # <<>> /\ Last(<<g>>) = g
        /\ IsSeq(<<s>>) /\ Len(<<s>>) = 1 /\ <<s>>[1] = s
        /\ Len(<<{}>>) = 1 /\ <<{}>>[1] = {}
    BY SingleSeq
  <2>4. <<g>> \in Seq(WalkFrames) /\ <<{}>> \in Seq(SUBSET AllNodes)
    BY <2>2
  <2>5. d \in [Nat -> Nat] /\ d[1] = 1
    BY <2>d
  <2>6. Shape(1, <<g>>, d, d)
    <3>1. Numbered(1, <<g>>, d, d)
      BY <2>5 DEF Numbered
    <3>2. Nested(1, <<g>>, d, d)
      BY DEF Nested
    <3> QED  BY <2>2, <2>3, <2>4, <3>1, <3>2 DEF Shape
  <2>7. Good(g, s, {}, 1)
    <3>1. DOMAIN s = {"globals", "inputs"} /\ s["globals"] = Flows[w].globals
          /\ s["inputs"] = DOMAIN Flows[w].inputs
      BY <1>1, <2>s
    <3>2. Based(g, s, 1)
      BY <2>2, <3>1 DEF Based
    <3>3. Orderly(g.wf) => Covers(g, s, {})
      BY <3>1 DEF Covers, Orderly
    <3> QED  BY <3>2, <3>3 DEF Good
  <2>8. Held(1, <<g>>, <<s>>, <<{}>>, d, d)
    <3>1. \A k \in 1 .. 1 : k = 1
      OBVIOUS
    <3> QED  BY <2>3, <2>5, <2>7, <3>1 DEF Held
  <2>9. Stack(1, <<g>>, <<s>>, <<{}>>, d, d)
    BY <2>2, <2>3, <2>4, <2>5, <2>6, <2>8 DEF Stack
  <2>10. \E l, d2, e2 : Stack(l, frames', scopes', normal', d2, e2)
    BY <2>1, <2>9
  <2>11. Ready'
    BY <1>0, <2>1, <2>2, <2>3 DEF Ready, Inner
  <2> QED  BY <1>0, <1>1, <1>3, <2>1, <2>10, <2>11 DEF TemplateInv
<1> QED  BY <1>2, <1>3

LEMMA TemplateInvHolds == TemplatesSpec => []TemplateInv
<1>1. TemplatesInit => TemplateInv
  BY DEF TemplatesInit, TemplateInv
<1>2. TemplateInv /\ [TemplatesNext]_templateVars => TemplateInv'
  <2> SUFFICES ASSUME TemplateInv, [TemplatesNext]_templateVars  PROVE TemplateInv'
    OBVIOUS
  <2>1. CASE \E w \in Mains : \E supplied \in Supplies(w) : Begin(w, supplied)
    BY <2>1, BeginKeeps
  <2>2. CASE Execute
    BY <2>2, ExecuteKeeps
  <2>3. CASE EnterLoop
    BY <2>3, EnterLoopKeeps
  <2>4. CASE LoopReturns
    BY <2>4, LoopReturnsKeeps
  <2>5. CASE EnterParallel
    BY <2>5, EnterParallelKeeps
  <2>6. CASE ParallelReturns
    BY <2>6, ParallelReturnsKeeps
  <2>7. CASE EnterSubworkflow
    BY <2>7, EnterSubworkflowKeeps
  <2>8. CASE SubworkflowReturns
    BY <2>8, SubworkflowReturnsKeeps
  <2>9. CASE WalkReturns
    BY <2>9, WalkReturnsKeeps
  <2>10. CASE UNCHANGED templateVars
    BY <2>10 DEF templateVars, TemplateInv, Ready, Inner
  <2> QED  BY <2>1, <2>2, <2>3, <2>4, <2>5, <2>6, <2>7, <2>8, <2>9, <2>10 DEF TemplatesNext
<1> QED  BY <1>1, <1>2, PTL DEF TemplatesSpec

-----------------------------------------------------------------------------
(* What the lint says is what the templates find.                          *)
LEMMA UpstreamLevel ==
  ASSUME NEW w \in DOMAIN Flows, Orderly(w), NEW S \in SUBSET Nodes(w), NEW m \in Upstream(w, S)
  PROVE  m \in Nodes(w) /\ \E s \in S : Node(w, m).in = Node(w, s).in
<1>r. PICK R : R = {x \in Nodes(w) : \E s \in S : Node(w, x).in = Node(w, s).in}
  OBVIOUS
<1>1. S \subseteq R /\ R \in SUBSET Nodes(w)
  BY <1>r
<1>2. Sources(w, R) \subseteq R
  BY <1>r, TemplatesAssumption DEF Sources, Orderly, WellFormed
<1>3. Upstream(w, S) \subseteq R
  BY <1>1, <1>2, UpstreamLeast
<1> QED  BY <1>3, <1>r

(* The Parallel nodes around what is upstream of a node are around it.     *)
LEMMA ForksOfPredecessors ==
  ASSUME NEW w \in DOMAIN Flows, Orderly(w), NEW n \in Nodes(w), NEW m \in Predecessors[w][n]
  PROVE  m \in Nodes(w) /\ Forks(w, m) \subseteq Around[w][n]
<1>a. PICK a : a = {n} \cup Around[w][n]
  OBVIOUS
<1>1. a \in SUBSET Nodes(w) /\ m \in Upstream(w, a)
  BY <1>a, AroundCloses DEF Predecessors
<1>2. PICK s \in a : m \in Nodes(w) /\ Node(w, m).in = Node(w, s).in
  BY <1>1, UpstreamLevel
<1>p. PICK p : p = Node(w, m).in
  OBVIOUS
<1>3. Around[w][m] = Around[w][s]
  <2>1. Around[w][m] = IF p = NoNode THEN {} ELSE {p} \cup Around[w][p]
    BY <1>2, <1>p, AroundUp
  <2>2. s \in Nodes(w) /\ Node(w, s).in = p
    BY <1>1, <1>2, <1>p
  <2>3. Around[w][s] = IF p = NoNode THEN {} ELSE {p} \cup Around[w][p]
    BY <2>2, AroundUp
  <2> QED  BY <2>1, <2>3
<1>4. Around[w][s] \subseteq Around[w][n]
  BY <1>a, AroundCloses
<1> QED  BY <1>2, <1>3, <1>4 DEF Forks

LEMMA StrictIsPredecessor ==
  ASSUME NEW w \in DOMAIN Flows, NEW n \in Nodes(w), NEW m \in Strict(w, n)
  PROVE  m \in Predecessors[w][n] \/ m \in {n} \cup Around[w][n]
<1>a. PICK a : a = {n} \cup Around[w][n]
  OBVIOUS
<1>s. PICK s : s = Sources(w, a)
  OBVIOUS
<1>1. a \in SUBSET Nodes(w)
  BY <1>a, AroundCloses
<1>2. s \subseteq Upstream(w, a)
  <2>1. a \subseteq Upstream(w, a) /\ Sources(w, Upstream(w, a)) \subseteq Upstream(w, a)
    BY <1>1, UpstreamCloses
  <2> QED  BY <1>s, <2>1, SourcesIn
<1>3. Upstream(w, s) \subseteq Upstream(w, a)
  BY <1>1, <1>2, UpstreamGrows
<1>4. m \in Upstream(w, a)
  BY <1>a, <1>s, <1>3 DEF Strict
<1> QED  BY <1>4, <1>a DEF Predecessors

LEMMA OnlyEndsProvideNothing ==
  ASSUME NEW w \in DOMAIN Flows, NEW m \in Nodes(w), Available(w, m) = {}
  PROVE  Node(w, m).kind \in {"start", "end", "sidenote"}
<1>1. Node(w, m).kind \in Kinds
  BY TemplatesAssumption DEF WellFormed
<1>2. StaticOutputs(Node(w, m).kind) = {}
  BY DEF Available
<1> QED  BY <1>1, <1>2 DEF Kinds, StaticOutputs, Streams

(* What the reference finds, of what the scope and the lint say of it.     *)
LEMMA FineIsFound ==
  ASSUME NEW f, Known(f), Orderly(f.wf), NEW s, NEW b, NEW v, Covers(f, s, b), Based(f, s, v),
         NEW ref, Classify(f.wf, f.at, ref) = "fine",
         ref[1] \in {"globals", "inputs"} \/ ref[1] \in Nodes(f.wf),
         ref[1] \in {"globals", "inputs"} => v = 1,
         ref[1] \notin {"globals", "inputs"} => /\ ref[1] \in b /\ ref[2] \in Promised(f.wf, ref[1])
                                               /\ Node(f.wf, ref[1]).kind # "loop"
  PROVE  Resolves(s, ref)
<1>0. f.wf \in DOMAIN Flows /\ f.at \in Nodes(f.wf) /\ f.at \notin {"globals", "inputs", "__inputs"}
  BY DEF Known, FrameOK, Orderly
<1>1. CASE ref[1] = "globals"
  <2>1. ref[2] \in Flows[f.wf].globals
    BY <1>0, <1>1 DEF Classify
  <2> QED  BY <1>1, <2>1 DEF Based, Resolves
<1>2. CASE ref[1] = "inputs"
  <2>1. ref[2] \in DOMAIN Flows[f.wf].inputs
    BY <1>0, <1>2 DEF Classify
  <2> QED  BY <1>2, <2>1 DEF Based, Resolves
<1>3. CASE ref[1] \notin {"globals", "inputs"}
  <2>m. PICK m : m = ref[1]
    OBVIOUS
  <2>0. m \in Nodes(f.wf) /\ m # "__inputs"
    BY <1>3, <2>m DEF Orderly
  <2>1. m \in Predecessors[f.wf][f.at]
    BY <1>3, <2>0, <2>m DEF Classify
  <2>2. Forks(f.wf, m) \subseteq Around[f.wf][f.at]
    BY <1>0, <2>1, ForksOfPredecessors
  <2>3. m \in DOMAIN s /\ Promised(f.wf, m) \subseteq s[m]
    BY <1>3, <2>0, <2>2, <2>m DEF Covers
  <2> QED  BY <1>3, <2>3, <2>m DEF Resolves
<1> QED  BY <1>1, <1>2, <1>3

LEMMA FlaggedIsNotFound ==
  ASSUME NEW f, Known(f), Orderly(f.wf), NEW s, NEW b, NEW v, Covers(f, s, b), Based(f, s, v),
         NEW ref, Resolves(s, ref), ref[1] \in {"globals", "inputs"} \/ ref[1] \in Nodes(f.wf),
         Classify(f.wf, f.at, ref) \in
           {"self-ref", "unknown", "out-of-scope", "missing-global", "missing-input"}
  PROVE  \/ ref[1] \in Nodes(f.wf) /\ Repeats(f.wf, ref[1])
         \/ ref[1] = "inputs" /\ v # 1
<1>w. PICK w : w = f.wf
  OBVIOUS
<1>n. PICK n : n = f.at
  OBVIOUS
<1>m. PICK m : m = ref[1]
  OBVIOUS
<1>0. w \in DOMAIN Flows /\ n \in Nodes(w) /\ n \notin {"globals", "inputs", "__inputs"} /\ Orderly(w)
  BY <1>w, <1>n DEF Known, FrameOK, Orderly
<1>1. m \in DOMAIN s /\ s[m] # {} /\ ref[2] \in s[m]
  BY <1>m DEF Resolves
<1>2. CASE m \in Nodes(w)
  <2>0. m \notin {"globals", "inputs", "__inputs"}
    BY <1>0, <1>2 DEF Orderly
  <2>1. /\ Repeats(w, m) \/ m \in Strict(w, n)
        /\ Node(w, m).kind \notin {"start", "end", "sidenote"}
    BY <1>1, <1>2, <1>w, <1>n DEF Covers
  <2>2. m = n \/ m \notin Predecessors[w][n]
    <3>1. Available(w, m) # {}
      BY <1>0, <1>2, <2>1, OnlyEndsProvideNothing
    <3> QED  BY <1>2, <1>w, <1>n, <1>m, <2>0, <3>1 DEF Classify
  <2>3. n \notin Predecessors[w][n]
    BY <1>0 DEF Predecessors
  <2>4. m \in Strict(w, n) => Repeats(w, m)
    <3> SUFFICES ASSUME m \in Strict(w, n)  PROVE Repeats(w, m)
      OBVIOUS
    <3>1. m \in {n} \cup Around[w][n]
      BY <1>0, <2>2, <2>3, StrictIsPredecessor
    <3> QED  BY <1>0, <3>1, FlaggedRepeats
  <2> QED  BY <1>2, <1>w, <1>m, <2>1, <2>4
<1>3. CASE m \notin Nodes(w)
  <2>1. m \in {"globals", "inputs"} /\ m # n
    BY <1>0, <1>3, <1>w, <1>m
  <2>2. CASE m = "globals"
    <3>1. ref[2] \notin Flows[w].globals
      BY <1>w, <1>n, <1>m, <2>1, <2>2 DEF Classify
    <3> QED  BY <1>1, <1>w, <2>2, <3>1 DEF Based
  <2>3. CASE m = "inputs"
    <3>1. ref[2] \notin DOMAIN Flows[w].inputs
      BY <1>w, <1>n, <1>m, <2>1, <2>3 DEF Classify
    <3> QED  BY <1>1, <1>w, <1>m, <2>3, <3>1 DEF Based
  <2> QED  BY <2>1, <2>2, <2>3
<1> QED  BY <1>2, <1>3

LEMMA InvTypes == ASSUME TemplateInv  PROVE TemplatesTypeOK
<1>1. /\ run \in {"new", "refused", "walking", "over"}
      /\ \A x \in DOMAIN given : given[x] \in Values \cup {Refused}
      /\ signal \in {NoNode, "break", "continue"} /\ result \in {NoNode, "succeeded", "failed"}
  BY DEF TemplateInv
<1>2. CASE run \in {"new", "refused"}
  <2>1. scopes = <<>> /\ normal = <<>> /\ run # "walking"
    BY <1>2 DEF TemplateInv
  <2>2. Len(normal) <= Len(scopes)
    BY <2>1
  <2> QED  BY <1>1, <2>1, <2>2 DEF TemplatesTypeOK
<1>3. CASE run \in {"walking", "over"}
  <2>1. PICK l, d, e : Stack(l, frames, scopes, normal, d, e)
    BY <1>3, WalkingOn
  <2>2. Shape(l, frames, d, e) /\ l \in Nat /\ l = Len(frames)
    BY <2>1, Levels DEF Stack
  <2>3. Len(normal) <= Len(scopes)
    <3>1. CASE l = 0
      BY <2>1, <3>1 DEF Stack
    <3>2. CASE l # 0
      <4>1. l \in 1 .. l
        BY <2>2, <3>2
      <4>2. Numbered(l, frames, d, e)
        BY <2>2 DEF Shape
      <4>3. d[l] \in Nat /\ e[l] \in Nat
        BY <2>2, <4>1, Levels
      <4>4. e[l] <= d[l]
        BY <4>1, <4>2, Zenon DEF Numbered
      <4>5. Opens(frames[l]) \in {0, 1} /\ Calls(frames[l]) \in {0, 1} /\ Calls(frames[l]) <= Opens(frames[l])
        BY DEF Opens, Calls
      <4>6. Len(scopes) = d[l] + Opens(frames[l]) /\ Len(normal) = e[l] + Calls(frames[l])
        BY <2>1, <3>2 DEF Stack
      <4> QED  BY <4>3, <4>4, <4>5, <4>6
    <3> QED  BY <3>1, <3>2
  <2>4. ASSUME NEW k \in 1 .. Len(frames)
        PROVE  frames[k].at \in Nodes(frames[k].wf) /\ (frames[k].state = "visit" => k = Len(frames))
    <3>1. frames[k].at \in Nodes(frames[k].wf)
      BY <2>2 DEF Shape, FrameOK
    <3>2. ASSUME k # l  PROVE frames[k].state = "inside"
      <4>1. k \in 1 .. l /\ l \in 1 .. l /\ k < l
        BY <2>2, <3>2
      <4> QED  BY <2>2, <4>1 DEF Shape, Nested, Linked
    <3> QED  BY <2>2, <3>1, <3>2
  <2> QED  BY <1>1, <2>3, <2>4 DEF TemplatesTypeOK
<1> QED  BY <1>1, <1>2, <1>3

LEMMA InvResolves == ASSUME TemplateInv  PROVE TemplatesResolve
<1>1. run \in {"walking", "over"} => Refused \notin Range(given)
  BY DEF TemplateInv
<1>2. ASSUME Resolving, NEW ref \in References[Inner.wf]
      PROVE  LET w == Inner.wf
                 says == Lint[w][Inner.at][ref]
                 found == Resolves(Last(scopes), ref)
                 flagged == {"self-ref", "unknown", "out-of-scope", "missing-global", "missing-input"}
             IN /\ says = "fine" /\ Expected(w, ref) /\ ~IsLoop(w, ref) => found
                /\ says \in flagged /\ found => \/ ref[1] \in Nodes(w) /\ Repeats(w, ref[1])
                                                \/ ref[1] = "inputs" /\ InSubworkflow
  <2>0. run = "walking" /\ result = NoNode /\ Orderly(Inner.wf)
    BY <1>2 DEF Resolving
  <2>w. PICK w : w = Inner.wf
    OBVIOUS
  <2>s. PICK s : s = Last(scopes)
    OBVIOUS
  <2>b. PICK b : b = Last(normal)
    OBVIOUS
  <2>v. PICK v : v = Len(normal)
    OBVIOUS
  <2>1. PICK l, d, e : Stack(l, frames, scopes, normal, d, e)
    BY <2>0, WalkingOn
  <2>2. frames # <<>> /\ Inner.state = "visit"
    BY <2>0 DEF TemplateInv, Ready
  <2>3. Shape(l, frames, d, e) /\ l > 0
    BY <2>1, <2>2, Levels DEF Stack
  <2>4. Known(Inner)
    BY <2>3, Levels DEF Inner
  <2>5. Seen(l, frames, scopes, normal, d, e)
    BY <2>1, <2>2, <2>3, Trims DEF Inner
  <2>6. Covers(Inner, s, b) /\ Based(Inner, s, v) /\ v \in Nat /\ v > 0
    <3>1. /\ IsSeq(normal) /\ Len(normal) \in Nat /\ Len(normal) > 0 /\ Last(scopes) = scopes[Len(scopes)]
          /\ Good(Inner, scopes[Len(scopes)], normal[Len(normal)], Len(normal))
      BY <2>5, SeenGood DEF Inner
    <3>2. Last(normal) = normal[Len(normal)]
      BY DEF Last
    <3> QED  BY <2>0, <2>s, <2>b, <2>v, <3>1, <3>2 DEF Good
  <2>7. w \in DOMAIN Flows /\ Inner.at \in Nodes(w)
    BY <2>4, <2>w DEF Known, FrameOK
  <2>8. Lint[w][Inner.at][ref] = Classify(w, Inner.at, ref)
    <3>1. ref \in References[w]
      BY <2>w
    <3>2. Lint[w][Inner.at][ref] = [x \in References[w] |-> Classify(w, Inner.at, x)][ref]
      BY <2>7, Zenon DEF Lint
    <3> QED  BY <3>1, <3>2, Zenon
  <2>9. ref[1] \in {"globals", "inputs"} \/ ref[1] \in Nodes(w)
    BY <1>2, <2>7, <2>w DEF References
  <2>10. InSubworkflow <=> v # 1
    BY <2>6, <2>v DEF InSubworkflow
  <2>11. ASSUME Classify(w, Inner.at, ref) = "fine", Expected(w, ref), ~IsLoop(w, ref)
         PROVE  Resolves(s, ref)
    <3>1. ref[1] \in {"globals", "inputs"} => v = 1
      BY <2>10, <2>11 DEF Expected
    <3>2. ref[1] \notin {"globals", "inputs"} => ref[1] \in b /\ ref[2] \in Promised(w, ref[1])
      BY <2>11, <2>b DEF Expected
    <3>3. ref[1] \notin {"globals", "inputs"} => Node(w, ref[1]).kind # "loop"
      BY <2>9, <2>11 DEF IsLoop
    <3> QED  BY <2>0, <2>4, <2>6, <2>9, <2>11, <2>w, <3>1, <3>2, <3>3, FineIsFound
  <2>12. ASSUME Classify(w, Inner.at, ref) \in
                  {"self-ref", "unknown", "out-of-scope", "missing-global", "missing-input"},
                Resolves(s, ref)
         PROVE  \/ ref[1] \in Nodes(w) /\ Repeats(w, ref[1])
                \/ ref[1] = "inputs" /\ InSubworkflow
    BY <2>0, <2>4, <2>6, <2>9, <2>10, <2>12, <2>w, FlaggedIsNotFound
  <2> QED  BY <2>8, <2>11, <2>12, <2>w, <2>s
<1> QED  BY <1>1, <1>2 DEF TemplatesResolve

(* What the lint says of a reference is what the reference finds when the  *)
(* workflow runs: of any workflows, as they are loaded, any inputs and any *)
(* outcome of their nodes.                                                 *)
THEOREM LintIsSound == TemplatesSpec => []LintIsRight
<1>1. TemplateInv => LintIsRight
  BY InvTypes, InvResolves DEF LintIsRight
<1> QED  BY <1>1, TemplateInvHolds, PTL
=============================================================================
