------------------------------- MODULE TreePage -------------------------------
(***************************************************************************)
(* The page with the tree: frontend/src/pages/TreeView.tsx with its        *)
(* connection (TreeSocket), the drawing (components/tree/TreeCanvas.tsx    *)
(* over TreeLayout), the detail panel (DetailPanel.tsx), and what of the   *)
(* store (hooks/useTreeStore.ts) they share.  The store outlives the page; *)
(* what the components keep in useState and useRef goes with it.           *)
(*                                                                         *)
(* Which trees come when is TreeFeed's: here the store's tree may become   *)
(* any other, or be patched with the diff to it, while a socket is open or *)
(* the first REST answer is due.  The mixture that an answer of an earlier *)
(* life of the backend can make (astray in TreeFeed) is left out.          *)
(***************************************************************************)
EXTENDS TreeSocket, TreeLayout

CONSTANTS
  Trees,  \* what the backend publishes
  NoId    \* null: no node is selected, or no history was loaded

ASSUME PageAssumption == Trees \subseteq AllTrees /\ NoId \notin Node

VARIABLES
  nodes,           \* store: the tree, <<>> before the first
  manualState,     \* store: see TreeLayout
  selectedNodeId,  \* store
  showHistorical,  \* TreeCanvas
  layout,          \* TreeCanvas: what is drawn, kept in layoutCache; <<>> if nothing is
  history,         \* DetailPanel: the node whose history it has, or NoId
  loading,         \* DetailPanel
  asked            \* the nodes of its requests under way that are not cancelled

canvasVars == <<manualState, showHistorical, layout>>
panelVars == <<selectedNodeId, history, loading, asked>>
pageVars == <<nodes, canvasVars, panelVars>>
vars == <<socketVars, pageVars>>

Overlay(f, g) == [x \in DOMAIN f \cup DOMAIN g |-> IF x \in DOMAIN f THEN f[x] ELSE g[x]]

Effective(tree, historical) == IF historical THEN tree ELSE Current(tree)

VisibleOf(tree, manual, historical) ==
  IF tree = <<>> THEN <<>> ELSE Visible(Effective(tree, historical), manual)

DrawnOf(tree, manual, historical) ==
  IF tree = <<>> THEN <<>> ELSE Drawn(Effective(tree, historical), manual)

effectiveNodes == Effective(nodes, showHistorical)
visibleTree == VisibleOf(nodes, manualState, showHistorical)

(* Mutant of Layout: what is drawn is cached by the ids of the store. *)
LayoutOfIds(structure, view) ==
  IF layout # <<>> /\ DOMAIN nodes' = DOMAIN nodes THEN layout ELSE view

(* The layout is only made again if the structure has changed. *)
Layout(structure, view) == IF Structure(layout) = structure THEN layout ELSE view

(* The page, if it is shown, is rendered again after whatever has changed;  *)
(* after a snapshot the same structure may come in another order.           *)
Draw ==
  LET structure == DrawnOf(nodes', manualState', showHistorical')
      view == VisibleOf(nodes', manualState', showHistorical')
  IN  layout' = IF mounted' THEN Layout(structure, view) ELSE <<>>
DrawAnew == layout' = IF mounted' THEN VisibleOf(nodes', manualState', showHistorical') ELSE <<>>

PageInit ==
  /\ SocketInit
  /\ nodes = <<>>
  /\ manualState = <<>> /\ showHistorical = TRUE /\ layout = <<>>
  /\ selectedNodeId = NoId /\ history = NoId /\ loading = FALSE /\ asked = {}

-----------------------------------------------------------------------------
(* The detail panel: its effect asks for the history of the node it is      *)
(* given, and its cleanup cancels what was asked before.  A request that is *)
(* cancelled goes on, but its answer changes nothing: it is left out.       *)

(* Mutant of AskHistory: requests go on when another node is selected. *)
AskAlso(id) == asked' = asked \cup {id} /\ loading' = TRUE

AskHistory(id) == asked' = {id} /\ loading' = TRUE

(* id comes to be selected; a panel that opens has loaded nothing yet. *)
ShowDetails(id) ==
  /\ selectedNodeId' = id
  /\ IF id = selectedNodeId THEN UNCHANGED <<history, loading, asked>>
     ELSE /\ AskHistory(id)
          /\ history' = IF selectedNodeId = NoId THEN NoId ELSE history

(* The panel closes. *)
HideDetails == asked' = {} /\ history' = NoId /\ loading' = FALSE

CloseDetails ==
  /\ mounted /\ selectedNodeId # NoId
  /\ selectedNodeId' = NoId
  /\ HideDetails
  /\ UNCHANGED <<socketVars, nodes, canvasVars>>

(* An answer comes, or the request fails. *)
Answer(id) ==
  /\ asked' = asked \ {id}
  /\ history' \in {id, NoId} /\ loading' = FALSE
  /\ UNCHANGED <<socketVars, nodes, canvasVars, selectedNodeId>>

-----------------------------------------------------------------------------
(* The page is shown, with a panel if a node is still selected ... *)
Mount ==
  /\ Connect
  /\ IF selectedNodeId = NoId THEN UNCHANGED <<asked, loading>>
     ELSE AskHistory(selectedNodeId)
  /\ UNCHANGED <<nodes, manualState, showHistorical, selectedNodeId, history>>
  /\ Draw

(* ... and left. *)
Unmount ==
  /\ Disconnect
  /\ showHistorical' = TRUE /\ layout' = <<>>
  /\ HideDetails
  /\ UNCHANGED <<nodes, manualState, selectedNodeId>>

SocketStep ==
  /\ \E m \in Mounts : Open(m) \/ Break(m) \/ Closed(m) \/ Reconnect(m)
  /\ UNCHANGED pageVars

(* applySnapshot *)
Replace(new) ==
  /\ nodes' = new
  /\ UNCHANGED <<socketVars, manualState, showHistorical, panelVars>>
  /\ Draw \/ DrawAnew

(* applyDiff, of the diff to new: nodes come and go, but a node that stays  *)
(* keeps its target_ids and is_leaf_target.                                 *)
Patch(new) ==
  /\ nodes' = [n \in DOMAIN new |->
                 IF n \in DOMAIN nodes THEN [new[n] EXCEPT !.target_ids = nodes[n].target_ids]
                 ELSE new[n]]
  /\ UNCHANGED <<socketVars, manualState, showHistorical, panelVars>>
  /\ Draw

(* onmessage: a snapshot, which is what comes first, or a diff that fits.   *)
Receive ==
  /\ \E m \in Mounts : socket[m] = "open"
  /\ \E new \in Trees : Replace(new) \/ (nodes # <<>> /\ Patch(new))

(* The REST answer, also if the page has been left by then.  Each call of   *)
(* TreeView's effect has one; here they may come at any time.               *)
Prime ==
  /\ mount > 0
  /\ \E new \in Trees : Replace(new)

-----------------------------------------------------------------------------
Flip(state) == IF state = "collapsed" THEN "expanded" ELSE "collapsed"

(* toggleManual, for a summary: it takes it for collapsed unless the user   *)
(* has said otherwise.                                                      *)
Toggled(id) == IF id \in DOMAIN manualState THEN Flip(manualState[id]) ELSE "expanded"

(* A click: a summary is toggled, another node's details are shown. *)
Click ==
  /\ mounted
  /\ \E id \in DOMAIN layout :
       IF layout[id].isSummary
       THEN /\ manualState' = Overlay([n \in {id} |-> Toggled(id)], manualState)
            /\ UNCHANGED panelVars
       ELSE ShowDetails(id) /\ UNCHANGED manualState
  /\ UNCHANGED <<socketVars, nodes, showHistorical>>
  /\ Draw

ExpandAll ==
  /\ mounted /\ nodes # <<>>
  /\ manualState' = <<>>
  /\ UNCHANGED <<socketVars, nodes, showHistorical, panelVars>>
  /\ Draw

CollapseAll ==
  /\ mounted /\ nodes # <<>>
  /\ manualState' = [n \in {c \in Children(effectiveNodes, Root) :
                               LeafCount(effectiveNodes, c) > 1} |-> "collapsed"]
  /\ UNCHANGED <<socketVars, nodes, showHistorical, panelVars>>
  /\ Draw

ToggleHistorical ==
  /\ mounted /\ nodes # <<>>
  /\ showHistorical' = ~showHistorical
  /\ UNCHANGED <<socketVars, nodes, manualState, panelVars>>
  /\ Draw

(* Mutant of SearchFor: only the match's parent is expanded. *)
SearchBelowParent(id) ==
  /\ mounted
  /\ manualState' = Overlay([n \in {Parent[id]} |-> "expanded"], manualState)
  /\ ShowDetails(id)
  /\ UNCHANGED <<socketVars, nodes, showHistorical>>
  /\ Draw

(* handleSearch with a match: of every node in the store, ghosts included.  *)
SearchFor(id) ==
  /\ mounted
  /\ manualState' = Overlay([n \in Path[id] \ {id} |-> "expanded"], manualState)
  /\ ShowDetails(id)
  /\ UNCHANGED <<socketVars, nodes, showHistorical>>
  /\ Draw

Next ==
  \/ Mount \/ Unmount \/ SocketStep
  \/ Receive \/ Prime
  \/ Click \/ (\E id \in DOMAIN nodes \ {Root} : SearchFor(id))
  \/ ExpandAll \/ CollapseAll \/ ToggleHistorical
  \/ CloseDetails \/ (\E id \in asked : Answer(id))

(* Timers end, sockets report their end, and of the connections that are    *)
(* tried again and again not every one fails.                               *)
Fairness ==
  /\ WF_vars((\E m \in Mounts : Closed(m) \/ Reconnect(m)) /\ UNCHANGED pageVars)
  /\ SF_vars((\E m \in Mounts : Open(m)) /\ UNCHANGED pageVars)

PageSpec == PageInit /\ [][Next]_vars /\ Fairness

-----------------------------------------------------------------------------
(* A page that stays is connected in the end, again and again: no failure,  *)
(* however long they go on, is the last attempt.                            *)
Reconnects == mounted ~> (~mounted \/ socket[mount] = "open")

(* Every node the store holds (every current one, if ghosts are filtered    *)
(* out) is on the screen in one place: drawn itself, or in one summary that *)
(* is drawn above it; and nothing is drawn that the store no longer has.    *)
(* So it is although the layout is cached while trees come, are patched and *)
(* lose branches and the user collapses and searches.                       *)
EachNodeOnce ==
  mounted /\ nodes # <<>> =>
    /\ DOMAIN layout \subseteq DOMAIN effectiveNodes
    /\ \A n \in DOMAIN effectiveNodes : Cardinality(Places(layout, n)) = 1

(* See DrawsEachTarget: whatever the user has expanded or collapsed, in the *)
(* drawing of every tree the backend can publish, and on the screen if the  *)
(* store holds such a tree and it is laid out as it is.  Neither need be so *)
(* after a diff: it leaves target_ids as they were, and the numbers on the  *)
(* summaries and what is faded are those of the last change of structure.   *)
EveryTreeDrawn ==
  \A tree \in AllTrees :
    \A manual \in UNION {[D -> {"expanded", "collapsed"}] : D \in SUBSET {Parent[n] : n \in Node \ {Root}}} :
      /\ DrawsEachTarget(tree, Visible(tree, manual))
      /\ DrawsEachTarget(tree, Visible(Current(tree), manual))

EveryTargetOnce ==
  /\ EveryTreeDrawn
  /\ mounted /\ nodes # <<>> /\ IsTree(nodes) /\ layout = visibleTree => DrawsEachTarget(nodes, layout)

(* A node that comes to be selected, by a click or a search, is drawn then, *)
(* whatever was collapsed; the one exception is a ghost that was searched   *)
(* for while ghosts are hidden.                                             *)
SelectedIsDrawn ==
  [][selectedNodeId' \notin {selectedNodeId, NoId} =>
       \/ selectedNodeId' \in DOMAIN layout'
       \/ ~showHistorical /\ ~nodes[selectedNodeId'].is_current]_vars

(* The panel shows no history but that of the node it names, whatever was   *)
(* selected meanwhile and in whichever order the answers come.              *)
HistoryMatches ==
  mounted /\ selectedNodeId # NoId /\ ~loading => history \in {selectedNodeId, NoId}
=============================================================================
