--------------------------- MODULE TreePage_proofs ---------------------------
(***************************************************************************)
(* Proofs about TreePage, for all trees and any number of times the page   *)
(* is shown: it holds one socket or a timer for one and its header tells   *)
(* which; its panel shows the history of the node selected, and that node  *)
(* is drawn; each node is on the screen once, however the layout is cached *)
(* and the trees are patched; and what layout.ts makes of a tree as the    *)
(* backend published it draws or counts each target once.                  *)
(***************************************************************************)
EXTENDS TreePage, FiniteSetTheorems, WellFoundedInduction, TLAPS

(* OneSocket is not inductive: a socket that closes is replaced unless its  *)
(* caller has closed it, so closedByCaller must tell the page that is shown *)
(* from those that were left.                                               *)
CallersTold ==
  /\ mounted => mount \in Mounts
  /\ \A m \in Mounts :
       /\ m > mount => socket[m] = "none" /\ ~closedByCaller[m]
       /\ m <= mount => (closedByCaller[m] <=> ~(mounted /\ m = mount))

SocketInv == SocketTypeOK /\ CallersTold /\ OneSocket /\ FlagHonest

-----------------------------------------------------------------------------
LEMMA SocketStart == SocketInit => SocketInv
<1> SUFFICES ASSUME SocketInit PROVE SocketInv
  OBVIOUS
<1> USE SocketAssumption DEF SocketInit, Mounts
<1>1. SocketTypeOK
  <2>1. reconnectTimer \in [Mounts -> BOOLEAN] /\ closedByCaller \in [Mounts -> BOOLEAN]
    BY Zenon
  <2>2. mount \in 0..MaxMounts /\ socket \in [Mounts -> {"none", "connecting", "open", "closing"}]
    OBVIOUS
  <2>3. QED
    BY <2>1, <2>2 DEF SocketTypeOK
<1>2. CallersTold
  BY DEF CallersTold
<1>3. OneSocket
  BY DEF OneSocket
<1>4. FlagHonest
  BY DEF FlagHonest
<1>5. QED
  BY <1>1, <1>2, <1>3, <1>4 DEF SocketInv

LEMMA SocketKeeps == SocketInv /\ [SocketNext]_socketVars => SocketInv'
<1> SUFFICES ASSUME SocketInv, [SocketNext]_socketVars PROVE SocketInv'
  OBVIOUS
<1> USE SocketAssumption DEF SocketInv, SocketTypeOK, CallersTold, OneSocket, FlagHonest, Mounts
<1>1. CASE Connect
  BY <1>1 DEF Connect
<1>2. ASSUME NEW m \in Mounts, Open(m) PROVE SocketInv'
  <2> USE <1>2 DEF Open
  <2>1. SocketTypeOK'
    OBVIOUS
  <2>2. CallersTold'
    OBVIOUS
  <2>3. OneSocket'
    OBVIOUS
  <2>4. FlagHonest'
    OBVIOUS
  <2>5. QED
    BY <2>1, <2>2, <2>3, <2>4
<1>3. ASSUME NEW m \in Mounts, Break(m) PROVE SocketInv'
  BY <1>3 DEF Break
<1>4. ASSUME NEW m \in Mounts, Closed(m) PROVE SocketInv'
  <2> USE <1>4 DEF Closed
  <2>1. SocketTypeOK'
    OBVIOUS
  <2>2. CallersTold'
    OBVIOUS
  <2>3. OneSocket'
    OBVIOUS
  <2>4. FlagHonest'
    OBVIOUS
  <2>5. QED
    BY <2>1, <2>2, <2>3, <2>4
<1>5. ASSUME NEW m \in Mounts, Reconnect(m) PROVE SocketInv'
  BY <1>5 DEF Reconnect
<1>6. CASE Disconnect
  <2> USE <1>6 DEF Disconnect, CloseSocket
  <2>1. SocketTypeOK'
    OBVIOUS
  <2>2. CallersTold'
    OBVIOUS
  <2>3. OneSocket'
    OBVIOUS
  <2>4. FlagHonest'
    OBVIOUS
  <2>5. QED
    BY <2>1, <2>2, <2>3, <2>4
<1>7. CASE UNCHANGED socketVars
  BY <1>7 DEF socketVars
<1>8. QED
  BY <1>1, <1>2, <1>3, <1>4, <1>5, <1>6, <1>7 DEF SocketNext

-----------------------------------------------------------------------------
(* Whatever else happens on the page, its connection takes steps of         *)
(* TreeSocket only: TreePage implements TreeSocket.                         *)
LEMMA StepsOfSocket == [Next]_vars => [SocketNext]_socketVars
<1> SUFFICES ASSUME [Next]_vars PROVE [SocketNext]_socketVars
  OBVIOUS
<1>1. CASE Mount
  BY <1>1 DEF Mount, SocketNext
<1>2. CASE Unmount
  BY <1>2 DEF Unmount, SocketNext
<1>3. CASE SocketStep
  BY <1>3 DEF SocketStep, SocketNext
<1>4. CASE Receive \/ Prime
  BY <1>4 DEF Receive, Prime, Replace, Patch
<1>5. CASE Click
  BY <1>5 DEF Click
<1>6. ASSUME NEW id \in DOMAIN nodes \ {Root}, SearchFor(id) PROVE UNCHANGED socketVars
  BY <1>6 DEF SearchFor
<1>7. CASE ExpandAll \/ CollapseAll \/ ToggleHistorical \/ CloseDetails
  BY <1>7 DEF ExpandAll, CollapseAll, ToggleHistorical, CloseDetails
<1>8. ASSUME NEW id \in asked, Answer(id) PROVE UNCHANGED socketVars
  BY <1>8 DEF Answer
<1>9. CASE UNCHANGED vars
  BY <1>9 DEF vars
<1>10. QED
  BY <1>1, <1>2, <1>3, <1>4, <1>5, <1>6, <1>7, <1>8, <1>9 DEF Next

(* What the page does to its sockets is what TreeSocket says they do.       *)
THEOREM ImplementsSocket == PageSpec => SocketSpec
<1>1. PageInit => SocketInit
  BY DEF PageInit
<1>2. QED
  BY <1>1, StepsOfSocket, PTL DEF PageSpec, SocketSpec

(* The page that is shown has one socket or waits to open one, those it has *)
(* left have none, and the header tells (see OneSocket and FlagHonest).     *)
THEOREM SocketsTold == PageSpec => [](SocketTypeOK /\ OneSocket /\ FlagHonest)
<1>1. SocketInv => SocketTypeOK /\ OneSocket /\ FlagHonest
  BY DEF SocketInv
<1>2. QED
  BY <1>1, SocketStart, SocketKeeps, ImplementsSocket, PTL DEF SocketSpec

(* The header says "live" only while a socket is open or its onclose has    *)
(* not come, and says so while the page's socket is open, unless the late   *)
(* onclose of an earlier one has come since.                                *)
THEOREM HeaderHonest == PageSpec => []FlagHonest
<1>1. SocketTypeOK /\ OneSocket /\ FlagHonest => FlagHonest
  OBVIOUS
<1>2. QED
  BY <1>1, SocketsTold, PTL

-----------------------------------------------------------------------------
-----------------------------------------------------------------------------
(* Paths *)

LEMMA Least ==
  ASSUME NEW S \in SUBSET Nat, S # {}
  PROVE  \E x \in S : \A y \in S : x <= y
<1>1. \E x \in S : \A y \in S : ~(<<y, x>> \in OpToRel(<, Nat))
  BY NatLessThanWellFounded, WFMin
<1>2. ASSUME NEW x \in Nat, NEW y \in Nat, y < x
      PROVE  <<y, x>> \in OpToRel(<, Nat)
  BY <1>2 DEF OpToRel
<1>3. \E x \in S : \A y \in S : ~(y < x)
  BY <1>1, <1>2, Zenon
<1>4. QED
  BY <1>3

LEMMA PathSize ==
  ASSUME NEW n \in Node
  PROVE  /\ Cardinality(Path[n]) \in Nat
         /\ n # Root => /\ Parent[n] \in Node
                        /\ ~(Cardinality(Path[n]) <= Cardinality(Path[Parent[n]]))
<1> USE LayoutAssumption
<1>1. \A m \in Node : IsFiniteSet(Path[m]) /\ Cardinality(Path[m]) \in Nat
  <2>1. \A m \in Node : Path[m] \in SUBSET Node
    OBVIOUS
  <2>2. \A m \in Node : IsFiniteSet(Path[m])
    BY <2>1, FS_Subset
  <2>3. QED
    BY <2>2, FS_CardinalityType
<1>2. ASSUME n # Root
      PROVE  Parent[n] \in Node /\ ~(Cardinality(Path[n]) <= Cardinality(Path[Parent[n]]))
  <2>1. /\ Parent[n] \in Node /\ n \notin Path[Parent[n]]
        /\ Path[n] = Path[Parent[n]] \cup {n}
    BY <1>2
  <2>2. IsFiniteSet(Path[Parent[n]])
    BY <1>1, <2>1
  <2>3. Cardinality(Path[Parent[n]] \cup {n}) = Cardinality(Path[Parent[n]]) + 1
    <3> HIDE LayoutAssumption
    <3> QED
      BY <2>1, <2>2, FS_AddElement
  <2>4. Cardinality(Path[n]) = Cardinality(Path[Parent[n]]) + 1
    BY <2>1, <2>3
  <2>5. QED
    BY <1>1, <2>1, <2>4
<1>3. QED
  BY <1>1, <1>2

(* What holds at the root, and at a node if it does at its parent, holds at *)
(* every node.                                                              *)
LEMMA FromTheRoot ==
  ASSUME NEW S \in SUBSET Node, Root \in S,
         \A n \in Node \ {Root} : Parent[n] \in S => n \in S
  PROVE  \A n \in Node : n \in S
<1> DEFINE Sizes == {Cardinality(Path[n]) : n \in Node \ S}
<1>1. ASSUME Node \ S # {} PROVE FALSE
  <2>1. Sizes \in SUBSET Nat /\ Sizes # {}
    BY <1>1, PathSize
  <2>2. PICK x \in Sizes : \A y \in Sizes : x <= y
    <3> HIDE DEF Sizes
    <3>1. QED
      BY <2>1, Least
  <2>3. PICK n \in Node \ S : x = Cardinality(Path[n])
    OBVIOUS
  <2>4. \A m \in Node \ S : Cardinality(Path[n]) <= Cardinality(Path[m])
    BY <2>2, <2>3
  <2>5. QED
    BY <2>3, <2>4, PathSize
<1>2. QED
  BY <1>1

LEMMA OnPath ==
  ASSUME NEW n \in Node
  PROVE  n \in Path[n] /\ Root \in Path[n] /\ Path[n] \subseteq Node
<1> USE LayoutAssumption
<1> DEFINE S == {m \in Node : Root \in Path[m]}
<1>1. Root \in S /\ \A m \in Node \ {Root} : Parent[m] \in S => m \in S
  OBVIOUS
<1>2. \A m \in Node : m \in S
  <2> HIDE DEF S
  <2>1. S \in SUBSET Node
    BY DEF S
  <2>2. QED
    BY <1>1, <2>1, FromTheRoot
<1>3. n \in Path[n]
  BY DEF LayoutAssumption
<1>4. QED
  BY <1>2, <1>3

LEMMA PathClosed ==
  \A n \in Node : \A m \in Path[n] : Path[m] \subseteq Path[n]
<1> USE LayoutAssumption
<1> DEFINE S == {n \in Node : \A m \in Path[n] : Path[m] \subseteq Path[n]}
<1>1. Root \in S
  OBVIOUS
<1>2. ASSUME NEW n \in Node \ {Root}, Parent[n] \in S PROVE n \in S
  <2>1. \A m \in Path[Parent[n]] : Path[m] \subseteq Path[Parent[n]]
    BY <1>2
  <2>2. Path[n] = Path[Parent[n]] \cup {n}
    OBVIOUS
  <2>3. QED
    BY <2>1, <2>2
<1>3. \A n \in Node : n \in S
  <2>1. S \in SUBSET Node
    OBVIOUS
  <2> HIDE DEF S
  <2>2. QED
    BY <1>1, <1>2, <2>1, FromTheRoot
<1>4. QED
  BY <1>3

(* Two nodes on a path are one above the other. *)
LEMMA PathChain ==
  \A n \in Node : \A m, o \in Path[n] : m \in Path[o] \/ o \in Path[m]
<1> USE LayoutAssumption
<1> DEFINE S == {n \in Node : \A m, o \in Path[n] : m \in Path[o] \/ o \in Path[m]}
<1>1. Root \in S
  OBVIOUS
<1>2. ASSUME NEW n \in Node \ {Root}, Parent[n] \in S PROVE n \in S
  <2>1. \A m, o \in Path[Parent[n]] : m \in Path[o] \/ o \in Path[m]
    BY <1>2
  <2>2. Path[n] = Path[Parent[n]] \cup {n}
    OBVIOUS
  <2>3. \A m, o \in Path[n] : m \in Path[o] \/ o \in Path[m]
    BY <2>1, <2>2
  <2>4. QED
    BY <2>3
<1>3. \A n \in Node : n \in S
  <2>1. S \in SUBSET Node
    OBVIOUS
  <2> HIDE DEF S
  <2>2. QED
    BY <1>1, <1>2, <2>1, FromTheRoot
<1>4. QED
  BY <1>3

(* If some on a path are in C, then there is a topmost. *)
LEMMA Topmost ==
  ASSUME NEW C
  PROVE  \A n \in Node : Path[n] \cap C # {} =>
           \E m \in Path[n] \cap C : (Path[m] \ {m}) \cap C = {}
<1> USE LayoutAssumption
<1> DEFINE S == {n \in Node : Path[n] \cap C # {} =>
                   \E m \in Path[n] \cap C : (Path[m] \ {m}) \cap C = {}}
<1>1. Root \in S
  <2>1. Path[Root] = {Root}
    OBVIOUS
  <2>2. QED
    BY <2>1
<1>2. ASSUME NEW n \in Node \ {Root}, Parent[n] \in S PROVE n \in S
  <2>1. Path[n] = Path[Parent[n]] \cup {n}
    OBVIOUS
  <2>2. CASE Path[Parent[n]] \cap C = {}
    BY <2>1, <2>2
  <2>3. CASE Path[Parent[n]] \cap C # {}
    BY <1>2, <2>1, <2>3
  <2>4. QED
    BY <2>2, <2>3
<1>3. \A n \in Node : n \in S
  <2>1. S \in SUBSET Node
    OBVIOUS
  <2> HIDE DEF S
  <2>2. QED
    BY <1>1, <1>2, <2>1, FromTheRoot
<1>4. QED
  BY <1>3

-----------------------------------------------------------------------------
(* Trees of the store, as they are drawn: with the ghosts, or filtered to   *)
(* what is current.                                                         *)
Shows(tree, shown) == tree \in StoreTrees /\ shown \in {tree, Current(tree)}

LEMMA TreeIs ==
  ASSUME NEW tree \in StoreTrees
  PROVE  /\ DOMAIN tree \subseteq Node
         /\ \A n \in DOMAIN tree : tree[n] \in TreeNode
         /\ IsRooted(tree)
<1>1. PICK D \in SUBSET Node : tree \in [D -> TreeNode]
  BY DEF StoreTrees
<1>2. QED
  BY <1>1 DEF StoreTrees

LEMMA PublishedIs ==
  \A tree : tree \in AllTrees <=> tree \in StoreTrees /\ IsTree(tree)
  BY DEF AllTrees, StoreTrees, IsTree

(* What is above a node of a tree is in the tree, and current if it is.     *)
LEMMA Ancestors ==
  ASSUME NEW tree \in StoreTrees
  PROVE  \A n \in DOMAIN tree :
           /\ Path[n] \subseteq DOMAIN tree
           /\ tree[n].is_current => \A m \in Path[n] : tree[m].is_current
<1> DEFINE S == {n \in Node : n \in DOMAIN tree =>
                   /\ Path[n] \subseteq DOMAIN tree
                   /\ tree[n].is_current => \A m \in Path[n] : tree[m].is_current}
<1>1. Root \in S
  <2>1. Path[Root] = {Root} /\ Root \in Node
    BY LayoutAssumption
  <2>2. QED
    BY <2>1
<1>2. ASSUME NEW n \in Node \ {Root}, Parent[n] \in S PROVE n \in S
  <2>1. Path[n] = Path[Parent[n]] \cup {n}
    BY LayoutAssumption
  <2>2. n \in DOMAIN tree =>
          Parent[n] \in DOMAIN tree /\ (tree[n].is_current => tree[Parent[n]].is_current)
    BY TreeIs DEF IsRooted
  <2>3. QED
    BY <1>2, <2>1, <2>2
<1>3. \A n \in Node : n \in S
  <2>1. S \in SUBSET Node
    OBVIOUS
  <2> HIDE DEF S
  <2>2. QED
    BY <1>1, <1>2, <2>1, FromTheRoot
<1>4. QED
  BY <1>3, TreeIs

LEMMA ShownIs ==
  ASSUME NEW tree, NEW shown, Shows(tree, shown)
  PROVE  /\ DOMAIN shown \subseteq DOMAIN tree /\ Root \in DOMAIN shown
         /\ \A n \in DOMAIN tree : tree[n].is_current => n \in DOMAIN shown
         /\ \A n \in DOMAIN shown : shown[n] = tree[n] /\ Path[n] \subseteq DOMAIN shown
<1>1. CASE shown = tree
  BY <1>1, TreeIs, Ancestors DEF Shows, IsRooted
<1>2. CASE shown = Current(tree)
  <2>1. DOMAIN shown = {m \in DOMAIN tree : tree[m].is_current}
    BY <1>2 DEF Current
  <2>2. \A n \in DOMAIN shown : shown[n] = tree[n]
    BY <1>2 DEF Current
  <2>3. QED
    BY <2>1, <2>2, TreeIs, Ancestors DEF Shows, IsRooted
<1>3. QED
  BY <1>1, <1>2 DEF Shows

LEMMA BelowIs ==
  ASSUME NEW tree, NEW shown, Shows(tree, shown), NEW id
  PROVE  /\ Below(shown, id) = {n \in DOMAIN shown : id \in Path[n]}
         /\ Below(tree, id) = {n \in DOMAIN tree : id \in Path[n]}
<1>1. \A n \in DOMAIN shown : Path[n] \subseteq DOMAIN shown
  BY ShownIs
<1>2. \A n \in DOMAIN tree : Path[n] \subseteq DOMAIN tree
  BY Ancestors DEF Shows
<1>3. QED
  BY <1>1, <1>2 DEF Below

-----------------------------------------------------------------------------
(* EachNodeOnce is not inductive: a layout is kept when the structure is    *)
(* that of the tree as it would be drawn now, so it must be known of the    *)
(* layout there is that its structure was that of the tree before; and the  *)
(* trees must be such that what is above a node is there as well.           *)
LaidOut == Structure(layout) = Structure(IF mounted THEN visibleTree ELSE <<>>)

StoreInv == nodes \in StoreTrees \cup {<<>>} /\ LaidOut

LEMMA SameStructure ==
  ASSUME NEW v, NEW w, Structure(v) = Structure(w)
  PROVE  DOMAIN v = DOMAIN w /\ \A n \in DOMAIN v : v[n].isSummary = w[n].isSummary
<1>1. DOMAIN Structure(v) = DOMAIN v /\ DOMAIN Structure(w) = DOMAIN w
  BY DEF Structure
<1>2. /\ \A n \in DOMAIN v : Structure(v)[n] = v[n].isSummary
      /\ \A n \in DOMAIN w : Structure(w)[n] = w[n].isSummary
  BY DEF Structure
<1>3. QED
  BY <1>1, <1>2

LEMMA DrawnStructure ==
  ASSUME NEW tree, NEW manual, NEW historical
  PROVE  Structure(VisibleOf(tree, manual, historical)) = DrawnOf(tree, manual, historical)
<1>1. CASE tree = <<>>
  BY <1>1 DEF VisibleOf, DrawnOf, Structure
<1>2. CASE tree # <<>>
  <2> DEFINE shown == Effective(tree, historical)
             drawn == Drawn(shown, manual)
  <2>1. drawn = [n \in DOMAIN drawn |-> drawn[n]]
    BY DEF Drawn
  <2>2. VisibleOf(tree, manual, historical) = Visible(shown, manual)
    BY <1>2 DEF VisibleOf
  <2>3. DrawnOf(tree, manual, historical) = drawn
    BY <1>2 DEF DrawnOf
  <2> HIDE DEF shown
  <2>4. Visible(shown, manual) =
          [n \in DOMAIN drawn |->
             [isSummary |-> drawn[n],
              summarizedLeafCount |-> LeafCount(shown, n),
              isCurrent |-> IF drawn[n] THEN AnyCurrent(shown, n) ELSE shown[n].is_current]]
    BY DEF Visible
  <2> HIDE DEF drawn
  <2>5. Structure(Visible(shown, manual)) = [n \in DOMAIN drawn |-> drawn[n]]
    BY <2>4 DEF Structure
  <2>6. QED
    BY <2>1, <2>2, <2>3, <2>5
<1>3. QED
  BY <1>1, <1>2

LEMMA Redrawn ==
  ASSUME Draw \/ DrawAnew
  PROVE  LaidOut'
<1>1. visibleTree' = VisibleOf(nodes', manualState', showHistorical')
  BY DEF visibleTree
<1>2. CASE Draw
  <2>1. layout' = IF mounted' THEN Layout(Structure(visibleTree'), visibleTree') ELSE <<>>
    BY <1>1, <1>2, DrawnStructure DEF Draw
  <2>2. Structure(Layout(Structure(visibleTree'), visibleTree')) = Structure(visibleTree')
    BY DEF Layout
  <2>3. QED
    BY <2>1, <2>2 DEF LaidOut
<1>3. CASE DrawAnew
  BY <1>1, <1>3 DEF DrawAnew, LaidOut
<1>4. QED
  BY <1>2, <1>3

(* A tree patched with a diff has the nodes of the tree the diff leads to,  *)
(* and they are current as there.                                           *)
LEMMA PatchKeeps ==
  ASSUME nodes \in StoreTrees, NEW new \in Trees, Patch(new)
  PROVE  nodes' \in StoreTrees
<1>1. /\ DOMAIN new \subseteq Node /\ IsRooted(new)
      /\ \A n \in DOMAIN new : new[n] \in TreeNode
  BY PublishedIs, TreeIs, PageAssumption
<1>2. \A n \in DOMAIN nodes : nodes[n] \in TreeNode
  BY TreeIs
<1>3. DOMAIN nodes' = DOMAIN new
  BY DEF Patch
<1>4. \A n \in DOMAIN new : nodes'[n] \in TreeNode /\ nodes'[n].is_current = new[n].is_current
  BY <1>1, <1>2 DEF Patch, TreeNode
<1>5. nodes' = [n \in DOMAIN new |-> nodes'[n]]
  BY <1>3 DEF Patch
<1>6. nodes' \in [DOMAIN new -> TreeNode]
  BY <1>4, <1>5
<1>7. IsRooted(nodes')
  BY <1>1, <1>3, <1>4 DEF IsRooted
<1>8. QED
  BY <1>1, <1>6, <1>7 DEF StoreTrees

LEMMA StoreKeeps == StoreInv /\ [Next]_vars => StoreInv'
<1> SUFFICES ASSUME StoreInv, [Next]_vars PROVE StoreInv'
  OBVIOUS
<1>1. nodes \in StoreTrees \cup {<<>>} /\ LaidOut
  BY DEF StoreInv
<1>2. ASSUME nodes' \in StoreTrees \cup {<<>>}, Draw \/ DrawAnew PROVE StoreInv'
  BY <1>2, Redrawn DEF StoreInv
<1>3. ASSUME UNCHANGED <<nodes, mounted, canvasVars>> PROVE StoreInv'
  BY <1>1, <1>3 DEF StoreInv, LaidOut, canvasVars, visibleTree, VisibleOf
<1>4. CASE Mount
  BY <1>1, <1>2, <1>4 DEF Mount
<1>5. CASE Unmount
  BY <1>1, <1>5 DEF Unmount, Disconnect, StoreInv, LaidOut
<1>6. CASE SocketStep
  BY <1>3, <1>6 DEF SocketStep, pageVars, Open, Break, Closed, Reconnect
<1>7. ASSUME NEW new \in Trees, Replace(new) PROVE StoreInv'
  BY <1>2, <1>7, PublishedIs, PageAssumption DEF Replace
<1>8. ASSUME NEW new \in Trees, nodes # <<>>, Patch(new) PROVE StoreInv'
  BY <1>1, <1>2, <1>8, PatchKeeps DEF Patch
<1>9. CASE Receive \/ Prime
  BY <1>7, <1>8, <1>9 DEF Receive, Prime
<1>10. CASE Click \/ ExpandAll \/ CollapseAll \/ ToggleHistorical
  BY <1>1, <1>2, <1>10 DEF Click, ExpandAll, CollapseAll, ToggleHistorical
<1>11. ASSUME NEW id \in DOMAIN nodes \ {Root}, SearchFor(id) PROVE StoreInv'
  BY <1>1, <1>2, <1>11 DEF SearchFor
<1>12. CASE CloseDetails
  BY <1>3, <1>12 DEF CloseDetails, socketVars
<1>13. ASSUME NEW id \in asked, Answer(id) PROVE StoreInv'
  BY <1>3, <1>13 DEF Answer, socketVars
<1>14. CASE UNCHANGED vars
  BY <1>3, <1>14 DEF vars, pageVars, socketVars
<1>15. QED
  BY <1>4, <1>5, <1>6, <1>9, <1>10, <1>11, <1>12, <1>13, <1>14 DEF Next

LEMMA StoreStart == PageInit => StoreInv
<1> SUFFICES ASSUME PageInit PROVE StoreInv
  OBVIOUS
<1>1. nodes = <<>> /\ layout = <<>> /\ ~mounted
  BY DEF PageInit, SocketInit
<1>2. QED
  BY <1>1 DEF StoreInv, LaidOut

LEMMA StoreShows ==
  ASSUME nodes \in StoreTrees
  PROVE  Shows(nodes, effectiveNodes)
  BY DEF Shows, effectiveNodes, Effective

LEMMA DrawnNodes ==
  ASSUME StoreInv
  PROVE  DOMAIN nodes \subseteq Node /\ DOMAIN layout \subseteq Node
<1>1. DOMAIN nodes \subseteq Node
  BY TreeIs DEF StoreInv
<1>2. DOMAIN effectiveNodes \subseteq Node
  BY <1>1 DEF effectiveNodes, Effective, Current
<1>3. DOMAIN visibleTree \subseteq Node
  BY <1>1, <1>2 DEF visibleTree, VisibleOf, effectiveNodes, Visible, Drawn, Below
<1>4. DOMAIN layout \subseteq Node
  BY <1>3, SameStructure DEF StoreInv, LaidOut
<1>5. QED
  BY <1>1, <1>4

-----------------------------------------------------------------------------
(* HistoryMatches is not inductive: the answer to come must be that of the  *)
(* node that is selected.  So whatever is under way was asked for it, and a *)
(* panel that has nothing under way shows it already.                       *)
OneWanted == asked \subseteq {selectedNodeId} /\ (asked # {} => mounted)

PanelType == selectedNodeId \in Node \cup {NoId} /\ asked \subseteq Node

PanelInv == PanelType /\ OneWanted /\ HistoryMatches

LEMMA Showing ==
  ASSUME PanelInv, NEW id \in Node, ShowDetails(id), mounted, UNCHANGED mounted
  PROVE  PanelInv'
  BY DEF ShowDetails, AskHistory, PanelInv, PanelType, OneWanted, HistoryMatches

LEMMA PanelKeeps == StoreInv /\ PanelInv /\ [Next]_vars => PanelInv'
<1> SUFFICES ASSUME StoreInv, PanelInv, [Next]_vars PROVE PanelInv'
  OBVIOUS
<1> USE DEF PanelInv, PanelType
<1>1. CASE Mount
  BY <1>1 DEF Mount, Connect, AskHistory, OneWanted, HistoryMatches
<1>2. CASE Unmount \/ CloseDetails
  BY <1>2 DEF Unmount, Disconnect, CloseDetails, HideDetails, socketVars,
              OneWanted, HistoryMatches
<1>3. ASSUME UNCHANGED <<mounted, panelVars>> PROVE PanelInv'
  BY <1>3 DEF panelVars, OneWanted, HistoryMatches
<1>4. CASE SocketStep
  BY <1>3, <1>4 DEF SocketStep, pageVars, Open, Break, Closed, Reconnect
<1>5. CASE Receive \/ Prime
  BY <1>3, <1>5 DEF Receive, Prime, Replace, Patch, socketVars
<1>6. CASE ExpandAll \/ CollapseAll \/ ToggleHistorical
  BY <1>3, <1>6 DEF ExpandAll, CollapseAll, ToggleHistorical, socketVars
<1>7. CASE Click
  <2>1. PICK id \in DOMAIN layout : UNCHANGED panelVars \/ (ShowDetails(id) /\ mounted)
    BY <1>7 DEF Click
  <2>2. UNCHANGED mounted
    BY <1>7 DEF Click, socketVars
  <2>3. QED
    BY <1>3, <2>1, <2>2, Showing, DrawnNodes
<1>8. ASSUME NEW id \in DOMAIN nodes \ {Root}, SearchFor(id) PROVE PanelInv'
  BY <1>8, Showing, DrawnNodes DEF SearchFor, socketVars
<1>9. ASSUME NEW id \in asked, Answer(id) PROVE PanelInv'
  BY <1>9 DEF Answer, socketVars, OneWanted, HistoryMatches
<1>10. CASE UNCHANGED vars
  BY <1>3, <1>10 DEF vars, pageVars, socketVars
<1>11. QED
  BY <1>1, <1>2, <1>4, <1>5, <1>6, <1>7, <1>8, <1>9, <1>10 DEF Next

LEMMA PageKeeps == PageSpec => [](StoreInv /\ PanelInv)
<1>1. PageInit => PanelInv
  BY DEF PageInit, SocketInit, PanelInv, PanelType, OneWanted, HistoryMatches
<1>2. QED
  BY <1>1, StoreStart, StoreKeeps, PanelKeeps, PTL DEF PageSpec

(* The panel never shows the history of another node than the one it names. *)
THEOREM HistoryOfSelected == PageSpec => []HistoryMatches
<1>1. PanelInv => HistoryMatches
  BY DEF PanelInv
<1>2. QED
  BY <1>1, PageKeeps, PTL

-----------------------------------------------------------------------------
(* A target has one current leaf. *)
LEMMA OneEnd ==
  ASSUME NEW tree \in AllTrees, NEW t \in Active(tree)
  PROVE  \E e \in DOMAIN tree : EndsAt(tree, t) = {e}
<1>1. PICK e \in DOMAIN tree : e \in EndsAt(tree, t)
  BY DEF Active, EndsAt
<1>2. \A n \in EndsAt(tree, t) : n = e
  BY <1>1, PublishedIs DEF EndsAt, IsTree
<1>3. QED
  BY <1>1, <1>2

(* The sum of the lengths of target_ids is the number of targets.           *)
LEMMA LeafCountIs ==
  ASSUME NEW tree, NEW shown, Shows(tree, shown), IsTree(tree), NEW id
  PROVE  LeafCount(shown, id)
           = Cardinality({t \in Active(tree) : EndsAt(tree, t) \cap Below(tree, id) # {}})
<1> DEFINE leaves == {m \in Below(shown, id) : shown[m].is_current}
           pairs == UNION {{n} \X shown[n].target_ids : n \in leaves}
           ended == {t \in Active(tree) : EndsAt(tree, t) \cap Below(tree, id) # {}}
           f == [p \in pairs |-> p[2]]
<1>1. \A p : p \in pairs <=>
         \E n \in DOMAIN tree : \E t \in tree[n].target_ids :
           p = <<n, t>> /\ id \in Path[n] /\ tree[n].is_current
  <2>1. leaves = {n \in DOMAIN tree : id \in Path[n] /\ tree[n].is_current}
    BY BelowIs, ShownIs
  <2>2. \A n \in leaves : shown[n] = tree[n]
    BY BelowIs, ShownIs
  <2>3. ASSUME NEW p
        PROVE  p \in pairs <=> \E n \in leaves : \E t \in shown[n].target_ids : p = <<n, t>>
    OBVIOUS
  <2>4. QED
    BY <2>1, <2>2, <2>3
<1>2. \A t : t \in ended <=>
         /\ t \in TargetId
         /\ \E n \in DOMAIN tree : t \in tree[n].target_ids /\ id \in Path[n] /\ tree[n].is_current
  BY BelowIs DEF EndsAt, Active
<1>3. \A n \in DOMAIN tree : tree[n].target_ids \subseteq TargetId
  BY TreeIs DEF Shows, TreeNode
<1>4. \A n, m \in DOMAIN tree : \A t \in tree[n].target_ids \cap tree[m].target_ids :
         tree[n].is_current /\ tree[m].is_current => n = m
  BY DEF IsTree
<1>5. f \in Injection(pairs, ended)
  <2>1. \A p \in pairs : p[2] \in ended
    BY <1>1, <1>2, <1>3
  <2>2. \A p, q \in pairs : p[2] = q[2] => p = q
    BY <1>1, <1>4
  <2> HIDE DEF pairs, ended
  <2>3. f \in [pairs -> ended]
    BY <2>1
  <2>4. QED
    BY <2>2, <2>3 DEF Injection, IsInjective
<1>6. f \in Surjection(pairs, ended)
  <2>1. ASSUME NEW t \in ended PROVE \E p \in pairs : p[2] = t
    <3>1. PICK n \in DOMAIN tree :
            t \in tree[n].target_ids /\ id \in Path[n] /\ tree[n].is_current
      BY <1>2
    <3>2. <<n, t>> \in pairs
      BY <1>1, <3>1
    <3>3. <<n, t>>[2] = t
      OBVIOUS
    <3> HIDE DEF pairs
    <3>4. QED
      BY <3>2, <3>3
  <2> HIDE DEF pairs, ended
  <2>2. QED
    BY <1>5, <2>1 DEF Injection, Surjection
<1>7. IsFiniteSet(ended)
  <2>1. ended \in SUBSET TargetId
    BY DEF Active
  <2>2. QED
    BY <2>1, FS_Subset, LayoutAssumption
<1>8. Cardinality(pairs) = Cardinality(ended)
  <2> HIDE DEF pairs, ended, f
  <2>1. QED
    BY <1>5, <1>6, <1>7, FS_Injection
<1>9. QED
  BY <1>8 DEF LeafCount

-----------------------------------------------------------------------------
(* One tree, one view of it: any subset of the nodes but the root and the   *)
(* leaves may be collapsed.                                                 *)
Collapsed(shown, manual) ==
  {n \in DOMAIN shown :
     IsCollapsed(shown, manual, [m \in DOMAIN shown |-> LeafCount(shown, m)], n)}

LEMMA ViewIs ==
  ASSUME NEW tree, NEW shown, Shows(tree, shown), NEW manual
  PROVE  LET view == Visible(shown, manual)
             collapsed == Collapsed(shown, manual)
         IN  /\ DOMAIN shown \subseteq DOMAIN tree /\ DOMAIN tree \subseteq Node
             /\ \A n \in DOMAIN shown : shown[n] = tree[n] /\ Path[n] \subseteq DOMAIN shown
             /\ DOMAIN view = {m \in DOMAIN shown : (Path[m] \ {m}) \cap collapsed = {}}
             /\ \A n \in DOMAIN view :
                  /\ view[n].isSummary <=> n \in collapsed
                  /\ view[n].summarizedLeafCount = LeafCount(shown, n)
                  /\ n \in collapsed => (view[n].isCurrent <=> AnyCurrent(shown, n))
             /\ collapsed \subseteq DOMAIN shown /\ Root \notin collapsed
             /\ \A n \in collapsed : ~IsLeafTarget(tree[n])
<1> DEFINE view == Visible(shown, manual)
           collapsed == Collapsed(shown, manual)
<1>1. /\ Below(shown, Root) = DOMAIN shown
      /\ DOMAIN shown \subseteq DOMAIN tree /\ DOMAIN tree \subseteq Node
      /\ \A n \in DOMAIN shown : shown[n] = tree[n] /\ Path[n] \subseteq DOMAIN shown
  <2>1. DOMAIN tree \subseteq Node
    BY TreeIs DEF Shows
  <2>2. /\ DOMAIN shown \subseteq DOMAIN tree
        /\ \A n \in DOMAIN shown : shown[n] = tree[n] /\ Path[n] \subseteq DOMAIN shown
    BY ShownIs
  <2>3. Below(shown, Root) = {n \in DOMAIN shown : Root \in Path[n]}
    BY BelowIs
  <2>4. Below(shown, Root) = DOMAIN shown
    BY <2>1, <2>2, <2>3, OnPath
  <2>5. QED
    BY <2>1, <2>2, <2>4
<1> DEFINE drawn == Drawn(shown, manual)
<1>2. /\ drawn = [n \in {m \in DOMAIN shown : (Path[m] \ {m}) \cap collapsed = {}} |->
                    n \in collapsed]
      /\ view = [n \in DOMAIN drawn |->
                   [isSummary |-> drawn[n],
                    summarizedLeafCount |-> LeafCount(shown, n),
                    isCurrent |-> IF drawn[n] THEN AnyCurrent(shown, n)
                                  ELSE shown[n].is_current]]
  BY <1>1 DEF Visible, Drawn, Collapsed
<1>3. /\ DOMAIN view = {m \in DOMAIN shown : (Path[m] \ {m}) \cap collapsed = {}}
      /\ \A n \in DOMAIN view :
           /\ view[n].isSummary <=> n \in collapsed
           /\ view[n].summarizedLeafCount = LeafCount(shown, n)
           /\ n \in collapsed => (view[n].isCurrent <=> AnyCurrent(shown, n))
  <2> HIDE DEF view, collapsed, drawn
  <2>1. QED
    BY <1>2
<1>4. collapsed \subseteq DOMAIN shown /\ Root \notin collapsed
  BY DEF IsCollapsed, Collapsed
<1>5. \A n \in collapsed : ~IsLeafTarget(tree[n])
  BY <1>1 DEF IsCollapsed, Collapsed
<1>6. QED
  BY <1>1, <1>3, <1>4, <1>5

LEMMA DrawnIs ==
  ASSUME NEW tree, NEW shown, Shows(tree, shown), NEW manual
  PROVE  \A m : m \in DOMAIN Visible(shown, manual) <=>
           m \in DOMAIN shown /\ (Path[m] \ {m}) \cap Collapsed(shown, manual) = {}
<1> DEFINE view == Visible(shown, manual)
           collapsed == Collapsed(shown, manual)
<1>1. DOMAIN view = {m \in DOMAIN shown : (Path[m] \ {m}) \cap collapsed = {}}
  BY ViewIs
<1>2. \A m : m \in DOMAIN view <=> m \in DOMAIN shown /\ (Path[m] \ {m}) \cap collapsed = {}
  <2> HIDE DEF view, collapsed
  <2>1. QED
    BY <1>1
<1>3. QED
  BY <1>2

(* Each node that is shown is drawn, or summed up by one node that is.      *)
LEMMA ShownOnce ==
  ASSUME NEW tree, NEW shown, Shows(tree, shown), NEW manual, NEW n \in DOMAIN shown
  PROVE  Cardinality(Places(Visible(shown, manual), n)) = 1
<1> DEFINE view == Visible(shown, manual)
           collapsed == Collapsed(shown, manual)
           places == Places(view, n)
<1>1. /\ n \in Node /\ Path[n] \subseteq DOMAIN shown
      /\ \A m : m \in DOMAIN view <=> m \in DOMAIN shown /\ (Path[m] \ {m}) \cap collapsed = {}
      /\ \A m \in DOMAIN view : view[m].isSummary <=> m \in collapsed
  <2>1. /\ DOMAIN shown \subseteq DOMAIN tree /\ DOMAIN tree \subseteq Node
        /\ Path[n] \subseteq DOMAIN shown
    BY ViewIs
  <2>2. \A m : m \in DOMAIN view <=> m \in DOMAIN shown /\ (Path[m] \ {m}) \cap collapsed = {}
    BY DrawnIs
  <2>3. \A m \in DOMAIN view : view[m].isSummary <=> m \in collapsed
    BY ViewIs
  <2>4. QED
    BY <2>1, <2>2, <2>3
<1> USE DEF Places
<1> HIDE DEF view, collapsed
<1>2. CASE (Path[n] \ {n}) \cap collapsed = {}
  <2>1. n \in DOMAIN view
    BY <1>1, <1>2
  <2>2. \A m \in places : m = n
    BY <1>1, <1>2
  <2>3. places = {n}
    BY <2>1, <2>2
  <2>4. QED
    BY <2>3, FS_Singleton DEF view
<1>3. CASE (Path[n] \ {n}) \cap collapsed # {}
  <2>1. PICK m \in Path[n] \cap collapsed : (Path[m] \ {m}) \cap collapsed = {}
    BY <1>1, <1>3, Topmost
  <2>2. m \in places /\ m # n
    BY <1>1, <1>3, <2>1
  <2>3. ASSUME NEW k \in places PROVE k = m
    <3>1. k \in Path[n] /\ k \in collapsed /\ (Path[k] \ {k}) \cap collapsed = {}
      BY <1>1, <1>3
    <3>2. k \in Path[m] \/ m \in Path[k]
      BY <1>1, <2>1, <3>1, PathChain
    <3>3. QED
      BY <2>1, <3>1, <3>2
  <2>4. places = {m}
    BY <2>2, <2>3
  <2>5. QED
    BY <2>4, FS_Singleton DEF view
<1>4. QED
  BY <1>2, <1>3

(* Whatever the cache has kept while trees came, were patched and lost      *)
(* branches: each node of the store is on the screen in one place, and      *)
(* nothing else is.                                                         *)
THEOREM OnScreenOnce == PageSpec => []EachNodeOnce
<1>1. StoreInv => EachNodeOnce
  <2> SUFFICES ASSUME StoreInv, mounted, nodes # <<>>
               PROVE  /\ DOMAIN layout \subseteq DOMAIN effectiveNodes
                      /\ \A n \in DOMAIN effectiveNodes : Cardinality(Places(layout, n)) = 1
    BY DEF EachNodeOnce
  <2>1. nodes \in StoreTrees /\ Shows(nodes, effectiveNodes)
    BY StoreShows DEF StoreInv
  <2> DEFINE view == Visible(effectiveNodes, manualState)
  <2>2. visibleTree = view
    BY DEF visibleTree, VisibleOf, effectiveNodes
  <2>3. DOMAIN layout = DOMAIN view /\ \A m \in DOMAIN view : layout[m].isSummary = view[m].isSummary
    BY <2>2, SameStructure DEF StoreInv, LaidOut
  <2>4. DOMAIN view \subseteq DOMAIN effectiveNodes
    BY <2>1, DrawnIs
  <2>5. ASSUME NEW n \in DOMAIN effectiveNodes
        PROVE  Cardinality(Places(layout, n)) = 1
    <3>1. Cardinality(Places(view, n)) = 1
      BY <2>1, ShownOnce
    <3>2. Places(layout, n) = Places(view, n)
      <4> HIDE DEF view
      <4>1. QED
        BY <2>3 DEF Places
    <3>3. QED
      BY <3>1, <3>2
  <2>6. QED
    BY <2>3, <2>4, <2>5
<1>2. QED
  BY <1>1, PageKeeps, PTL

-----------------------------------------------------------------------------
LEMMA DrawsShown ==
  ASSUME NEW tree, NEW shown, Shows(tree, shown), IsTree(tree), NEW manual
  PROVE  DrawsEachTarget(tree, Visible(shown, manual))
<1> DEFINE view == Visible(shown, manual)
           collapsed == Collapsed(shown, manual)
           drawnAt(t) == {n \in DOMAIN view : ~view[n].isSummary /\ n \in EndsAt(tree, t)}
           summedUpBy(t) == {n \in DOMAIN view :
                               view[n].isSummary /\ EndsAt(tree, t) \cap Below(tree, n) # {}}
<1>1. /\ DOMAIN shown \subseteq DOMAIN tree /\ DOMAIN tree \subseteq Node
      /\ \A n \in DOMAIN shown : shown[n] = tree[n] /\ Path[n] \subseteq DOMAIN shown
  BY ViewIs
<1>3. /\ DOMAIN view = {m \in DOMAIN shown : (Path[m] \ {m}) \cap collapsed = {}}
      /\ \A n \in DOMAIN view :
           /\ view[n].isSummary <=> n \in collapsed
           /\ view[n].summarizedLeafCount = LeafCount(shown, n)
           /\ n \in collapsed => (view[n].isCurrent <=> AnyCurrent(shown, n))
  BY ViewIs
<1>4. collapsed \subseteq DOMAIN shown /\ Root \notin collapsed
  BY ViewIs
<1>5. \A n \in collapsed : ~IsLeafTarget(tree[n])
  BY ViewIs
<1>6. \A n : Below(tree, n) = {m \in DOMAIN tree : n \in Path[m]}
  BY BelowIs
<1> HIDE DEF view, collapsed
<1>7. ASSUME NEW t \in Active(tree)
      PROVE  Cardinality(drawnAt(t)) + Cardinality(summedUpBy(t)) = 1
  <2>1. PICK e \in DOMAIN tree : EndsAt(tree, t) = {e}
    BY OneEnd, PublishedIs DEF Shows
  <2>2. e \in DOMAIN shown /\ e \notin collapsed /\ e \in Node
    <3>1. tree[e].is_current /\ t \in tree[e].target_ids
      BY <2>1 DEF EndsAt
    <3>2. QED
      BY <3>1, <1>1, <1>5, ShownIs DEF IsLeafTarget
  <2>3. drawnAt(t) = {n \in {e} : n \in DOMAIN view}
    BY <1>3, <2>1, <2>2
  <2>4. summedUpBy(t) = {n \in DOMAIN view : n \in collapsed /\ n \in Path[e]}
    BY <1>3, <1>6, <2>1
  <2> HIDE DEF drawnAt, summedUpBy
  <2>5. CASE Path[e] \cap collapsed = {}
    <3>1. drawnAt(t) = {e}
      BY <1>3, <2>2, <2>3, <2>5
    <3>2. summedUpBy(t) = {}
      BY <2>4, <2>5
    <3>3. Cardinality(drawnAt(t)) = 1
      BY <3>1, FS_Singleton
    <3>4. Cardinality(summedUpBy(t)) = 0
      BY <3>2, FS_EmptySet
    <3>5. QED
      BY <3>3, <3>4
  <2>6. CASE Path[e] \cap collapsed # {}
    <3>1. drawnAt(t) = {}
      BY <1>3, <2>2, <2>3, <2>6
    <3>2. PICK m \in Path[e] \cap collapsed : (Path[m] \ {m}) \cap collapsed = {}
      BY <2>2, <2>6, Topmost
    <3>3. m \in DOMAIN view
      BY <1>3, <1>4, <3>2
    <3>4. ASSUME NEW n \in summedUpBy(t) PROVE n = m
      <4>1. n \in Path[e] /\ n \in collapsed /\ (Path[n] \ {n}) \cap collapsed = {}
        BY <1>3, <2>4
      <4>2. n \in Path[m] \/ m \in Path[n]
        BY <2>2, <3>2, <4>1, PathChain
      <4>3. QED
        BY <3>2, <4>1, <4>2
    <3>5. summedUpBy(t) = {m}
      BY <2>4, <3>2, <3>3, <3>4
    <3>6. Cardinality(drawnAt(t)) = 0
      BY <3>1, FS_EmptySet
    <3>7. Cardinality(summedUpBy(t)) = 1
      BY <3>5, FS_Singleton
    <3>8. QED
      BY <3>6, <3>7
  <2>7. QED
    BY <2>5, <2>6
<1>8. ASSUME NEW n \in DOMAIN view, view[n].isSummary
      PROVE  /\ view[n].summarizedLeafCount
                  = Cardinality({t \in Active(tree) : n \in summedUpBy(t)})
             /\ view[n].isCurrent <=> tree[n].is_current
  <2>1. {t \in Active(tree) : n \in summedUpBy(t)}
          = {t \in Active(tree) : EndsAt(tree, t) \cap Below(tree, n) # {}}
    BY <1>8
  <2>2. view[n].summarizedLeafCount
          = Cardinality({t \in Active(tree) : EndsAt(tree, t) \cap Below(tree, n) # {}})
    BY <1>3, LeafCountIs
  <2>3. n \in DOMAIN shown /\ n \in Node /\ n \in collapsed
    BY <1>1, <1>3, <1>8
  <2>4. AnyCurrent(shown, n) <=> tree[n].is_current
    <3>1. AnyCurrent(shown, n) <=> \E m \in DOMAIN shown : n \in Path[m] /\ tree[m].is_current
      BY <1>1, BelowIs DEF AnyCurrent
    <3>2. n \in Path[n]
      BY <2>3, OnPath
    <3>3. \A m \in DOMAIN shown : n \in Path[m] /\ tree[m].is_current => tree[n].is_current
      BY <1>1, Ancestors DEF Shows
    <3>4. QED
      BY <2>3, <3>1, <3>2, <3>3
  <2>5. QED
    BY <1>3, <2>1, <2>2, <2>3, <2>4
<1>9. view[Root].summarizedLeafCount = Cardinality(Active(tree))
  <2>1. Root \in DOMAIN view
    <3>1. Path[Root] = {Root}
      BY LayoutAssumption
    <3>2. QED
      BY <3>1, <1>3, ShownIs
  <2>2. ASSUME NEW t \in Active(tree)
        PROVE  EndsAt(tree, t) \cap Below(tree, Root) # {}
    <3>1. PICK e \in DOMAIN tree : EndsAt(tree, t) = {e}
      BY OneEnd, PublishedIs DEF Shows
    <3>2. Root \in Path[e]
      BY <1>1, OnPath
    <3>3. QED
      BY <1>6, <3>1, <3>2
  <2>3. {t \in Active(tree) : EndsAt(tree, t) \cap Below(tree, Root) # {}} = Active(tree)
    BY <2>2
  <2>4. view[Root].summarizedLeafCount
          = Cardinality({t \in Active(tree) : EndsAt(tree, t) \cap Below(tree, Root) # {}})
    BY <1>3, <2>1, LeafCountIs
  <2>5. QED
    BY <2>3, <2>4
<1>10. QED
  BY <1>7, <1>8, <1>9 DEF DrawsEachTarget, view

(* In what layout.ts makes of a tree as the backend published it every      *)
(* active target is drawn once, as its leaf or in one summary's number, and *)
(* a summary is as current as the node: whatever the user has expanded or   *)
(* collapsed, with ghosts or without; and so it is on the screen while the  *)
(* store holds such a tree and it is laid out as it is.                     *)
THEOREM TargetsDrawnOnce == PageSpec => []EveryTargetOnce
<1>1. EveryTreeDrawn
  <2>1. ASSUME NEW tree \in AllTrees, NEW manual
        PROVE  /\ DrawsEachTarget(tree, Visible(tree, manual))
               /\ DrawsEachTarget(tree, Visible(Current(tree), manual))
    BY DrawsShown, PublishedIs DEF Shows
  <2>2. QED
    BY <2>1 DEF EveryTreeDrawn
<1>2. StoreInv => EveryTargetOnce
  <2>1. ASSUME StoreInv, nodes # <<>>, IsTree(nodes), layout = visibleTree
        PROVE  DrawsEachTarget(nodes, layout)
    <3>1. Shows(nodes, effectiveNodes)
      BY <2>1, StoreShows DEF StoreInv
    <3>2. DrawsEachTarget(nodes, Visible(effectiveNodes, manualState))
      BY <2>1, <3>1, DrawsShown
    <3>3. QED
      BY <2>1, <3>2 DEF visibleTree, VisibleOf, effectiveNodes
  <2>2. QED
    BY <1>1, <2>1 DEF EveryTargetOnce
<1>3. QED
  BY <1>2, PageKeeps, PTL

-----------------------------------------------------------------------------
(* What a search expands is enough for its match to be drawn. *)
LEMMA MatchDrawn ==
  ASSUME NEW tree, NEW shown, Shows(tree, shown), NEW id \in DOMAIN shown, NEW manual,
         \A m \in Path[id] \ {id} : m \in DOMAIN manual /\ manual[m] = "expanded"
  PROVE  id \in DOMAIN Visible(shown, manual)
<1>1. id \in DOMAIN shown /\ Path[id] \subseteq DOMAIN shown
  BY ShownIs
<1>2. \A m \in Path[id] \ {id} : m \notin Collapsed(shown, manual)
  BY DEF IsCollapsed, Collapsed
<1>3. QED
  BY <1>1, <1>2, DrawnIs

LEMMA SelectsDrawn ==
  ASSUME StoreInv, [Next]_vars, selectedNodeId' \notin {selectedNodeId, NoId}
  PROVE  \/ selectedNodeId' \in DOMAIN layout'
         \/ ~showHistorical /\ ~nodes[selectedNodeId'].is_current
<1>1. CASE Click
  <2>1. PICK id \in DOMAIN layout : ShowDetails(id) /\ UNCHANGED manualState
    BY <1>1 DEF Click, panelVars
  <2>2. UNCHANGED <<nodes, showHistorical, manualState>> /\ mounted /\ mounted' /\ Draw
    BY <1>1, <2>1 DEF Click, socketVars
  <2>3. visibleTree' = visibleTree
    BY <2>2 DEF visibleTree
  <2>4. DOMAIN layout = DOMAIN visibleTree
    BY <2>2, SameStructure DEF StoreInv, LaidOut
  <2>5. DOMAIN layout' = DOMAIN visibleTree'
    BY <2>2, Redrawn, SameStructure DEF LaidOut
  <2>6. QED
    BY <2>1, <2>3, <2>4, <2>5 DEF ShowDetails
<1>2. ASSUME NEW id \in DOMAIN nodes \ {Root}, SearchFor(id), showHistorical \/ nodes[id].is_current
      PROVE  id \in DOMAIN layout'
  <2>1. nodes \in StoreTrees /\ nodes # <<>>
    BY DEF StoreInv
  <2>2. id \in DOMAIN effectiveNodes
    BY <1>2 DEF effectiveNodes, Effective, Current
  <2> DEFINE manual == Overlay([n \in Path[id] \ {id} |-> "expanded"], manualState)
  <2>3. \A m \in Path[id] \ {id} : m \in DOMAIN manual /\ manual[m] = "expanded"
    BY DEF Overlay
  <2>4. id \in DOMAIN Visible(effectiveNodes, manual)
    <3> HIDE DEF manual
    <3>1. QED
      BY <2>1, <2>2, <2>3, StoreShows, MatchDrawn
  <2>5. UNCHANGED <<nodes, showHistorical>> /\ manualState' = manual /\ mounted' /\ Draw
    BY <1>2 DEF SearchFor, socketVars
  <2>6. visibleTree' = Visible(effectiveNodes, manual)
    <3> HIDE DEF manual
    <3>1. QED
      BY <2>1, <2>5 DEF visibleTree, VisibleOf, effectiveNodes
  <2>7. DOMAIN layout' = DOMAIN visibleTree'
    BY <2>5, Redrawn, SameStructure DEF LaidOut
  <2>8. QED
    BY <2>4, <2>6, <2>7
<1>3. ASSUME NEW id \in DOMAIN nodes \ {Root}, SearchFor(id)
      PROVE  selectedNodeId' = id
  BY <1>3 DEF SearchFor, ShowDetails
<1>4. ASSUME UNCHANGED selectedNodeId \/ selectedNodeId' = NoId PROVE FALSE
  BY <1>4
<1>5. CASE Mount \/ Unmount \/ SocketStep \/ Receive \/ Prime
  BY <1>4, <1>5 DEF Mount, Unmount, SocketStep, Receive, Prime,
                     Replace, Patch, pageVars, panelVars
<1>6. CASE ExpandAll \/ CollapseAll \/ ToggleHistorical \/ CloseDetails
  BY <1>4, <1>6 DEF ExpandAll, CollapseAll, ToggleHistorical, CloseDetails, panelVars
<1>7. ASSUME NEW id \in asked, Answer(id) PROVE FALSE
  BY <1>4, <1>7 DEF Answer
<1>8. CASE UNCHANGED vars
  BY <1>4, <1>8 DEF vars, pageVars, panelVars
<1>9. QED
  BY <1>1, <1>2, <1>3, <1>5, <1>6, <1>7, <1>8 DEF Next

(* A node that comes to be selected is drawn then, but for a ghost that was *)
(* searched for while ghosts are hidden.                                    *)
THEOREM SelectedDrawn == PageSpec => SelectedIsDrawn
<1>1. StoreInv /\ [Next]_vars =>
        [selectedNodeId' \notin {selectedNodeId, NoId} =>
           \/ selectedNodeId' \in DOMAIN layout'
           \/ ~showHistorical /\ ~nodes[selectedNodeId'].is_current]_vars
  BY SelectsDrawn
<1>2. QED
  BY <1>1, PageKeeps, PTL DEF PageSpec, SelectedIsDrawn

=============================================================================
