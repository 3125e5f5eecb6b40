------------------------------ MODULE TreeLayout ------------------------------
(***************************************************************************)
(* Which nodes of the tree the page draws, and which it sums up:           *)
(* frontend/src/components/tree/layout.ts, but for the geometry.           *)
(*                                                                         *)
(* A tree maps the ids in it to their nodes.  A node's id is a hash of its *)
(* place, so that Parent and Path (its ancestors and itself) are the same  *)
(* in every tree.  Of a node's fields those are kept that decide what is   *)
(* drawn; last_seen_at, which fades what is not current, is left out.      *)
(***************************************************************************)
EXTENDS Naturals, FiniteSets

CONSTANTS Node, Root, Parent, Path,
  TargetId,  \* targets
  Threshold  \* COLLAPSE_THRESHOLD

ASSUME LayoutAssumption ==
  /\ IsFiniteSet(Node) /\ IsFiniteSet(TargetId)
  /\ Root \in Node
  /\ Parent \in [Node \ {Root} -> Node]
  /\ Path \in [Node -> SUBSET Node]
  /\ Path[Root] = {Root}
  /\ \A n \in Node \ {Root} : n \notin Path[Parent[n]] /\ Path[n] = Path[Parent[n]] \cup {n}
  /\ Threshold \in Nat

(* target_ids is empty unless the node is a leaf target.                    *)
TreeNode == [target_ids : SUBSET TargetId, is_current : BOOLEAN]

IsLeafTarget(node) == node.target_ids # {}

(* Each node hangs below one that is current if it is.                      *)
IsRooted(tree) ==
  /\ Root \in DOMAIN tree /\ tree[Root].is_current
  /\ \A n \in DOMAIN tree \ {Root} :
       Parent[n] \in DOMAIN tree /\ (tree[n].is_current => tree[Parent[n]].is_current)

(* The trees the backend publishes (see TreeBuilder and TreeService): a     *)
(* current branch ends at a leaf, too, and a target has one current leaf.   *)
IsTree(tree) ==
  /\ IsRooted(tree)
  /\ \A n \in DOMAIN tree \ {Root} : tree[n].is_current =>
       \E m \in DOMAIN tree : n \in Path[m] /\ tree[m].is_current /\ IsLeafTarget(tree[m])
  /\ \A n, m \in DOMAIN tree :
       n # m /\ tree[n].is_current /\ tree[m].is_current
         => tree[n].target_ids \cap tree[m].target_ids = {}

AllTrees == {tree \in UNION {[D -> TreeNode] : D \in SUBSET Node} : IsTree(tree)}

(* What the store makes of them: a diff does not say which targets end at a *)
(* node it already has, so that is anything.                                *)
StoreTrees == {tree \in UNION {[D -> TreeNode] : D \in SUBSET Node} : IsRooted(tree)}

-----------------------------------------------------------------------------
(* groupChildrenByParentId *)
Children(tree, id) == {n \in DOMAIN tree \ {Root} : Parent[n] = id}

(* filterToCurrent *)
Current(tree) == [n \in {m \in DOMAIN tree : tree[m].is_current} |-> tree[n]]

(* What a walk down from id along the children comes to, id included.       *)
Below(tree, id) ==
  {n \in DOMAIN tree : id \in Path[n] /\ Path[n] \ Path[id] \subseteq DOMAIN tree}

(* Mutant of LeafCount: ghosts count as well. *)
EveryLeafCount(tree, id) ==
  Cardinality(UNION {{n} \X tree[n].target_ids : n \in Below(tree, id)})

(* computeLeafCounts: the sum of the lengths of target_ids. *)
LeafCount(tree, id) ==
  Cardinality(UNION {{n} \X tree[n].target_ids :
                       n \in {m \in Below(tree, id) : tree[m].is_current}})

(* aggregateFade *)
AnyCurrent(tree, id) == \E n \in Below(tree, id) : tree[n].is_current

(* manual holds what the user has done to a node: "expanded" or "collapsed". *)
IsCollapsed(tree, manual, leafCounts, id) ==
  /\ id # Root /\ ~IsLeafTarget(tree[id])
  /\ IF id \in DOMAIN manual THEN manual[id] = "collapsed" ELSE leafCounts[id] > Threshold

(* buildVisibleTree: a node is drawn unless one above it is collapsed; one  *)
(* that is collapsed is drawn as the summary of what is below it.  Drawn    *)
(* says of each node that is drawn whether it is a summary.                 *)
Drawn(tree, manual) ==
  LET reached == Below(tree, Root)
      leafCounts == [n \in reached |-> LeafCount(tree, n)]
      collapsed == {n \in reached : IsCollapsed(tree, manual, leafCounts, n)}
  IN  [n \in {m \in reached : (Path[m] \ {m}) \cap collapsed = {}} |-> n \in collapsed]

Visible(tree, manual) ==
  LET drawn == Drawn(tree, manual)
  IN  [n \in DOMAIN drawn |->
         [isSummary |-> drawn[n],
          summarizedLeafCount |-> LeafCount(tree, n),
          isCurrent |-> IF drawn[n] THEN AnyCurrent(tree, n) ELSE tree[n].is_current]]

(* serializeStructure: of Visible(tree, manual) it is Drawn(tree, manual).  *)
Structure(view) == [n \in DOMAIN view |-> view[n].isSummary]

(* Where a node is on the screen: drawn itself, or in a summary above it.   *)
Places(view, id) == {n \in DOMAIN view : n = id \/ (n \in Path[id] /\ view[n].isSummary)}

-----------------------------------------------------------------------------
EndsAt(tree, target) ==
  {n \in DOMAIN tree : tree[n].is_current /\ target \in tree[n].target_ids}

Active(tree) == {t \in TargetId : EndsAt(tree, t) # {}}

(* Whatever the user has expanded or collapsed, and whether ghosts are      *)
(* filtered out: each target is drawn as one current leaf or is in the      *)
(* number of one summary, and a summary is as current as what it hides.     *)
DrawsEachTarget(tree, view) ==
  LET drawnAt(t) == {n \in DOMAIN view : ~view[n].isSummary /\ n \in EndsAt(tree, t)}
      summedUpBy(t) == {n \in DOMAIN view :
                          view[n].isSummary /\ EndsAt(tree, t) \cap Below(tree, n) # {}}
  IN  /\ \A t \in Active(tree) : Cardinality(drawnAt(t)) + Cardinality(summedUpBy(t)) = 1
      /\ \A n \in DOMAIN view : view[n].isSummary =>
           /\ view[n].summarizedLeafCount
                = Cardinality({t \in Active(tree) : n \in summedUpBy(t)})
           /\ view[n].isCurrent <=> tree[n].is_current
      /\ view[Root].summarizedLeafCount = Cardinality(Active(tree))
=============================================================================
