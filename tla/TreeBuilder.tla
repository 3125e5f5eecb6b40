----------------------------- MODULE TreeBuilder -----------------------------
(***************************************************************************)
(* build_tree (services/tree_builder.py): the traces of the active targets *)
(* merged into one trie, hop by hop.                                       *)
(*                                                                         *)
(* A node's id is a hash of its parent's id and its label, so a node is    *)
(* the sequence of labels on the way to it: the root is <<>>, a hop that   *)
(* timed out is labelled Star, and the synthetic leaf of a target whose    *)
(* trace ends in a timeout is labelled with the target.  A label stands    *)
(* for the hop's host name, or its address if it has none.  A hop's loss   *)
(* is total if it timed out and none if it replied.                        *)
(*                                                                         *)
(* The list of traces comes from a SELECT without ORDER BY: the same rows  *)
(* may come in another order the next time, which Rebuild does once.       *)
(***************************************************************************)
EXTENDS Integers, Sequences, FiniteSets, SequencesExt

CONSTANTS
  Target,   \* active targets
  Label,    \* labels of hops that reply
  Star,     \* the label of a hop that times out
  MaxHops   \* bound: hops of a trace

ASSUME BuilderAssumption ==
  /\ IsFiniteSet(Target)
  /\ MaxHops \in Nat
  /\ Star \notin Label /\ Star \notin Target
  /\ Label \cap Target = {}

Hops == UNION {[1..n -> Label \cup {Star}] : n \in 0..MaxHops}

VARIABLES
  hops,     \* every target's latest trace, as stored
  order,    \* the targets in the order they were read
  pass,     \* "seed", "place" or "done"
  k,        \* the trace being worked on, by its place in the order
  i,        \* its next hop
  current,  \* the node reached so far
  nodes,    \* all_nodes
  samples,  \* contributions: <<node, target, hop>>
  leaves,   \* target_ids of leaf targets: <<node, target>>
  first     \* the tree of the first build, once there is one, in a set

stored == <<hops, order>>
tree == <<nodes, samples, leaves>>
vars == <<hops, order, pass, k, i, current, nodes, samples, leaves, first>>

Orders == {s \in [1..Cardinality(Target) -> Target] : \A t \in Target : \E j \in DOMAIN s : s[j] = t}

(* Without a trace neither pass has anything to do. *)
Start == IF Target = {} THEN "done" ELSE "seed"

Init ==
  /\ hops \in [Target -> Hops]
  /\ order \in Orders
  /\ pass = Start /\ k = 1 /\ i = 1 /\ current = <<>>
  /\ nodes = {<<>>} /\ samples = {} /\ leaves = {}
  /\ first = {}

-----------------------------------------------------------------------------
target == order[k]
trace == hops[target]

IsTimeout(j) == trace[j] = Star

(* Mutant of Leading: the first pass does not stop at a timeout. *)
LeadingAll(h) == DOMAIN h

(* The hops before the first that timed out. *)
Leading(h) == {j \in DOMAIN h : \A m \in 1..j : h[m] # Star}

(* First pass: a node for every leading hop that replied. *)
Seed ==
  /\ pass = "seed"
  /\ nodes' = nodes \cup {SubSeq(trace, 1, j) : j \in Leading(trace)}
  /\ IF k = Len(order)
       THEN pass' = "place" /\ k' = 1
       ELSE pass' = pass /\ k' = k + 1
  /\ UNCHANGED <<stored, i, current, samples, leaves, first>>

(* Second pass.  A hop that replied leads to the child with its label. *)
PlaceReply ==
  /\ pass = "place" /\ i <= Len(trace) /\ ~IsTimeout(i)
  /\ current' = Append(current, trace[i])
  /\ nodes' = nodes \cup {current'}
  /\ samples' = samples \cup {<<current', target, i>>}
  /\ i' = i + 1
  /\ UNCHANGED <<stored, pass, k, leaves, first>>

(* Mutant of RealDescendants: the whole tree is searched. *)
RealNodes(n, label) ==
  {d \in nodes :
     /\ d # <<>> /\ d # n
     /\ d[Len(d)] = label
     /\ \A j \in DOMAIN d : d[j] # Star}

(* _find_unambiguous_real_descendant: the nodes below n with that label,    *)
(* with no timeout on the way.                                              *)
RealDescendants(n, label) ==
  {d \in nodes :
     /\ Len(d) > Len(n)
     /\ SubSeq(d, 1, Len(n)) = n
     /\ d[Len(d)] = label
     /\ \A j \in (Len(n) + 1)..Len(d) : d[j] # Star}

(* j is the next hop of the trace that replied. *)
IsNextReply(j) ==
  /\ j \in (i + 1)..Len(trace)
  /\ ~IsTimeout(j)
  /\ \A m \in i..(j - 1) : IsTimeout(m)

CanRejoin(j, d) ==
  /\ IsNextReply(j)
  /\ RealDescendants(current, trace[j]) = {d}

(* Mutant of Rejoin: the reply it jumps to is worked on once more. *)
RejoinTwice ==
  /\ pass = "place" /\ i <= Len(trace) /\ IsTimeout(i)
  /\ \E j \in DOMAIN trace, d \in nodes :
       /\ CanRejoin(j, d)
       /\ current' = d
       /\ samples' = samples \cup {<<d, target, j>>}
       /\ i' = j
  /\ UNCHANGED <<stored, pass, k, nodes, leaves, first>>

(* The timeouts are skipped: the trace goes on at the only node known below *)
(* here that is labelled like its next reply.                               *)
Rejoin ==
  /\ pass = "place" /\ i <= Len(trace) /\ IsTimeout(i)
  /\ \E j \in DOMAIN trace, d \in nodes :
       /\ CanRejoin(j, d)
       /\ current' = d
       /\ samples' = samples \cup {<<d, target, j>>}
       /\ i' = j + 1
  /\ UNCHANGED <<stored, pass, k, nodes, leaves, first>>

(* Mutant of Fork: the new node is not entered in all_nodes. *)
ForkUnlisted ==
  /\ pass = "place" /\ i <= Len(trace) /\ IsTimeout(i)
  /\ ~ \E j \in DOMAIN trace, d \in nodes : CanRejoin(j, d)
  /\ current' = Append(current, Star)
  /\ samples' = samples \cup {<<current', target, i>>}
  /\ i' = i + 1
  /\ UNCHANGED <<stored, pass, k, nodes, leaves, first>>

(* There is none, or more than one: the timeout gets a node of its own. *)
Fork ==
  /\ pass = "place" /\ i <= Len(trace) /\ IsTimeout(i)
  /\ ~ \E j \in DOMAIN trace, d \in nodes : CanRejoin(j, d)
  /\ current' = Append(current, Star)
  /\ nodes' = nodes \cup {current'}
  /\ samples' = samples \cup {<<current', target, i>>}
  /\ i' = i + 1
  /\ UNCHANGED <<stored, pass, k, leaves, first>>

(* Mutant of EndTrace: there is always a synthetic leaf as well. *)
EndTraceWithLeaf ==
  /\ pass = "place" /\ i > Len(trace)
  /\ LET leaf == Append(current, target)
     IN  /\ nodes' = nodes \cup {leaf}
         /\ leaves' = leaves \cup {<<current, target>>, <<leaf, target>>}
         /\ UNCHANGED samples
  /\ IF k = Len(order)
       THEN pass' = "done" /\ k' = 1
       ELSE pass' = pass /\ k' = k + 1
  /\ i' = 1 /\ current' = <<>>
  /\ UNCHANGED <<stored, first>>

(* The end of a trace: its last reply becomes the target's leaf, and a      *)
(* trace that does not end in a reply gets a leaf below what it reached.    *)
EndTrace ==
  /\ pass = "place" /\ i > Len(trace)
  /\ IF trace # <<>> /\ ~IsTimeout(Len(trace))
       THEN /\ leaves' = leaves \cup {<<current, target>>}
            /\ UNCHANGED <<nodes, samples>>
       ELSE LET leaf == Append(current, target)
            IN  /\ nodes' = nodes \cup {leaf}
                /\ leaves' = leaves \cup {<<leaf, target>>}
                /\ samples' = IF trace = <<>> THEN samples
                              ELSE samples \cup {<<leaf, target, Len(trace)>>}
  /\ IF k = Len(order)
       THEN pass' = "done" /\ k' = 1
       ELSE pass' = pass /\ k' = k + 1
  /\ i' = 1 /\ current' = <<>>
  /\ UNCHANGED <<stored, first>>

(* A later recompute builds the tree of the same traces again. *)
Rebuild ==
  /\ pass = "done" /\ first = {}
  /\ first' = {tree}
  /\ order' \in Orders
  /\ pass' = Start
  /\ nodes' = {<<>>} /\ samples' = {} /\ leaves' = {}
  /\ UNCHANGED <<hops, k, i, current>>

Next == Seed \/ PlaceReply \/ Rejoin \/ Fork \/ EndTrace \/ Rebuild

Spec == Init /\ [][Next]_vars /\ WF_vars(Next)

-----------------------------------------------------------------------------
(* _finalize: the worst loss sampled at a node, then the worst of it and of *)
(* what hangs below it, from the leaves up.  0 is unknown, 3 is critical.   *)
Rank(t, j) == IF hops[t][j] = Star THEN 3 ELSE 1
Worst(ranks) == IF ranks = {} THEN 0 ELSE CHOOSE r \in ranks : \A q \in ranks : q <= r

Severity(n) == Worst({Rank(s[2], s[3]) : s \in {c \in samples : c[1] = n}})
Children(n) == {c \in nodes : Len(c) = Len(n) + 1 /\ SubSeq(c, 1, Len(n)) = n}

(* Mutant of WorstBelow: only the children are looked at. *)
WorstChild ==
  [n \in nodes |-> Worst({Severity(n)} \cup {Severity(c) : c \in Children(n)})]

WorstBelow ==
  LET worst[n \in nodes] == Worst({Severity(n)} \cup {worst[c] : c \in Children(n)})
  IN  worst

-----------------------------------------------------------------------------
Built == pass = "done"

(* Every node's parent is in the tree, at every moment of the build: what   *)
(* the diff and the pages take for granted (ParentClosed in TreeService).   *)
PrefixClosed == \A n \in nodes : n = <<>> \/ Front(n) \in nodes

(* Every target ends at one leaf, and at one only, wherever its trace       *)
(* stopped and whichever other trace built the nodes it goes through.       *)
OneLeaf == Built => \A t \in Target : Cardinality({n \in nodes : <<n, t>> \in leaves}) = 1

(* No dead ends: whatever the first pass seeded and the second elided,      *)
(* every node but the root is on the way to some target's leaf.             *)
NoDeadEnds == Built => \A n \in nodes \ {<<>>} : \E s \in leaves : IsPrefix(n, s[1])

(* The hops of a trace that were not skipped lie on the path to its leaf,   *)
(* in the order they were probed: a rejoin moves a trace down, never        *)
(* sideways into a branch it was not on.                                    *)
TraceIsPath ==
  Built => \A s \in samples :
    /\ \E leaf \in leaves : leaf[2] = s[2] /\ IsPrefix(s[1], leaf[1])
    /\ \A r \in samples : (r[2] = s[2] /\ r[3] < s[3]) => IsStrictPrefix(r[1], s[1])

(* A hop that replied is counted at one node, which is labelled like it:    *)
(* none is lost to a rejoin or counted twice by it.                         *)
EveryReplyCounted ==
  Built => \A t \in Target : \A j \in DOMAIN hops[t] :
    hops[t][j] # Star =>
      \E n \in nodes \ {<<>>} : Last(n) = hops[t][j] /\ {s \in samples : s[2] = t /\ s[3] = j} = {<<n, t, j>>}

(* A target that no longer answers shows all the way up: if its trace ends  *)
(* in a timeout, its leaf and everything above it has a critical worst      *)
(* descendant, although timeouts on the way may be left out of the tree.    *)
OutageShows ==
  Built => \A s \in leaves : \A n \in nodes :
    (IsPrefix(n, s[1]) /\ hops[s[2]] # <<>> /\ Last(hops[s[2]]) = Star) => WorstBelow[n] = 3

(* tree_builder.py:266-272: the first pass is there so that the order of    *)
(* the traces does not decide whether a timeout can rejoin the path it      *)
(* belongs to.  The code lets it: see the README.                           *)
OrderIndependent == Built => \A earlier \in first : tree = earlier
=============================================================================
