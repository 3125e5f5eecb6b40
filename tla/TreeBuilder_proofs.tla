-------------------------- MODULE TreeBuilder_proofs --------------------------
(***************************************************************************)
(* Proofs about TreeBuilder, for any finite set of targets, any labels and *)
(* traces of any length: the tree is a tree at every moment of the build,  *)
(* every target ends at one leaf, every node leads to one, a trace lies on *)
(* the path to its leaf, no reply is lost or counted twice, and an outage  *)
(* shows all the way up.                                                   *)
(***************************************************************************)
EXTENDS TreeBuilder, FiniteSetTheorems, SequenceTheorems, WellFoundedInduction, TLAPS

Labels == Label \cup {Star} \cup Target
Node == Seq(Labels)

-----------------------------------------------------------------------------
(* Paths *)

(* A prefix, element by element. *)
LEMMA PrefixIs ==
  ASSUME NEW s \in Node, NEW t \in Node
  PROVE  IsPrefix(s, t) <=> (Len(s) <= Len(t) /\ \A m \in 1..Len(s) : s[m] = t[m])
<1>1. Len(s) \in Nat /\ Len(t) \in Nat
  BY DEF Node
<1>2. SubSeq(s, 1, Len(s)) = s
  BY SubSeqFull DEF Node
<1>3. ASSUME Len(s) <= Len(t)
      PROVE  s = SubSeq(t, 1, Len(s)) <=> \A m \in 1..Len(s) : s[m] = t[m]
  <2> DEFINE p == SubSeq(t, 1, Len(s))
  <2>1. p \in Node /\ Len(p) = Len(s) /\ \A m \in 1..Len(s) : p[m] = t[m]
    BY <1>1, <1>3 DEF Node
  <2> HIDE DEF p
  <2>2. (\A m \in 1..Len(s) : s[m] = p[m]) => s = p
    BY <2>1, SeqEqual DEF Node
  <2>3. s = p <=> \A m \in 1..Len(s) : s[m] = t[m]
    BY <2>1, <2>2
  <2> QED BY <2>3 DEF p
<1> QED BY <1>2, <1>3 DEF IsPrefix

LEMMA PrefixSelf ==
  ASSUME NEW s \in Node
  PROVE  IsPrefix(s, s)
BY PrefixIs DEF Node

LEMMA PrefixTransitive ==
  ASSUME NEW s \in Node, NEW t \in Node, NEW u \in Node, IsPrefix(s, t), IsPrefix(t, u)
  PROVE  IsPrefix(s, u)
<1>1. /\ Len(s) \in Nat /\ Len(t) \in Nat /\ Len(u) \in Nat
      /\ Len(s) <= Len(t) /\ Len(t) <= Len(u)
      /\ \A m \in 1..Len(s) : s[m] = t[m]
      /\ \A m \in 1..Len(t) : t[m] = u[m]
  BY PrefixIs DEF Node
<1> QED BY <1>1, PrefixIs

LEMMA StrictPrefixIs ==
  ASSUME NEW s \in Node, NEW t \in Node
  PROVE  IsStrictPrefix(s, t) <=> (IsPrefix(s, t) /\ Len(s) < Len(t))
<1>1. Len(s) \in Nat /\ Len(t) \in Nat
  BY DEF Node
<1>2. ASSUME IsPrefix(s, t), Len(s) >= Len(t) PROVE s = t
  <2>1. Len(s) = Len(t) /\ \A m \in 1..Len(s) : s[m] = t[m]
    BY <1>1, <1>2, PrefixIs
  <2> QED BY <2>1, SeqEqual DEF Node
<1> QED BY <1>1, <1>2 DEF IsStrictPrefix

LEMMA StrictPrefixAfter ==
  ASSUME NEW s \in Node, NEW t \in Node, NEW u \in Node,
         IsPrefix(s, t), IsStrictPrefix(t, u)
  PROVE  IsStrictPrefix(s, u)
<1>1. IsPrefix(t, u) /\ Len(t) < Len(u) /\ Len(s) <= Len(t)
      /\ Len(s) \in Nat /\ Len(t) \in Nat /\ Len(u) \in Nat
  BY StrictPrefixIs, PrefixIs DEF Node
<1> QED BY <1>1, PrefixTransitive, StrictPrefixIs

(* The child of c that is labelled x. *)
LEMMA ChildNode ==
  ASSUME NEW c \in Node, NEW x \in Labels
  PROVE  /\ Append(c, x) \in Node /\ Append(c, x) # <<>>
         /\ Front(Append(c, x)) = c /\ Last(Append(c, x)) = x
         /\ IsStrictPrefix(c, Append(c, x))
<1> DEFINE d == Append(c, x)
<1>1. /\ d \in Node /\ d # <<>> /\ Len(d) = Len(c) + 1 /\ Len(c) \in Nat
      /\ \A m \in 1..Len(c) : d[m] = c[m]
      /\ d[Len(c) + 1] = x
  BY AppendProperties DEF Node
<1> HIDE DEF d
<1>2. Last(d) = x
  BY <1>1 DEF Last
<1>3. IsPrefix(c, d) /\ IsStrictPrefix(c, d)
  BY <1>1, PrefixIs, StrictPrefixIs
<1>4. Front(d) = c
  <2>1. Len(d) - 1 = Len(c)
    BY <1>1
  <2>2. SubSeq(c, 1, Len(c)) = SubSeq(d, 1, Len(c))
    BY <1>3 DEF IsPrefix
  <2>3. SubSeq(c, 1, Len(c)) = c
    BY SubSeqFull DEF Node
  <2> QED BY <2>1, <2>2, <2>3 DEF Front
<1> QED BY <1>1, <1>2, <1>3, <1>4 DEF d

(* The first m labels of a node. *)
LEMMA PathTo ==
  ASSUME NEW s \in Node, NEW m \in 1..Len(s)
  PROVE  /\ SubSeq(s, 1, m) \in Node /\ SubSeq(s, 1, m) # <<>>
         /\ Front(SubSeq(s, 1, m)) = SubSeq(s, 1, m - 1)
         /\ SubSeq(s, 1, m) = Append(SubSeq(s, 1, m - 1), s[m])
         /\ SubSeq(s, 1, m - 1) \in Node
<1>1. /\ Len(s) \in Nat /\ m \in Nat /\ m - 1 \in Nat /\ m <= Len(s) /\ s[m] \in Labels
      /\ 1 \in 1..Len(s) /\ m \in 1..Len(s)
  BY DEF Node
<1>2. SubSeq(s, 1, m - 1) \in Node
  BY <1>1 DEF Node
<1>3. SubSeq(s, 1, m) = SubSeq(s, 1, m - 1) \o <<s[m]>>
  BY <1>1, SubSeqRecursiveSecond DEF Node
<1>4. SubSeq(s, 1, m) = Append(SubSeq(s, 1, m - 1), s[m])
  BY <1>1, <1>2, <1>3, AppendIsConcat DEF Node
<1> QED BY <1>1, <1>2, <1>4, ChildNode
-----------------------------------------------------------------------------
(* Types *)

Size == Cardinality(Target)

BuildType ==
  /\ hops \in [Target -> Seq(Label \cup {Star})]
  /\ order \in Orders
  /\ pass \in {"seed", "place", "done"}
  /\ k \in Nat /\ i \in Nat \ {0}
  /\ pass = "done" => k = 1
  /\ pass # "done" => k \in 1..Size
  /\ pass # "place" => i = 1 /\ current = <<>>
  /\ pass = "place" => i <= Len(trace) + 1
  /\ nodes \subseteq Node /\ <<>> \in nodes /\ current \in nodes
  /\ samples \subseteq nodes \X Target \X Nat
  /\ leaves \subseteq nodes \X Target

LEMMA SizeIsNat == Size \in Nat
BY BuilderAssumption, FS_CardinalityType DEF Size

(* An order lists every target once. *)
LEMMA OrderIs ==
  ASSUME NEW s \in Orders
  PROVE  /\ s \in [1..Size -> Target] /\ Len(s) = Size /\ DOMAIN s = 1..Size
         /\ \A t \in Target : \E j \in 1..Size : s[j] = t
         /\ \A m, j \in 1..Size : s[m] = s[j] => m = j
<1>1. s \in [1..Size -> Target] /\ \A t \in Target : \E j \in DOMAIN s : s[j] = t
  BY DEF Orders, Size
<1>2. Len(s) = Size
  BY <1>1, SizeIsNat
<1>3. IsFiniteSet(1..Size) /\ Cardinality(1..Size) = Cardinality(Target)
  <2>1. /\ IsFiniteSet(1..Size)
        /\ Cardinality(1..Size) = IF 1 > Size THEN 0 ELSE Size - 1 + 1
    BY SizeIsNat, FS_Interval
  <2> QED BY <2>1, SizeIsNat DEF Size
<1>4. s \in Surjection(1..Size, Target)
  BY <1>1 DEF Surjection
<1>5. s \in Injection(1..Size, Target)
  BY <1>3, <1>4, FS_SurjSameCardinalityImpliesInj
<1> QED BY <1>1, <1>2, <1>5 DEF Injection, IsInjective

(* The trace being worked on. *)
LEMMA TraceIs ==
  ASSUME BuildType, pass # "done"
  PROVE  /\ target \in Target /\ trace \in Seq(Label \cup {Star}) /\ trace \in Node
         /\ trace = hops[target] /\ target = order[k]
         /\ Len(trace) \in Nat /\ \A m \in 1..Len(trace) : trace[m] \in Labels
<1>1. order \in [1..Size -> Target] /\ k \in 1..Size
  BY OrderIs DEF BuildType
<1>2. target \in Target
  BY <1>1 DEF target
<1>3. trace \in Seq(Label \cup {Star})
  BY <1>2 DEF trace, BuildType
<1>4. trace \in Node
  BY <1>3, SeqMonotonic DEF Node, Labels
<1> QED BY <1>2, <1>3, <1>4 DEF target, trace, Node

(* Every step of the second pass but the last of a trace goes down to a     *)
(* node below, new or not, at the hop it takes a sample of.                 *)
Descends(j) ==
  /\ j \in i..Len(trace)
  /\ \A m \in i..(j - 1) : trace[m] = Star
  /\ current' \in Node /\ IsStrictPrefix(current, current') /\ current' # <<>>
  /\ current' \in nodes \/ Front(current') = current
  /\ nodes' = nodes \cup {current'}
  /\ samples' = samples \cup {<<current', target, j>>}
  /\ trace[j] # Star => Last(current') = trace[j]
  /\ trace[i] # Star => j = i /\ current' = Append(current, trace[i])
  /\ i' = j + 1
  /\ pass = "place" /\ UNCHANGED <<hops, order, pass, k, leaves>>

LEMMA Descending ==
  ASSUME BuildType, PlaceReply \/ Rejoin \/ Fork
  PROVE  \E j \in Nat : Descends(j)
<1>1. pass = "place" /\ i <= Len(trace) /\ UNCHANGED <<hops, order, pass, k, leaves>>
  BY DEF PlaceReply, Rejoin, Fork, stored
<1>2. /\ i \in Nat \ {0} /\ i \in 1..Len(trace) /\ current \in Node
      /\ nodes \subseteq Node /\ trace[i] \in Labels /\ Star \in Labels
  BY <1>1, TraceIs DEF BuildType, Labels
<1>3. CASE PlaceReply
  <2>1. current' = Append(current, trace[i]) /\ trace[i] # Star
        /\ nodes' = nodes \cup {current'}
        /\ samples' = samples \cup {<<current', target, i>>} /\ i' = i + 1
    BY <1>3 DEF PlaceReply, IsTimeout
  <2>2. Descends(i)
    BY <1>1, <1>2, <2>1, ChildNode DEF Descends
  <2> QED BY <1>2, <2>2
<1>4. CASE Fork
  <2>1. current' = Append(current, Star) /\ trace[i] = Star
        /\ nodes' = nodes \cup {current'}
        /\ samples' = samples \cup {<<current', target, i>>} /\ i' = i + 1
    BY <1>4 DEF Fork, IsTimeout
  <2>2. Descends(i)
    BY <1>1, <1>2, <2>1, ChildNode DEF Descends
  <2> QED BY <1>2, <2>2
<1>5. CASE Rejoin
  <2>1. PICK j \in DOMAIN trace, d \in nodes :
          /\ CanRejoin(j, d) /\ current' = d
          /\ samples' = samples \cup {<<d, target, j>>} /\ i' = j + 1
    BY <1>5 DEF Rejoin
  <2>2. /\ j \in (i + 1)..Len(trace) /\ trace[j] # Star
        /\ \A m \in i..(j - 1) : trace[m] = Star
    BY <2>1 DEF CanRejoin, IsNextReply, IsTimeout
  <2>3. /\ d \in nodes /\ Len(d) > Len(current)
        /\ SubSeq(d, 1, Len(current)) = current /\ d[Len(d)] = trace[j]
    BY <2>1 DEF CanRejoin, RealDescendants
  <2>4. d \in Node /\ Len(d) \in Nat /\ Len(current) \in Nat
    BY <1>2, <2>3 DEF Node
  <2>5. IsPrefix(current, d)
    <3>1. SubSeq(current, 1, Len(current)) = current
      BY <1>2, SubSeqFull DEF Node
    <3> QED BY <2>3, <2>4, <3>1 DEF IsPrefix
  <2>6. IsStrictPrefix(current, d) /\ d # <<>> /\ Last(d) = trace[j]
    BY <1>2, <2>3, <2>4, <2>5, StrictPrefixIs DEF Last
  <2>7. nodes' = nodes /\ trace[i] = Star
    BY <1>5 DEF Rejoin, IsTimeout
  <2>8. j \in i..Len(trace) /\ j \in Nat
    BY <1>2, <2>2, <1>1, TraceIs
  <2>9. Descends(j)
    BY <1>1, <2>1, <2>2, <2>3, <2>4, <2>6, <2>7, <2>8 DEF Descends
  <2> QED BY <2>8, <2>9
<1> QED BY <1>3, <1>4, <1>5

(* The end of a trace: where its leaf is. *)
Ends(leaf) ==
  /\ leaf \in Node /\ IsPrefix(current, leaf)
  /\ nodes' = nodes \cup {leaf}
  /\ leaves' = leaves \cup {<<leaf, target>>}
  /\ \/ leaf = current /\ samples' = samples /\ trace[Len(trace)] # Star
     \/ /\ Front(leaf) = current /\ IsStrictPrefix(current, leaf)
        /\ trace = <<>> \/ trace[Len(trace)] = Star
        /\ samples' = IF trace = <<>> THEN samples
                      ELSE samples \cup {<<leaf, target, Len(trace)>>}
  /\ pass = "place" /\ i = Len(trace) + 1
  /\ pass' = (IF k = Size THEN "done" ELSE pass)
  /\ k' = (IF k = Size THEN 1 ELSE k + 1)
  /\ i' = 1 /\ current' = <<>> /\ UNCHANGED <<hops, order>>

LEMMA Ending ==
  ASSUME BuildType, EndTrace
  PROVE  \E leaf : Ends(leaf)
<1>1. pass = "place" /\ i > Len(trace) /\ i' = 1 /\ current' = <<>>
      /\ UNCHANGED <<hops, order>>
  BY DEF EndTrace, stored
<1>2. /\ Len(trace) \in Nat /\ target \in Labels /\ Len(order) = Size
      /\ i = Len(trace) + 1 /\ current \in nodes /\ current \in Node
  BY <1>1, TraceIs, OrderIs DEF BuildType, Labels
<1>3. /\ pass' = (IF k = Size THEN "done" ELSE pass)
      /\ k' = (IF k = Size THEN 1 ELSE k + 1)
  BY <1>2 DEF EndTrace
<1>4. CASE trace # <<>> /\ ~IsTimeout(Len(trace))
  <2>1. leaves' = leaves \cup {<<current, target>>} /\ UNCHANGED <<nodes, samples>>
    BY <1>4 DEF EndTrace
  <2>2. Ends(current)
    BY <1>1, <1>2, <1>3, <1>4, <2>1, PrefixSelf DEF Ends, IsTimeout
  <2> QED BY <2>2
<1>5. CASE ~(trace # <<>> /\ ~IsTimeout(Len(trace)))
  <2> DEFINE leaf == Append(current, target)
  <2>1. /\ nodes' = nodes \cup {leaf} /\ leaves' = leaves \cup {<<leaf, target>>}
        /\ samples' = IF trace = <<>> THEN samples
                      ELSE samples \cup {<<leaf, target, Len(trace)>>}
    BY <1>5 DEF EndTrace
  <2>2. leaf \in Node /\ Front(leaf) = current /\ IsStrictPrefix(current, leaf)
        /\ IsPrefix(current, leaf)
    BY <1>2, ChildNode DEF IsStrictPrefix
  <2> HIDE DEF leaf
  <2>3. Ends(leaf)
    BY <1>1, <1>2, <1>3, <1>5, <2>1, <2>2 DEF Ends, IsTimeout
  <2> QED BY <2>3
<1> QED BY <1>4, <1>5

(* What the first pass adds: the paths of the leading hops of a trace. *)
LEMMA LeadingIs ==
  ASSUME NEW h \in Seq(Label \cup {Star}), NEW j \in Leading(h)
  PROVE  /\ j \in 1..Len(h) /\ h \in Node /\ h[j] # Star
         /\ SubSeq(h, 1, j) \in Node /\ SubSeq(h, 1, j) # <<>>
         /\ \A m \in 1..j : m \in Leading(h)
<1>1. j \in 1..Len(h) /\ h[j] # Star /\ Len(h) \in Nat
  BY DEF Leading
<1>2. h \in Node
  BY SeqMonotonic DEF Node, Labels
<1>3. \A m \in 1..j : m \in Leading(h)
  BY <1>1 DEF Leading
<1> QED BY <1>1, <1>2, <1>3, PathTo
LEMMA TypeInit == Init => BuildType
<1> SUFFICES ASSUME Init PROVE BuildType
  OBVIOUS
<1>1. hops \in [Target -> Seq(Label \cup {Star})]
  <2>1. Hops \subseteq Seq(Label \cup {Star})
    BY BuilderAssumption DEF Hops
  <2> QED BY <2>1 DEF Init
<1>2. /\ order \in Orders /\ k = 1 /\ i = 1 /\ current = <<>>
      /\ nodes = {<<>>} /\ samples = {} /\ leaves = {}
      /\ pass = IF Target = {} THEN "done" ELSE "seed"
  BY DEF Init, Start
<1>3. Target # {} => 1 \in 1..Size
  BY BuilderAssumption, SizeIsNat, FS_EmptySet DEF Size
<1>4. <<>> \in Node
  BY DEF Node
<1> QED BY <1>1, <1>2, <1>3, <1>4 DEF BuildType

(* What a step of the first pass adds is nodes of the trace. *)
Seeds ==
  /\ pass = "seed"
  /\ nodes' = nodes \cup {SubSeq(trace, 1, j) : j \in Leading(trace)}
  /\ pass' = (IF k = Size THEN "place" ELSE pass)
  /\ k' = (IF k = Size THEN 1 ELSE k + 1)
  /\ UNCHANGED <<hops, order, i, current, samples, leaves>>

LEMMA Seeding ==
  ASSUME BuildType, Seed
  PROVE  Seeds
<1>1. Len(order) = Size
  BY OrderIs DEF BuildType
<1> QED BY <1>1 DEF Seed, Seeds, stored

Rebuilds ==
  /\ order' \in Orders /\ pass' = (IF Target = {} THEN "done" ELSE "seed")
  /\ pass = "done"
  /\ nodes' = {<<>>} /\ samples' = {} /\ leaves' = {}
  /\ UNCHANGED <<hops, k, i, current>>

(* Every step is one of these. *)
LEMMA Steps ==
  ASSUME BuildType, [Next]_vars
  PROVE  \/ Seeds \/ (\E j \in Nat : Descends(j)) \/ (\E leaf : Ends(leaf)) \/ Rebuilds
         \/ UNCHANGED <<hops, order, pass, k, i, current, nodes, samples, leaves>>
<1>1. Rebuild => Rebuilds
  BY DEF Rebuild, Rebuilds, Start
<1>2. UNCHANGED vars
        => UNCHANGED <<hops, order, pass, k, i, current, nodes, samples, leaves>>
  BY DEF vars
<1> QED BY <1>1, <1>2, Seeding, Descending, Ending DEF Next

LEMMA TypeStep == BuildType /\ [Next]_vars => BuildType'
<1> SUFFICES ASSUME BuildType, [Next]_vars PROVE BuildType'
  OBVIOUS
<1>0. Size \in Nat
  BY SizeIsNat
<1>1. CASE Seeds
  <2>1. trace \in Seq(Label \cup {Star}) /\ k \in 1..Size
    BY <1>1, TraceIs DEF Seeds, BuildType
  <2>2. nodes' \subseteq Node /\ nodes \subseteq nodes'
    BY <1>1, <2>1, LeadingIs DEF Seeds, BuildType
  <2>3. pass' # "done" /\ k' \in 1..Size
    BY <1>0, <1>1, <2>1 DEF Seeds
  <2>4. pass' = "place" => (i <= Len(trace) + 1)'
    <3> SUFFICES ASSUME pass' = "place" PROVE (i <= Len(trace) + 1)'
      OBVIOUS
    <3>1. i' = 1
      BY <1>1 DEF Seeds, BuildType
    <3>2. trace' \in Seq(Label \cup {Star})
      <4>1. order' \in [1..Size -> Target] /\ hops' \in [Target -> Seq(Label \cup {Star})]
        BY <1>1, OrderIs DEF Seeds, BuildType
      <4> QED BY <4>1, <2>3 DEF trace, target
    <3>3. Len(trace)' \in Nat
      BY <3>2
    <3> QED BY <3>1, <3>3
  <2> QED BY <1>1, <2>2, <2>3, <2>4 DEF Seeds, BuildType
<1>2. ASSUME NEW j \in Nat, Descends(j) PROVE BuildType'
  <2>1. Len(trace) \in Nat /\ target \in Target
    BY <1>2, TraceIs DEF Descends
  <2>2. trace' = trace /\ target' = target
    BY <1>2 DEF Descends, trace, target
  <2>3. i' \in Nat \ {0} /\ i' <= Len(trace) + 1
    BY <1>2, <2>1 DEF Descends, BuildType
  <2>4. nodes' \subseteq Node /\ nodes \subseteq nodes' /\ current' \in nodes'
    BY <1>2 DEF Descends, BuildType
  <2>5. samples' \subseteq nodes' \X Target \X Nat
    BY <1>2, <2>1, <2>4 DEF Descends, BuildType
  <2> QED BY <1>2, <2>2, <2>3, <2>4, <2>5 DEF Descends, BuildType
<1>3. ASSUME NEW leaf, Ends(leaf) PROVE BuildType'
  <2>1. Len(trace) \in Nat /\ target \in Target /\ k \in 1..Size
    BY <1>3, TraceIs DEF Ends, BuildType
  <2>2. nodes' \subseteq Node /\ nodes \subseteq nodes' /\ leaf \in nodes'
    BY <1>3 DEF Ends, BuildType
  <2>3. /\ leaves' \subseteq nodes' \X Target
        /\ samples' \subseteq nodes' \X Target \X Nat
    BY <1>3, <2>1, <2>2 DEF Ends, BuildType
  <2>4. /\ pass' \in {"place", "done"} /\ k' \in Nat
        /\ pass' = "done" => k' = 1
        /\ pass' # "done" => k' \in 1..Size
    BY <1>0, <1>3, <2>1 DEF Ends
  <2>5. pass' = "place" => (i <= Len(trace) + 1)'
    <3> SUFFICES ASSUME pass' = "place" PROVE (i <= Len(trace) + 1)'
      OBVIOUS
    <3>1. trace' \in Seq(Label \cup {Star})
      <4>1. order' \in [1..Size -> Target] /\ hops' \in [Target -> Seq(Label \cup {Star})]
        BY <1>3, OrderIs DEF Ends, BuildType
      <4> QED BY <4>1, <2>4 DEF trace, target
    <3>2. Len(trace)' \in Nat
      BY <3>1
    <3> QED BY <1>3, <3>2 DEF Ends
  <2> QED BY <1>3, <2>2, <2>3, <2>4, <2>5 DEF Ends, BuildType
<1>4. CASE Rebuilds
  <2>1. Target # {} => 1 \in 1..Size
    BY <1>0, BuilderAssumption, FS_EmptySet DEF Size
  <2>2. <<>> \in Node
    BY DEF Node
  <2> QED BY <1>4, <2>1, <2>2 DEF Rebuilds, BuildType
<1>5. CASE UNCHANGED <<hops, order, pass, k, i, current, nodes, samples, leaves>>
  BY <1>5 DEF BuildType, trace, target
<1> QED BY <1>1, <1>2, <1>3, <1>4, <1>5, Steps

LEMMA Types == Spec => []BuildType
BY TypeInit, TypeStep, PTL DEF Spec

-----------------------------------------------------------------------------
(* Parents *)

LEMMA PrefixClosedStep == BuildType /\ PrefixClosed /\ [Next]_vars => PrefixClosed'
<1> SUFFICES ASSUME BuildType, PrefixClosed, [Next]_vars PROVE PrefixClosed'
  OBVIOUS
<1>1. CASE Seeds
  <2> SUFFICES ASSUME NEW j \in Leading(trace)
               PROVE  \/ SubSeq(trace, 1, j) = <<>>
                      \/ Front(SubSeq(trace, 1, j)) \in nodes'
    BY <1>1 DEF Seeds, PrefixClosed
  <2>1. trace \in Seq(Label \cup {Star}) /\ trace \in Node
    BY <1>1, TraceIs DEF Seeds
  <2>2. j \in 1..Len(trace) /\ \A m \in 1..j : m \in Leading(trace)
    BY <2>1, LeadingIs
  <2>3. Front(SubSeq(trace, 1, j)) = SubSeq(trace, 1, j - 1)
    BY <2>1, <2>2, PathTo
  <2>4. CASE j = 1
    <3>1. SubSeq(trace, 1, j - 1) = <<>>
      BY <2>4, SubSeqEmpty
    <3> QED BY <1>1, <2>3, <3>1 DEF Seeds, BuildType
  <2>5. CASE j # 1
    <3>1. j - 1 \in Leading(trace)
      BY <2>2, <2>5
    <3> QED BY <1>1, <2>3, <3>1 DEF Seeds
  <2> QED BY <2>4, <2>5
<1>2. ASSUME NEW j \in Nat, Descends(j) PROVE PrefixClosed'
  BY <1>2 DEF Descends, PrefixClosed, BuildType
<1>3. ASSUME NEW leaf, Ends(leaf) PROVE PrefixClosed'
  BY <1>3 DEF Ends, PrefixClosed, BuildType
<1>4. CASE Rebuilds
  BY <1>4 DEF Rebuilds, PrefixClosed
<1>5. CASE UNCHANGED <<hops, order, pass, k, i, current, nodes, samples, leaves>>
  BY <1>5 DEF PrefixClosed
<1> QED BY <1>1, <1>2, <1>3, <1>4, <1>5, Steps

(* At every moment of the build, for any traces and in any order, the       *)
(* parent of every node is in the tree.                                     *)
THEOREM AlwaysATree == Spec => []PrefixClosed
<1>1. Init => PrefixClosed
  BY DEF Init, PrefixClosed
<1>2. QED
  BY <1>1, Types, PrefixClosedStep, PTL DEF Spec
-----------------------------------------------------------------------------
(* Leaves *)

(* The targets whose traces the second pass is done with. *)
Placed ==
  IF pass = "done" THEN Target
  ELSE IF pass = "place" THEN {order[j] : j \in 1..(k - 1)} ELSE {}

LEMMA PlacedSteps ==
  ASSUME BuildType
  PROVE  /\ Placed \subseteq Target
         /\ pass = "place" => target \notin Placed
         /\ Seeds => Placed = {} /\ Placed' = {}
         /\ \A j \in Nat : Descends(j) => Placed' = Placed
         /\ \A leaf : Ends(leaf) => Placed' = Placed \cup {target}
         /\ Rebuilds => Placed' = {}
<1>1. /\ order \in [1..Size -> Target] /\ Size \in Nat
      /\ \A t \in Target : \E j \in 1..Size : order[j] = t
      /\ \A m, j \in 1..Size : order[m] = order[j] => m = j
  BY OrderIs, SizeIsNat DEF BuildType
<1>2. pass # "done" => k \in 1..Size
  BY DEF BuildType
<1>3. pass \in {"seed", "place", "done"}
  BY DEF BuildType
<1>4. Placed \subseteq Target
  BY <1>1, <1>2, <1>3 DEF Placed
<1>5. pass = "place" => target \notin Placed
  BY <1>1, <1>2 DEF Placed, target
<1>6. Seeds => Placed = {} /\ Placed' = {}
  BY DEF Seeds, Placed
<1>7. ASSUME NEW j \in Nat, Descends(j) PROVE Placed' = Placed
  BY <1>7 DEF Descends, Placed
<1>8. ASSUME NEW leaf, Ends(leaf) PROVE Placed' = Placed \cup {target}
  <2>1. Placed = {order[j] : j \in 1..(k - 1)} /\ target = order[k] /\ k \in 1..Size
    BY <1>2, <1>8 DEF Ends, Placed, target
  <2>2. CASE k = Size
    <3>1. Placed' = Target
      BY <1>8, <2>2 DEF Ends, Placed
    <3>2. \A j \in 1..Size : j \in 1..(k - 1) \/ j = k
      BY <1>1, <2>1, <2>2
    <3> QED BY <1>1, <2>1, <3>1, <3>2
  <2>3. CASE k # Size
    <3>1. Placed' = {order[j] : j \in 1..k}
      <4>1. pass' = "place" /\ k' = k + 1 /\ order' = order
        BY <1>8, <2>3 DEF Ends
      <4>2. k' - 1 = k
        BY <1>1, <2>1, <4>1
      <4> QED BY <4>1, <4>2 DEF Placed
    <3>2. \A j : j \in 1..k <=> j \in 1..(k - 1) \/ j = k
      BY <1>1, <2>1
    <3> QED BY <2>1, <3>1, <3>2
  <2> QED BY <2>2, <2>3
<1>9. Rebuilds => Placed' = {}
  BY DEF Rebuilds, Placed
<1> QED BY <1>4, <1>5, <1>6, <1>7, <1>8, <1>9

LEMMA PlacedIs ==
  /\ pass = "done" => Placed = Target
  /\ UNCHANGED <<order, pass, k>> => Placed' = Placed
BY DEF Placed

(* Two facts of the trace that comes next. *)
Open == pass = "place" => target \notin Placed
Positions == pass = "place" => DOMAIN trace \subseteq Nat \ {0}

LEMMA NextOpen == BuildType' => Open' /\ Positions'
<1>1. BuildType => Open
  BY PlacedSteps DEF Open
<1>2. BuildType => Positions
  <2>1. \A s \in Node : DOMAIN s \subseteq Nat \ {0}
    BY DEF Node
  <2> QED BY <2>1, TraceIs DEF Positions
<1> QED BY <1>1, <1>2, PTL

LeafInv ==
  /\ \A t \in Placed : \E n \in nodes : <<n, t>> \in leaves
  /\ \A t \in Target : \A m, n \in nodes :
       <<m, t>> \in leaves /\ <<n, t>> \in leaves => m = n
  /\ \A t \in Target : \A n \in nodes : <<n, t>> \in leaves => t \in Placed

LEMMA LeafStep == BuildType /\ LeafInv /\ [Next]_vars => LeafInv'
<1> SUFFICES ASSUME BuildType, LeafInv, [Next]_vars PROVE LeafInv'
  OBVIOUS
<1> USE DEF LeafInv
<1>1. CASE Seeds
  <2>1. Placed = {} /\ Placed' = {} /\ leaves' = leaves /\ leaves \subseteq nodes \X Target
        /\ nodes \subseteq nodes'
    BY <1>1, PlacedSteps DEF Seeds, BuildType
  <2> QED BY <2>1
<1>2. ASSUME NEW j \in Nat, Descends(j) PROVE LeafInv'
  <2>1. Placed' = Placed /\ leaves' = leaves /\ leaves \subseteq nodes \X Target
        /\ nodes \subseteq nodes'
    BY <1>2, PlacedSteps DEF Descends, BuildType
  <2> QED BY <2>1
<1>3. ASSUME NEW leaf, Ends(leaf) PROVE LeafInv'
  <2>1. /\ Placed' = Placed \cup {target} /\ target \notin Placed /\ target \in Target
        /\ leaves' = leaves \cup {<<leaf, target>>} /\ leaves \subseteq nodes \X Target
        /\ nodes' = nodes \cup {leaf}
    BY <1>3, PlacedSteps, TraceIs DEF Ends, BuildType
  <2> QED BY <2>1
<1>4. CASE Rebuilds
  BY <1>4, PlacedSteps DEF Rebuilds
<1>5. CASE UNCHANGED <<hops, order, pass, k, i, current, nodes, samples, leaves>>
  BY <1>5, PlacedIs
<1> QED BY <1>1, <1>2, <1>3, <1>4, <1>5, Steps

LEMMA LeafInvariant == Spec => []LeafInv
<1>1. Init => LeafInv
  BY DEF Init, Start, LeafInv, Placed
<1> QED BY <1>1, Types, LeafStep, PTL DEF Spec

(* Whatever the traces share and wherever they stop, every target ends at   *)
(* one leaf.                                                                *)
THEOREM EveryTargetOneLeaf == Spec => []OneLeaf
<1>1. BuildType /\ LeafInv => OneLeaf
  <2> SUFFICES ASSUME BuildType, LeafInv, Built, NEW t \in Target
               PROVE  Cardinality({n \in nodes : <<n, t>> \in leaves}) = 1
    BY DEF OneLeaf
  <2>1. t \in Placed
    BY PlacedIs DEF Built
  <2>2. PICK n \in nodes : <<n, t>> \in leaves
    BY <2>1 DEF LeafInv
  <2>3. {m \in nodes : <<m, t>> \in leaves} = {n}
    BY <2>2 DEF LeafInv
  <2> QED BY <2>3, FS_Singleton
<1> QED BY <1>1, Types, LeafInvariant, PTL

-----------------------------------------------------------------------------
(* Paths of the traces *)

(* The samples of a trace lie on the way to the node it has reached, and    *)
(* then on the way to its leaf, in their order.                             *)
PathInv ==
  /\ \A s \in samples : s[2] \in Placed \/ (pass = "place" /\ s[2] = target)
  /\ pass = "place" =>
       \A s \in samples : s[2] = target => s[3] < i /\ IsPrefix(s[1], current)
  /\ \A s \in samples : s[2] \in Placed =>
       \E leaf \in leaves : leaf[2] = s[2] /\ IsPrefix(s[1], leaf[1])
  /\ \A r, s \in samples : r[2] = s[2] /\ r[3] < s[3] => IsStrictPrefix(r[1], s[1])

LEMMA SamplesAre ==
  ASSUME BuildType, NEW s \in samples
  PROVE  s[1] \in Node /\ s[1] \in nodes /\ s[2] \in Target /\ s[3] \in Nat
         /\ s = <<s[1], s[2], s[3]>>
BY DEF BuildType

LEMMA PathStep == BuildType /\ PathInv /\ [Next]_vars => PathInv'
<1> SUFFICES ASSUME BuildType, PathInv, [Next]_vars PROVE PathInv'
  OBVIOUS
<1>1. CASE Seeds
  <2>1. Placed = {} /\ samples' = samples /\ pass = "seed"
    BY <1>1, PlacedSteps DEF Seeds
  <2>2. samples' = {}
    BY <2>1 DEF PathInv
  <2> QED BY <2>2 DEF PathInv
<1>2. ASSUME NEW j \in Nat, Descends(j) PROVE PathInv'
  <2>1. /\ Placed' = Placed /\ target \notin Placed /\ target' = target
        /\ pass = "place" /\ pass' = "place" /\ leaves' = leaves
        /\ current \in Node /\ current' \in Node /\ IsStrictPrefix(current, current')
        /\ samples' = samples \cup {<<current', target, j>>}
        /\ i \in Nat /\ j >= i /\ i' = j + 1
    BY <1>2, PlacedSteps DEF Descends, BuildType, target
  <2>2. \A s \in samples : s[2] = target => s[3] < i /\ IsPrefix(s[1], current)
    BY <2>1 DEF PathInv
  <2>3. \A s \in samples : s[2] = target =>
          /\ s[3] < j /\ s[3] \in Nat
          /\ IsStrictPrefix(s[1], current') /\ IsPrefix(s[1], current')
    BY <2>1, <2>2, SamplesAre, StrictPrefixAfter DEF IsStrictPrefix
  <2> DEFINE new == <<current', target, j>>
  <2>4. new[1] = current' /\ new[2] = target /\ new[3] = j
    OBVIOUS
  <2> HIDE DEF new
  <2>5. IsPrefix(current', current')
    BY <2>1, PrefixSelf
  <2>6. samples' = samples \cup {new}
    BY <2>1 DEF new
  <2>7. \A s \in samples' : s[2] = target => s[3] < i' /\ IsPrefix(s[1], current')
    BY <2>1, <2>3, <2>4, <2>5, <2>6
  <2>8. \A r, s \in samples' : r[2] = s[2] /\ r[3] < s[3] => IsStrictPrefix(r[1], s[1])
    BY <2>1, <2>3, <2>4, <2>6 DEF PathInv
  <2>9. \A s \in samples' : s[2] \in Placed => s \in samples
    BY <2>1, <2>4, <2>6
  <2>10. \A s \in samples' : s[2] \in Placed \/ s[2] = target
    BY <2>4, <2>6 DEF PathInv
  <2> QED BY <2>1, <2>7, <2>8, <2>9, <2>10 DEF PathInv
<1>3. ASSUME NEW leaf, Ends(leaf) PROVE PathInv'
  <2>1. /\ Placed' = Placed \cup {target} /\ target \notin Placed
        /\ pass = "place" /\ i = Len(trace) + 1 /\ Len(trace) \in Nat
        /\ current \in Node /\ leaf \in Node /\ IsPrefix(current, leaf)
        /\ leaves' = leaves \cup {<<leaf, target>>}
    BY <1>3, PlacedSteps, TraceIs DEF Ends, BuildType
  <2>2. \A s \in samples : s[2] = target =>
          s[3] <= Len(trace) /\ s[3] \in Nat /\ IsPrefix(s[1], current) /\ IsPrefix(s[1], leaf)
    <3> SUFFICES ASSUME NEW s \in samples, s[2] = target
                 PROVE  /\ s[3] <= Len(trace) /\ s[3] \in Nat
                        /\ IsPrefix(s[1], current) /\ IsPrefix(s[1], leaf)
      OBVIOUS
    <3>1. s[3] < i /\ IsPrefix(s[1], current)
      BY <2>1 DEF PathInv
    <3>2. s[1] \in Node /\ s[3] \in Nat
      BY SamplesAre
    <3> QED BY <2>1, <3>1, <3>2, PrefixTransitive
  <2> DEFINE new == <<leaf, target, Len(trace)>>
             end == <<leaf, target>>
  <2>3. /\ new[1] = leaf /\ new[2] = target /\ new[3] = Len(trace)
        /\ end[1] = leaf /\ end[2] = target
    OBVIOUS
  <2>4. samples' = samples \/ (samples' = samples \cup {new} /\ IsStrictPrefix(current, leaf))
    BY <1>3 DEF Ends
  <2>5. leaves' = leaves \cup {end}
    BY <2>1
  <2> HIDE DEF new, end
  <2>6. IsPrefix(leaf, leaf)
    BY <2>1, PrefixSelf
  <2>7. \A s \in samples' : s \in samples \/ s = new
    BY <2>4
  <2>8. \A s \in samples' : s[2] \in Placed \/ s[2] = target
    BY <2>1, <2>3, <2>7 DEF PathInv
  <2>9. ASSUME NEW s \in samples'
        PROVE  \E l \in leaves' : l[2] = s[2] /\ IsPrefix(s[1], l[1])
    <3>1. CASE s[2] = target
      BY <2>2, <2>3, <2>5, <2>6, <2>7, <3>1
    <3>2. CASE s[2] # target
      <4>1. s \in samples /\ s[2] \in Placed
        BY <2>3, <2>7, <2>8, <3>2
      <4> QED BY <2>5, <4>1 DEF PathInv
    <3> QED BY <3>1, <3>2
  <2>10. ASSUME NEW r \in samples', NEW s \in samples', r[2] = s[2], r[3] < s[3]
         PROVE  IsStrictPrefix(r[1], s[1])
    <3>1. CASE s = new
      <4>1. r # new
        BY <2>1, <2>3, <2>10, <3>1
      <4>2. r \in samples /\ r[2] = target
        BY <2>3, <2>7, <2>10, <3>1, <4>1
      <4>3. CASE new \in samples
        BY <3>1, <4>2, <4>3, <2>10 DEF PathInv
      <4>4. CASE new \notin samples
        <5>1. IsStrictPrefix(current, leaf)
          BY <2>4, <3>1, <4>4
        <5>2. r[1] \in Node /\ IsPrefix(r[1], current)
          BY <2>2, <4>2, SamplesAre
        <5> QED BY <2>1, <2>3, <3>1, <5>1, <5>2, StrictPrefixAfter
      <4> QED BY <4>3, <4>4
    <3>2. CASE s # new /\ r = new
      <4>1. s \in samples /\ s[2] = target
        BY <2>3, <2>7, <2>10, <3>2
      <4>2. FALSE
        BY <2>1, <2>2, <2>3, <2>10, <3>2, <4>1
      <4> QED BY <4>2
    <3>3. CASE s # new /\ r # new
      BY <2>7, <2>10, <3>3 DEF PathInv
    <3> QED BY <3>1, <3>2, <3>3
  <2>11. pass' = "place" => target' \notin Placed'
    BY TypeStep, NextOpen DEF Open
  <2> QED BY <2>1, <2>8, <2>9, <2>10, <2>11 DEF PathInv
<1>4. CASE Rebuilds
  BY <1>4 DEF Rebuilds, PathInv
<1>5. CASE UNCHANGED <<hops, order, pass, k, i, current, nodes, samples, leaves>>
  BY <1>5, PlacedIs DEF PathInv, target
<1> QED BY <1>1, <1>2, <1>3, <1>4, <1>5, Steps
LEMMA PathInvariant == Spec => []PathInv
<1>1. Init => PathInv
  BY DEF Init, PathInv
<1> QED BY <1>1, Types, PathStep, PTL DEF Spec

(* The hops of a trace that are in the tree lie on the path to its leaf in  *)
(* the order they were probed, whatever timeouts were skipped on the way.   *)
THEOREM TracesArePaths == Spec => []TraceIsPath
<1>1. BuildType /\ PathInv => TraceIsPath
  <2> SUFFICES ASSUME BuildType, PathInv, Built, NEW s \in samples
               PROVE  \E leaf \in leaves : leaf[2] = s[2] /\ IsPrefix(s[1], leaf[1])
    BY DEF TraceIsPath, PathInv
  <2>1. s[2] \in Placed
    BY SamplesAre, PlacedIs DEF Built
  <2> QED BY <2>1 DEF PathInv
<1> QED BY <1>1, Types, PathInvariant, PTL

-----------------------------------------------------------------------------
(* Replies *)

(* The j-th hop of t is counted at one node, which is labelled like it. *)
CountedIn(ns, ss, h, t, j) ==
  \E n \in ns \ {<<>>} :
    /\ Last(n) = h[t][j]
    /\ \A s \in ss : s[2] = t /\ s[3] = j => s[1] = n
    /\ <<n, t, j>> \in ss
Counted(t, j) == CountedIn(nodes, samples, hops, t, j)
CountedNext(t, j) == CountedIn(nodes', samples', hops', t, j)

CountInv ==
  /\ \A t \in Placed : \A j \in DOMAIN hops[t] : hops[t][j] # Star => Counted(t, j)
  /\ pass = "place" =>
       \A j \in DOMAIN trace : j < i /\ trace[j] # Star => Counted(target, j)

(* A step that adds nodes, and samples of no reply that is counted already. *)
LEMMA StillCounted ==
  ASSUME NEW t, NEW j, Counted(t, j), nodes \subseteq nodes', hops' = hops,
         samples \subseteq samples',
         \A s \in samples' : s \in samples \/ s[2] # t \/ s[3] # j
  PROVE  CountedNext(t, j)
BY DEF Counted, CountedNext, CountedIn

LEMMA CountStep == BuildType /\ PathInv /\ CountInv /\ [Next]_vars => CountInv'
<1> SUFFICES ASSUME BuildType, PathInv, CountInv, [Next]_vars PROVE CountInv'
  OBVIOUS
<1>1. CASE Seeds
  <2>1. Placed' = {} /\ pass \in {"seed"} /\ pass' \in {"seed", "place"} /\ i' = 1
    BY <1>1, PlacedSteps DEF Seeds, BuildType
  <2>2. pass' = "place" => DOMAIN trace' \subseteq Nat \ {0}
    BY TypeStep, NextOpen DEF Positions
  <2> QED BY <2>1, <2>2 DEF CountInv
<1>2. ASSUME NEW j \in Nat, Descends(j) PROVE CountInv'
  <2>1. /\ Placed' = Placed /\ target \notin Placed /\ target' = target /\ trace' = trace
        /\ pass = "place" /\ pass' = "place" /\ hops' = hops
        /\ current' \in Node /\ current' # <<>>
        /\ nodes' = nodes \cup {current'}
        /\ samples' = samples \cup {<<current', target, j>>}
        /\ i \in Nat /\ j \in i..Len(trace) /\ i' = j + 1
        /\ \A m \in i..(j - 1) : trace[m] = Star
        /\ trace[j] # Star => Last(current') = trace[j]
        /\ trace = hops[target]
    BY <1>2, PlacedSteps, TraceIs DEF Descends, BuildType, target, trace
  <2>2. \A s \in samples' : s \in samples \/ (s[1] = current' /\ s[2] = target /\ s[3] = j)
    BY <2>1
  <2>3. ASSUME NEW t \in Placed, NEW m \in DOMAIN hops[t], hops[t][m] # Star
        PROVE  CountedNext(t, m)
    BY <2>1, <2>2, <2>3, StillCounted DEF CountInv
  <2>4. ASSUME NEW m \in DOMAIN trace, m < i', trace[m] # Star
        PROVE  CountedNext(target, m)
    <3>1. DOMAIN trace = 1..Len(trace) /\ Len(trace) \in Nat
      BY <2>1, TraceIs
    <3>2. CASE m < i
      BY <2>1, <2>2, <2>4, <3>1, <3>2, StillCounted DEF CountInv
    <3>3. CASE m = j
      <4>1. \A s \in samples : s[2] = target => s[3] # j
        BY <2>1, SamplesAre DEF PathInv
      <4>2. \A s \in samples' : s[2] = target /\ s[3] = j => s[1] = current'
        BY <2>2, <4>1
      <4> QED BY <2>1, <2>4, <3>3, <4>2 DEF CountedNext, CountedIn
    <3>4. m < i \/ m = j
      <4>1. m \in i..(j - 1) => trace[m] = Star
        BY <2>1
      <4> QED BY <2>1, <2>4, <3>1, <4>1
    <3> QED BY <3>2, <3>3, <3>4
  <2>5. \A m \in DOMAIN trace' : m < i' /\ trace'[m] # Star => CountedNext(target, m)
    BY <2>1, <2>4
  <2>6. \A t \in Placed' : \A m \in DOMAIN hops'[t] : hops'[t][m] # Star => CountedNext(t, m)
    BY <2>1, <2>3
  <2>7. \A m \in DOMAIN trace' : m < i' /\ trace'[m] # Star => CountedNext(target', m)
    BY <2>1, <2>5
  <2> QED BY <2>6, <2>7 DEF CountInv, Counted, CountedNext
<1>3. ASSUME NEW leaf, Ends(leaf) PROVE CountInv'
  <2>1. /\ Placed' = Placed \cup {target} /\ target \notin Placed
        /\ pass = "place" /\ i = Len(trace) + 1 /\ Len(trace) \in Nat
        /\ nodes \subseteq nodes' /\ hops' = hops /\ i' = 1 /\ samples \subseteq samples'
        /\ trace = hops[target] /\ DOMAIN trace = 1..Len(trace)
    <3>1. Placed' = Placed \cup {target} /\ target \notin Placed
      BY <1>3, PlacedSteps DEF Ends
    <3>2. /\ pass = "place" /\ i = Len(trace) + 1
          /\ nodes \subseteq nodes' /\ hops' = hops /\ i' = 1 /\ samples \subseteq samples'
      BY <1>3 DEF Ends
    <3>3. /\ Len(trace) \in Nat /\ trace = hops[target] /\ DOMAIN trace = 1..Len(trace)
      BY <3>2, TraceIs
    <3> QED BY <3>1, <3>2, <3>3
  <2>0. \A s \in samples' :
          \/ s \in samples
          \/ /\ s[2] = target /\ s[3] = Len(trace)
             /\ trace = <<>> \/ trace[Len(trace)] = Star
    BY <1>3 DEF Ends
  <2>2. ASSUME NEW t \in Placed, NEW m \in DOMAIN hops[t], hops[t][m] # Star
        PROVE  CountedNext(t, m)
    BY <2>0, <2>1, <2>2, StillCounted DEF CountInv
  <2>3. ASSUME NEW m \in DOMAIN hops[target], hops[target][m] # Star
        PROVE  CountedNext(target, m)
    <3>1. Counted(target, m)
      BY <2>1, <2>3 DEF CountInv
    <3>2. \A s \in samples' : s \in samples \/ s[2] # target \/ s[3] # m
      BY <2>0, <2>1, <2>3
    <3> QED BY <2>1, <3>1, <3>2, StillCounted
  <2>4. \A t \in Placed' : \A m \in DOMAIN hops'[t] : hops'[t][m] # Star => CountedNext(t, m)
    <3> SUFFICES ASSUME NEW t \in Placed', NEW m \in DOMAIN hops'[t], hops'[t][m] # Star
                 PROVE  CountedNext(t, m)
      OBVIOUS
    <3>1. CASE t \in Placed
      BY <2>1, <2>2, <3>1
    <3>2. CASE t = target
      <4>1. \A n : n \in DOMAIN hops[target] /\ hops[target][n] # Star => CountedNext(target, n)
        BY <2>3
      <4> QED BY <2>1, <3>2, <4>1
    <3> QED BY <2>1, <3>1, <3>2
  <2>5. pass' = "place" => DOMAIN trace' \subseteq Nat \ {0}
    BY TypeStep, NextOpen DEF Positions
  <2> QED BY <2>1, <2>4, <2>5 DEF CountInv, Counted, CountedNext
<1>4. CASE Rebuilds
  BY <1>4, PlacedSteps DEF Rebuilds, CountInv
<1>5. CASE UNCHANGED <<hops, order, pass, k, i, current, nodes, samples, leaves>>
  BY <1>5, PlacedIs DEF CountInv, Counted, CountedIn, target, trace
<1> QED BY <1>1, <1>2, <1>3, <1>4, <1>5, Steps

LEMMA CountInvariant == Spec => []CountInv
<1>1. Init => CountInv
  BY DEF Init, Start, CountInv, Placed
<1> QED BY <1>1, Types, PathInvariant, CountStep, PTL DEF Spec

(* Every hop that replied is counted once, at a node labelled like it: a    *)
(* rejoin neither loses a reply nor counts one twice.                       *)
THEOREM RepliesCounted == Spec => []EveryReplyCounted
<1>1. BuildType /\ CountInv => EveryReplyCounted
  <2> SUFFICES ASSUME BuildType, CountInv, Built, NEW t \in Target,
                      NEW j \in DOMAIN hops[t], hops[t][j] # Star
               PROVE  \E n \in nodes \ {<<>>} :
                        /\ Last(n) = hops[t][j]
                        /\ {s \in samples : s[2] = t /\ s[3] = j} = {<<n, t, j>>}
    BY DEF EveryReplyCounted
  <2>1. Counted(t, j)
    BY PlacedIs DEF Built, CountInv
  <2>2. PICK n \in nodes \ {<<>>} :
          /\ Last(n) = hops[t][j]
          /\ \A s \in samples : s[2] = t /\ s[3] = j => s[1] = n
          /\ <<n, t, j>> \in samples
    BY <2>1 DEF Counted, CountedIn
  <2>3. \A s \in samples : s = <<s[1], s[2], s[3]>>
    BY SamplesAre
  <2>4. {s \in samples : s[2] = t /\ s[3] = j} = {<<n, t, j>>}
    BY <2>2, <2>3
  <2> QED BY <2>2, <2>4
<1> QED BY <1>1, Types, CountInvariant, PTL
-----------------------------------------------------------------------------
(* Dead ends *)

(* The leading hops of the trace that are placed already lie on the way to  *)
(* the node it has reached, which as long as there was no timeout is the    *)
(* last of them.                                                            *)
LeadInv ==
  pass = "place" =>
    /\ \A j \in Leading(trace) : j < i => IsPrefix(SubSeq(trace, 1, j), current)
    /\ (\A m \in 1..(i - 1) : trace[m] # Star) => current = SubSeq(trace, 1, i - 1)

(* A node is on the way to a leaf, or to the node that the trace being      *)
(* placed has reached, or it was seeded for a trace still to be placed.     *)
Leads(n) ==
  \/ \E s \in leaves : IsPrefix(n, s[1])
  \/ pass = "place" /\ IsPrefix(n, current)
  \/ \E t \in Target \ Placed : \E j \in Leading(hops[t]) : n = SubSeq(hops[t], 1, j)
EndInv == \A n \in nodes \ {<<>>} : Leads(n)

AtRoot == i = 1 /\ current = <<>>

LEMMA LeadFresh == AtRoot /\ Positions => LeadInv
<1> SUFFICES ASSUME AtRoot, Positions PROVE LeadInv
  OBVIOUS
<1> USE DEF AtRoot, Positions
<1>1. SubSeq(trace, 1, i - 1) = <<>>
  BY SubSeqEmpty
<1>2. pass = "place" => Leading(trace) \subseteq Nat \ {0}
  BY DEF Leading
<1> QED BY <1>1, <1>2 DEF LeadInv

LEMMA LeadFreshNext == AtRoot' /\ Positions' => LeadInv'
BY LeadFresh, PTL

LEMMA LeadStep == BuildType /\ LeadInv /\ [Next]_vars => LeadInv'
<1> SUFFICES ASSUME BuildType, LeadInv, [Next]_vars PROVE LeadInv'
  OBVIOUS
<1>1. CASE Seeds
  BY <1>1, TypeStep, NextOpen, LeadFreshNext DEF Seeds, BuildType, AtRoot
<1>2. ASSUME NEW j \in Nat, Descends(j) PROVE LeadInv'
  <2>1. /\ pass = "place" /\ trace' = trace /\ trace \in Node /\ Len(trace) \in Nat
        /\ trace \in Seq(Label \cup {Star})
        /\ i \in Nat \ {0} /\ j \in i..Len(trace) /\ i' = j + 1
        /\ current \in Node /\ current' \in Node /\ IsPrefix(current, current')
        /\ trace[i] # Star => j = i /\ current' = Append(current, trace[i])
        /\ i \in 1..Len(trace)
    BY <1>2, TraceIs DEF Descends, BuildType, IsStrictPrefix, target, trace
  <2>2. ASSUME \A m \in 1..(i' - 1) : trace[m] # Star
        PROVE  current' = SubSeq(trace, 1, i' - 1)
    <3>1. trace[i] # Star /\ \A m \in 1..(i - 1) : trace[m] # Star
      BY <2>1, <2>2
    <3>2. current = SubSeq(trace, 1, i - 1)
      BY <2>1, <3>1 DEF LeadInv
    <3>3. current' = Append(SubSeq(trace, 1, i - 1), trace[i]) /\ i' - 1 = i
      BY <2>1, <3>1, <3>2
    <3> QED BY <2>1, <3>3, PathTo
  <2>3. ASSUME NEW n \in Leading(trace), n < i'
        PROVE  IsPrefix(SubSeq(trace, 1, n), current')
    <3>1. n \in 1..Len(trace) /\ SubSeq(trace, 1, n) \in Node
          /\ \A m \in 1..n : trace[m] # Star
      BY <2>1, LeadingIs DEF Leading
    <3>2. CASE n < i
      BY <2>1, <3>1, <3>2, PrefixTransitive DEF LeadInv
    <3>3. CASE n >= i
      <4>1. trace[i] # Star
        BY <2>1, <3>1, <3>3
      <4>2. n = i' - 1 /\ n = i
        BY <2>1, <2>3, <3>1, <3>3, <4>1
      <4>3. current' = SubSeq(trace, 1, n)
        BY <2>2, <3>1, <4>2
      <4> QED BY <2>1, <4>3, PrefixSelf
    <3> QED BY <2>1, <3>1, <3>2, <3>3
  <2> QED BY <2>1, <2>2, <2>3 DEF LeadInv
<1>3. ASSUME NEW leaf, Ends(leaf) PROVE LeadInv'
  BY <1>3, TypeStep, NextOpen, LeadFreshNext DEF Ends, AtRoot
<1>4. CASE Rebuilds
  BY <1>4 DEF Rebuilds, LeadInv
<1>5. CASE UNCHANGED <<hops, order, pass, k, i, current, nodes, samples, leaves>>
  BY <1>5 DEF LeadInv, target, trace
<1> QED BY <1>1, <1>2, <1>3, <1>4, <1>5, Steps

LEMMA EndStep == BuildType /\ LeadInv /\ EndInv /\ [Next]_vars => EndInv'
<1> SUFFICES ASSUME BuildType, LeadInv, EndInv, [Next]_vars PROVE EndInv'
  OBVIOUS
<1>0. nodes \subseteq Node
  BY DEF BuildType
<1>1. CASE Seeds
  <2>1. /\ Placed = {} /\ Placed' = {} /\ leaves' = leaves /\ hops' = hops
        /\ target \in Target /\ trace = hops[target] /\ pass = "seed"
        /\ nodes' = nodes \cup {SubSeq(trace, 1, j) : j \in Leading(trace)}
    BY <1>1, PlacedSteps, TraceIs DEF Seeds
  <2>2. ASSUME NEW n \in nodes \ {<<>>} PROVE Leads(n)'
    BY <2>1, <2>2 DEF EndInv, Leads
  <2>3. ASSUME NEW n, NEW j \in Leading(trace), n = SubSeq(trace, 1, j) PROVE Leads(n)'
    BY <2>1, <2>3 DEF Leads
  <2> QED BY <2>1, <2>2, <2>3 DEF EndInv
<1>2. ASSUME NEW j \in Nat, Descends(j) PROVE EndInv'
  <2>1. /\ Placed' = Placed /\ leaves' = leaves /\ hops' = hops
        /\ pass = "place" /\ pass' = "place"
        /\ current \in Node /\ current' \in Node /\ IsPrefix(current, current')
        /\ nodes' = nodes \cup {current'}
    BY <1>2, PlacedSteps DEF Descends, BuildType, IsStrictPrefix
  <2>2. ASSUME NEW n \in nodes \ {<<>>} PROVE Leads(n)'
    <3>1. CASE IsPrefix(n, current)
      BY <1>0, <2>1, <3>1, PrefixTransitive DEF Leads
    <3>2. CASE ~IsPrefix(n, current)
      BY <2>1, <2>2, <3>2 DEF EndInv, Leads
    <3> QED BY <3>1, <3>2
  <2>3. IsPrefix(current', current')
    BY <2>1, PrefixSelf
  <2> QED BY <2>1, <2>2, <2>3 DEF EndInv, Leads
<1>3. ASSUME NEW leaf, Ends(leaf) PROVE EndInv'
  <2>1. /\ Placed' = Placed \cup {target} /\ hops' = hops
        /\ pass = "place" /\ i = Len(trace) + 1 /\ Len(trace) \in Nat
        /\ trace \in Seq(Label \cup {Star}) /\ trace = hops[target]
        /\ current \in Node /\ leaf \in Node /\ IsPrefix(current, leaf)
        /\ leaves' = leaves \cup {<<leaf, target>>}
        /\ nodes' = nodes \cup {leaf}
    BY <1>3, PlacedSteps, TraceIs DEF Ends, BuildType
  <2>2. ASSUME NEW n \in Node, IsPrefix(n, current) PROVE IsPrefix(n, leaf)
    BY <2>1, <2>2, PrefixTransitive
  <2>3. ASSUME NEW n \in Node, IsPrefix(n, leaf) PROVE Leads(n)'
    <3>1. <<leaf, target>> \in leaves' /\ <<leaf, target>>[1] = leaf
      BY <2>1
    <3> QED BY <2>3, <3>1 DEF Leads
  <2>4. ASSUME NEW n \in nodes \ {<<>>} PROVE Leads(n)'
    <3>1. Leads(n) /\ n \in Node
      BY <1>0, <2>4 DEF EndInv
    <3>2. CASE \E s \in leaves : IsPrefix(n, s[1])
      BY <2>1, <3>2 DEF Leads
    <3>3. CASE IsPrefix(n, current)
      BY <2>2, <2>3, <3>1, <3>3
    <3>4. ASSUME NEW t \in Target \ Placed, NEW j \in Leading(hops[t]),
                 n = SubSeq(hops[t], 1, j)
          PROVE  Leads(n)'
      <4>1. CASE t = target
        <5>1. j \in Leading(trace) /\ j < i
          BY <2>1, <3>4, <4>1, LeadingIs
        <5>2. IsPrefix(n, current)
          BY <2>1, <3>4, <4>1, <5>1 DEF LeadInv
        <5> QED BY <2>2, <2>3, <3>1, <5>2
      <4>2. CASE t # target
        <5>1. t \in Target \ Placed'
          BY <2>1, <4>2
        <5> QED BY <2>1, <3>4, <5>1 DEF Leads
      <4> QED BY <4>1, <4>2
    <3> QED BY <3>1, <3>2, <3>3, <3>4 DEF Leads
  <2>5. Leads(leaf)'
    BY <2>1, <2>3, PrefixSelf
  <2> QED BY <2>1, <2>4, <2>5 DEF EndInv
<1>4. CASE Rebuilds
  BY <1>4 DEF Rebuilds, EndInv
<1>5. CASE UNCHANGED <<hops, order, pass, k, i, current, nodes, samples, leaves>>
  BY <1>5, PlacedIs DEF EndInv, Leads
<1> QED BY <1>1, <1>2, <1>3, <1>4, <1>5, Steps

LEMMA EndInvariant == Spec => [](LeadInv /\ EndInv)
<1>1. Init => LeadInv /\ EndInv
  BY DEF Init, Start, LeadInv, EndInv
<1> QED BY <1>1, Types, LeadStep, EndStep, PTL DEF Spec

(* Whatever the first pass seeded and the second left out, every node is on *)
(* the way to some target's leaf.                                           *)
THEOREM EveryNodeLeads == Spec => []NoDeadEnds
<1>1. BuildType /\ EndInv => NoDeadEnds
  BY PlacedIs DEF NoDeadEnds, Built, EndInv, Leads
<1> QED BY <1>1, Types, EndInvariant, PTL

-----------------------------------------------------------------------------
(* Outages *)

(* A trace that ends in a timeout has a sample of it at its leaf. *)
DeadInv ==
  \A s \in leaves :
    hops[s[2]] # <<>> /\ hops[s[2]][Len(hops[s[2]])] = Star
      => <<s[1], s[2], Len(hops[s[2]])>> \in samples

LEMMA DeadStep == BuildType /\ DeadInv /\ [Next]_vars => DeadInv'
<1> SUFFICES ASSUME BuildType, DeadInv, [Next]_vars PROVE DeadInv'
  OBVIOUS
<1>1. CASE Seeds
  BY <1>1 DEF Seeds, DeadInv
<1>2. ASSUME NEW j \in Nat, Descends(j) PROVE DeadInv'
  BY <1>2 DEF Descends, DeadInv
<1>3. ASSUME NEW leaf, Ends(leaf) PROVE DeadInv'
  <2>1. /\ trace = hops[target] /\ hops' = hops /\ samples \subseteq samples'
        /\ leaves' = leaves \cup {<<leaf, target>>}
    BY <1>3, TraceIs DEF Ends
  <2>2. trace # <<>> /\ trace[Len(trace)] = Star => <<leaf, target, Len(trace)>> \in samples'
    BY <1>3 DEF Ends
  <2> QED BY <2>1, <2>2 DEF DeadInv
<1>4. CASE Rebuilds
  BY <1>4 DEF Rebuilds, DeadInv
<1>5. CASE UNCHANGED <<hops, order, pass, k, i, current, nodes, samples, leaves>>
  BY <1>5 DEF DeadInv
<1> QED BY <1>1, <1>2, <1>3, <1>4, <1>5, Steps

(* WorstBelow is a recursion over the tree, which ends because the tree is  *)
(* finite.                                                                  *)
Finite == IsFiniteSet(nodes)

LEMMA FiniteStep == BuildType /\ Finite /\ [Next]_vars => Finite'
<1> SUFFICES ASSUME BuildType, Finite, [Next]_vars PROVE Finite'
  OBVIOUS
<1> USE DEF Finite
<1>1. CASE Seeds
  <2> DEFINE paths == {SubSeq(trace, 1, j) : j \in Leading(trace)}
  <2>1. Len(trace) \in Nat /\ Leading(trace) \subseteq 1..Len(trace)
    BY <1>1, TraceIs DEF Seeds, Leading
  <2>2. IsFiniteSet(Leading(trace))
    <3>1. IsFiniteSet(1..Len(trace))
      BY <2>1, FS_Interval
    <3> QED BY <2>1, <3>1, FS_Subset
  <2>3. IsFiniteSet(paths)
    <3> DEFINE path == [j \in Leading(trace) |-> SubSeq(trace, 1, j)]
    <3>1. path \in Surjection(Leading(trace), paths)
      BY DEF Surjection
    <3> QED BY <2>2, <3>1, FS_Surjection
  <2>4. nodes' = nodes \cup paths
    BY <1>1 DEF Seeds
  <2> HIDE DEF paths
  <2> QED BY <2>3, <2>4, FS_Union
<1>2. ASSUME NEW n, nodes' = nodes \cup {n} PROVE Finite'
  BY <1>2, FS_AddElement
<1>3. ASSUME NEW j \in Nat, Descends(j) PROVE Finite'
  BY <1>2, <1>3 DEF Descends
<1>4. ASSUME NEW leaf, Ends(leaf) PROVE Finite'
  BY <1>2, <1>4 DEF Ends
<1>5. CASE Rebuilds
  BY <1>5, FS_Singleton DEF Rebuilds
<1>6. CASE UNCHANGED <<hops, order, pass, k, i, current, nodes, samples, leaves>>
  BY <1>6
<1> QED BY <1>1, <1>3, <1>4, <1>5, <1>6, Steps

LEMMA Least ==
  ASSUME NEW S \in SUBSET Nat, S # {}
  PROVE  \E x \in S : \A y \in S : x <= y
<1>1. \E x \in S : \A y \in S : ~(<<y, x>> \in OpToRel(<, Nat))
  BY NatLessThanWellFounded, WFMin
<1>2. ASSUME NEW x \in Nat, NEW y \in Nat, y < x
      PROVE  <<y, x>> \in OpToRel(<, Nat)
  BY <1>2 DEF OpToRel
<1>3. \E x \in S : \A y \in S : ~(y < x)
  BY <1>1, <1>2, Zenon
<1> QED BY <1>3

(* The worst of some ranks is one of them, and no other is worse. *)
LEMMA WorstIs ==
  ASSUME NEW R \in SUBSET (0..3), R # {}
  PROVE  Worst(R) \in R /\ \A q \in R : q <= Worst(R)
<1>1. \E r \in R : \A q \in R : q <= r
  <2>1. CASE 3 \in R
    BY <2>1
  <2>2. CASE 3 \notin R /\ 2 \in R
    BY <2>2
  <2>3. CASE 3 \notin R /\ 2 \notin R /\ 1 \in R
    BY <2>3
  <2>4. CASE 3 \notin R /\ 2 \notin R /\ 1 \notin R
    <3>1. 0..3 = {0, 1, 2, 3}
      OBVIOUS
    <3>2. \A q \in R : q = 0
      BY <2>4, <3>1
    <3>3. PICK r \in R : TRUE
      OBVIOUS
    <3>4. \A q \in R : q <= r
      BY <3>2, <3>3
    <3> QED BY <3>3, <3>4
  <2> QED BY <2>1, <2>2, <2>3, <2>4
<1> QED BY <1>1 DEF Worst

LEMMA SeverityIs ==
  ASSUME NEW n
  PROVE  Severity(n) \in 0..3
<1> DEFINE ranks == {Rank(s[2], s[3]) : s \in {c \in samples : c[1] = n}}
<1>1. ranks \in SUBSET (0..3)
  BY DEF Rank
<1> HIDE DEF ranks
<1>2. Worst(ranks) \in 0..3
  <2>1. CASE ranks = {}
    BY <2>1 DEF Worst
  <2>2. CASE ranks # {}
    BY <1>1, <2>2, WorstIs
  <2> QED BY <2>1, <2>2
<1> QED BY <1>2 DEF Severity, ranks

(* Every prefix of a node is a node. *)
LEMMA AncestorsIn ==
  ASSUME nodes \subseteq Node, PrefixClosed, NEW n \in nodes, NEW m \in 0..Len(n)
  PROVE  SubSeq(n, 1, m) \in nodes
<1> DEFINE Up(x) == SubSeq(n, 1, Len(n) - x)
           Bad == {x \in 0..Len(n) : Up(x) \notin nodes}
<1>1. n \in Node /\ Len(n) \in Nat /\ SubSeq(n, 1, Len(n)) = n
  BY SubSeqFull DEF Node
<1>2. ASSUME Bad # {} PROVE FALSE
  <2>1. Bad \in SUBSET Nat
    BY <1>1
  <2>2. PICK x \in Bad : \A y \in Bad : x <= y
    <3> HIDE DEF Bad
    <3> QED BY <1>2, <2>1, Least
  <2>3. x \in 0..Len(n) /\ Up(x) \notin nodes
    BY <2>2
  <2>4. x # 0
    <3>1. Len(n) - 0 = Len(n)
      BY <1>1
    <3>2. x = 0 => Up(x) = n
      BY <1>1, <3>1
    <3> QED BY <2>3, <3>2
  <2>5. x - 1 \in 0..Len(n) /\ x - 1 \notin Bad
    <3>1. x - 1 \in 0..Len(n) /\ ~(x <= x - 1)
      BY <1>1, <2>3, <2>4
    <3> HIDE DEF Bad
    <3> QED BY <2>2, <3>1
  <2>6. Up(x - 1) \in nodes
    BY <2>5
  <2>7. Len(n) - (x - 1) \in 1..Len(n) /\ Len(n) - (x - 1) - 1 = Len(n) - x
    BY <1>1, <2>3, <2>4
  <2>8. Up(x - 1) # <<>> /\ Front(Up(x - 1)) = Up(x)
    BY <1>1, <2>7, PathTo
  <2> QED BY <2>3, <2>6, <2>8 DEF PrefixClosed
<1>3. Len(n) - m \in 0..Len(n) /\ Len(n) - (Len(n) - m) = m
  BY <1>1
<1> QED BY <1>2, <1>3

(* Closed form of the recursion: the worst of a node and all below it.      *)
Under(n) == {m \in nodes : IsPrefix(n, m)}
Severities(n) == {Severity(m) : m \in Under(n)}
WorstUnder == [n \in nodes |-> Worst(Severities(n))]

LEMMA ChildrenAre ==
  ASSUME nodes \subseteq Node, NEW n \in nodes, NEW c \in Children(n)
  PROVE  /\ c \in nodes /\ n \in Under(n) /\ c \in Under(n)
         /\ Under(c) \subseteq Under(n) /\ n \notin Under(c)
<1>1. n \in Node /\ c \in nodes /\ c \in Node /\ Len(c) = Len(n) + 1 /\ SubSeq(c, 1, Len(n)) = n
  BY DEF Children
<1>2. Len(n) \in Nat /\ SubSeq(n, 1, Len(n)) = n
  BY <1>1, SubSeqFull DEF Node
<1>3. IsPrefix(n, c) /\ IsPrefix(n, n)
  BY <1>1, <1>2 DEF IsPrefix
<1>4. \A m \in Under(c) : m \in Under(n)
  BY <1>1, <1>3, PrefixTransitive DEF Under
<1>5. n \notin Under(c)
  BY <1>1, <1>2, PrefixIs DEF Under
<1> QED BY <1>1, <1>3, <1>4, <1>5 DEF Under

(* What is below a node is below one of its children. *)
LEMMA BelowChild ==
  ASSUME nodes \subseteq Node, PrefixClosed, NEW n \in nodes, NEW m \in Under(n), m # n
  PROVE  \E c \in Children(n) : m \in Under(c)
<1>1. n \in Node /\ m \in Node /\ m \in nodes /\ Len(n) \in Nat /\ Len(m) \in Nat
      /\ IsPrefix(n, m)
  BY DEF Under, Node
<1>2. Len(n) < Len(m) /\ \A j \in 1..Len(n) : n[j] = m[j]
  BY <1>1, PrefixIs, StrictPrefixIs DEF IsStrictPrefix
<1> DEFINE c == SubSeq(m, 1, Len(n) + 1)
<1>3. /\ c \in nodes /\ c \in Node /\ Len(c) = Len(n) + 1
      /\ \A j \in 1..Len(c) : c[j] = m[j]
  BY <1>1, <1>2, AncestorsIn DEF Node
<1> HIDE DEF c
<1>4. IsPrefix(c, m) /\ IsPrefix(n, c)
  BY <1>1, <1>2, <1>3, PrefixIs
<1>5. SubSeq(c, 1, Len(n)) = n
  BY <1>1, <1>4, SubSeqFull DEF IsPrefix, Node
<1> QED BY <1>1, <1>3, <1>4, <1>5 DEF Children, Under

LEMMA WorstUnderIs ==
  ASSUME nodes \subseteq Node, NEW n \in nodes
  PROVE  /\ WorstUnder[n] \in 0..3
         /\ \E m \in Under(n) : WorstUnder[n] = Severity(m)
         /\ \A m \in Under(n) : Severity(m) <= WorstUnder[n]
<1>1. Severities(n) \in SUBSET (0..3)
  BY SeverityIs DEF Severities
<1>2. Severity(n) \in Severities(n)
  BY PrefixSelf DEF Severities, Under
<1>3. Worst(Severities(n)) \in Severities(n) /\ \A q \in Severities(n) : q <= Worst(Severities(n))
  BY <1>1, <1>2, WorstIs
<1>4. WorstUnder[n] = Worst(Severities(n))
  BY DEF WorstUnder
<1> QED BY <1>1, <1>3, <1>4 DEF Severities

(* It satisfies the equation of the recursion ...                           *)
Recurs(f) ==
  f = [n \in nodes |-> Worst({Severity(n)} \cup {f[c] : c \in Children(n)})]

LEMMA WorstUnderRecurs ==
  ASSUME nodes \subseteq Node, PrefixClosed
  PROVE  Recurs(WorstUnder)
<1>1. ASSUME NEW n \in nodes
      PROVE  WorstUnder[n] = Worst({Severity(n)} \cup {WorstUnder[c] : c \in Children(n)})
  <2> DEFINE R == {Severity(n)} \cup {WorstUnder[c] : c \in Children(n)}
  <2>1. R \in SUBSET (0..3) /\ R # {}
    BY SeverityIs, WorstUnderIs, ChildrenAre
  <2>2. Worst(R) \in R /\ \A q \in R : q <= Worst(R)
    <3> HIDE DEF R
    <3> QED BY <2>1, WorstIs
  <2>3. \A q \in R : q <= WorstUnder[n]
    <3>1. Severity(n) <= WorstUnder[n]
      BY WorstUnderIs, PrefixSelf DEF Under
    <3>2. ASSUME NEW c \in Children(n) PROVE WorstUnder[c] <= WorstUnder[n]
      <4>1. c \in nodes /\ Under(c) \subseteq Under(n)
        BY ChildrenAre
      <4>2. PICK m \in Under(c) : WorstUnder[c] = Severity(m)
        BY <4>1, WorstUnderIs
      <4> QED BY <4>1, <4>2, WorstUnderIs
    <3> QED BY <3>1, <3>2
  <2>4. WorstUnder[n] <= Worst(R)
    <3>1. PICK m \in Under(n) : WorstUnder[n] = Severity(m)
      BY WorstUnderIs
    <3>2. CASE m = n
      BY <2>2, <3>1, <3>2
    <3>3. CASE m # n
      <4>1. PICK c \in Children(n) : m \in Under(c)
        BY <3>3, BelowChild
      <4>2. c \in nodes /\ Severity(m) <= WorstUnder[c] /\ WorstUnder[c] \in 0..3
        BY <4>1, ChildrenAre, WorstUnderIs
      <4>3. WorstUnder[c] <= Worst(R)
        BY <2>2
      <4>4. Worst(R) \in 0..3 /\ Severity(m) \in 0..3
        BY <2>1, <2>2, SeverityIs
      <4> HIDE DEF R
      <4> QED BY <3>1, <4>2, <4>3, <4>4
    <3> QED BY <3>2, <3>3
  <2>5. WorstUnder[n] \in 0..3 /\ Worst(R) \in 0..3 /\ Worst(R) <= WorstUnder[n]
    <3> HIDE DEF R
    <3> QED BY <2>1, <2>2, <2>3, WorstUnderIs
  <2> HIDE DEF R
  <2>6. WorstUnder[n] = Worst(R)
    BY <2>4, <2>5
  <2> QED BY <2>6 DEF R
<1>2. WorstUnder = [n \in nodes |-> WorstUnder[n]]
  BY DEF WorstUnder
<1> QED BY <1>1, <1>2 DEF Recurs

(* ... and is the only function that does, for the tree is finite.          *)
LEMMA WorstUnderOnly ==
  ASSUME nodes \subseteq Node, PrefixClosed, Finite, NEW f, Recurs(f), NEW n \in nodes
  PROVE  f[n] = WorstUnder[n]
<1> DEFINE Differ == {m \in nodes : f[m] # WorstUnder[m]}
           Sizes == {Cardinality(Under(m)) : m \in Differ}
<1>1. \A m \in nodes : IsFiniteSet(Under(m)) /\ Cardinality(Under(m)) \in Nat
  <2> SUFFICES ASSUME NEW m \in nodes
               PROVE  IsFiniteSet(Under(m)) /\ Cardinality(Under(m)) \in Nat
    OBVIOUS
  <2>1. Under(m) \in SUBSET nodes
    BY DEF Under
  <2>2. IsFiniteSet(Under(m))
    BY <2>1, FS_Subset DEF Finite
  <2> QED BY <2>2, FS_CardinalityType
<1>2. ASSUME Differ # {} PROVE FALSE
  <2>1. Sizes \in SUBSET Nat /\ Sizes # {}
    BY <1>1, <1>2
  <2>2. PICK x \in Sizes : \A y \in Sizes : x <= y
    <3> HIDE DEF Sizes
    <3> QED BY <2>1, Least
  <2>3. PICK m \in Differ : \A d \in Differ : Cardinality(Under(m)) <= Cardinality(Under(d))
    <3>1. PICK m \in Differ : x = Cardinality(Under(m))
      OBVIOUS
    <3>2. \A d \in Differ : Cardinality(Under(d)) \in Sizes
      OBVIOUS
    <3> HIDE DEF Differ, Sizes
    <3> QED BY <2>2, <3>1, <3>2
  <2>4. ASSUME NEW c \in Children(m) PROVE f[c] = WorstUnder[c]
    <3>1. /\ m \in nodes /\ c \in nodes /\ Under(c) \subseteq Under(m)
          /\ m \in Under(m) /\ m \notin Under(c)
      BY ChildrenAre
    <3>2. /\ Cardinality(Under(c)) <= Cardinality(Under(m))
          /\ Cardinality(Under(m)) = Cardinality(Under(c)) => Under(m) = Under(c)
      BY <1>1, <3>1, FS_Subset
    <3>3. ~(Cardinality(Under(m)) <= Cardinality(Under(c)))
      BY <1>1, <3>1, <3>2
    <3>4. c \notin Differ
      <4> HIDE DEF Differ
      <4> QED BY <2>3, <3>3
    <3> QED BY <3>1, <3>4
  <2>5. {f[c] : c \in Children(m)} = {WorstUnder[c] : c \in Children(m)}
    BY <2>4
  <2>6. f[m] = WorstUnder[m]
    <3>1. m \in nodes
      OBVIOUS
    <3>2. f[m] = Worst({Severity(m)} \cup {f[c] : c \in Children(m)})
      BY <3>1 DEF Recurs
    <3>3. WorstUnder[m] = Worst({Severity(m)} \cup {WorstUnder[c] : c \in Children(m)})
      BY <3>1, WorstUnderRecurs DEF Recurs
    <3> QED BY <2>5, <3>2, <3>3
  <2> QED BY <2>6
<1> QED BY <1>2

LEMMA WorstBelowIs ==
  ASSUME nodes \subseteq Node, PrefixClosed, Finite
  PROVE  \A n \in nodes : WorstBelow[n] = WorstUnder[n]
<1>1. Recurs(WorstUnder)
  BY WorstUnderRecurs
<1>2. Recurs(WorstBelow)
  BY <1>1 DEF WorstBelow, Recurs
<1> QED BY <1>2, WorstUnderOnly

LEMMA DeadInvariant == Spec => [](DeadInv /\ Finite)
<1>1. Init => DeadInv /\ Finite
  BY FS_Singleton DEF Init, DeadInv, Finite
<1> QED BY <1>1, Types, DeadStep, FiniteStep, PTL DEF Spec

(* A target that no longer answers shows as critical at its leaf and at     *)
(* every node above it, however deep the tree is and whatever was skipped.  *)
THEOREM OutagesShow == Spec => []OutageShows
<1>1. BuildType /\ PrefixClosed /\ DeadInv /\ Finite => OutageShows
  <2> SUFFICES ASSUME BuildType, PrefixClosed, DeadInv, Finite,
                      NEW s \in leaves, NEW n \in nodes, IsPrefix(n, s[1]),
                      hops[s[2]] # <<>>, Last(hops[s[2]]) = Star
               PROVE  WorstBelow[n] = 3
    BY DEF OutageShows
  <2>1. s[1] \in nodes /\ nodes \subseteq Node
    BY DEF BuildType
  <2> DEFINE dead == <<s[1], s[2], Len(hops[s[2]])>>
             ranks == {Rank(c[2], c[3]) : c \in {d \in samples : d[1] = s[1]}}
  <2>2. dead \in samples /\ Rank(dead[2], dead[3]) = 3 /\ dead[1] = s[1]
    BY DEF DeadInv, Last, Rank
  <2>3. ranks \in SUBSET (0..3) /\ 3 \in ranks
    <3>1. ranks \in SUBSET (0..3)
      BY DEF Rank
    <3> HIDE DEF dead
    <3> QED BY <2>2, <3>1
  <2>4. Severity(s[1]) = 3
    <3> HIDE DEF ranks
    <3>1. Worst(ranks) \in ranks /\ 3 <= Worst(ranks)
      BY <2>3, WorstIs
    <3>2. Worst(ranks) \in 0..3
      BY <2>3, <3>1
    <3>3. Worst(ranks) = 3
      BY <3>1, <3>2
    <3> QED BY <3>3 DEF Severity, ranks
  <2>5. s[1] \in Under(n)
    BY <2>1 DEF Under
  <2>6. WorstUnder[n] \in 0..3 /\ 3 <= WorstUnder[n]
    BY <2>1, <2>4, <2>5, WorstUnderIs
  <2>7. WorstBelow[n] = WorstUnder[n]
    BY <2>1, WorstBelowIs
  <2> QED BY <2>6, <2>7
<1> QED BY <1>1, Types, AlwaysATree, DeadInvariant, PTL
=============================================================================
