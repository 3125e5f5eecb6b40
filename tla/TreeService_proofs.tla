------------------------- MODULE TreeService_proofs -------------------------
(***************************************************************************)
(* Proofs about TreeService, for every set of targets, every tree of node  *)
(* ids and every fade window: the tree the backend keeps is well formed,   *)
(* and no change of the stored traces is ever forgotten by the debounce    *)
(* loop.                                                                   *)
(***************************************************************************)
EXTENDS TreeService, TLAPS

Body == [own : 0..3, worst : 0..3, targets : SUBSET Target]

(* The traces read so far: a function from targets to traces. *)
IsTraces(tr) == DOMAIN tr \subseteq Target /\ tr \in [DOMAIN tr -> Trace]

-----------------------------------------------------------------------------
(* What the helpers return *)

LEMMA WorstType ==
  ASSUME NEW S \in SUBSET (0..3)
  PROVE  Worst(S) \in 0..3
<1>1. CASE S = {}
  BY <1>1 DEF Worst
<1>2. CASE S # {}
  <2>1. \E s \in S : \A r \in S : r <= s
    <3>1. CASE 3 \in S  BY <3>1
    <3>2. CASE 3 \notin S /\ 2 \in S  BY <3>2
    <3>3. CASE 3 \notin S /\ 2 \notin S /\ 1 \in S  BY <3>3
    <3>4. CASE 3 \notin S /\ 2 \notin S /\ 1 \notin S
      <4>1. \A r \in S : r = 0
        BY <3>4
      <4>2. PICK s \in S : TRUE
        BY <1>2
      <4> QED BY <4>1, <4>2
    <3> QED BY <3>1, <3>2, <3>3, <3>4
  <2> QED BY <1>2, <2>1 DEF Worst
<1> QED BY <1>1, <1>2

(* A build is a function from node ids, closed under parents, to bodies. *)
LEMMA BuildType ==
  ASSUME NEW tr, IsTraces(tr)
  PROVE  /\ DOMAIN Build(tr) \subseteq Node
         /\ Build(tr) \in [DOMAIN Build(tr) -> Body]
<1> DEFINE ids == {Root} \cup UNION {Path[tr[t].at] : t \in DOMAIN tr}
<1>1. DOMAIN Build(tr) = ids
  BY DEF Build
<1>2. \A t \in DOMAIN tr : tr[t].at \in Node /\ tr[t].sev \in 0..3
  BY TreeAssumption, DataAssumption DEF IsTraces, Trace
<1>3. ids \subseteq Node
  BY <1>2, TreeAssumption
<1>4. ASSUME NEW n \in ids
      PROVE  Build(tr)[n] \in Body
  <2>1. EndsAt(tr, n) \in SUBSET Target
    BY DEF EndsAt, IsTraces
  <2>2. Worst({tr[t].sev : t \in EndsAt(tr, n)}) \in 0..3
    <3>1. {tr[t].sev : t \in EndsAt(tr, n)} \in SUBSET (0..3)
      BY <1>2 DEF EndsAt
    <3> QED BY <3>1, WorstType
  <2>3. Worst({tr[t].sev : t \in Through(tr, n)}) \in 0..3
    <3>1. {tr[t].sev : t \in Through(tr, n)} \in SUBSET (0..3)
      BY <1>2 DEF Through
    <3> QED BY <3>1, WorstType
  <2>4. Build(tr)[n] =
          [own |-> Worst({tr[t].sev : t \in EndsAt(tr, n)}),
           worst |-> Worst({tr[t].sev : t \in Through(tr, n)}),
           targets |-> EndsAt(tr, n)]
    BY DEF Build
  <2> QED BY <2>1, <2>2, <2>3, <2>4 DEF Body
<1>5. Build(tr) = [n \in ids |-> Build(tr)[n]]
  BY DEF Build
<1> QED BY <1>1, <1>3, <1>4, <1>5

LEMMA BuildClosed ==
  ASSUME NEW tr, IsTraces(tr), NEW n \in DOMAIN Build(tr), n # Root
  PROVE  Parent[n] \in DOMAIN Build(tr)
<1>1. PICK t \in DOMAIN tr : n \in Path[tr[t].at]
  BY DEF Build
<1>2. tr[t].at \in Node
  BY TreeAssumption DEF IsTraces, Trace
<1>3. Parent[n] \in Path[tr[t].at]
  BY <1>1, <1>2, TreeAssumption
<1> QED BY <1>3 DEF Build

(* What is live in a merge is the build, whatever the old tree was. *)
LEMMA MergeType ==
  ASSUME NEW tr, IsTraces(tr), NEW old, DOMAIN old \subseteq Node,
         old \in [DOMAIN old -> Entry], NEW at \in 0..MaxNow
  PROVE  /\ DOMAIN Merge(Build(tr), old, at) \subseteq Node
         /\ Merge(Build(tr), old, at) \in
              [DOMAIN Merge(Build(tr), old, at) -> Entry]
<1> DEFINE b == Build(tr)
           ids == DOMAIN b \cup Ghosts(b, old, at)
           m == Merge(b, old, at)
<1>1. b \in [DOMAIN b -> Body] /\ DOMAIN b \subseteq Node
  BY BuildType
<1> HIDE DEF b
<1>2. DOMAIN m = ids /\ m = [n \in ids |-> m[n]]
  BY DEF Merge
<1>3. ids \subseteq Node
  BY <1>1 DEF Ghosts
<1>4. ASSUME NEW n \in ids
      PROVE  m[n] \in Entry
  <2>1. CASE n \in DOMAIN b
    <3>1. m[n] = [body |-> b[n], current |-> TRUE, seen |-> at]
      BY <2>1 DEF Merge
    <3> QED BY <2>1, <3>1, <1>1 DEF Body, Entry
  <2>2. CASE n \notin DOMAIN b
    <3>1. m[n] = [old[n] EXCEPT !.current = FALSE]
      BY <2>2 DEF Merge
    <3>2. old[n] \in Entry
      BY <2>2 DEF Ghosts
    <3> QED BY <3>1, <3>2 DEF Entry
  <2> QED BY <2>1, <2>2
<1> HIDE DEF ids, m
<1>5. m \in [DOMAIN m -> Entry]
  BY <1>2, <1>4
<1> QED BY <1>2, <1>3, <1>5 DEF m, b
-----------------------------------------------------------------------------
(* Types *)

LEMMA TypeInit == Init => TypeOK
<1> SUFFICES ASSUME Init PROVE TypeOK
  OBVIOUS
<1>1. loaded \in [DOMAIN loaded -> Trace] /\ DOMAIN loaded = {}
  BY DEF Init
<1>2. nodes \in [DOMAIN nodes -> Entry] /\ DOMAIN nodes = {}
  BY DEF Init
<1>3. /\ active \subseteq Target /\ trace \in [Target -> Trace]
      /\ writes \in 0..MaxWrites /\ failures \in 0..MaxFailures
      /\ posted \in Nat /\ seq \in Nat /\ now \in 0..MaxNow
      /\ loop = "due" /\ unread = {} /\ seq = 0
  BY DataAssumption DEF Init
<1>4. needed \in BOOLEAN /\ missed \in BOOLEAN
  BY DEF Init
<1> QED BY <1>1, <1>2, <1>3, <1>4 DEF TypeOK

LEMMA TypeStep == TypeOK /\ [Next]_serviceVars => TypeOK'
<1> SUFFICES ASSUME TypeOK, [Next]_serviceVars PROVE TypeOK'
  OBVIOUS
<1> USE DataAssumption
<1> USE DEF TypeOK, stored, reading, tree
<1>1. ASSUME NEW t \in Target, NEW r \in Trace, SubmitResult(t, r) PROVE TypeOK'
  BY <1>1 DEF SubmitResult, Store
<1>2. ASSUME NEW t \in Target, ChangeTarget(t) PROVE TypeOK'
  BY <1>2 DEF ChangeTarget, Store
<1>3. ASSUME NEW t \in Target, BackgroundSync(t) PROVE TypeOK'
  BY <1>3 DEF BackgroundSync, Store
<1>4. CASE RequestRecompute
  BY <1>4 DEF RequestRecompute
<1>5. CASE Wake
  BY <1>5 DEF Wake
<1>6. CASE EndSleep
  BY <1>6 DEF EndSleep
<1>7. CASE ReadTargets
  <2>1. loaded' \in [DOMAIN loaded' -> Trace] /\ DOMAIN loaded' = {}
    BY <1>7 DEF ReadTargets
  <2> QED BY <1>7, <2>1 DEF ReadTargets
<1>8. ASSUME NEW t \in Target, ReadTrace(t) PROVE TypeOK'
  <2>1. loaded' \in [DOMAIN loaded' -> Trace] /\ DOMAIN loaded' \subseteq Target
    BY <1>8 DEF ReadTrace
  <2> QED BY <1>8, <2>1 DEF ReadTrace
<1>9. CASE Publish
  <2>1. IsTraces(loaded)
    BY DEF IsTraces
  <2>2. DOMAIN nodes' \subseteq Node /\ nodes' \in [DOMAIN nodes' -> Entry]
    <3>1. nodes' = Merge(Build(loaded), nodes, now)
      BY <1>9 DEF Publish, NewNodes
    <3> QED BY <2>1, <3>1, MergeType
  <2>3. seq' \in Nat /\ loop' \in {"waiting", "sending"}
    BY <1>9 DEF Publish
  <2>5. seq' = 0 <=> DOMAIN nodes' = {}
    <3>1. nodes' = NewNodes /\ Root \in DOMAIN nodes'
      BY <1>9 DEF Publish, NewNodes, Merge, Build
    <3>2. CASE seq = 0
      <4>1. Root \in DOMAIN NewNodes \ DOMAIN nodes
        BY <3>1, <3>2
      <4>2. DOMAIN Diff(nodes, NewNodes).added # {}
        BY <4>1 DEF Diff
      <4>3. ~IsEmpty(Diff(nodes, NewNodes))
        BY <4>2 DEF IsEmpty
      <4>4. seq' = seq + 1
        BY <1>9, <4>3 DEF Publish
      <4> QED BY <3>1, <3>2, <4>4
    <3>3. CASE seq # 0
      <4>1. seq' \in {seq, seq + 1}
        BY <1>9 DEF Publish
      <4> QED BY <3>1, <3>3, <4>1
    <3> QED BY <3>2, <3>3
  <2>4. loaded' \in [DOMAIN loaded' -> Trace] /\ DOMAIN loaded' = {}
    BY <1>9 DEF Publish
  <2> QED BY <1>9, <2>2, <2>3, <2>4, <2>5 DEF Publish
<1>10. CASE EndBroadcast
  BY <1>10 DEF EndBroadcast
<1>11. CASE FailRecompute
  <2>1. loaded' \in [DOMAIN loaded' -> Trace] /\ DOMAIN loaded' = {}
    BY <1>11 DEF FailRecompute
  <2> QED BY <1>11, <2>1 DEF FailRecompute
<1>12. CASE Restart
  <2>1. loaded' \in [DOMAIN loaded' -> Trace] /\ DOMAIN loaded' = {}
    BY <1>12 DEF Restart
  <2>2. nodes' \in [DOMAIN nodes' -> Entry] /\ DOMAIN nodes' = {}
    BY <1>12 DEF Restart
  <2>3. /\ UNCHANGED <<active, trace, writes, now, missed>>
        /\ failures' \in 0..MaxFailures
        /\ posted' = 0 /\ needed' = FALSE /\ loop' = "due" /\ unread' = {}
        /\ seq' = 0
    BY <1>12 DEF Restart
  <2> QED BY <2>1, <2>2, <2>3
<1>13. CASE Tick
  BY <1>13 DEF Tick, Entry
<1>14. CASE UNCHANGED serviceVars
  BY <1>14 DEF serviceVars
<1> QED
  BY <1>1, <1>2, <1>3, <1>4, <1>5, <1>6, <1>7, <1>8, <1>9, <1>10, <1>11,
     <1>12, <1>13, <1>14 DEF Next, Change, LoopStep

(* Every variable of the tree service keeps its type; in particular _nodes  *)
(* only ever maps node ids to whole entries, with severities of the scale.  *)
THEOREM TypeCorrect == Spec => []TypeOK
BY TypeInit, TypeStep, PTL DEF Spec

-----------------------------------------------------------------------------
(* The shape of the tree *)

(* ParentClosed is not inductive: a ghost's parent stays only because it    *)
(* was seen at least as late as the ghost, so the invariant carries the     *)
(* order of the stamps along every edge.                                    *)
StampsRise ==
  \A n \in DOMAIN nodes \ {Root} :
    Parent[n] \in DOMAIN nodes /\ nodes[n].seen <= nodes[Parent[n]].seen
StampsPast == \A n \in DOMAIN nodes : nodes[n].seen <= now
Shape == StampsRise /\ StampsPast /\ CurrentParents

LEMMA MergeShape ==
  ASSUME TypeOK, Shape,
         nodes' = Merge(Build(loaded), nodes, now), now' = now
  PROVE  Shape'
<1> DEFINE b == Build(loaded)
<1>1. IsTraces(loaded)
  BY DEF TypeOK, IsTraces
<1>2. \A n \in DOMAIN b : n # Root => Parent[n] \in DOMAIN b
  BY <1>1, BuildClosed
<1> HIDE DEF b
<1>3. DOMAIN nodes' = DOMAIN b \cup Ghosts(b, nodes, now)
  BY DEF Merge, b
<1>4. \A n \in DOMAIN b : nodes'[n].seen = now /\ nodes'[n].current
  BY DEF Merge, b
<1>5. \A n \in Ghosts(b, nodes, now) :
        /\ n \in DOMAIN nodes
        /\ nodes'[n].seen = nodes[n].seen
        /\ ~nodes'[n].current
  <2> SUFFICES ASSUME NEW n \in Ghosts(b, nodes, now)
               PROVE  /\ n \in DOMAIN nodes
                      /\ nodes'[n].seen = nodes[n].seen
                      /\ ~nodes'[n].current
    OBVIOUS
  <2>1. n \in DOMAIN nodes /\ n \notin DOMAIN b
    BY DEF Ghosts
  <2>2. nodes'[n] = [nodes[n] EXCEPT !.current = FALSE]
    BY <2>1 DEF Merge, b
  <2>3. nodes[n] \in Entry
    BY <2>1 DEF TypeOK
  <2> QED BY <2>1, <2>2, <2>3 DEF Entry
<1>6. \A n \in DOMAIN nodes : nodes[n].seen \in Int /\ nodes[n].seen <= now
  BY DEF TypeOK, Entry, Shape, StampsPast
<1>7. now \in Int /\ FadeWindow \in Int
  BY DataAssumption DEF TypeOK
<1>8. StampsPast'
  BY <1>3, <1>4, <1>5, <1>6, <1>7 DEF StampsPast
<1>9. ASSUME NEW n \in DOMAIN nodes' \ {Root}
      PROVE  /\ Parent[n] \in DOMAIN nodes'
             /\ nodes'[n].seen <= nodes'[Parent[n]].seen
             /\ nodes'[n].current => nodes'[Parent[n]].current
  <2>1. CASE n \in DOMAIN b
    BY <2>1, <1>2, <1>3, <1>4, <1>7
  <2>2. CASE n \in Ghosts(b, nodes, now)
    <3>1. /\ n \in DOMAIN nodes \ {Root}
          /\ Parent[n] \in DOMAIN nodes
          /\ nodes[n].seen <= nodes[Parent[n]].seen
          /\ now - nodes[n].seen < FadeWindow
      BY <2>2, <1>9, <1>5 DEF Shape, StampsRise, Ghosts
    <3>2. CASE Parent[n] \in DOMAIN b
      BY <2>2, <3>1, <3>2, <1>3, <1>4, <1>5, <1>6
    <3>3. CASE Parent[n] \notin DOMAIN b
      <4>1. now - nodes[Parent[n]].seen < FadeWindow
        BY <3>1, <1>6, <1>7
      <4>2. Parent[n] \in Ghosts(b, nodes, now)
        BY <3>1, <3>3, <4>1 DEF Ghosts
      <4> QED BY <2>2, <3>1, <4>2, <1>3, <1>5
    <3> QED BY <3>2, <3>3
  <2> QED BY <1>3, <1>9, <2>1, <2>2
<1>10. StampsRise' /\ CurrentParents'
  BY <1>9 DEF StampsRise, CurrentParents
<1> QED BY <1>8, <1>10 DEF Shape

LEMMA ShapeStep == TypeOK /\ Shape /\ [Next]_serviceVars => Shape'
<1> SUFFICES ASSUME TypeOK, Shape, [Next]_serviceVars PROVE Shape'
  OBVIOUS
<1>1. CASE nodes' = nodes /\ now' = now
  BY <1>1 DEF Shape, StampsRise, StampsPast, CurrentParents
<1>2. CASE Publish
  BY <1>2, MergeShape DEF Publish, NewNodes
<1>3. CASE Restart
  <2>1. DOMAIN nodes' = {}
    BY <1>3 DEF Restart
  <2> QED BY <2>1 DEF Shape, StampsRise, StampsPast, CurrentParents
<1>4. CASE Tick
  <2>1. nodes' = nodes /\ now' = now + 1
    BY <1>4 DEF Tick, tree
  <2>2. \A n \in DOMAIN nodes : nodes[n].seen \in Int
    BY DEF TypeOK, Entry
  <2>3. StampsPast'
    BY <2>1, <2>2, DataAssumption DEF Shape, StampsPast, TypeOK
  <2> QED BY <2>1, <2>3 DEF Shape, StampsRise, CurrentParents
<1>5. Publish \/ Restart \/ Tick \/ (nodes' = nodes /\ now' = now)
  BY DEF Next, Change, LoopStep, SubmitResult, ChangeTarget, BackgroundSync,
         Store, RequestRecompute, Wake, EndSleep, ReadTargets, ReadTrace,
         EndBroadcast, FailRecompute, tree, serviceVars
<1> QED BY <1>1, <1>2, <1>3, <1>4, <1>5

LEMMA ShapeInvariant == Spec => []Shape
<1>1. Init => Shape
  BY DEF Init, Shape, StampsRise, StampsPast, CurrentParents
<1> QED BY <1>1, TypeCorrect, ShapeStep, PTL DEF Spec

(* Ghosts never float: for every tree and every fade window, dropping the   *)
(* aged ghosts one by one leaves no node without its parent.                *)
THEOREM NoOrphans == Spec => []ParentClosed
<1>1. Shape => ParentClosed
  BY DEF Shape, StampsRise, ParentClosed
<1> QED BY <1>1, ShapeInvariant, PTL

(* A current node hangs from current nodes only, all the way up, so hiding  *)
(* ghosts in the browser never orphans it.                                  *)
THEOREM CurrentAncestors == Spec => []CurrentParents
<1>1. Shape => CurrentParents
  BY DEF Shape
<1> QED BY <1>1, ShapeInvariant, PTL
-----------------------------------------------------------------------------
(* No lost update *)

(* The live part of a merge is the build it was made from. *)
LEMMA MergeLive ==
  ASSUME TypeOK, nodes' = Merge(Build(loaded), nodes, now)
  PROVE  Live' = Build(loaded)
<1> DEFINE b == Build(loaded)
<1>1. DOMAIN nodes' = DOMAIN b \cup Ghosts(b, nodes, now)
  BY DEF Merge
<1>2. \A n \in DOMAIN b : nodes'[n].current /\ nodes'[n].body = b[n]
  BY DEF Merge
<1>3. b = [n \in DOMAIN b |-> b[n]]
  BY DEF Build
<1> HIDE DEF b
<1>4. ASSUME NEW n \in Ghosts(b, nodes, now), n \notin DOMAIN b
      PROVE  ~nodes'[n].current
  <2>1. nodes'[n] = [nodes[n] EXCEPT !.current = FALSE]
    BY <1>4 DEF Merge, b
  <2>2. nodes[n] \in Entry
    BY DEF Ghosts, TypeOK
  <2> QED BY <2>1, <2>2 DEF Entry
<1>5. {n \in DOMAIN nodes' : nodes'[n].current} = DOMAIN b
  BY <1>1, <1>2, <1>4
<1>6. Live' = [n \in DOMAIN b |-> nodes'[n].body]
  BY <1>5 DEF Live
<1>7. Live' = b
  BY <1>2, <1>3, <1>6
<1> QED BY <1>7 DEF b

(* NoLostUpdate is not inductive: what makes an idle tree right is that     *)
(* while the loop reads, with no request coming, every trace it has read is *)
(* still the stored one, and the rest is still to be read.                  *)
Asked == needed \/ posted > 0
ReadsStored ==
  /\ DOMAIN loaded \cup unread = active
  /\ loaded = [t \in DOMAIN loaded |-> trace[t]]
Pending ==
  \/ missed \/ Asked
  \/ loop \in {"sleeping", "due"}
  \/ loop = "reading" /\ ReadsStored
  \/ loop \in {"waiting", "sending"} /\ UpToDate

LEMMA PendingStep == TypeOK /\ Pending /\ [Next]_serviceVars => Pending'
<1> SUFFICES ASSUME TypeOK, Pending, [Next]_serviceVars PROVE Pending'
  OBVIOUS
<1> USE DEF Asked
<1>1. CASE \E t \in Target : \/ \E r \in Trace : SubmitResult(t, r)
                             \/ ChangeTarget(t)
                             \/ BackgroundSync(t)
  <2>1. posted' > 0 \/ missed'
    BY <1>1 DEF SubmitResult, ChangeTarget, BackgroundSync, TypeOK
  <2> QED BY <2>1 DEF Pending
<1>2. CASE RequestRecompute
  BY <1>2 DEF RequestRecompute, Pending
<1>3. CASE Wake \/ EndSleep
  BY <1>3 DEF Wake, EndSleep, Pending
<1>4. CASE ReadTargets
  <2>1. loop' = "reading" /\ unread' = active' /\ loaded' = <<>>
    BY <1>4 DEF ReadTargets, stored
  <2>2. ReadsStored'
    BY <2>1 DEF ReadsStored
  <2> QED BY <2>1, <2>2 DEF Pending
<1>5. ASSUME NEW t \in Target, ReadTrace(t) PROVE Pending'
  <2>1. CASE missed \/ Asked
    BY <1>5, <2>1 DEF ReadTrace, Pending
  <2>2. CASE loop = "reading" /\ ReadsStored
    <3>1. /\ loop' = "reading" /\ unread' = unread \ {t} /\ t \in unread
          /\ UNCHANGED <<active, trace>>
          /\ loaded' = [u \in DOMAIN loaded \cup {t} |->
                          IF u = t THEN trace[t] ELSE loaded[u]]
      BY <1>5 DEF ReadTrace, stored
    <3>2. ReadsStored'
      BY <2>2, <3>1 DEF ReadsStored
    <3> QED BY <3>1, <3>2 DEF Pending
  <2>3. loop = "reading"
    BY <1>5 DEF ReadTrace
  <2> QED BY <2>1, <2>2, <2>3 DEF Pending
<1>6. CASE Publish
  <2>1. /\ loop = "reading" /\ loop' \in {"waiting", "sending"}
        /\ UNCHANGED <<active, trace, needed, posted, missed>>
        /\ unread = {} /\ nodes' = Merge(Build(loaded), nodes, now)
    BY <1>6 DEF Publish, NewNodes, stored
  <2>2. CASE missed \/ Asked
    BY <2>1, <2>2 DEF Pending
  <2>3. CASE ReadsStored
    <3>1. loaded = [t \in active |-> trace[t]]
      BY <2>1, <2>3 DEF ReadsStored
    <3>2. Live' = Build(loaded)
      BY <2>1, MergeLive
    <3>3. UpToDate'
      BY <2>1, <3>1, <3>2 DEF UpToDate
    <3> QED BY <2>1, <3>3 DEF Pending
  <2> QED BY <2>1, <2>2, <2>3 DEF Pending
<1>7. CASE EndBroadcast
  BY <1>7 DEF EndBroadcast, Pending, UpToDate, Live, stored, tree
<1>8. CASE FailRecompute
  BY <1>8 DEF FailRecompute, Pending
<1>9. CASE Restart
  BY <1>9 DEF Restart, Pending
<1>10. CASE Tick
  BY <1>10 DEF Tick, Pending, UpToDate, Live, ReadsStored, stored, reading, tree
<1>11. CASE UNCHANGED serviceVars
  BY <1>11 DEF serviceVars, Pending, UpToDate, Live, ReadsStored
<1> QED
  BY <1>1, <1>2, <1>3, <1>4, <1>5, <1>6, <1>7, <1>8, <1>9, <1>10, <1>11
  DEF Next, Change, LoopStep

(* No wakeup is lost: whenever the debounce loop is idle and nobody is      *)
(* about to wake it, the tree shows what is stored, for any number of       *)
(* targets and handlers, unless a change was one nobody asked a recompute   *)
(* for or the recompute for it raised.                                      *)
THEOREM NothingForgotten == Spec => []NoLostUpdate
<1>1. Init => Pending
  BY DEF Init, Pending
<1>2. TypeOK /\ Pending => NoLostUpdate
  BY DEF TypeOK, Pending, Asked, NoLostUpdate, Idle
<1> QED BY <1>1, <1>2, TypeCorrect, PendingStep, PTL DEF Spec

-----------------------------------------------------------------------------
(* Empty diffs *)

(* A recompute whose diff is empty changes nothing a diff would tell.       *)
LEMMA EmptyDiffLooksSame ==
  ASSUME TypeOK, nodes' = Merge(Build(loaded), nodes, now),
         IsEmpty(Diff(nodes, nodes'))
  PROVE  Shown(nodes') = Shown(nodes)
<1> DEFINE b == Build(loaded)
<1>1. DOMAIN nodes' = DOMAIN b \cup Ghosts(b, nodes, now)
  BY DEF Merge
<1>2. \A n \in DOMAIN b : nodes'[n].current
  BY DEF Merge
<1> HIDE DEF b
<1>3. DOMAIN nodes' = DOMAIN nodes
  <2>1. DOMAIN nodes' \ DOMAIN nodes = {}
    BY DEF IsEmpty, Diff
  <2>2. DOMAIN nodes \ DOMAIN nodes' = {}
    BY DEF IsEmpty, Diff
  <2> QED BY <2>1, <2>2
<1>4. ASSUME NEW n \in DOMAIN nodes
      PROVE  Look(nodes'[n]) = Look(nodes[n])
  <2>1. n \notin Updated(nodes, nodes')
    BY DEF IsEmpty, Diff
  <2>2. /\ nodes'[n].body.own = nodes[n].body.own
        /\ nodes'[n].body.worst = nodes[n].body.worst
        /\ nodes'[n].current = nodes[n].current
    BY <1>3, <2>1 DEF Updated, Differs
  <2>3. CASE n \in DOMAIN b
    <3>1. nodes'[n].current
      BY <1>2, <2>3
    <3> QED BY <2>2, <3>1 DEF Look
  <2>4. CASE n \notin DOMAIN b
    <3>1. nodes'[n] = [nodes[n] EXCEPT !.current = FALSE]
      BY <1>1, <1>3, <2>4 DEF Merge, b
    <3>2. nodes'[n].seen = nodes[n].seen
      BY <3>1 DEF TypeOK, Entry
    <3> QED BY <2>2, <3>2 DEF Look
  <2> QED BY <2>3, <2>4
<1> QED BY <1>3, <1>4 DEF Shown
=============================================================================
