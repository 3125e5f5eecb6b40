-------------------------- MODULE Scheduler_proofs --------------------------
(***************************************************************************)
(* Proofs about Scheduler, for any finite sets of targets and workers and  *)
(* any minimum cycle: the scheduler never loses a target, gives it no more *)
(* tickets than the times it joined the list, and lets one that joined     *)
(* once rest between its probes.                                           *)
(***************************************************************************)
EXTENDS Scheduler, FiniteSetTheorems, SequenceTheorems, TLAPS

-----------------------------------------------------------------------------
(* Sequences *)

(* Cutting a heap in two keeps every entry on one side or the other. *)
LEMMA Suffix ==
  ASSUME NEW h \in Seq(Entry), NEW k \in 0..Len(h)
  PROVE  /\ SubSeq(h, k + 1, Len(h)) \in Seq(Entry)
         /\ Tids(SubSeq(h, k + 1, Len(h))) = {h[i].tid : i \in (k + 1)..Len(h)}
<1> DEFINE r == SubSeq(h, k + 1, Len(h))
<1>1. r \in Seq(Entry) /\ Len(r) = Len(h) - k
      /\ \A i \in 1..(Len(h) - k) : r[i] = h[k + i]
  OBVIOUS
<1>2. DOMAIN r = 1..(Len(h) - k)
  BY <1>1
<1> HIDE DEF r
<1>3. ASSUME NEW i \in (k + 1)..Len(h)
      PROVE  h[i].tid \in Tids(r)
  <2>1. i - k \in DOMAIN r /\ r[i - k] = h[i]
    BY <1>1, <1>2
  <2> QED BY <2>1 DEF Tids
<1>4. ASSUME NEW j \in DOMAIN r
      PROVE  r[j].tid \in {h[i].tid : i \in (k + 1)..Len(h)}
  BY <1>1, <1>2
<1>5. Tids(r) = {h[i].tid : i \in (k + 1)..Len(h)}
  BY <1>3, <1>4 DEF Tids
<1> QED BY <1>1, <1>5 DEF r

LEMMA Prefix ==
  ASSUME NEW h \in Seq(Entry), NEW k \in 0..Len(h)
  PROVE  /\ SubSeq(h, 1, k) \in Seq(Entry)
         /\ Tids(SubSeq(h, 1, k)) = {h[i].tid : i \in 1..k}
<1> DEFINE r == SubSeq(h, 1, k)
<1>1. r \in Seq(Entry) /\ Len(r) = k /\ \A i \in 1..k : r[i] = h[i]
  OBVIOUS
<1>2. DOMAIN r = 1..k
  BY <1>1
<1> HIDE DEF r
<1>3. Tids(r) = {h[i].tid : i \in 1..k}
  BY <1>1, <1>2 DEF Tids
<1> QED BY <1>1, <1>3 DEF r

LEMMA Concatenation ==
  ASSUME NEW g \in Seq(Entry), NEW h \in Seq(Entry)
  PROVE  g \o h \in Seq(Entry) /\ Tids(g \o h) = Tids(g) \cup Tids(h)
<1> DEFINE r == g \o h
<1>1. /\ r \in Seq(Entry) /\ Len(r) = Len(g) + Len(h)
      /\ \A i \in 1..Len(g) : r[i] = g[i]
      /\ \A i \in 1..Len(h) : r[Len(g) + i] = h[i]
  OBVIOUS
<1>2. DOMAIN r = 1..(Len(g) + Len(h)) /\ DOMAIN g = 1..Len(g) /\ DOMAIN h = 1..Len(h)
  BY <1>1
<1> HIDE DEF r
<1>3. ASSUME NEW i \in DOMAIN r
      PROVE  r[i].tid \in Tids(g) \cup Tids(h)
  <2>1. CASE i <= Len(g)
    BY <2>1, <1>1, <1>2 DEF Tids
  <2>2. CASE i > Len(g)
    <3>1. i - Len(g) \in 1..Len(h) /\ r[Len(g) + (i - Len(g))] = h[i - Len(g)]
      BY <2>2, <1>1, <1>2
    <3>2. r[i] = h[i - Len(g)]
      BY <3>1, <1>2
    <3> QED BY <3>1, <3>2, <1>2 DEF Tids
  <2> QED BY <2>1, <2>2, <1>2
<1>4. ASSUME NEW i \in DOMAIN g
      PROVE  g[i].tid \in Tids(r)
  BY <1>1, <1>2 DEF Tids
<1>5. ASSUME NEW i \in DOMAIN h
      PROVE  h[i].tid \in Tids(r)
  <2>1. Len(g) + i \in DOMAIN r /\ r[Len(g) + i] = h[i]
    BY <1>1, <1>2
  <2> QED BY <2>1 DEF Tids
<1>6. Tids(r) = Tids(g) \cup Tids(h)
  BY <1>3, <1>4, <1>5 DEF Tids
<1> QED BY <1>1, <1>6 DEF r

(* A refresh adds the new targets to the heap and takes none away. *)
LEMMA PushNowEntries ==
  ASSUME NEW h \in Seq(Entry), NEW s \in Seq(Target)
  PROVE  /\ PushNow(h, s) \in Seq(Entry)
         /\ Tids(PushNow(h, s)) = Tids(h) \cup {s[i] : i \in DOMAIN s}
<1> DEFINE k == Cardinality(Eligible(h))
           m == [i \in 1..Len(s) |-> [tid |-> s[i], wait |-> 0]]
           a == SubSeq(h, 1, k)
           b == SubSeq(h, k + 1, Len(h))
<1>1. k \in 0..Len(h)
  <2>1. DOMAIN h = 1..Len(h) /\ Len(h) \in Nat
    OBVIOUS
  <2>2. IsFiniteSet(1..Len(h)) /\ Cardinality(1..Len(h)) = Len(h)
    <3>1. ASSUME NEW n \in Nat
          PROVE  IsFiniteSet(1..n) /\ Cardinality(1..n) = n
      <4>1. /\ IsFiniteSet(1..n)
            /\ Cardinality(1..n) = IF 1 > n THEN 0 ELSE n - 1 + 1
        BY FS_Interval
      <4> QED BY <4>1
    <3> QED BY <2>1, <3>1
  <2>3. Eligible(h) \subseteq 1..Len(h)
    BY <2>1 DEF Eligible
  <2>4. IsFiniteSet(Eligible(h)) /\ Cardinality(Eligible(h)) <= Len(h)
    BY <2>2, <2>3, FS_Subset
  <2>5. Cardinality(Eligible(h)) \in Nat
    BY <2>4, FS_CardinalityType
  <2> QED BY <2>1, <2>4, <2>5
<1>2. m \in Seq(Entry) /\ Tids(m) = {s[i] : i \in DOMAIN s}
  <2>1. DOMAIN s = 1..Len(s) /\ Len(s) \in Nat
    OBVIOUS
  <2>2. \A i \in 1..Len(s) : m[i] \in Entry /\ m[i].tid = s[i]
    BY <2>1, SchedulerAssumption DEF Entry
  <2>3. DOMAIN m = 1..Len(s) /\ m \in [1..Len(s) -> Entry]
    BY <2>2
  <2>4. m \in Seq(Entry)
    BY <2>1, <2>3
  <2>5. Tids(m) = {s[i] : i \in DOMAIN s}
    BY <2>1, <2>2, <2>3 DEF Tids
  <2> QED BY <2>4, <2>5
<1> HIDE DEF k, m
<1>3. a \in Seq(Entry) /\ Tids(a) = {h[i].tid : i \in 1..k}
  BY <1>1, Prefix
<1>4. b \in Seq(Entry) /\ Tids(b) = {h[i].tid : i \in (k + 1)..Len(h)}
  BY <1>1, Suffix
<1>5. Tids(h) = Tids(a) \cup Tids(b)
  <2>1. DOMAIN h = 1..k \cup (k + 1)..Len(h)
    <3>1. DOMAIN h = 1..Len(h) /\ Len(h) \in Nat
      OBVIOUS
    <3> QED BY <1>1, <3>1
  <2> QED BY <2>1, <1>3, <1>4 DEF Tids
<1> HIDE DEF a, b
<1>6. a \o m \in Seq(Entry) /\ Tids(a \o m) = Tids(a) \cup Tids(m)
  BY <1>2, <1>3, Concatenation
<1>7. (a \o m) \o b \in Seq(Entry) /\ Tids((a \o m) \o b) = Tids(a \o m) \cup Tids(b)
  BY <1>4, <1>6, Concatenation
<1>8. PushNow(h, s) = (a \o m) \o b
  BY DEF PushNow, a, b, m, k
<1> QED BY <1>2, <1>5, <1>6, <1>7, <1>8

(* An order of a set of targets is a sequence that lists it. *)
LEMMA OrdersList ==
  ASSUME NEW S \in SUBSET Target, NEW s \in Orders(S)
  PROVE  s \in Seq(Target) /\ {s[i] : i \in DOMAIN s} = S
<1>1. Cardinality(S) \in Nat
  BY SchedulerAssumption, FS_Subset, FS_CardinalityType
<1>2. s \in [1..Cardinality(S) -> S] /\ \A t \in S : \E i \in DOMAIN s : s[i] = t
  BY DEF Orders
<1>3. s \in Seq(Target)
  BY <1>1, <1>2
<1> QED BY <1>2, <1>3

-----------------------------------------------------------------------------
(* The invariant *)

(* NoLostTarget is not inductive: a worker that finds its target queued     *)
(* does not push it, so being queued has to mean being in the heap.         *)
QueuedInHeap == queued \subseteq Tids(heap)
IInv == TypeOK /\ QueuedInHeap /\ NoLostTarget

LEMMA InitInv == Init => IInv
<1> SUFFICES ASSUME Init PROVE IInv
  OBVIOUS
<1>1. heap = <<>> /\ heap \in Seq(Entry)
  BY DEF Init
<1>2. /\ active \subseteq Target /\ targets = {} /\ queued = {}
      /\ changes \in Nat /\ crashes \in Nat /\ fetched = {}
      /\ job \in [Worker -> Target]
  BY DEF Init
<1>3. pc \in [Worker -> {"idle", "probing", "submitting"}]
  BY DEF Init
<1>4. rested \in [Target -> 0..MinCycle] /\ joins \in [Target -> Nat]
  BY SchedulerAssumption DEF Init
<1>5. started \in BOOLEAN
  BY DEF Init
<1>6. TypeOK
  BY <1>1, <1>2, <1>3, <1>4, <1>5 DEF TypeOK
<1> QED BY <1>2, <1>6 DEF IInv, QueuedInHeap, NoLostTarget

(* Popping a stale prefix takes no live target with it. *)
LEMMA PopStale ==
  ASSUME TypeOK, NEW k \in 0..Len(heap), \A i \in 1..k : heap[i].tid \notin targets
  PROVE  /\ SubSeq(heap, k + 1, Len(heap)) \in Seq(Entry)
         /\ Tids(heap) = Stale(k) \cup Tids(SubSeq(heap, k + 1, Len(heap)))
         /\ Stale(k) \cap targets = {}
<1>1. DOMAIN heap = 1..k \cup (k + 1)..Len(heap)
  <2>1. DOMAIN heap = 1..Len(heap) /\ Len(heap) \in Nat
    BY DEF TypeOK
  <2> QED BY <2>1
<1>2. /\ SubSeq(heap, k + 1, Len(heap)) \in Seq(Entry)
      /\ Tids(SubSeq(heap, k + 1, Len(heap)))
           = {heap[i].tid : i \in (k + 1)..Len(heap)}
  BY Suffix DEF TypeOK
<1> QED BY <1>1, <1>2 DEF Tids, Stale

LEMMA MergeInv == IInv /\ Merge => IInv'
<1> SUFFICES ASSUME IInv, Merge PROVE IInv'
  OBVIOUS
<1>1. PICK remote \in fetched :
        /\ targets' = remote
        /\ queued' = (queued \ (targets \ remote)) \cup (remote \ targets)
        /\ \E s \in Orders(remote \ targets) : heap' = PushNow(heap, s)
        /\ joins' = [t \in Target |->
                       IF t \in remote \ targets THEN joins[t] + 1 ELSE joins[t]]
  BY DEF Merge
<1>2. remote \subseteq Target
  BY <1>1 DEF IInv, TypeOK
<1>3. PICK s \in Orders(remote \ targets) : heap' = PushNow(heap, s)
  BY <1>1
<1>4. s \in Seq(Target) /\ {s[i] : i \in DOMAIN s} = remote \ targets
  BY <1>2, OrdersList
<1>5. heap' \in Seq(Entry) /\ Tids(heap') = Tids(heap) \cup (remote \ targets)
  BY <1>3, <1>4, PushNowEntries DEF IInv, TypeOK
<1>6. /\ fetched' = {} /\ started' = TRUE
      /\ UNCHANGED <<active, changes, crashes, pc, job, rested>>
  BY DEF Merge, backend, workers
<1>7. joins' \in [Target -> Nat]
  BY <1>1 DEF IInv, TypeOK
<1>8. TypeOK'
  BY <1>1, <1>2, <1>5, <1>6, <1>7 DEF IInv, TypeOK
<1>9. QueuedInHeap'
  BY <1>1, <1>5 DEF IInv, QueuedInHeap
<1>10. Probed' = Probed
  BY <1>6 DEF Probed, Busy
<1>11. NoLostTarget'
  BY <1>1, <1>5, <1>10 DEF IInv, NoLostTarget
<1> QED BY <1>8, <1>9, <1>11 DEF IInv

LEMMA TakeInv ==
  ASSUME IInv, NEW w \in Worker, Take(w)
  PROVE  IInv'
<1>1. PICK k \in 0..(Len(heap) - 1) :
        /\ IsStalePrefix(k)
        /\ heap' = SubSeq(heap, k + 2, Len(heap))
        /\ queued' = (queued \ Stale(k)) \ {heap[k + 1].tid}
        /\ job' = [job EXCEPT ![w] = heap[k + 1].tid]
  BY DEF Take
<1> DEFINE n == Len(heap)
<1>2. heap \in Seq(Entry) /\ n \in Nat /\ k + 1 \in 0..n /\ k \in 0..n
      /\ DOMAIN heap = 1..n
  BY <1>1 DEF IInv, TypeOK
<1> HIDE DEF n
<1>3. heap[k + 1] \in Entry /\ heap[k + 1].tid \in Target
  <2>1. k + 1 \in DOMAIN heap
    BY <1>1, <1>2 DEF n
  <2>2. heap[k + 1] \in Entry
    BY <1>2, <2>1
  <2> QED BY <2>2 DEF Entry
<1>4. heap' = SubSeq(heap, (k + 1) + 1, Len(heap))
  BY <1>1, <1>2
<1>5. heap' \in Seq(Entry) /\ Tids(heap') = {heap[i].tid : i \in (k + 2)..Len(heap)}
  BY <1>1, <1>2, <1>4, Suffix DEF n
<1>6. Tids(heap) = Stale(k) \cup {heap[k + 1].tid} \cup Tids(heap')
  <2>1. 1..n = 1..k \cup {k + 1} \cup (k + 2)..n
    BY <1>1, <1>2 DEF n
  <2> QED BY <1>2, <1>5, <2>1 DEF Tids, Stale, n
<1>7. Stale(k) \cap targets = {}
  BY <1>1 DEF IsStalePrefix, Stale
<1>8. /\ pc[w] = "idle" /\ pc' = [pc EXCEPT ![w] = "probing"]
      /\ UNCHANGED <<active, changes, crashes, started, fetched, targets, rested, joins>>
  BY DEF Take, backend, history
<1>9. TypeOK'
  BY <1>1, <1>3, <1>5, <1>8 DEF IInv, TypeOK
<1>10. QueuedInHeap'
  BY <1>1, <1>6 DEF IInv, QueuedInHeap
<1>11. Probed \cup {heap[k + 1].tid} \subseteq Probed'
  BY <1>1, <1>3, <1>8 DEF Probed, Busy, IInv, TypeOK
<1>12. NoLostTarget'
  BY <1>6, <1>7, <1>8, <1>11 DEF IInv, NoLostTarget
<1> QED BY <1>9, <1>10, <1>12 DEF IInv

LEMMA FindNoneInv ==
  ASSUME IInv, NEW w \in Worker, FindNone(w)
  PROVE  IInv'
<1>1. PICK k \in 1..Len(heap) :
        /\ IsStalePrefix(k)
        /\ heap' = SubSeq(heap, k + 1, Len(heap))
        /\ queued' = queued \ Stale(k)
  BY DEF FindNone
<1>2. k \in 0..Len(heap) /\ \A i \in 1..k : heap[i].tid \notin targets
  BY <1>1 DEF IsStalePrefix, IInv, TypeOK
<1>3. /\ heap' \in Seq(Entry)
      /\ Tids(heap) = Stale(k) \cup Tids(heap')
      /\ Stale(k) \cap targets = {}
  BY <1>1, <1>2, PopStale DEF IInv
<1>4. UNCHANGED <<active, changes, crashes, started, fetched, targets, pc, job,
                  rested, joins>>
  BY DEF FindNone, backend, workers, history
<1>5. TypeOK'
  BY <1>1, <1>3, <1>4 DEF IInv, TypeOK
<1>6. QueuedInHeap'
  BY <1>1, <1>3 DEF IInv, QueuedInHeap
<1>7. NoLostTarget'
  BY <1>3, <1>4 DEF IInv, NoLostTarget, Probed, Busy
<1> QED BY <1>5, <1>6, <1>7 DEF IInv

LEMMA RescheduleInv ==
  ASSUME IInv, NEW w \in Worker, Reschedule(w)
  PROVE  IInv'
<1>1. /\ pc[w] = "submitting" /\ pc' = [pc EXCEPT ![w] = "idle"]
      /\ rested' = [rested EXCEPT ![job[w]] = 0]
      /\ UNCHANGED <<active, changes, crashes, started, fetched, targets, job, joins>>
  BY DEF Reschedule, backend
<1>2. job[w] \in Target /\ rested' \in [Target -> 0..MinCycle]
      /\ pc' \in [Worker -> {"idle", "probing", "submitting"}]
  BY <1>1, SchedulerAssumption DEF IInv, TypeOK
<1>3. Probed \subseteq Probed' \cup {job[w]}
  <2>1. \A v \in Worker : v # w => pc'[v] = pc[v] /\ job'[v] = job[v]
    BY <1>1 DEF IInv, TypeOK
  <2> QED BY <1>1, <2>1 DEF Probed, Busy
<1>4. /\ heap' \in Seq(Entry) /\ queued' \subseteq targets
      /\ Tids(heap) \subseteq Tids(heap') /\ QueuedInHeap'
      /\ job[w] \in targets => job[w] \in Tids(heap')
  <2>1. CASE job[w] \in targets /\ job[w] \notin queued
    <3> DEFINE e == [tid |-> job[w], wait |-> MinCycle]
    <3>1. e \in Entry /\ heap \in Seq(Entry) /\ <<e>> \in Seq(Entry)
      BY <1>2, SchedulerAssumption DEF Entry, IInv, TypeOK
    <3>2. heap' = heap \o <<e>> /\ queued' = queued \cup {job[w]}
      BY <2>1, <3>1 DEF Reschedule
    <3>3. Tids(<<e>>) = {job[w]}
      <4>1. DOMAIN <<e>> = {1} /\ <<e>>[1] = e /\ e.tid = job[w]
        OBVIOUS
      <4> HIDE DEF e
      <4> QED BY <4>1 DEF Tids
    <3> HIDE DEF e
    <3>4. heap' \in Seq(Entry) /\ Tids(heap') = Tids(heap) \cup {job[w]}
      BY <3>1, <3>2, <3>3, Concatenation
    <3> QED BY <2>1, <3>2, <3>4 DEF IInv, TypeOK, QueuedInHeap
  <2>2. CASE ~(job[w] \in targets /\ job[w] \notin queued)
    <3>1. heap' = heap /\ queued' = queued
      BY <2>2 DEF Reschedule, queue
    <3> QED BY <2>2, <3>1 DEF IInv, TypeOK, QueuedInHeap
  <2> QED BY <2>1, <2>2
<1>5. TypeOK'
  BY <1>1, <1>2, <1>4 DEF IInv, TypeOK
<1>6. NoLostTarget'
  BY <1>1, <1>3, <1>4 DEF IInv, NoLostTarget
<1> QED BY <1>4, <1>5, <1>6 DEF IInv

LEMMA TickInv == IInv /\ Tick => IInv'
<1> SUFFICES ASSUME IInv, Tick PROVE IInv'
  OBVIOUS
<1>1. heap \in Seq(Entry) /\ DOMAIN heap = 1..Len(heap) /\ Len(heap) \in Nat
  BY DEF IInv, TypeOK
<1>2. heap' = [i \in DOMAIN heap |->
                [heap[i] EXCEPT !.wait = IF @ = 0 THEN 0 ELSE @ - 1]]
  BY DEF Tick
<1>3. \A i \in DOMAIN heap : heap'[i] \in Entry /\ heap'[i].tid = heap[i].tid
  <2> SUFFICES ASSUME NEW i \in DOMAIN heap
               PROVE  heap'[i] \in Entry /\ heap'[i].tid = heap[i].tid
    OBVIOUS
  <2>1. heap[i] \in Entry
    BY <1>1
  <2>2. heap'[i] = [heap[i] EXCEPT !.wait = IF heap[i].wait = 0 THEN 0
                                            ELSE heap[i].wait - 1]
    BY <1>2
  <2> QED BY <2>1, <2>2, SchedulerAssumption DEF Entry
<1>4. DOMAIN heap' = 1..Len(heap) /\ heap' \in [1..Len(heap) -> Entry]
  BY <1>1, <1>2, <1>3
<1>5. heap' \in Seq(Entry) /\ Tids(heap') = Tids(heap)
  <2>1. heap' \in Seq(Entry)
    BY <1>1, <1>4
  <2>2. Tids(heap') = Tids(heap)
    BY <1>1, <1>3, <1>4 DEF Tids
  <2> QED BY <2>1, <2>2
<1>6. UNCHANGED <<active, changes, crashes, started, fetched, targets, queued,
                  pc, job, joins>>
  BY DEF Tick, backend, workers
<1>7. rested' \in [Target -> 0..MinCycle]
  BY SchedulerAssumption DEF Tick, IInv, TypeOK
<1>8. TypeOK'
  BY <1>5, <1>6, <1>7 DEF IInv, TypeOK
<1>9. QueuedInHeap' /\ NoLostTarget'
  BY <1>5, <1>6 DEF IInv, QueuedInHeap, NoLostTarget, Probed, Busy
<1> QED BY <1>8, <1>9 DEF IInv

LEMMA StepInv == IInv /\ [Next]_vars => IInv'
<1> SUFFICES ASSUME IInv, [Next]_vars PROVE IInv'
  OBVIOUS
<1> USE DEF IInv, TypeOK, QueuedInHeap, NoLostTarget, Probed, Busy,
            backend, queue, workers, history
<1>1. ASSUME NEW t \in Target, ChangeActive(t) PROVE IInv'
  BY <1>1 DEF ChangeActive
<1>2. CASE Fetch
  BY <1>2 DEF Fetch
<1>3. CASE FetchFails
  BY <1>3 DEF FetchFails
<1>4. ASSUME NEW w \in Worker, FinishProbe(w) PROVE IInv'
  BY <1>4 DEF FinishProbe
<1>5. CASE Crash
  <2>1. heap' \in Seq(Entry)
    BY <1>5 DEF Crash
  <2>2. rested' \in [Target -> 0..MinCycle] /\ joins' \in [Target -> Nat]
    BY <1>5, SchedulerAssumption DEF Crash
  <2>3. pc' \in [Worker -> {"idle", "probing", "submitting"}]
    BY <1>5 DEF Crash
  <2>4. /\ targets' = {} /\ queued' = {} /\ fetched' = {}
        /\ UNCHANGED <<active, changes, job>> /\ started' \in BOOLEAN
    BY <1>5 DEF Crash
  <2>5. crashes' \in Nat
    BY <1>5 DEF Crash
  <2>6. TypeOK'
    BY <2>1, <2>2, <2>3, <2>4, <2>5
  <2> QED BY <2>4, <2>6
<1>6. CASE UNCHANGED vars
  BY <1>6 DEF vars, Tids
<1> QED
  BY <1>1, <1>2, <1>3, <1>4, <1>5, <1>6, MergeInv, TakeInv, FindNoneInv,
     RescheduleInv, TickInv DEF Next

LEMMA Invariant == Spec => []IInv
BY InitInv, StepInv, PTL DEF Spec

(* The scheduler's variables keep their types: the heap only ever holds     *)
(* entries of known targets that wait at most the minimum cycle.            *)
THEOREM TypeCorrect == Spec => []TypeOK
<1>1. IInv => TypeOK
  BY DEF IInv
<1> QED BY <1>1, Invariant, PTL

(* For any fleet and any number of workers, a target in the prober's list   *)
(* is in the heap or in a worker's hands: removals, returns and refreshes   *)
(* in the middle of its probe never drop it.                                *)
THEOREM NeverLost == Spec => []NoLostTarget
<1>1. IInv => NoLostTarget
  BY DEF IInv
<1> QED BY <1>1, Invariant, PTL
-----------------------------------------------------------------------------
(* Tickets *)

(* The entries of t in h, and how many there are. *)
Marks(h, t) == {i \in DOMAIN h : h[i].tid = t}
Count(h, t) == Cardinality(Marks(h, t))

(* The workers busy with t. *)
Holders(t) == {w \in Worker : Busy(w) /\ job[w] = t}

LEMMA Interval ==
  ASSUME NEW n \in Nat
  PROVE  IsFiniteSet(1..n) /\ Cardinality(1..n) = n
<1>1. IsFiniteSet(1..n) /\ Cardinality(1..n) = IF 1 > n THEN 0 ELSE n - 1 + 1
  BY FS_Interval
<1> QED BY <1>1

LEMMA MarksFinite ==
  ASSUME NEW h \in Seq(Entry), NEW t
  PROVE  IsFiniteSet(Marks(h, t)) /\ Count(h, t) \in Nat
<1>1. DOMAIN h = 1..Len(h) /\ Len(h) \in Nat
  OBVIOUS
<1>2. IsFiniteSet(1..Len(h))
  BY <1>1, Interval
<1>3. Marks(h, t) \in SUBSET (1..Len(h))
  BY <1>1 DEF Marks
<1>4. IsFiniteSet(Marks(h, t))
  BY <1>2, <1>3, FS_Subset
<1> QED BY <1>4, FS_CardinalityType DEF Count

(* Counts add up over a concatenation: the second part is shifted. *)
LEMMA CountConcat ==
  ASSUME NEW g \in Seq(Entry), NEW h \in Seq(Entry), NEW t
  PROVE  Count(g \o h, t) = Count(g, t) + Count(h, t)
<1> DEFINE r == g \o h
           S == {Len(g) + i : i \in Marks(h, t)}
           f == [i \in Marks(h, t) |-> Len(g) + i]
<1>1. /\ Len(g) \in Nat /\ Len(h) \in Nat
      /\ DOMAIN g = 1..Len(g) /\ DOMAIN h = 1..Len(h)
      /\ DOMAIN r = 1..(Len(g) + Len(h))
      /\ \A i \in 1..Len(g) : r[i] = g[i]
      /\ \A i \in 1..Len(h) : r[Len(g) + i] = h[i]
  OBVIOUS
<1> HIDE DEF r
<1>2. Marks(r, t) = Marks(g, t) \cup S
  <2>1. ASSUME NEW i \in Marks(r, t)
        PROVE  i \in Marks(g, t) \cup S
    <3>1. CASE i <= Len(g)
      BY <3>1, <1>1 DEF Marks
    <3>2. CASE i > Len(g)
      <4>1. i - Len(g) \in 1..Len(h) /\ i = Len(g) + (i - Len(g))
        BY <3>2, <1>1 DEF Marks
      <4>2. r[i] = h[i - Len(g)]
        BY <4>1, <1>1
      <4>3. i - Len(g) \in Marks(h, t)
        BY <4>1, <4>2, <1>1 DEF Marks
      <4> QED BY <4>1, <4>3
    <3> QED BY <3>1, <3>2, <1>1 DEF Marks
  <2>2. Marks(g, t) \subseteq Marks(r, t)
    BY <1>1 DEF Marks
  <2>3. S \subseteq Marks(r, t)
    BY <1>1 DEF Marks
  <2> QED BY <2>1, <2>2, <2>3
<1>3. Marks(g, t) \cap S = {}
  BY <1>1 DEF Marks
<1>4. /\ IsFiniteSet(Marks(g, t)) /\ IsFiniteSet(Marks(h, t))
      /\ Count(g, t) \in Nat /\ Count(h, t) \in Nat
  BY MarksFinite
<1>5. IsFiniteSet(S) /\ Cardinality(S) = Count(h, t)
  <2>1. Marks(h, t) \subseteq Nat
    BY <1>1 DEF Marks
  <2>2. f \in Bijection(Marks(h, t), S)
    <3>1. f \in [Marks(h, t) -> S]
      OBVIOUS
    <3>2. \A i, j \in Marks(h, t) : f[i] = f[j] => i = j
      BY <1>1, <2>1
    <3>3. \A y \in S : \E i \in Marks(h, t) : f[i] = y
      OBVIOUS
    <3> QED BY <3>1, <3>2, <3>3 DEF Bijection, Injection, Surjection, IsInjective
  <2>3. ExistsBijection(Marks(h, t), S)
    BY <2>2 DEF ExistsBijection
  <2> QED BY <1>4, <2>3, FS_Bijection DEF Count
<1>6. Cardinality(Marks(g, t) \cap S) = 0
  BY <1>3, FS_EmptySet
<1>7. Cardinality(Marks(g, t) \cup S) = Count(g, t) + Count(h, t) - 0
  BY <1>4, <1>5, <1>6, FS_Union DEF Count
<1>8. Count(r, t) = Count(g, t) + Count(h, t)
  BY <1>2, <1>4, <1>7 DEF Count
<1> QED BY <1>8 DEF r

LEMMA CountSplit ==
  ASSUME NEW h \in Seq(Entry), NEW k \in 0..Len(h), NEW t
  PROVE  Count(h, t) = Count(SubSeq(h, 1, k), t) + Count(SubSeq(h, k + 1, Len(h)), t)
<1>1. SubSeq(h, 1, k) \in Seq(Entry) /\ SubSeq(h, k + 1, Len(h)) \in Seq(Entry)
  BY Prefix, Suffix
<1>2. h = SubSeq(h, 1, k) \o SubSeq(h, k + 1, Len(h))
  <2>1. 1 \in 1..(Len(h) + 1) /\ k \in (1 - 1)..Len(h) /\ Len(h) \in k..Len(h)
    OBVIOUS
  <2>2. SubSeq(h, 1, k) \o SubSeq(h, k + 1, Len(h)) = SubSeq(h, 1, Len(h))
    BY <2>1, ConcatAdjacentSubSeq
  <2> QED BY <2>2, SubSeqFull
<1>3. Count(SubSeq(h, 1, k) \o SubSeq(h, k + 1, Len(h)), t)
        = Count(SubSeq(h, 1, k), t) + Count(SubSeq(h, k + 1, Len(h)), t)
  BY <1>1, CountConcat
<1> QED BY <1>2, <1>3

(* An order of a set lists each of its targets once. *)
LEMMA OrderListsOnce ==
  ASSUME NEW S \in SUBSET Target, NEW s \in Orders(S), NEW i \in DOMAIN s,
         NEW j \in DOMAIN s, s[i] = s[j]
  PROVE  i = j
<1> DEFINE n == Cardinality(S)
<1>1. IsFiniteSet(S) /\ n \in Nat
  BY SchedulerAssumption, FS_Subset, FS_CardinalityType
<1>2. IsFiniteSet(1..n) /\ Cardinality(1..n) = Cardinality(S)
  BY <1>1, Interval
<1>3. s \in Surjection(1..n, S)
  BY DEF Orders, Surjection
<1> HIDE DEF n
<1>4. s \in Injection(1..n, S)
  BY <1>2, <1>3, FS_SurjSameCardinalityImpliesInj
<1> QED BY <1>3, <1>4 DEF Injection, IsInjective, Surjection
(* What a refresh pushes. *)
Now(s) == [i \in 1..Len(s) |-> [tid |-> s[i], wait |-> 0]]

LEMMA CountPushed ==
  ASSUME NEW S \in SUBSET Target, NEW s \in Orders(S), NEW t
  PROVE  Now(s) \in Seq(Entry) /\ Count(Now(s), t) = IF t \in S THEN 1 ELSE 0
<1> DEFINE m == Now(s)
<1>1. s \in Seq(Target) /\ {s[i] : i \in DOMAIN s} = S
  BY OrdersList
<1>2. DOMAIN s = 1..Len(s) /\ Len(s) \in Nat
  BY <1>1
<1>3. \A i \in 1..Len(s) : m[i] \in Entry /\ m[i].tid = s[i]
  BY <1>1, <1>2, SchedulerAssumption DEF Entry, Now
<1>4. DOMAIN m = 1..Len(s) /\ m \in [1..Len(s) -> Entry]
  BY <1>3 DEF Now
<1> HIDE DEF m
<1>5. m \in Seq(Entry)
  BY <1>2, <1>4
<1>6. CASE t \in S
  <2>1. PICK i \in DOMAIN s : s[i] = t
    BY <1>1, <1>6
  <2>2. \A j \in DOMAIN s : s[j] = t => j = i
    BY <2>1, OrderListsOnce
  <2>3. Marks(m, t) = {i}
    BY <1>2, <1>3, <1>4, <2>1, <2>2 DEF Marks
  <2>4. Count(m, t) = 1
    BY <2>3, FS_Singleton DEF Count
  <2> QED BY <1>5, <1>6, <2>4 DEF m
<1>7. CASE t \notin S
  <2>1. Marks(m, t) = {}
    BY <1>1, <1>2, <1>3, <1>4, <1>7 DEF Marks
  <2>2. Count(m, t) = 0
    BY <2>1, FS_EmptySet DEF Count
  <2> QED BY <1>5, <1>7, <2>2 DEF m
<1> QED BY <1>6, <1>7

LEMMA EligibleBound ==
  ASSUME NEW h \in Seq(Entry)
  PROVE  Cardinality(Eligible(h)) \in 0..Len(h)
<1>1. DOMAIN h = 1..Len(h) /\ Len(h) \in Nat
  OBVIOUS
<1>2. IsFiniteSet(1..Len(h)) /\ Cardinality(1..Len(h)) = Len(h)
  BY <1>1, Interval
<1>3. Eligible(h) \in SUBSET (1..Len(h))
  BY <1>1 DEF Eligible
<1>4. IsFiniteSet(Eligible(h)) /\ Cardinality(Eligible(h)) <= Len(h)
  BY <1>2, <1>3, FS_Subset
<1>5. Cardinality(Eligible(h)) \in Nat
  BY <1>4, FS_CardinalityType
<1> QED BY <1>1, <1>4, <1>5

(* A refresh makes one entry for each new target. *)
LEMMA CountPushNow ==
  ASSUME NEW h \in Seq(Entry), NEW S \in SUBSET Target, NEW s \in Orders(S), NEW t
  PROVE  Count(PushNow(h, s), t) = Count(h, t) + IF t \in S THEN 1 ELSE 0
<1> DEFINE k == Cardinality(Eligible(h))
           m == Now(s)
           a == SubSeq(h, 1, k)
           b == SubSeq(h, k + 1, Len(h))
<1>1. k \in 0..Len(h)
  BY EligibleBound
<1>2. m \in Seq(Entry) /\ Count(m, t) = IF t \in S THEN 1 ELSE 0
  BY CountPushed
<1>3. PushNow(h, s) = (a \o m) \o b
  BY DEF PushNow, Now
<1> HIDE DEF k, m
<1>4. a \in Seq(Entry) /\ b \in Seq(Entry)
  BY <1>1, Prefix, Suffix
<1>5. Count(h, t) = Count(a, t) + Count(b, t)
  BY <1>1, CountSplit
<1> HIDE DEF a, b
<1>6. a \o m \in Seq(Entry) /\ Count(a \o m, t) = Count(a, t) + Count(m, t)
  BY <1>2, <1>4, Concatenation, CountConcat
<1>7. Count((a \o m) \o b, t) = Count(a \o m, t) + Count(b, t)
  BY <1>4, <1>6, CountConcat
<1>8. Count(a, t) \in Nat /\ Count(b, t) \in Nat
  BY <1>4, MarksFinite
<1> QED BY <1>2, <1>3, <1>5, <1>6, <1>7, <1>8

(* The entries themselves. *)
Entries(h) == {h[i] : i \in DOMAIN h}

LEMMA EntriesConcat ==
  ASSUME NEW g \in Seq(Entry), NEW h \in Seq(Entry)
  PROVE  Entries(g \o h) = Entries(g) \cup Entries(h)
<1>1. Range(g \o h) = Range(g) \cup Range(h)
  BY RangeConcatenation
<1> QED BY <1>1 DEF Range, Entries

LEMMA EntriesSplit ==
  ASSUME NEW h \in Seq(Entry), NEW k \in 0..Len(h)
  PROVE  /\ Entries(SubSeq(h, 1, k)) \subseteq Entries(h)
         /\ Entries(SubSeq(h, k + 1, Len(h))) \subseteq Entries(h)
<1>1. /\ DOMAIN h = 1..Len(h) /\ Len(h) \in Nat
      /\ DOMAIN SubSeq(h, 1, k) = 1..k
      /\ \A i \in 1..k : SubSeq(h, 1, k)[i] = h[i]
      /\ DOMAIN SubSeq(h, k + 1, Len(h)) = 1..(Len(h) - k)
      /\ \A i \in 1..(Len(h) - k) : SubSeq(h, k + 1, Len(h))[i] = h[k + i]
  OBVIOUS
<1> QED BY <1>1 DEF Entries

LEMMA EntriesPushNow ==
  ASSUME NEW h \in Seq(Entry), NEW S \in SUBSET Target, NEW s \in Orders(S),
         NEW e \in Entries(PushNow(h, s))
  PROVE  e \in Entries(h) \/ (e.tid \in S /\ e.wait = 0)
<1> DEFINE k == Cardinality(Eligible(h))
           m == Now(s)
           a == SubSeq(h, 1, k)
           b == SubSeq(h, k + 1, Len(h))
<1>1. k \in 0..Len(h)
  BY EligibleBound
<1>2. m \in Seq(Entry)
  BY CountPushed
<1>3. \A d \in Entries(m) : d.tid \in S /\ d.wait = 0
  <2>1. s \in Seq(Target) /\ {s[i] : i \in DOMAIN s} = S
    BY OrdersList
  <2>2. DOMAIN s = 1..Len(s)
    BY <2>1
  <2> QED BY <2>1, <2>2 DEF Entries, Now
<1>4. PushNow(h, s) = (a \o m) \o b
  BY DEF PushNow, Now
<1> HIDE DEF k, m
<1>5. a \in Seq(Entry) /\ b \in Seq(Entry)
  BY <1>1, Prefix, Suffix
<1>6. Entries(a) \subseteq Entries(h) /\ Entries(b) \subseteq Entries(h)
  BY <1>1, EntriesSplit
<1> HIDE DEF a, b
<1>7. a \o m \in Seq(Entry) /\ Entries(a \o m) = Entries(a) \cup Entries(m)
  BY <1>2, <1>5, Concatenation, EntriesConcat
<1>8. Entries((a \o m) \o b) = Entries(a \o m) \cup Entries(b)
  BY <1>5, <1>7, EntriesConcat
<1> QED BY <1>3, <1>4, <1>6, <1>7, <1>8
-----------------------------------------------------------------------------
(* TicketsBounded is inductive once the types are known.  RestPeriod needs  *)
(* two facts more: an entry of a target that has joined once does not       *)
(* become eligible before the target has rested, and a target that has not  *)
(* joined was never probed in this life of the process.                     *)
RestedInHeap ==
  \A e \in Entries(heap) : joins[e.tid] <= 1 => e.wait + rested[e.tid] >= MinCycle
NewIsRested == \A t \in Target : joins[t] = 0 => rested[t] = MinCycle
TicketInv == TicketsBounded /\ RestedInHeap /\ NewIsRested

LEMMA HoldersFinite ==
  ASSUME NEW t
  PROVE  IsFiniteSet(Holders(t)) /\ Cardinality(Holders(t)) \in Nat
<1>1. Holders(t) \in SUBSET Worker /\ IsFiniteSet(Worker)
  BY SchedulerAssumption DEF Holders
<1>2. IsFiniteSet(Holders(t))
  BY <1>1, FS_Subset
<1> QED BY <1>2, FS_CardinalityType

LEMMA TicketsAre ==
  ASSUME NEW t
  PROVE  Tickets(t) = Count(heap, t) + Cardinality(Holders(t))
BY DEF Tickets, Count, Marks, Holders

LEMMA TicketsAreNext ==
  ASSUME NEW t
  PROVE  Tickets(t)' = Count(heap', t) + Cardinality(Holders(t)')
BY DEF Tickets, Count, Marks, Holders

(* A target has an entry only if its count says so, and a holder likewise. *)
LEMMA EntryCounts ==
  ASSUME NEW h \in Seq(Entry), NEW e \in Entries(h)
  PROVE  Count(h, e.tid) >= 1
<1>1. PICK i \in DOMAIN h : h[i] = e
  BY DEF Entries
<1>2. i \in Marks(h, e.tid)
  BY <1>1 DEF Marks
<1>3. IsFiniteSet(Marks(h, e.tid)) /\ Count(h, e.tid) \in Nat
  BY MarksFinite
<1>4. Count(h, e.tid) # 0
  BY <1>2, <1>3, FS_EmptySet DEF Count
<1> QED BY <1>3, <1>4

LEMMA HolderCounts ==
  ASSUME NEW t, NEW w \in Holders(t)
  PROVE  Cardinality(Holders(t)) >= 1
<1>1. IsFiniteSet(Holders(t)) /\ Cardinality(Holders(t)) \in Nat
  BY HoldersFinite
<1>2. Cardinality(Holders(t)) # 0
  BY <1>1, FS_EmptySet
<1> QED BY <1>1, <1>2

LEMMA EmptyHeap ==
  ASSUME NEW t, NEW h, h = <<>>
  PROVE  Count(h, t) = 0 /\ Entries(h) = {}
<1>1. DOMAIN h = {}
  OBVIOUS
<1>2. Marks(h, t) = {} /\ Entries(h) = {}
  BY <1>1 DEF Marks, Entries
<1> QED BY <1>2, FS_EmptySet DEF Count

LEMMA TicketInit == Init => TicketInv
<1> SUFFICES ASSUME Init PROVE TicketInv
  OBVIOUS
<1>1. \A t \in Target : rested[t] = MinCycle /\ joins[t] = 0
  BY DEF Init
<1>2. heap = <<>> /\ \A w \in Worker : pc[w] = "idle"
  BY DEF Init
<1>3. RestedInHeap
  BY <1>2, EmptyHeap DEF RestedInHeap
<1>4. ASSUME NEW t \in Target PROVE Tickets(t) <= joins[t]
  <2>1. Holders(t) = {}
    BY <1>2 DEF Holders, Busy
  <2>2. Cardinality(Holders(t)) = 0 /\ Count(heap, t) = 0
    BY <1>2, <2>1, FS_EmptySet, EmptyHeap
  <2> QED BY <1>1, <2>2, TicketsAre
<1> QED BY <1>1, <1>3, <1>4 DEF TicketInv, TicketsBounded, NewIsRested

LEMMA MergeTickets == IInv /\ TicketInv /\ Merge => TicketInv'
<1> SUFFICES ASSUME IInv, TicketInv, Merge PROVE TicketInv'
  OBVIOUS
<1>1. PICK remote \in fetched :
        /\ \E s \in Orders(remote \ targets) : heap' = PushNow(heap, s)
        /\ joins' = [t \in Target |->
                       IF t \in remote \ targets THEN joins[t] + 1 ELSE joins[t]]
  BY DEF Merge
<1> DEFINE new == remote \ targets
<1>2. new \in SUBSET Target /\ heap \in Seq(Entry) /\ joins \in [Target -> Nat]
      /\ rested \in [Target -> 0..MinCycle]
  BY <1>1 DEF IInv, TypeOK
<1>3. PICK s \in Orders(new) : heap' = PushNow(heap, s)
  BY <1>1
<1>4. \A t \in Target : joins'[t] = IF t \in new THEN joins[t] + 1 ELSE joins[t]
  BY <1>1
<1> HIDE DEF new
<1>5. UNCHANGED <<pc, job, rested>>
  BY DEF Merge, workers
<1>6. ASSUME NEW t \in Target PROVE (Tickets(t) <= joins[t])'
  <2>1. Count(heap', t) = Count(heap, t) + IF t \in new THEN 1 ELSE 0
    BY <1>2, <1>3, CountPushNow
  <2>2. Holders(t)' = Holders(t)
    BY <1>5 DEF Holders, Busy
  <2>3. Tickets(t) <= joins[t] /\ joins[t] \in Nat
    BY <1>2 DEF TicketInv, TicketsBounded
  <2>4. Count(heap, t) \in Nat /\ Cardinality(Holders(t)) \in Nat
    BY <1>2, MarksFinite, HoldersFinite
  <2>5. Tickets(t)' = Tickets(t) + IF t \in new THEN 1 ELSE 0
    BY <2>1, <2>2, <2>4, TicketsAre, TicketsAreNext
  <2>6. Tickets(t) \in Nat
    BY <2>4, TicketsAre
  <2> QED BY <1>4, <2>3, <2>5, <2>6
<1>7. ASSUME NEW e \in Entries(heap'), joins'[e.tid] <= 1
      PROVE  e.wait + rested'[e.tid] >= MinCycle
  <2>1. heap' \in Seq(Entry)
    <3>1. s \in Seq(Target)
      BY <1>2, <1>3, OrdersList
    <3> QED BY <1>2, <1>3, <3>1, PushNowEntries
  <2>2. e \in Entry
    BY <2>1, <1>7 DEF Entries
  <2>3. e.tid \in Target /\ e.wait \in Nat /\ joins[e.tid] \in Nat
        /\ rested[e.tid] \in Nat /\ MinCycle \in Nat
    BY <1>2, <2>2, SchedulerAssumption DEF Entry
  <2>4. CASE e.tid \in new
    <3>1. joins[e.tid] = 0
      BY <1>4, <1>7, <2>3, <2>4
    <3>2. rested[e.tid] = MinCycle
      BY <2>3, <3>1 DEF TicketInv, NewIsRested
    <3> QED BY <1>5, <2>3, <3>2
  <2>5. CASE e.tid \notin new
    <3>1. e \in Entries(heap)
      BY <1>2, <1>3, <1>7, <2>5, EntriesPushNow
    <3> QED BY <1>4, <1>5, <1>7, <2>3, <2>5, <3>1 DEF TicketInv, RestedInHeap
  <2> QED BY <2>4, <2>5
<1>8. NewIsRested'
  BY <1>2, <1>4, <1>5 DEF TicketInv, NewIsRested
<1> QED BY <1>6, <1>7, <1>8 DEF TicketInv, TicketsBounded, RestedInHeap
(* Entries leave the heap: every count falls or stays. *)
LEMMA PoppedTickets ==
  ASSUME IInv, TicketInv, NEW k \in 0..Len(heap),
         heap' = SubSeq(heap, k + 1, Len(heap)), UNCHANGED <<rested, joins>>
  PROVE  RestedInHeap' /\ NewIsRested'
<1>1. Entries(heap') \subseteq Entries(heap)
  BY EntriesSplit DEF IInv, TypeOK
<1> QED BY <1>1 DEF TicketInv, RestedInHeap, NewIsRested

LEMMA TakeTickets ==
  ASSUME IInv, TicketInv, NEW w \in Worker, Take(w)
  PROVE  /\ TicketInv'
         /\ \A t \in Target : joins[t] <= 1 /\ Begins(w, t) =>
              rested[t] = MinCycle /\ t \notin Probed
<1>1. PICK k \in 0..(Len(heap) - 1) :
        /\ heap[k + 1].wait = 0
        /\ heap' = SubSeq(heap, k + 2, Len(heap))
        /\ job' = [job EXCEPT ![w] = heap[k + 1].tid]
  BY DEF Take
<1> DEFINE u == heap[k + 1].tid
           a == SubSeq(heap, 1, k + 1)
<1>2. heap \in Seq(Entry) /\ k + 1 \in 1..Len(heap) /\ k + 1 \in 0..Len(heap)
  BY <1>1 DEF IInv, TypeOK
<1>3. heap' = SubSeq(heap, (k + 1) + 1, Len(heap))
  BY <1>1, <1>2
<1>4. heap[k + 1] \in Entry /\ heap[k + 1] \in Entries(heap) /\ u \in Target
  <2>1. k + 1 \in DOMAIN heap
    BY <1>2
  <2>2. heap[k + 1] \in Entry
    BY <1>2, <2>1
  <2> QED BY <2>1, <2>2 DEF Entries, Entry
<1>5. /\ pc[w] = "idle" /\ pc' = [pc EXCEPT ![w] = "probing"]
      /\ UNCHANGED <<rested, joins>>
  BY DEF Take, history
<1>6. a \in Seq(Entry) /\ heap' \in Seq(Entry)
  BY <1>2, <1>3, Prefix, Suffix
<1>7. Count(a, u) >= 1
  <2>1. k + 1 \in DOMAIN a /\ a[k + 1] = heap[k + 1]
    BY <1>1, <1>2
  <2>2. heap[k + 1] \in Entries(a)
    BY <2>1 DEF Entries
  <2> QED BY <1>6, <2>2, EntryCounts
<1> HIDE DEF u, a
<1>8. \A t : /\ Count(heap, t) = Count(a, t) + Count(heap', t)
             /\ Count(a, t) \in Nat /\ Count(heap', t) \in Nat
             /\ Cardinality(Holders(t)) \in Nat
  BY <1>2, <1>3, <1>6, CountSplit, MarksFinite, HoldersFinite DEF a
<1>9. ASSUME NEW t
      PROVE  Cardinality(Holders(t)')
               = Cardinality(Holders(t)) + IF t = u THEN 1 ELSE 0
  <2>1. /\ pc \in [Worker -> {"idle", "probing", "submitting"}]
        /\ job \in [Worker -> Target] /\ job' = [job EXCEPT ![w] = u]
    BY <1>1 DEF u, IInv, TypeOK
  <2>2. CASE t = u
    <3>1. w \notin Holders(t) /\ Holders(t)' = Holders(t) \cup {w}
      BY <1>5, <2>1, <2>2 DEF Holders, Busy
    <3> QED BY <2>2, <3>1, HoldersFinite, FS_AddElement
  <2>3. CASE t # u
    <3>1. Holders(t)' = Holders(t)
      BY <1>5, <2>1, <2>3 DEF Holders, Busy
    <3> QED BY <2>3, <3>1, HoldersFinite
  <2> QED BY <2>2, <2>3
<1>10. ASSUME NEW t \in Target PROVE (Tickets(t) <= joins[t])'
  <2>1. Tickets(t) = Count(heap, t) + Cardinality(Holders(t))
        /\ Tickets(t)' = Count(heap', t) + Cardinality(Holders(t)')
    BY TicketsAre, TicketsAreNext
  <2>2. Tickets(t)' <= Tickets(t) /\ Tickets(t) \in Nat /\ Tickets(t)' \in Nat
    <3>1. CASE t = u
      BY <3>1, <2>1, <1>7, <1>8, <1>9
    <3>2. CASE t # u
      BY <3>2, <2>1, <1>8, <1>9
    <3> QED BY <3>1, <3>2
  <2>3. Tickets(t) <= joins[t] /\ joins[t] \in Nat
    BY DEF IInv, TypeOK, TicketInv, TicketsBounded
  <2> QED BY <1>5, <2>2, <2>3
<1>11. RestedInHeap' /\ NewIsRested'
  BY <1>2, <1>3, <1>5, PoppedTickets
<1>12. ASSUME NEW t \in Target, joins[t] <= 1, Begins(w, t)
       PROVE  rested[t] = MinCycle /\ t \notin Probed
  <2>1. t = u
    BY <1>1, <1>12 DEF Begins, u, IInv, TypeOK
  <2>2. rested[t] >= MinCycle /\ rested[t] \in 0..MinCycle
    BY <1>1, <1>4, <1>12, <2>1 DEF u, TicketInv, RestedInHeap, IInv, TypeOK
  <2>3. Count(heap, t) >= 1 /\ Tickets(t) <= joins[t] /\ joins[t] \in Nat
    BY <1>2, <1>4, <2>1, EntryCounts DEF u, IInv, TypeOK, TicketInv, TicketsBounded
  <2>4. Count(heap, t) \in Nat
    BY <1>2, MarksFinite
  <2>5. Cardinality(Holders(t)) = 0
    BY <1>8, <1>12, <2>3, <2>4, TicketsAre
  <2>6. Holders(t) = {}
    BY <2>5, HoldersFinite, FS_EmptySet
  <2>7. t \notin Probed
    BY <2>6 DEF Holders, Probed
  <2> QED BY <2>2, <2>7, SchedulerAssumption
<1> QED BY <1>10, <1>11, <1>12 DEF TicketInv, TicketsBounded

LEMMA FindNoneTickets ==
  ASSUME IInv, TicketInv, NEW w \in Worker, FindNone(w)
  PROVE  TicketInv'
<1>1. PICK k \in 1..Len(heap) : heap' = SubSeq(heap, k + 1, Len(heap))
  BY DEF FindNone
<1>2. k \in 0..Len(heap) /\ heap \in Seq(Entry)
  BY DEF IInv, TypeOK
<1>3. UNCHANGED <<pc, job, rested, joins>>
  BY DEF FindNone, workers, history
<1> DEFINE a == SubSeq(heap, 1, k)
<1>4. a \in Seq(Entry) /\ heap' \in Seq(Entry)
  BY <1>1, <1>2, Prefix, Suffix
<1>5. ASSUME NEW t \in Target PROVE (Tickets(t) <= joins[t])'
  <2>1. /\ Count(heap, t) = Count(a, t) + Count(heap', t)
        /\ Count(a, t) \in Nat /\ Count(heap', t) \in Nat
        /\ Cardinality(Holders(t)) \in Nat
    BY <1>1, <1>2, <1>4, CountSplit, MarksFinite, HoldersFinite
  <2>2. Holders(t)' = Holders(t)
    BY <1>3 DEF Holders, Busy
  <2>3. Tickets(t)' <= Tickets(t) /\ Tickets(t) \in Nat /\ Tickets(t)' \in Nat
    BY <2>1, <2>2, TicketsAre, TicketsAreNext
  <2>4. Tickets(t) <= joins[t] /\ joins[t] \in Nat
    BY DEF IInv, TypeOK, TicketInv, TicketsBounded
  <2> QED BY <1>3, <2>3, <2>4
<1>6. RestedInHeap' /\ NewIsRested'
  BY <1>1, <1>2, <1>3, PoppedTickets
<1> QED BY <1>5, <1>6 DEF TicketInv, TicketsBounded

LEMMA RescheduleTickets ==
  ASSUME IInv, TicketInv, NEW w \in Worker, Reschedule(w)
  PROVE  TicketInv'
<1> DEFINE u == job[w]
           e == [tid |-> u, wait |-> MinCycle]
<1>1. /\ pc[w] = "submitting" /\ pc' = [pc EXCEPT ![w] = "idle"]
      /\ rested' = [rested EXCEPT ![u] = 0]
      /\ UNCHANGED <<job, joins>>
  BY DEF Reschedule
<1>2. u \in Target /\ heap \in Seq(Entry) /\ w \in Holders(u)
  BY <1>1 DEF IInv, TypeOK, Holders, Busy
<1>3. e \in Entry /\ e.tid = u /\ e.wait = MinCycle /\ <<e>> \in Seq(Entry)
      /\ Entries(<<e>>) = {e} /\ DOMAIN <<e>> = {1} /\ <<e>>[1] = e
  BY <1>2, SchedulerAssumption DEF Entry, Entries
<1>4. heap' = heap \/ heap' = heap \o <<e>>
  <2>1. heap' = heap \/ heap' = Append(heap, e)
    BY DEF Reschedule, queue
  <2> QED BY <1>2, <1>3, <2>1, AppendIsConcat
<1> HIDE DEF e, u
<1>5. ASSUME NEW t PROVE Count(<<e>>, t) = IF t = u THEN 1 ELSE 0
  <2>1. Marks(<<e>>, t) = IF t = u THEN {1} ELSE {}
    BY <1>3 DEF Marks
  <2> QED BY <2>1, FS_EmptySet, FS_Singleton DEF Count
<1>6. ASSUME NEW t
      PROVE  /\ Count(heap, t) \in Nat /\ Count(heap', t) \in Nat
             /\ Count(heap', t) <= Count(heap, t) + IF t = u THEN 1 ELSE 0
  <2>1. Count(heap, t) \in Nat
    BY <1>2, MarksFinite
  <2>2. CASE heap' = heap
    BY <2>1, <2>2
  <2>3. CASE heap' = heap \o <<e>>
    <3>1. Count(heap', t) = Count(heap, t) + Count(<<e>>, t)
      BY <1>2, <1>3, <2>3, CountConcat
    <3> QED BY <1>5, <2>1, <3>1
  <2> QED BY <1>4, <2>2, <2>3
<1>7. ASSUME NEW t
      PROVE  Cardinality(Holders(t)')
               = Cardinality(Holders(t)) - IF t = u THEN 1 ELSE 0
  <2>1. /\ pc \in [Worker -> {"idle", "probing", "submitting"}]
        /\ job \in [Worker -> Target] /\ u = job[w]
    BY DEF u, IInv, TypeOK
  <2>2. CASE t = u
    <3>1. w \in Holders(t) /\ Holders(t)' = Holders(t) \ {w}
      BY <1>1, <1>2, <2>1, <2>2 DEF Holders, Busy
    <3> QED BY <2>2, <3>1, HoldersFinite, FS_RemoveElement
  <2>3. CASE t # u
    <3>1. Holders(t)' = Holders(t)
      BY <1>1, <2>1, <2>3 DEF Holders, Busy
    <3> QED BY <2>3, <3>1, HoldersFinite
  <2> QED BY <2>2, <2>3
<1>8. ASSUME NEW t \in Target PROVE (Tickets(t) <= joins[t])'
  <2>1. /\ Tickets(t) = Count(heap, t) + Cardinality(Holders(t))
        /\ Tickets(t)' = Count(heap', t) + Cardinality(Holders(t)')
        /\ Cardinality(Holders(t)) \in Nat
    BY TicketsAre, TicketsAreNext, HoldersFinite
  <2>2. Tickets(t)' <= Tickets(t) /\ Tickets(t) \in Int /\ Tickets(t)' \in Int
    <3>1. CASE t = u
      BY <3>1, <2>1, <1>6, <1>7
    <3>2. CASE t # u
      BY <3>2, <2>1, <1>6, <1>7
    <3> QED BY <3>1, <3>2
  <2>3. Tickets(t) <= joins[t] /\ joins[t] \in Nat
    BY DEF IInv, TypeOK, TicketInv, TicketsBounded
  <2> QED BY <1>1, <2>2, <2>3
<1>9. joins[u] >= 1
  <2>1. Cardinality(Holders(u)) >= 1
    BY <1>2, HolderCounts
  <2>2. Tickets(u) <= joins[u] /\ joins[u] \in Nat
    BY <1>2 DEF IInv, TypeOK, TicketInv, TicketsBounded
  <2> QED BY <1>6, <2>1, <2>2, HoldersFinite, TicketsAre
<1>10. ASSUME NEW d \in Entries(heap'), joins'[d.tid] <= 1
       PROVE  d.wait + rested'[d.tid] >= MinCycle
  <2>1. d \in Entries(heap) \/ d = e
    <3>1. CASE heap' = heap
      BY <3>1, <1>10
    <3>2. CASE heap' = heap \o <<e>>
      BY <3>2, <1>2, <1>3, <1>10, EntriesConcat
    <3> QED BY <1>4, <3>1, <3>2
  <2>2. rested \in [Target -> 0..MinCycle] /\ MinCycle \in Nat
    BY SchedulerAssumption DEF IInv, TypeOK
  <2>3. CASE d = e
    BY <1>1, <1>2, <1>3, <2>2, <2>3
  <2>4. CASE d \in Entries(heap)
    <3>1. d \in Entry
      BY <1>2, <2>4 DEF Entries
    <3>2. CASE d.tid = u
      <4>1. Count(heap, u) >= 1 /\ Cardinality(Holders(u)) >= 1
        BY <1>2, <2>4, <3>2, EntryCounts, HolderCounts
      <4>2. Tickets(u) <= joins[u] /\ joins[u] \in Nat
        BY <1>2 DEF IInv, TypeOK, TicketInv, TicketsBounded
      <4>3. joins[u] >= 2
        BY <1>6, <4>1, <4>2, HoldersFinite, TicketsAre
      <4> QED BY <1>1, <1>10, <3>2, <4>2, <4>3
    <3>3. CASE d.tid # u
      BY <1>1, <1>2, <1>10, <2>2, <2>4, <3>1, <3>3 DEF Entry, TicketInv, RestedInHeap
    <3> QED BY <3>2, <3>3
  <2> QED BY <2>1, <2>3, <2>4
<1>11. NewIsRested'
  BY <1>1, <1>2, <1>9 DEF TicketInv, NewIsRested, IInv, TypeOK
<1> QED BY <1>8, <1>10, <1>11 DEF TicketInv, TicketsBounded, RestedInHeap
LEMMA TickTickets == IInv /\ TicketInv /\ Tick => TicketInv'
<1> SUFFICES ASSUME IInv, TicketInv, Tick PROVE TicketInv'
  OBVIOUS
<1>1. /\ heap' = [i \in DOMAIN heap |->
                    [heap[i] EXCEPT !.wait = IF @ = 0 THEN 0 ELSE @ - 1]]
      /\ rested' = [t \in Target |->
                      IF rested[t] = MinCycle THEN MinCycle ELSE rested[t] + 1]
      /\ UNCHANGED <<pc, job, joins>>
  BY DEF Tick, workers
<1>2. heap \in Seq(Entry) /\ rested \in [Target -> 0..MinCycle] /\ MinCycle \in Nat
  BY SchedulerAssumption DEF IInv, TypeOK
<1>3. ASSUME NEW i \in DOMAIN heap
      PROVE  /\ heap[i] \in Entry /\ heap[i] \in Entries(heap)
             /\ heap'[i].tid = heap[i].tid
             /\ heap'[i].wait = IF heap[i].wait = 0 THEN 0 ELSE heap[i].wait - 1
  <2>1. heap[i] \in Entry
    BY <1>2
  <2>2. heap'[i] = [heap[i] EXCEPT !.wait = IF heap[i].wait = 0 THEN 0
                                            ELSE heap[i].wait - 1]
    BY <1>1
  <2> QED BY <2>1, <2>2 DEF Entry, Entries
<1>4. DOMAIN heap' = DOMAIN heap
  BY <1>1
<1>5. ASSUME NEW t \in Target PROVE (Tickets(t) <= joins[t])'
  <2>1. Marks(heap', t) = Marks(heap, t)
    BY <1>3, <1>4 DEF Marks
  <2>2. Holders(t)' = Holders(t)
    BY <1>1 DEF Holders, Busy
  <2>3. Tickets(t)' = Tickets(t)
    BY <2>1, <2>2, TicketsAre, TicketsAreNext DEF Count
  <2> QED BY <1>1, <2>3 DEF TicketInv, TicketsBounded
<1>6. ASSUME NEW d \in Entries(heap'), joins'[d.tid] <= 1
      PROVE  d.wait + rested'[d.tid] >= MinCycle
  <2>1. PICK i \in DOMAIN heap : d = heap'[i]
    BY <1>4, <1>6 DEF Entries
  <2>2. heap[i] \in Entry /\ heap[i] \in Entries(heap) /\ d.tid = heap[i].tid
        /\ d.wait = IF heap[i].wait = 0 THEN 0 ELSE heap[i].wait - 1
    BY <1>3, <2>1
  <2>3. heap[i].tid \in Target /\ heap[i].wait \in 0..MinCycle
    BY <2>2 DEF Entry
  <2>4. heap[i].wait + rested[d.tid] >= MinCycle
    BY <1>1, <1>6, <2>2 DEF TicketInv, RestedInHeap
  <2> QED BY <1>1, <1>2, <2>2, <2>3, <2>4
<1>7. NewIsRested'
  BY <1>1, <1>2 DEF TicketInv, NewIsRested
<1> QED BY <1>5, <1>6, <1>7 DEF TicketInv, TicketsBounded, RestedInHeap

(* A step that leaves the heap and the workers' targets alone. *)
LEMMA IdleTickets ==
  ASSUME TicketInv, UNCHANGED <<heap, job, rested, joins>>,
         \A w \in Worker : Busy(w)' = Busy(w)
  PROVE  TicketInv'
<1>1. ASSUME NEW t \in Target PROVE (Tickets(t) <= joins[t])'
  <2>1. Holders(t)' = Holders(t)
    BY DEF Holders
  <2>2. Tickets(t)' = Tickets(t)
    BY <2>1, TicketsAre, TicketsAreNext
  <2> QED BY <2>2 DEF TicketInv, TicketsBounded
<1> QED BY <1>1 DEF TicketInv, TicketsBounded, RestedInHeap, NewIsRested, Entries

LEMMA CrashTickets == Crash => TicketInv'
<1> SUFFICES ASSUME Crash PROVE TicketInv'
  OBVIOUS
<1>1. /\ heap' = <<>> /\ pc' = [w \in Worker |-> "idle"]
      /\ rested' = [t \in Target |-> MinCycle] /\ joins' = [t \in Target |-> 0]
  BY DEF Crash
<1>2. ASSUME NEW t \in Target PROVE (Tickets(t) <= joins[t])'
  <2>1. Holders(t)' = {} /\ Count(heap', t) = 0
    BY <1>1, EmptyHeap DEF Holders, Busy
  <2>2. Tickets(t)' = 0 + 0
    BY <2>1, TicketsAreNext, FS_EmptySet
  <2> QED BY <1>1, <2>2
<1>3. RestedInHeap'
  BY <1>1, EmptyHeap DEF RestedInHeap
<1>4. NewIsRested'
  BY <1>1 DEF NewIsRested
<1> QED BY <1>2, <1>3, <1>4 DEF TicketInv, TicketsBounded

LEMMA TicketStep == IInv /\ TicketInv /\ [Next]_vars => TicketInv'
<1> SUFFICES ASSUME IInv, TicketInv, [Next]_vars PROVE TicketInv'
  OBVIOUS
<1>1. ASSUME NEW t \in Target, ChangeActive(t) PROVE TicketInv'
  BY <1>1, IdleTickets DEF ChangeActive, queue, workers, history, Busy
<1>2. CASE Fetch
  BY <1>2, IdleTickets DEF Fetch, queue, workers, history, Busy
<1>3. CASE FetchFails
  BY <1>3, IdleTickets DEF FetchFails, queue, workers, history, Busy
<1>4. ASSUME NEW w \in Worker, FinishProbe(w) PROVE TicketInv'
  <2>1. \A v \in Worker : Busy(v)' = Busy(v)
    BY <1>4 DEF FinishProbe, Busy, IInv, TypeOK
  <2> QED BY <1>4, <2>1, IdleTickets DEF FinishProbe, queue, history
<1>5. CASE UNCHANGED vars
  BY <1>5, IdleTickets DEF vars, Busy
<1> QED
  BY <1>1, <1>2, <1>3, <1>4, <1>5, MergeTickets, TakeTickets, FindNoneTickets,
     RescheduleTickets, TickTickets, CrashTickets DEF Next

(* Only Take begins a probe. *)
LEMMA OnlyTakeBegins ==
  ASSUME IInv, [Next]_vars, NEW w \in Worker, NEW t \in Target, Begins(w, t)
  PROVE  Take(w)
<1>1. pc \in [Worker -> {"idle", "probing", "submitting"}]
      /\ pc[w] = "idle" /\ pc'[w] = "probing"
  BY DEF Begins, IInv, TypeOK
<1> USE DEF workers
<1>2. ASSUME NEW u \in Target, ChangeActive(u) PROVE FALSE
  BY <1>1, <1>2 DEF ChangeActive
<1>3. CASE Fetch
  BY <1>1, <1>3 DEF Fetch
<1>4. CASE Merge
  BY <1>1, <1>4 DEF Merge
<1>5. CASE FetchFails
  BY <1>1, <1>5 DEF FetchFails
<1>6. ASSUME NEW v \in Worker, FindNone(v) \/ FinishProbe(v) \/ Reschedule(v)
      PROVE  FALSE
  BY <1>1, <1>6 DEF FindNone, FinishProbe, Reschedule
<1>7. ASSUME NEW v \in Worker, Take(v) PROVE v = w
  BY <1>1, <1>7 DEF Take
<1>8. CASE Tick
  BY <1>1, <1>8 DEF Tick
<1>9. CASE Crash
  BY <1>1, <1>9 DEF Crash
<1>10. CASE UNCHANGED vars
  BY <1>1, <1>10 DEF vars
<1> QED BY <1>2, <1>3, <1>4, <1>5, <1>6, <1>7, <1>8, <1>9, <1>10 DEF Next

LEMMA TicketInvariant == Spec => []TicketInv
<1>1. TicketInv /\ IInv /\ [Next]_vars => TicketInv'
  BY TicketStep
<1> QED BY <1>1, TicketInit, Invariant, PTL DEF Spec

(* For any fleet, any pool of workers and any history of removals and       *)
(* returns, a target's entries in the heap and the workers busy with it     *)
(* never outnumber the times it has joined the list: the heap cannot grow   *)
(* with the refreshes, and only a return makes a second ticket.             *)
THEOREM NoExtraTickets == Spec => []TicketsBounded
<1>1. TicketInv => TicketsBounded
  BY DEF TicketInv
<1> QED BY <1>1, TicketInvariant, PTL

(* A target that has joined the list once is never begun by a worker before *)
(* it has rested the minimum cycle, nor while another worker probes it.     *)
THEOREM Rests == Spec => RestPeriod
<1>1. ASSUME IInv, TicketInv, [Next]_vars, NEW t \in Target, joins[t] <= 1
      PROVE  RestPeriodOf(t)
  <2> SUFFICES ASSUME NEW w \in Worker, Begins(w, t)
               PROVE  rested[t] = MinCycle /\ t \notin Probed
    BY DEF RestPeriodOf
  <2>1. Take(w)
    BY <1>1, OnlyTakeBegins
  <2> QED BY <1>1, <2>1, TakeTickets
<1>2. IInv /\ TicketInv /\ [Next]_vars
        => [\A t \in Target : joins[t] <= 1 => RestPeriodOf(t)]_vars
  BY <1>1
<1> QED BY <1>2, Invariant, TicketInvariant, PTL DEF Spec, RestPeriod
=============================================================================
