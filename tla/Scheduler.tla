------------------------------ MODULE Scheduler ------------------------------
(***************************************************************************)
(* The prober's scheduler (prober/app/scheduler.py): a fixed pool of       *)
(* workers drains a heap of (eligible_at, target) entries, puts a target   *)
(* back when it has been probed, and a refresh task follows the backend's  *)
(* list of active targets.                                                 *)
(*                                                                         *)
(* Time.  An entry holds the ticks left until it is eligible.  Entries are *)
(* pushed either eligible now or the whole minimum cycle from now, so the  *)
(* heap's order is kept by a sequence: an entry of the second kind goes to *)
(* its end, one of the first kind behind everything already eligible.      *)
(* Entries pushed in the same instant come in any order.                   *)
(*                                                                         *)
(* The asyncio lock is never held across an await: taking the next target, *)
(* rescheduling one and merging a refresh are one step each, and anything  *)
(* may happen while a probe runs, a result is submitted or the list is     *)
(* fetched.                                                                *)
(***************************************************************************)
EXTENDS Integers, Sequences, FiniteSets

CONSTANTS
  Target,      \* target ids
  Worker,      \* prober_concurrency workers
  MinCycle,    \* prober_min_cycle_seconds, in ticks
  MaxChanges,  \* bound: changes of the backend's list
  MaxCrashes   \* bound: crashes of the prober

ASSUME SchedulerAssumption ==
  /\ IsFiniteSet(Target) /\ IsFiniteSet(Worker)
  /\ MinCycle \in Nat \ {0}
  /\ MaxChanges \in Nat /\ MaxCrashes \in Nat

VARIABLES
  active,   \* the backend's active targets
  changes,  \* changes of that set so far
  crashes,  \* crashes of the prober so far
  started,  \* run has done its first refresh and created the tasks
  fetched,  \* an answer of get_targets on its way: a set of one answer, or {}
  targets,  \* _targets
  heap,     \* _heap, in the order it is popped
  queued,   \* _queued
  pc,       \* what each worker does
  job,      \* the target a worker is busy with
  rested,   \* history: ticks since the target was last put back, to MinCycle
  joins     \* history: times it was a new id of a refresh

backend == <<active, changes>>
queue == <<heap, queued>>
workers == <<pc, job>>
history == <<rested, joins>>
vars == <<active, changes, crashes, started, fetched, targets, heap, queued,
          pc, job, rested, joins>>

Entry == [tid : Target, wait : 0..MinCycle]

Tids(h) == {h[i].tid : i \in DOMAIN h}
Busy(w) == pc[w] # "idle"
Probed == {job[w] : w \in {v \in Worker : Busy(v)}}

Init ==
  /\ active \in SUBSET Target
  /\ changes = 0 /\ crashes = 0
  /\ started = FALSE
  /\ fetched = {}
  /\ targets = {} /\ heap = <<>> /\ queued = {}
  /\ pc = [w \in Worker |-> "idle"]
  /\ job \in [Worker -> Target]
  /\ rested = [t \in Target |-> MinCycle]
  /\ joins = [t \in Target |-> 0]

-----------------------------------------------------------------------------
(* An admin or a list sync changes which targets are active. *)
ChangeActive(t) ==
  /\ changes < MaxChanges
  /\ changes' = changes + 1
  /\ active' = IF t \in active THEN active \ {t} ELSE active \cup {t}
  /\ UNCHANGED <<crashes, started, fetched, targets, queue, workers, history>>

(* The backend answers get_targets ... *)
Fetch ==
  /\ fetched = {}
  /\ fetched' = {active}
  /\ UNCHANGED <<backend, crashes, started, targets, queue, workers, history>>

(* ... and _refresh_targets_once merges the answer.  New ids are eligible   *)
(* at once; a removed id leaves _queued, its entry stays in the heap.       *)
Orders(S) == {s \in [1..Cardinality(S) -> S] : \A t \in S : \E i \in DOMAIN s : s[i] = t}

Eligible(h) == {i \in DOMAIN h : h[i].wait = 0}

(* Pushes the targets of s, eligible now, behind the eligible entries of h. *)
PushNow(h, s) ==
  LET k == Cardinality(Eligible(h))
  IN  SubSeq(h, 1, k)
        \o [i \in 1..Len(s) |-> [tid |-> s[i], wait |-> 0]]
        \o SubSeq(h, k + 1, Len(h))

(* Mutants of Merge: new means not queued, which a target being probed is   *)
(* not either; ids the backend no longer lists stay; and a removed id stays *)
(* in _queued.                                                              *)
MergeUnqueued ==
  /\ \E remote \in fetched :
       LET new == remote \ queued
       IN  /\ targets' = remote
           /\ queued' = (queued \ (targets \ remote)) \cup new
           /\ \E s \in Orders(new) : heap' = PushNow(heap, s)
           /\ joins' = [t \in Target |->
                          IF t \in remote \ targets THEN joins[t] + 1 ELSE joins[t]]
  /\ fetched' = {}
  /\ started' = TRUE
  /\ UNCHANGED <<backend, crashes, workers, rested>>

MergeAddsOnly ==
  /\ \E remote \in fetched :
       LET new == remote \ targets
       IN  /\ targets' = targets \cup remote
           /\ queued' = queued \cup new
           /\ \E s \in Orders(new) : heap' = PushNow(heap, s)
           /\ joins' = [t \in Target |->
                          IF t \in new THEN joins[t] + 1 ELSE joins[t]]
  /\ fetched' = {}
  /\ started' = TRUE
  /\ UNCHANGED <<backend, crashes, workers, rested>>

MergeKeepsQueued ==
  /\ \E remote \in fetched :
       LET new == remote \ targets
       IN  /\ targets' = remote
           /\ queued' = queued \cup new
           /\ \E s \in Orders(new) : heap' = PushNow(heap, s)
           /\ joins' = [t \in Target |->
                          IF t \in new THEN joins[t] + 1 ELSE joins[t]]
  /\ fetched' = {}
  /\ started' = TRUE
  /\ UNCHANGED <<backend, crashes, workers, rested>>

Merge ==
  /\ \E remote \in fetched :
       LET new == remote \ targets
       IN  /\ targets' = remote
           /\ queued' = (queued \ (targets \ remote)) \cup new
           /\ \E s \in Orders(new) : heap' = PushNow(heap, s)
           /\ joins' = [t \in Target |->
                          IF t \in new THEN joins[t] + 1 ELSE joins[t]]
  /\ fetched' = {}
  /\ started' = TRUE
  /\ UNCHANGED <<backend, crashes, workers, rested>>

(* The request fails: logged by the refresh loop; before the first refresh  *)
(* it ends the prober, which is restarted and asks again.                   *)
FetchFails ==
  /\ fetched # {}
  /\ fetched' = {}
  /\ UNCHANGED <<backend, crashes, started, targets, queue, workers, history>>

-----------------------------------------------------------------------------
(* _next_ready: entries of targets that are gone are popped off the head,   *)
(* eligible or not, and then the head is taken if it is eligible.           *)
IsStalePrefix(k) ==
  /\ \A i \in 1..k : heap[i].tid \notin targets
  /\ k < Len(heap) => heap[k + 1].tid \in targets

Stale(k) == {heap[i].tid : i \in 1..k}

(* Mutant of Take: the target stays in _queued. *)
TakeQueued(w) ==
  /\ started /\ pc[w] = "idle"
  /\ \E k \in 0..(Len(heap) - 1) :
       /\ IsStalePrefix(k)
       /\ heap[k + 1].wait = 0
       /\ heap' = SubSeq(heap, k + 2, Len(heap))
       /\ queued' = queued \ Stale(k)
       /\ job' = [job EXCEPT ![w] = heap[k + 1].tid]
  /\ pc' = [pc EXCEPT ![w] = "probing"]
  /\ UNCHANGED <<backend, crashes, started, fetched, targets, history>>

Take(w) ==
  /\ started /\ pc[w] = "idle"
  /\ \E k \in 0..(Len(heap) - 1) :
       /\ IsStalePrefix(k)
       /\ heap[k + 1].wait = 0
       /\ heap' = SubSeq(heap, k + 2, Len(heap))
       /\ queued' = (queued \ Stale(k)) \ {heap[k + 1].tid}
       /\ job' = [job EXCEPT ![w] = heap[k + 1].tid]
  /\ pc' = [pc EXCEPT ![w] = "probing"]
  /\ UNCHANGED <<backend, crashes, started, fetched, targets, history>>

(* Nothing is ready: the worker drops what is stale and sleeps. *)
FindNone(w) ==
  /\ started /\ pc[w] = "idle"
  /\ \E k \in 1..Len(heap) :
       /\ IsStalePrefix(k)
       /\ k < Len(heap) => heap[k + 1].wait > 0
       /\ heap' = SubSeq(heap, k + 1, Len(heap))
       /\ queued' = queued \ Stale(k)
  /\ UNCHANGED <<backend, crashes, started, fetched, targets, workers, history>>

(* The strategy returns a result, good or failed. *)
FinishProbe(w) ==
  /\ pc[w] = "probing"
  /\ pc' = [pc EXCEPT ![w] = "submitting"]
  /\ UNCHANGED <<backend, crashes, started, fetched, targets, queue, job, history>>

(* Mutant of Reschedule: the target is eligible at once. *)
RescheduleNow(w) ==
  /\ pc[w] = "submitting"
  /\ pc' = [pc EXCEPT ![w] = "idle"]
  /\ IF job[w] \in targets /\ job[w] \notin queued
       THEN /\ heap' = PushNow(heap, <<job[w]>>)
            /\ queued' = queued \cup {job[w]}
       ELSE UNCHANGED queue
  /\ rested' = [rested EXCEPT ![job[w]] = 0]
  /\ UNCHANGED <<backend, crashes, started, fetched, targets, job, joins>>

(* submit_result returns or raises, and _reschedule puts the target back.   *)
Reschedule(w) ==
  /\ pc[w] = "submitting"
  /\ pc' = [pc EXCEPT ![w] = "idle"]
  /\ IF job[w] \in targets /\ job[w] \notin queued
       THEN /\ heap' = Append(heap, [tid |-> job[w], wait |-> MinCycle])
            /\ queued' = queued \cup {job[w]}
       ELSE UNCHANGED queue
  /\ rested' = [rested EXCEPT ![job[w]] = 0]
  /\ UNCHANGED <<backend, crashes, started, fetched, targets, job, joins>>

Tick ==
  /\ \/ \E i \in DOMAIN heap : heap[i].wait > 0
     \/ \E t \in Target : rested[t] < MinCycle
  /\ heap' = [i \in DOMAIN heap |->
                [heap[i] EXCEPT !.wait = IF @ = 0 THEN 0 ELSE @ - 1]]
  /\ rested' = [t \in Target |->
                  IF rested[t] = MinCycle THEN MinCycle ELSE rested[t] + 1]
  /\ UNCHANGED <<backend, crashes, started, fetched, targets, queued, workers, joins>>

(* The prober dies: a worker's exception ends gather, and with it the       *)
(* process; a new one starts from nothing.                                  *)
Crash ==
  /\ crashes < MaxCrashes
  /\ crashes' = crashes + 1
  /\ started' = FALSE /\ fetched' = {}
  /\ targets' = {} /\ heap' = <<>> /\ queued' = {}
  /\ pc' = [w \in Worker |-> "idle"]
  /\ rested' = [t \in Target |-> MinCycle]
  /\ joins' = [t \in Target |-> 0]
  /\ UNCHANGED <<backend, job>>

Next ==
  \/ \E t \in Target : ChangeActive(t)
  \/ Fetch \/ Merge \/ FetchFails
  \/ \E w \in Worker : Take(w) \/ FindNone(w) \/ FinishProbe(w) \/ Reschedule(w)
  \/ Tick \/ Crash

(* Every worker polls, every probe ends (both strategies kill their process *)
(* after prober_run_timeout_seconds), a submission times out at worst, the  *)
(* refresh loop keeps asking and is answered again and again, and time      *)
(* passes.                                                                  *)
Fairness ==
  /\ WF_vars(Fetch) /\ SF_vars(Merge) /\ WF_vars(Tick)
  /\ \A w \in Worker :
       WF_vars(Take(w)) /\ WF_vars(FinishProbe(w)) /\ WF_vars(Reschedule(w))

Spec == Init /\ [][Next]_vars /\ Fairness

-----------------------------------------------------------------------------
(* Types, and that only listed targets count as queued: an id in _queued is *)
(* one _reschedule does not push, so it must leave with its target.         *)
TypeOK ==
  /\ active \subseteq Target /\ targets \subseteq Target
  /\ queued \subseteq targets
  /\ changes \in Nat /\ crashes \in Nat
  /\ started \in BOOLEAN
  /\ fetched \subseteq SUBSET Target
  /\ heap \in Seq(Entry)
  /\ pc \in [Worker -> {"idle", "probing", "submitting"}]
  /\ job \in [Worker -> Target]
  /\ rested \in [Target -> 0..MinCycle]
  /\ joins \in [Target -> Nat]

(* A target is never dropped: as long as it is in the prober's list, it is  *)
(* in the heap or some worker is busy with it, through removals, returns    *)
(* and refreshes in the middle of its probe.  (_reschedule does not push a  *)
(* queued target: being queued must mean there is an entry for it.)         *)
NoLostTarget == targets \subseteq Tids(heap) \cup Probed

(* The tickets of a target, its entries in the heap and the workers busy    *)
(* with it, never outnumber the times it has joined the list: the fleet's   *)
(* size bounds the heap, and only a return makes a second ticket.           *)
Tickets(t) ==
  Cardinality({i \in DOMAIN heap : heap[i].tid = t})
    + Cardinality({w \in Worker : Busy(w) /\ job[w] = t})
TicketsBounded == \A t \in Target : Tickets(t) <= joins[t]

(* A target that has only joined once rests MinCycle between the end of a   *)
(* probe and the next, and is never probed by two workers at once.          *)
Begins(w, t) == pc[w] = "idle" /\ pc'[w] = "probing" /\ job'[w] = t
RestPeriodOf(t) ==
  \A w \in Worker : Begins(w, t) => rested[t] = MinCycle /\ t \notin Probed
RestPeriod == [][\A t \in Target : joins[t] <= 1 => RestPeriodOf(t)]_vars

(* Every target that stays active is probed again and again, however many   *)
(* others there are for the workers.                                        *)
ProbedForever ==
  \A t \in Target : <>[](t \in active) => []<>(t \in Probed)

(* A target that stays inactive is left alone in the end. *)
LeftAlone ==
  \A t \in Target : <>[](t \notin active) => <>[](t \notin Probed)
=============================================================================
