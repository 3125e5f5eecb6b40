------------------------------ MODULE TraceStore ------------------------------
(***************************************************************************)
(* The runs the backend keeps, trace_runs with their trace_hops: how       *)
(* results come in (prober/app/scheduler.py, api/prober.py), how old ones  *)
(* go (services/retention.py), what a recompute reads of them              *)
(* (tree_builder.load_target_traces, two queries per target), and the      *)
(* history the detail panel shows (api/tree.py).                           *)
(*                                                                         *)
(* A run is known by its target and the time it started, which is the      *)
(* prober's clock; two probes of one target never start in one tick.       *)
(* Deleting a run takes its hops with it (ON DELETE CASCADE), so a run     *)
(* here holds its hops.                                                    *)
(***************************************************************************)
EXTENDS ProbeParsers, FiniteSets, FiniteSetsExt

CONSTANTS
  Target,     \* targets
  Traces,     \* what scamper may print
  Gateway,    \* the container's gateway, NoAddr if it is not to be filtered
  Keep,       \* trace_retention_hours, in ticks
  BatchSize,  \* _BATCH_SIZE
  MaxTime,    \* bound: ticks
  MaxProbes   \* bound: probes under way

(* CAST(hop_ip AS VARCHAR) of a stored INET: the address with its mask. *)
CastText(ip) == <<ip, "/32">>

ASSUME StoreAssumption ==
  /\ \A ip \in Addr \cup {NoAddr} : CastText(ip) \notin Addr
  /\ Traces \subseteq TraceRecord
  /\ Gateway \in Addr \cup {NoAddr}
  /\ Keep \in Nat /\ BatchSize \in Nat \ {0}
  /\ MaxTime \in Nat /\ MaxProbes \in Nat

VARIABLES
  now,      \* the time
  probes,   \* probes under way: [target, started]
  runs,     \* trace_runs
  sweep,    \* the cutoff of a retention sweep under way: a set of one, or {}
  reading,  \* latest_run of a load whose hops are still to be read, or {}
  view,     \* the hops of each target, as last loaded
  stored,   \* history: every run that was ever stored
  last,     \* history: the run of each target that was stored last, or {}
  crossed   \* history: targets of which two probes were under way at once

history == <<stored, last, crossed>>
vars == <<now, probes, runs, sweep, reading, view, stored, last, crossed>>

Init ==
  /\ now = 0
  /\ probes = {} /\ runs = {} /\ sweep = {} /\ reading = {}
  /\ view = [t \in Target |-> <<>>]
  /\ stored = {} /\ last = [t \in Target |-> {}] /\ crossed = {}

-----------------------------------------------------------------------------
(* A worker starts to probe t, and takes the time. *)
StartProbe(t) ==
  LET p == [target |-> t, started |-> now]
  IN  /\ Cardinality(probes) < MaxProbes
      /\ \A q \in probes \cup stored : <<q.target, q.started>> # <<t, now>>
      /\ probes' = probes \cup {p}
      /\ crossed' = IF \E q \in probes : q.target = t THEN crossed \cup {t} ELSE crossed
      /\ UNCHANGED <<now, runs, sweep, reading, view, stored, last>>

(* The probe ends and its result is stored, the run and its hops in one     *)
(* transaction ...                                                          *)
Submit(p) ==
  \E result \in {Failed} \cup {Traced(trace, Gateway) : trace \in Traces} :
    LET run == [target |-> p.target, started |-> p.started,
                success |-> result.success, hops |-> result.hops]
    IN  /\ probes' = probes \ {p}
        /\ runs' = runs \cup {run}
        /\ stored' = stored \cup {run}
        /\ last' = [last EXCEPT ![p.target] = {run}]
        /\ UNCHANGED <<now, sweep, reading, view, crossed>>

(* ... or is dropped: the target is gone or inactive, the request fails, or *)
(* the prober is stopped.                                                   *)
Drop(p) ==
  /\ probes' = probes \ {p}
  /\ UNCHANGED <<now, runs, sweep, reading, view, history>>

-----------------------------------------------------------------------------
(* prune_old_traces: the cutoff is computed once ... *)
BeginSweep ==
  /\ sweep = {}
  /\ sweep' = {now - Keep}
  /\ UNCHANGED <<now, probes, runs, reading, view, history>>

(* Mutants of Expired: the wrong way round, and one tick too many. *)
Younger(cutoff) == {r \in runs : r.started > cutoff}
ExpiredAtCutoff(cutoff) == {r \in runs : r.started <= cutoff}

Expired(cutoff) == {r \in runs : r.started < cutoff}

(* ... and batches of any expired runs are deleted, each in a transaction   *)
(* of its own, until one is not full.                                       *)
PruneBatch ==
  \E cutoff \in sweep :
    LET size == Min({BatchSize, Cardinality(Expired(cutoff))})
    IN  /\ \E batch \in kSubset(size, Expired(cutoff)) : runs' = runs \ batch
        /\ sweep' = IF size < BatchSize THEN {} ELSE sweep
        /\ UNCHANGED <<now, probes, reading, view, history>>

(* A batch fails: retention_loop logs it, and sweeps again in its interval.  *)
FailSweep ==
  /\ sweep # {}
  /\ sweep' = {}
  /\ UNCHANGED <<now, probes, runs, reading, view, history>>

-----------------------------------------------------------------------------
RunsOf(t) == {r \in runs : r.target = t}

(* Mutant of Newest: the order the other way round. *)
Oldest(t) == {r \in RunsOf(t) : \A q \in RunsOf(t) : q.started >= r.started}

(* ORDER BY started_at DESC LIMIT 1 *)
Newest(t) == {r \in RunsOf(t) : \A q \in RunsOf(t) : q.started <= r.started}

(* load_target_traces, for one target: a query for its latest run, if any ... *)
ReadRun(t) ==
  /\ reading = {}
  /\ reading' = Newest(t)
  /\ view' = IF reading' = {} THEN [view EXCEPT ![t] = <<>>] ELSE view
  /\ UNCHANGED <<now, probes, runs, sweep, history>>

(* ... and another one for the hops of that run, if it is still there. *)
ReadHops ==
  \E r \in reading :
    /\ view' = [view EXCEPT ![r.target] = IF r \in runs THEN r.hops ELSE <<>>]
    /\ reading' = {}
    /\ UNCHANGED <<now, probes, runs, sweep, history>>

Tick ==
  /\ now < MaxTime
  /\ now' = now + 1
  /\ UNCHANGED <<probes, runs, sweep, reading, view, history>>

-----------------------------------------------------------------------------
(* get_target_history, and get_node_history of a leaf: the last hop of each *)
(* run since the cutoff that has any.                                       *)
TargetHistory(t, cutoff) ==
  {<<r.started, Last(r.hops)>> : r \in {q \in RunsOf(t) : q.hops # <<>> /\ q.started >= cutoff}}

(* get_node_history of a shared hop: the hops of all runs whose text is     *)
(* that of one of the node's addresses, the worst loss of each time.        *)
(* Addresses are searched without the mask their text has, so there are     *)
(* none (NoNodeHistory in TraceStore_proofs).                               *)
HopsAt(ips, time) ==
  {h \in UNION {Range(r.hops) : r \in {q \in runs : q.started = time}} :
     CastText(h.hop_ip) \in ips}

NodeHistory(ips, cutoff) ==
  {<<time, Max({h.loss_pct : h \in HopsAt(ips, time)})>> :
     time \in {s \in cutoff..now : HopsAt(ips, s) # {}}}

Next ==
  \/ \E t \in Target : StartProbe(t) \/ ReadRun(t)
  \/ \E p \in probes : Submit(p) \/ Drop(p)
  \/ BeginSweep \/ PruneBatch \/ FailSweep
  \/ ReadHops
  \/ Tick

(* The sweeps go on at their interval, and not every batch fails.           *)
Fairness == WF_vars(BeginSweep) /\ SF_vars(PruneBatch)

Spec == Init /\ [][Next]_vars /\ Fairness

-----------------------------------------------------------------------------
(* The history of a target, and of the leaf that stands for it, over any    *)
(* time the retention covers, is that of every result that ever came in     *)
(* with a hop, whenever the sweeps run, however long they take and in       *)
(* however many batches: no gap looks like a target that was not probed.    *)
HistoryComplete ==
  \A t \in Target, cutoff \in (now - Keep)..now :
    TargetHistory(t, cutoff) =
      {<<r.started, Last(r.hops)>> :
         r \in {q \in stored : q.target = t /\ q.hops # <<>> /\ q.started >= cutoff}}

(* The run a load takes for a target is the one that was stored last, as    *)
(* TreeService's trace has it, unless two workers probed the target at once *)
(* (see Scheduler: a target with two entries).                              *)
LastResultWins ==
  \A t \in Target \ crossed : last[t] \subseteq runs => Newest(t) = last[t]

(* A load finds a target that had hops without any only if the probe it     *)
(* looked at had none or if all it has is older than the retention: what    *)
(* the sweeps delete between the two queries is not mistaken for an outage. *)
NoSpuriousOutage ==
  [][\A t \in Target :
       view[t] # <<>> /\ view'[t] = <<>> =>
         \A r \in IF reading = {} THEN {q \in stored : q.target = t} ELSE reading :
           r.hops = <<>> \/ r.started < now - Keep]_vars

(* What is older than the retention goes, though batches fail and fill up.   *)
OldRunsGo == \A t \in Target, s \in 0..MaxTime :
  (\E r \in runs : r.target = t /\ r.started = s /\ s < now - Keep)
    ~> (\A r \in runs : r.target # t \/ r.started # s)

(* A run that failed has no hops, and one that did not has those that were   *)
(* on its way, whatever scamper prints and however often TTLs are answered   *)
(* (see HopsTell).                                                          *)
EveryRecordTells ==
  \A trace \in Record(3, 3), gateway \in Addr \cup {NoAddr} : HopsTell(trace, gateway)

HopsFaithful == EveryRecordTells /\ \A r \in stored : r.success \/ r.hops = <<>>
=============================================================================
