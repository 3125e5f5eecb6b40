----------------------------- MODULE TreeService -----------------------------
(***************************************************************************)
(* The live tree the backend keeps (services/tree_service.py), fed by the  *)
(* handlers and background tasks that change what is stored about targets. *)
(*                                                                         *)
(* One debounce loop waits for an asyncio.Event, sleeps, reads every       *)
(* active target's latest trace with one query per target, and publishes a *)
(* new tree: what the traces show now, plus the "ghosts" of what an        *)
(* earlier tree showed and the fade window has not let go of yet.          *)
(*                                                                         *)
(* Abstractions.  A node's id is a hash of its path, so its parent and its *)
(* path are functions of the id (Parent, Path).  A trace is where it ends  *)
(* and how bad its last hop is; what tree_builder.py does to get there is  *)
(* module TreeBuilder's subject.  A target without a run is one more place *)
(* a trace may end (its synthetic leaf below the root).  Hop names, ASNs   *)
(* and averages are data that travels with the severities.                 *)
(***************************************************************************)
EXTENDS Integers, FiniteSets

CONSTANTS
  Target,       \* targets the database knows
  Node,         \* node ids
  Root,         \* ROOT_ID
  Parent,       \* the parent of every other node
  Path,         \* the ids on the way from the root to a node, both included
  Place,        \* where a trace may end
  Severity,     \* _SEVERITY_RANK: 0 unknown, 1 ok, 2 warn, 3 critical
  FadeWindow,   \* settings.path_fade_hours, in ticks of the clock
  MaxNow,       \* bound: ticks of the clock
  MaxWrites,    \* bound: changes to what is stored
  MaxFailures   \* bound: recomputes that raise, and crashes

ASSUME TreeAssumption ==
  /\ Root \in Node
  /\ Place \subseteq Node
  /\ Parent \in [Node \ {Root} -> Node]
  /\ Path \in [Node -> SUBSET Node]
  /\ \A n \in Node :
       /\ {n, Root} \subseteq Path[n]
       /\ \A m \in Path[n] \ {Root} : Parent[m] \in Path[n]

ASSUME DataAssumption ==
  /\ Severity \subseteq 0..3
  /\ FadeWindow \in Nat
  /\ MaxNow \in Nat /\ MaxWrites \in Nat /\ MaxFailures \in Nat

VARIABLES
  active,    \* the targets with active = true
  trace,     \* every target's latest trace
  writes,    \* changes so far
  posted,    \* handlers that committed and have not called request_recompute yet
  needed,    \* _recompute_needed
  loop,      \* where debounce_loop stands
  unread,    \* active targets load_target_traces has still to query
  loaded,    \* the traces it has read
  nodes,     \* _nodes
  seq,       \* _seq
  now,       \* the wall clock
  failures,  \* recomputes that raised, and crashes
  missed     \* history: a change was stored that no request stands for

stored == <<active, trace, writes>>
reading == <<unread, loaded>>
tree == <<nodes, seq>>
serviceVars ==
  <<active, trace, writes, posted, needed, loop, unread, loaded, nodes, seq,
    now, failures, missed>>

Trace == [at : Place, sev : Severity]

-----------------------------------------------------------------------------
(* build_tree, over the targets in act *)

Worst(sevs) == IF sevs = {} THEN 0 ELSE CHOOSE s \in sevs : \A r \in sevs : r <= s

EndsAt(tr, n) == {t \in DOMAIN tr : tr[t].at = n}
Through(tr, n) == {t \in DOMAIN tr : n \in Path[tr[t].at]}

(* Mutant of Build: only the last hop of a trace gets a node. *)
BuildLastHops(tr) ==
  [n \in {Root} \cup {tr[t].at : t \in DOMAIN tr} |->
     [own     |-> Worst({tr[t].sev : t \in EndsAt(tr, n)}),
      worst   |-> Worst({tr[t].sev : t \in Through(tr, n)}),
      targets |-> EndsAt(tr, n)]]

Build(tr) ==
  [n \in {Root} \cup UNION {Path[tr[t].at] : t \in DOMAIN tr} |->
     [own     |-> Worst({tr[t].sev : t \in EndsAt(tr, n)}),
      worst   |-> Worst({tr[t].sev : t \in Through(tr, n)}),
      targets |-> EndsAt(tr, n)]]

(* The merge of a build with the tree it replaces: entries of the build are *)
(* current and stamped, and a node it lacks stays as a ghost with its old   *)
(* stamp while that is younger than the fade window.                        *)
Ghosts(built, old, at) ==
  {n \in DOMAIN old \ DOMAIN built : at - old[n].seen < FadeWindow}

(* Mutant of Merge: a node keeps the stamp of when it was first seen. *)
MergeFirstSeen(built, old, at) ==
  [n \in DOMAIN built \cup Ghosts(built, old, at) |->
     IF n \in DOMAIN built
       THEN [body |-> built[n], current |-> TRUE,
             seen |-> IF n \in DOMAIN old THEN old[n].seen ELSE at]
       ELSE [old[n] EXCEPT !.current = FALSE]]

Merge(built, old, at) ==
  [n \in DOMAIN built \cup Ghosts(built, old, at) |->
     IF n \in DOMAIN built
       THEN [body |-> built[n], current |-> TRUE, seen |-> at]
       ELSE [old[n] EXCEPT !.current = FALSE]]

(* NodeStatsUpdate: what an update carries (not which targets end there). *)
Update(e) == [own |-> e.body.own, worst |-> e.body.worst,
              current |-> e.current, seen |-> e.seen]

(* The fields _recompute compares to decide that a node was updated. *)
Differs(e, f) ==
  \/ e.body.own # f.body.own
  \/ e.body.worst # f.body.worst
  \/ e.current # f.current

Updated(old, new) ==
  {n \in DOMAIN new \cap DOMAIN old : Differs(old[n], new[n])}

Diff(old, new) ==
  [added   |-> [n \in DOMAIN new \ DOMAIN old |-> new[n]],
   updated |-> [n \in Updated(old, new) |-> Update(new[n])],
   removed |-> DOMAIN old \ DOMAIN new]

IsEmpty(d) == DOMAIN d.added = {} /\ DOMAIN d.updated = {} /\ d.removed = {}

-----------------------------------------------------------------------------
Init ==
  /\ active \in SUBSET Target
  /\ trace \in [Target -> Trace]
  /\ writes = 0
  /\ posted = 0
  /\ needed = FALSE
  /\ loop = "due"
  /\ unread = {} /\ loaded = <<>>
  /\ nodes = <<>> /\ seq = 0
  /\ now = 0
  /\ failures = 0
  /\ missed = FALSE

Store ==
  /\ writes < MaxWrites
  /\ writes' = writes + 1
  /\ UNCHANGED <<needed, loop, reading, tree, now, failures>>

(* submit_result up to its commit.  The run it inserts may have started     *)
(* before the one already stored, and the latest trace is then unchanged.   *)
SubmitResult(t, r) ==
  /\ t \in active
  /\ Store
  /\ trace' = [trace EXCEPT ![t] = r]
  /\ posted' = posted + 1
  /\ UNCHANGED <<active, missed>>

(* An admin endpoint (de)activates a target: up to its commit. *)
ChangeTarget(t) ==
  /\ Store
  /\ active' = IF t \in active THEN active \ {t} ELSE active \cup {t}
  /\ posted' = posted + 1
  /\ UNCHANGED <<trace, missed>>

(* sync_loop (de)activates a target, and asks for no recompute. *)
BackgroundSync(t) ==
  /\ Store
  /\ active' = IF t \in active THEN active \ {t} ELSE active \cup {t}
  /\ missed' = TRUE
  /\ UNCHANGED <<trace, posted>>

(* Mutant of RequestRecompute: it only wakes a loop that is waiting.        *)
RequestIfWaiting ==
  /\ posted > 0
  /\ posted' = posted - 1
  /\ needed' = (needed \/ loop = "waiting")
  /\ UNCHANGED <<stored, loop, reading, tree, now, failures, missed>>

(* The tail of those handlers, once their commit has returned. *)
RequestRecompute ==
  /\ posted > 0
  /\ posted' = posted - 1
  /\ needed' = TRUE
  /\ UNCHANGED <<stored, loop, reading, tree, now, failures, missed>>

Wake ==
  /\ loop = "waiting" /\ needed
  /\ needed' = FALSE
  /\ loop' = "sleeping"
  /\ UNCHANGED <<stored, posted, reading, tree, now, failures, missed>>

EndSleep ==
  /\ loop = "sleeping"
  /\ needed' = FALSE
  /\ loop' = "due"
  /\ UNCHANGED <<stored, posted, reading, tree, now, failures, missed>>

(* load_target_traces: which targets are active ... *)
ReadTargets ==
  /\ loop = "due"
  /\ loop' = "reading"
  /\ unread' = active /\ loaded' = <<>>
  /\ missed' = FALSE
  /\ UNCHANGED <<stored, posted, needed, tree, now, failures>>

(* ... and then each one's latest run, in a query of its own. *)
ReadTrace(t) ==
  /\ loop = "reading" /\ t \in unread
  /\ unread' = unread \ {t}
  /\ loaded' = [u \in DOMAIN loaded \cup {t} |->
                  IF u = t THEN trace[t] ELSE loaded[u]]
  /\ UNCHANGED <<stored, posted, needed, loop, tree, now, failures, missed>>

(* The rest of _recompute, under the lock.  The loop goes on to broadcast a *)
(* diff that is not empty.                                                  *)
NewNodes == Merge(Build(loaded), nodes, now)

(* Mutants of Publish: the tree that primes the service is no change, and   *)
(* the event is cleared after the recompute.                                *)
PublishUncounted ==
  /\ loop = "reading" /\ unread = {}
  /\ nodes' = NewNodes
  /\ IF nodes = <<>> \/ IsEmpty(Diff(nodes, NewNodes))
       THEN seq' = seq /\ loop' = "waiting"
       ELSE seq' = seq + 1 /\ loop' = "sending"
  /\ loaded' = <<>>
  /\ UNCHANGED <<stored, posted, needed, unread, now, failures, missed>>

PublishThenClear ==
  /\ loop = "reading" /\ unread = {}
  /\ nodes' = NewNodes
  /\ IF IsEmpty(Diff(nodes, NewNodes))
       THEN seq' = seq /\ loop' = "waiting"
       ELSE seq' = seq + 1 /\ loop' = "sending"
  /\ loaded' = <<>>
  /\ needed' = FALSE
  /\ UNCHANGED <<stored, posted, unread, now, failures, missed>>

Publish ==
  /\ loop = "reading" /\ unread = {}
  /\ nodes' = NewNodes
  /\ IF IsEmpty(Diff(nodes, NewNodes))
       THEN seq' = seq /\ loop' = "waiting"
       ELSE seq' = seq + 1 /\ loop' = "sending"
  /\ loaded' = <<>>
  /\ UNCHANGED <<stored, posted, needed, unread, now, failures, missed>>

EndBroadcast ==
  /\ loop = "sending"
  /\ loop' = "waiting"
  /\ UNCHANGED <<stored, posted, needed, reading, tree, now, failures, missed>>

(* A query or a lookup raises: logged, and the request is spent. *)
FailRecompute ==
  /\ loop \in {"due", "reading"} /\ failures < MaxFailures
  /\ failures' = failures + 1
  /\ loop' = "waiting"
  /\ unread' = {} /\ loaded' = <<>>
  /\ missed' = TRUE
  /\ UNCHANGED <<stored, posted, needed, tree, now>>

(* The backend dies and comes back: all it kept in memory is gone, and the  *)
(* new process primes the tree.  Handlers past their commit die with it.    *)
Restart ==
  /\ failures < MaxFailures
  /\ failures' = failures + 1
  /\ posted' = 0 /\ needed' = FALSE /\ loop' = "due"
  /\ unread' = {} /\ loaded' = <<>>
  /\ nodes' = <<>> /\ seq' = 0
  /\ UNCHANGED <<stored, now, missed>>

Tick ==
  /\ now < MaxNow
  /\ now' = now + 1
  /\ UNCHANGED <<stored, posted, needed, loop, reading, tree, failures, missed>>

Change ==
  \E t \in Target :
    \/ \E r \in Trace : SubmitResult(t, r)
    \/ ChangeTarget(t)
    \/ BackgroundSync(t)

LoopStep ==
  \/ Wake
  \/ EndSleep
  \/ ReadTargets
  \/ \E t \in Target : ReadTrace(t)
  \/ Publish
  \/ EndBroadcast

Next ==
  \/ Change
  \/ RequestRecompute
  \/ LoopStep
  \/ FailRecompute
  \/ Restart
  \/ Tick

(* The event loop runs a task that can run, and the database answers: the   *)
(* debounce loop and a handler past its commit keep going.  Nobody owes a   *)
(* write, a failure or a tick.                                              *)
Fairness == WF_serviceVars(LoopStep) /\ WF_serviceVars(RequestRecompute)

Spec == Init /\ [][Next]_serviceVars /\ Fairness

-----------------------------------------------------------------------------
Entry ==
  [body : [own : 0..3, worst : 0..3, targets : SUBSET Target],
   current : BOOLEAN, seen : 0..MaxNow]

(* Types, and that seq 0 stands for the empty tree of a process that has    *)
(* published nothing, and for no other: the tree that primes the service    *)
(* is a change like any other, and no tree is ever emptied again.           *)
TypeOK ==
  /\ active \subseteq Target
  /\ trace \in [Target -> Trace]
  /\ writes \in 0..MaxWrites /\ failures \in 0..MaxFailures
  /\ posted \in Nat
  /\ needed \in BOOLEAN /\ missed \in BOOLEAN
  /\ loop \in {"waiting", "sleeping", "due", "reading", "sending"}
  /\ unread \subseteq Target
  /\ DOMAIN loaded \subseteq Target
  /\ loaded \in [DOMAIN loaded -> Trace]
  /\ DOMAIN nodes \subseteq Node
  /\ nodes \in [DOMAIN nodes -> Entry]
  /\ seq \in Nat /\ now \in 0..MaxNow
  /\ seq = 0 <=> DOMAIN nodes = {}

(* Every node of the tree, ghosts included, hangs from a node of the tree:  *)
(* _recompute drops ghosts one by one, by their own stamps, and never looks *)
(* at what hangs below them.                                                *)
ParentClosed ==
  \A n \in DOMAIN nodes \ {Root} : Parent[n] \in DOMAIN nodes

(* A current node's parent is current: what filterToCurrent                 *)
(* (components/tree/layout.ts) relies on to drop ghosts without orphaning a *)
(* live node.                                                               *)
CurrentParents ==
  \A n \in DOMAIN nodes \ {Root} :
    nodes[n].current =>
      /\ Parent[n] \in DOMAIN nodes
      /\ nodes[Parent[n]].current

(* What the tree says is going on now. *)
Live == [n \in {m \in DOMAIN nodes : nodes[m].current} |-> nodes[n].body]

UpToDate == Live = Build([t \in active |-> trace[t]])

(* No wakeup is lost: when the debounce loop sleeps on an event nobody is   *)
(* about to set, the tree shows exactly what is stored, although the loop   *)
(* clears the event twice, and reads the traces one by one while handlers   *)
(* commit more.                                                             *)
Idle == loop \in {"waiting", "sending"} /\ ~needed /\ posted = 0
NoLostUpdate == Idle /\ ~missed => UpToDate

(* What a diff tells of an entry: everything a tab draws of a node except   *)
(* which targets end there (target_ids, is_leaf_target), which neither the  *)
(* comparison nor the update looks at; that gap is TreeFeed's LeafTargets.  *)
(* A current node's stamp moves with every recompute and is not sent.       *)
Look(e) == [own |-> e.body.own, worst |-> e.body.worst, current |-> e.current,
            seen |-> IF e.current THEN 0 ELSE e.seen]
Shown(tr) == [n \in DOMAIN tr |-> Look(tr[n])]

(* When writes stop, the tree comes to show what is stored and stays so,    *)
(* unless the last change was one nobody asked a recompute for, or the      *)
(* recompute for it raised (both are never retried).                        *)
Freshness == <>[](missed \/ UpToDate)
=============================================================================
