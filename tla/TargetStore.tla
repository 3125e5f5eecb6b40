----------------------------- MODULE TargetStore -----------------------------
(***************************************************************************)
(* Which targets are active, and why: the tables targets, target_sources   *)
(* and target_lists under the admin endpoints (api/admin_targets.py,       *)
(* api/admin_target_lists.py) and the sync of target lists                 *)
(* (services/target_list_sync.py), which run in transactions of their own. *)
(*                                                                         *)
(* The database.  PostgreSQL at READ COMMITTED: a statement sees what is   *)
(* committed when it runs and the transaction's own writes.  A written row *)
(* is locked until its transaction ends, and who wants to write it waits.  *)
(* The ORM keeps a target as it first loaded it (seen), and writes its     *)
(* flag only if it changed.  A step is a group of statements about one     *)
(* target.  A unique violation ends a transaction like any other error of  *)
(* the database (Fail).                                                    *)
(***************************************************************************)
EXTENDS Integers, FiniteSets

CONSTANTS
  Address,      \* targets, by address
  Like,         \* the addresses an address matches as an ILIKE pattern
  List,         \* target lists
  Manual,       \* rows of target_sources with type 'manual'
  Request,      \* admin requests that may be under way at once
  Loop,         \* the task of sync_loop
  MaxRequests,  \* bound: requests, and changes of what a list's URL serves
  MaxFailures   \* bound: transactions that fail

Proc == Request \cup {Loop}

ASSUME StoreAssumption ==
  /\ Like \in [Address -> SUBSET Address]
  /\ \A a \in Address : a \in Like[a]
  /\ List \cap Manual = {}
  /\ Loop \notin Request
  /\ MaxRequests \in Nat /\ MaxFailures \in Nat

VARIABLES
  rows,       \* per address, its row's active flag: "none", "on" or "off"
  sources,    \* target_sources: <<address, list or manual row>>
  lists,      \* target_lists
  enabled,    \* the lists with active = true
  content,    \* what each list's URL serves
  due,        \* lists the sweep has still to sync
  pc,         \* what each process does
  job,        \* the list it works on
  body,       \* the addresses it has fetched
  todo,       \* the addresses it has still to look at
  seen,       \* the targets it has loaded, as they were then
  sets,       \* uncommitted: active flags (of new rows too)
  adds,       \* uncommitted: new sources
  dels,       \* uncommitted: deleted sources
  requests,   \* requests and changes so far
  failures,   \* failed transactions so far
  patched,    \* history: targets an admin has (de)activated by hand
  overlapped  \* history: two transactions were open at once

tables == <<rows, sources, lists, enabled>>
buffers == <<seen, sets, adds, dels>>
bounds == <<requests, failures>>
history == <<patched, overlapped>>
vars == <<tables, content, due, pc, job, body, todo, buffers, bounds, history>>

Source == Address \X (List \cup Manual)
Open(p) == pc[p] \in {"adding", "pruning", "checking", "deleting", "committing"}
Without(f, p) == [f EXCEPT ![p] = {}]

Init ==
  /\ rows = [a \in Address |-> "none"]
  /\ sources = {} /\ lists = {} /\ enabled = {}
  /\ content \in [List -> SUBSET Address]
  /\ due = {}
  /\ pc = [p \in Proc |-> "idle"]
  /\ job = [p \in Proc |-> "none"]
  /\ body = [p \in Proc |-> {}] /\ todo = [p \in Proc |-> {}]
  /\ seen = [p \in Proc |-> <<>>] /\ sets = [p \in Proc |-> <<>>]
  /\ adds = [p \in Proc |-> {}] /\ dels = [p \in Proc |-> {}]
  /\ requests = 0 /\ failures = 0
  /\ patched = {} /\ overlapped = FALSE

-----------------------------------------------------------------------------
(* Transactions *)

Sees(p) == (sources \cup adds[p]) \ dels[p]
HasSource(p, a) == \E s \in Sees(p) : s[1] = a
Exists(p, a) == rows[a] # "none" \/ a \in DOMAIN sets[p]
Found(p, a) == {b \in Like[a] : Exists(p, b)}

(* The flag of a target as p's object has it. *)
Flag(p, a) ==
  IF a \in DOMAIN sets[p] THEN sets[p][a]
  ELSE IF a \in DOMAIN seen[p] THEN seen[p][a] ELSE rows[a]

Locked(p, a) == \E q \in Proc \ {p} : a \in DOMAIN sets[q]
Deleted(p, rs) == \E q \in Proc \ {p} : rs \cap dels[q] # {}

(* p loads the targets as, and gives those in on and off that flag.         *)
Assign(p, as, on, off) ==
  LET changed == {a \in on : Flag(p, a) # "on"} \cup {a \in off : Flag(p, a) # "off"}
  IN  /\ \A a \in changed : ~Locked(p, a)
      /\ seen' = [seen EXCEPT ![p] =
                    [a \in DOMAIN seen[p] \cup as |->
                       IF a \in DOMAIN seen[p] THEN seen[p][a] ELSE rows[a]]]
      /\ sets' = [sets EXCEPT ![p] =
                    [a \in DOMAIN sets[p] \cup changed |->
                       IF a \in changed THEN IF a \in on THEN "on" ELSE "off"
                       ELSE sets[p][a]]]

Begin(p) == overlapped' = (overlapped \/ \E q \in Proc \ {p} : Open(q))

End(p) ==
  /\ pc' = [pc EXCEPT ![p] = "idle"] /\ job' = [job EXCEPT ![p] = "none"]
  /\ seen' = [seen EXCEPT ![p] = <<>>] /\ sets' = [sets EXCEPT ![p] = <<>>]
  /\ adds' = Without(adds, p) /\ dels' = Without(dels, p)
  /\ body' = Without(body, p) /\ todo' = Without(todo, p)

Rollback(p) ==
  /\ End(p)
  /\ due' = IF p = Loop THEN {} ELSE due   \* the exception ends the sweep
  /\ UNCHANGED <<tables, content, requests, history>>

(* A database error, or losing the connection to the database. *)
Fail(p) ==
  /\ Open(p) /\ failures < MaxFailures
  /\ failures' = failures + 1
  /\ Rollback(p)

(* Transactions that wait for each other: PostgreSQL ends one of them.      *)
WaitsFor(p, q) ==
  /\ p # q
  /\ \/ Open(p) /\ UNION {Like[a] : a \in todo[p]} \cap DOMAIN sets[q] # {}
     \/ pc[p] = "pruning" /\ \E a \in todo[p] : <<a, job[p]>> \in dels[q]
     \/ pc[p] = "deleting" /\ \E s \in adds[q] : s[2] = job[p]

Deadlocked ==
  UNION {S \in SUBSET Proc : \A p \in S : \E q \in S : WaitsFor(p, q)}

BreakDeadlock ==
  /\ \E p \in Deadlocked : Rollback(p)
  /\ UNCHANGED failures

(* The flags, and the sources, once p's transaction is written. *)
Written(p) ==
  /\ rows' = [a \in Address |-> IF a \in DOMAIN sets[p] THEN sets[p][a] ELSE rows[a]]
  /\ sources' = Sees(p)

Commit(p) ==
  /\ pc[p] = "committing"
  /\ Written(p)
  /\ End(p)
  /\ UNCHANGED <<lists, enabled, content, due, bounds, history>>

-----------------------------------------------------------------------------
(* sync_target_list *)

Fetch(p) ==
  /\ pc[p] = "fetching"
  /\ Begin(p)
  /\ body' = [body EXCEPT ![p] = content[job[p]]]
  /\ todo' = [todo EXCEPT ![p] = content[job[p]]]
  /\ pc' = [pc EXCEPT ![p] = "adding"]
  /\ UNCHANGED <<tables, content, due, job, buffers, bounds, patched>>

(* The error is stored with the list, which raises if that has gone. *)
FetchFails(p) ==
  /\ pc[p] = "fetching"
  /\ pc' = [pc EXCEPT ![p] = "idle"] /\ job' = [job EXCEPT ![p] = "none"]
  /\ due' = IF p = Loop /\ job[p] \notin lists THEN {} ELSE due
  /\ UNCHANGED <<tables, content, body, todo, buffers, bounds, history>>

(* Mutant: a target that exists is taken as it is, inactive or not. *)
AddTargetAsItIs(p, a) ==
  /\ pc[p] = "adding" /\ a \in todo[p]
  /\ Cardinality(Found(p, a)) <= 1
  /\ LET b == IF Found(p, a) = {} THEN a ELSE CHOOSE c \in Found(p, a) : TRUE
     IN  /\ Assign(p, {b}, IF Exists(p, b) THEN {} ELSE {b}, {})
         /\ adds' = [adds EXCEPT ![p] = @ \cup ({<<b, job[p]>>} \ Sees(p))]
  /\ todo' = [todo EXCEPT ![p] = @ \ {a}]
  /\ UNCHANGED <<tables, content, due, pc, job, body, dels, bounds, history>>

(* _get_or_create_target and the source row, for one address of the list. *)
AddTarget(p, a) ==
  /\ pc[p] = "adding" /\ a \in todo[p]
  /\ Cardinality(Found(p, a)) <= 1
  /\ LET b == IF Found(p, a) = {} THEN a ELSE CHOOSE c \in Found(p, a) : TRUE
     IN  /\ Assign(p, {b}, {b}, {})
         /\ adds' = [adds EXCEPT ![p] = @ \cup ({<<b, job[p]>>} \ Sees(p))]
  /\ todo' = [todo EXCEPT ![p] = @ \ {a}]
  /\ UNCHANGED <<tables, content, due, pc, job, body, dels, bounds, history>>

(* scalar_one_or_none raises if the address matches several targets. *)
Ambiguous(p) ==
  /\ pc[p] = "adding"
  /\ \E a \in todo[p] : Cardinality(Found(p, a)) > 1
  /\ Rollback(p)
  /\ UNCHANGED failures

FindGone(p) ==
  /\ pc[p] = "adding" /\ todo[p] = {}
  /\ pc' = [pc EXCEPT ![p] = "pruning"]
  /\ todo' = [todo EXCEPT ![p] = {a \in Address : <<a, job[p]>> \in Sees(p)} \ body[p]]
  /\ UNCHANGED <<tables, content, due, job, body, buffers, bounds, history>>

(* Mutant: the source row goes, and nobody looks whether it was the last. *)
RemoveSourceOnly(p, a) ==
  /\ pc[p] = "pruning" /\ a \in todo[p]
  /\ ~Deleted(p, {<<a, job[p]>>})
  /\ dels' = [dels EXCEPT ![p] = @ \cup {<<a, job[p]>>}]
  /\ Assign(p, {a}, {}, {})
  /\ todo' = [todo EXCEPT ![p] = @ \ {a}]
  /\ UNCHANGED <<tables, content, due, pc, job, body, adds, bounds, history>>

(* The source row goes, and the target is deactivated if it was the last.   *)
RemoveGone(p, a) ==
  /\ pc[p] = "pruning" /\ a \in todo[p]
  /\ ~Deleted(p, {<<a, job[p]>>})
  /\ dels' = [dels EXCEPT ![p] = @ \cup {<<a, job[p]>>}]
  /\ Assign(p, {a}, {}, IF \E s \in Sees(p) : s[1] = a /\ s[2] # job[p] THEN {} ELSE {a})
  /\ todo' = [todo EXCEPT ![p] = @ \ {a}]
  /\ UNCHANGED <<tables, content, due, pc, job, body, adds, bounds, history>>

(* The list's own row is updated and all is committed; if the list has been *)
(* deleted meanwhile that update finds no row and raises.                   *)
CommitSync(p) ==
  /\ pc[p] = "pruning" /\ todo[p] = {}
  /\ IF job[p] \in lists
       THEN Written(p) /\ End(p) /\ UNCHANGED <<lists, enabled, content, due, requests, history>>
       ELSE Rollback(p)
  /\ UNCHANGED failures

(* sync_due_target_lists: a list that has gone since is passed over. *)
Sweep ==
  /\ pc[Loop] = "idle" /\ due = {} /\ enabled # {}
  /\ due' = enabled
  /\ UNCHANGED <<tables, content, pc, job, body, todo, buffers, bounds, history>>

SyncDue ==
  /\ pc[Loop] = "idle"
  /\ \E l \in due :
       /\ due' = due \ {l}
       /\ IF l \in lists
            THEN pc' = [pc EXCEPT ![Loop] = "fetching"] /\ job' = [job EXCEPT ![Loop] = l]
            ELSE UNCHANGED <<pc, job>>
  /\ UNCHANGED <<tables, content, body, todo, buffers, bounds, history>>

-----------------------------------------------------------------------------
(* Admin requests *)

Accept(r) ==
  /\ pc[r] = "idle" /\ requests < MaxRequests
  /\ requests' = requests + 1
  /\ UNCHANGED <<content, due, failures>>

(* POST /target-lists commits the list and syncs it; so does sync-now. *)
CreateList(r, l) ==
  /\ l \notin lists
  /\ Accept(r)
  /\ lists' = lists \cup {l} /\ enabled' = enabled \cup {l}
  /\ job' = [job EXCEPT ![r] = l]
  /\ pc' = [pc EXCEPT ![r] = "fetching"]
  /\ UNCHANGED <<rows, sources, body, todo, buffers, history>>

SyncNow(r, l) ==
  /\ l \in lists
  /\ Accept(r)
  /\ job' = [job EXCEPT ![r] = l]
  /\ pc' = [pc EXCEPT ![r] = "fetching"]
  /\ UNCHANGED <<tables, body, todo, buffers, history>>

UpdateList(r, l) ==
  /\ l \in lists
  /\ Accept(r)
  /\ enabled' = IF l \in enabled THEN enabled \ {l} ELSE enabled \cup {l}
  /\ UNCHANGED <<rows, sources, lists, pc, job, body, todo, buffers, history>>

(* _deactivate_orphans_for_list up to its flush. *)
DeleteList(r, l) ==
  /\ l \in lists
  /\ Accept(r) /\ Begin(r)
  /\ LET gone == {s \in sources : s[2] = l}
     IN  /\ ~Deleted(r, gone)
         /\ dels' = [dels EXCEPT ![r] = gone]
         /\ todo' = [todo EXCEPT ![r] = {s[1] : s \in gone}]
  /\ job' = [job EXCEPT ![r] = l]
  /\ pc' = [pc EXCEPT ![r] = "deleting"]
  /\ UNCHANGED <<tables, body, seen, sets, adds, patched>>

(* ... its check of what is left; also that of a single deleted target.     *)
CheckOrphan(r, a) ==
  /\ pc[r] \in {"checking", "deleting"} /\ a \in todo[r]
  /\ Assign(r, {a}, {}, IF HasSource(r, a) THEN {} ELSE {a})
  /\ todo' = [todo EXCEPT ![r] = @ \ {a}]
  /\ UNCHANGED <<tables, content, due, pc, job, body, adds, dels, bounds, history>>

(* Mutant: the foreign key of target_sources does not cascade. *)
CommitDeleteListAlone(r) ==
  /\ pc[r] = "deleting" /\ todo[r] = {}
  /\ Written(r)
  /\ lists' = lists \ {job[r]} /\ enabled' = enabled \ {job[r]}
  /\ End(r)
  /\ UNCHANGED <<content, due, bounds, history>>

(* The list goes.  Its deletion waits for open transactions that have added *)
(* sources to it, and takes with it those that are not deleted yet.         *)
CommitDeleteList(r) ==
  /\ pc[r] = "deleting" /\ todo[r] = {}
  /\ \A q \in Proc \ {r} : \A s \in adds[q] : s[2] # job[r]
  /\ rows' = [a \in Address |-> IF a \in DOMAIN sets[r] THEN sets[r][a] ELSE rows[a]]
  /\ sources' = {s \in Sees(r) : s[2] # job[r]}
  /\ lists' = lists \ {job[r]} /\ enabled' = enabled \ {job[r]}
  /\ End(r)
  /\ UNCHANGED <<content, due, bounds, history>>

(* Mutant: a manual source, whether or not the target has one. *)
CreateSource(r, a) ==
  /\ Accept(r) /\ Begin(r)
  /\ Cardinality(Found(r, a)) <= 1
  /\ LET b == IF Found(r, a) = {} THEN a ELSE CHOOSE c \in Found(r, a) : TRUE
     IN  /\ Assign(r, {b}, {b}, {})
         /\ \E m \in Manual : <<b, m>> \notin sources /\ adds' = [adds EXCEPT ![r] = {<<b, m>>}]
  /\ pc' = [pc EXCEPT ![r] = "committing"]
  /\ UNCHANGED <<tables, job, body, todo, dels, patched>>

(* POST /targets: a new row, or the one that matches, activated; and a      *)
(* manual source if it has none.                                            *)
CreateTarget(r, a) ==
  /\ Accept(r) /\ Begin(r)
  /\ Cardinality(Found(r, a)) <= 1
  /\ LET b == IF Found(r, a) = {} THEN a ELSE CHOOSE c \in Found(r, a) : TRUE
     IN  /\ Assign(r, {b}, {b}, {})
         /\ IF \E m \in Manual : <<b, m>> \in sources
              THEN UNCHANGED adds
              ELSE \E m \in Manual :
                     /\ \A q \in Proc : <<b, m>> \notin adds[q]
                     /\ adds' = [adds EXCEPT ![r] = {<<b, m>>}]
  /\ pc' = [pc EXCEPT ![r] = "committing"]
  /\ UNCHANGED <<tables, job, body, todo, dels, patched>>

(* DELETE /targets: one manual source goes; the target is then checked. *)
DeleteTarget(r, a) ==
  /\ rows[a] # "none"
  /\ Accept(r) /\ Begin(r)
  /\ LET manual == {s \in sources : s[1] = a /\ s[2] \in Manual}
     IN  IF manual = {} THEN UNCHANGED dels
         ELSE \E s \in manual : ~Deleted(r, {s}) /\ dels' = [dels EXCEPT ![r] = {s}]
  /\ Assign(r, {a}, {}, {})
  /\ todo' = [todo EXCEPT ![r] = {a}]
  /\ pc' = [pc EXCEPT ![r] = "checking"]
  /\ UNCHANGED <<tables, job, body, adds, patched>>

CommitDeleteTarget(r) ==
  /\ pc[r] = "checking" /\ todo[r] = {}
  /\ Written(r)
  /\ End(r)
  /\ UNCHANGED <<lists, enabled, content, due, bounds, history>>

(* PATCH /targets: reads nothing it depends on. *)
UpdateTarget(r, a) ==
  /\ rows[a] # "none" /\ ~Locked(r, a)
  /\ Accept(r)
  /\ rows' = [rows EXCEPT ![a] = IF @ = "on" THEN "off" ELSE "on"]
  /\ patched' = patched \cup {a}
  /\ UNCHANGED <<sources, lists, enabled, pc, job, body, todo, buffers, overlapped>>

(* A list's URL serves something else (or PATCH gives the list another). *)
Serve(l) ==
  /\ requests < MaxRequests
  /\ requests' = requests + 1
  /\ \E new \in SUBSET Address : content' = [content EXCEPT ![l] = new]
  /\ UNCHANGED <<tables, due, pc, job, body, todo, buffers, failures, history>>

-----------------------------------------------------------------------------
SyncStep(p) ==
  \/ \E a \in Address : AddTarget(p, a) \/ RemoveGone(p, a)
  \/ Ambiguous(p) \/ FindGone(p) \/ CommitSync(p)

RequestStep(r) ==
  \/ Commit(r)
  \/ \E a \in Address : CheckOrphan(r, a)
  \/ CommitDeleteList(r)
  \/ CommitDeleteTarget(r)

Ask(r) ==
  \/ \E l \in List : CreateList(r, l) \/ SyncNow(r, l) \/ UpdateList(r, l) \/ DeleteList(r, l)
  \/ \E a \in Address : CreateTarget(r, a) \/ DeleteTarget(r, a) \/ UpdateTarget(r, a)

Next ==
  \/ Sweep \/ SyncDue \/ BreakDeadlock
  \/ \E p \in Proc : Fetch(p) \/ FetchFails(p) \/ SyncStep(p) \/ Fail(p)
  \/ \E r \in Request : Ask(r) \/ RequestStep(r)
  \/ \E l \in List : Serve(l)

(* sync_loop sweeps again and again, and every URL answers now and then.    *)
(* PostgreSQL grants a lock to those who wait for it in their order, so no  *)
(* transaction waits for ever.  Nobody owes a request.                      *)
Fairness ==
  /\ WF_vars(Sweep) /\ WF_vars(SyncDue)
  /\ \A l \in List : SF_vars(job[Loop] = l /\ Fetch(Loop))
  /\ WF_vars(BreakDeadlock) /\ \A p \in Proc : SF_vars(SyncStep(p))
  /\ \A r \in Request : SF_vars(RequestStep(r))

Spec == Init /\ [][Next]_vars /\ Fairness

-----------------------------------------------------------------------------
AtRest == \A p \in Proc : ~Open(p)
IsSourced(a) == \E s \in sources : s[1] = a

(* A target is active exactly while somebody wants it, a list or an admin,  *)
(* through every sequence of calls, syncs and errors, unless an admin has   *)
(* overridden it by hand or two transactions were open at once.             *)
SerialConsistent ==
  AtRest /\ ~overlapped =>
    \A a \in Address \ patched : rows[a] = "on" <=> IsSourced(a)

(* Likewise it has one manual source at most, so that one DELETE is enough. *)
OneManual ==
  AtRest /\ ~overlapped =>
    \A a \in Address : Cardinality({m \in Manual : <<a, m>> \in sources}) <= 1

(* No source outlives its list, also if the list is synced while it goes.   *)
SourcesHaveLists == \A s \in sources : s[2] \in List => s[2] \in lists

(* Overlaps heal for what a list wants: an address that an active list      *)
(* keeps serving is probed in the end, whatever deactivated it.  This needs *)
(* every active list to be free of wildcards: a list whose sync raises is   *)
(* first in line again in every sweep, and ends it (see Ambiguous).         *)
Plain == \A l \in enabled : \A a \in content[l] : Like[a] = {a}

ListedComesBack ==
  \A a \in Address :
    <>[](Plain /\ \E l \in enabled : a \in content[l]) => <>[](rows[a] = "on")

-----------------------------------------------------------------------------
(* TargetListTable.tsx:62: "Targets only sourced from it will be            *)
(* deactivated" when a list is removed.  So once nothing is under way, no   *)
(* target is active that nobody wants.                                      *)
NoOrphan == AtRest => \A a \in Address \ patched : rows[a] = "on" => IsSourced(a)
=============================================================================
