# mtr-mapper: verification project

mtr-mapper probes a set of targets with traceroutes, merges their paths into one
tree, and shows that tree live in browsers. This directory holds TLA+ modules
that model its core, TLC configurations that check them on small instances, and
TLAPS proofs of what holds for every instance. Every definition is translated
from the source; paths below are relative to `src/`.

* [The system](#the-system): components, state, interactions, what is hard
* [Modules](#modules): what models what, and how it corresponds to the code
* [Runs](#runs): what each run asks, its bounds, and what it shows
* [Where the code and its documentation part](#where-the-code-and-its-documentation-part)
* [Fairness](#fairness)
* [Proofs](#proofs)
* [Limits, and what is not modelled](#limits-and-what-is-not-modelled)
* [Plan](#plan)

To check a run: `tlc -config TreeService.cfg MCTreeService`. To check the proofs:
`tlapm TreeService_proofs.tla`, and likewise the other modules in `*_proofs.tla`.

## The system

```
  prober                          backend (one asyncio process)               browser tabs
  ------                          -----------------------------               ------------
  Scheduler --- GET targets --->  prober API ---- Postgres --- admin API <--- admin pages
  workers   --- POST results -->      |              |             |
     |                                v              v             v
  scamper/mtr                 request_recompute   load_target_traces, build_tree
                                      |              |
                                      v              v
                              TreeService.debounce_loop --> ConnectionManager --ws--> api/ws.ts
                                      |                                                  |
                                      +---------------- GET /api/tree ------------> useTreeStore
  target_list_sync, retention: background loops of the backend
```

| Component | State it keeps | Operations | What is hard | What makes it correct |
|---|---|---|---|---|
| Live tree (`services/tree_service.py`) | `_nodes`, `_seq`, the event `_recompute_needed` | `request_recompute`, `debounce_loop`, `recompute_and_broadcast`, `snapshot_message` | the event is cleared around a sleep; a build awaits a query per target while handlers commit; nodes that vanish fade as ghosts; exceptions are swallowed; a restart loses it all | no change is slept over; the result is a tree, ghosts included; it catches up |
| Tree builder (`services/tree_builder.py`) | none (a function) | `build_tree`, `load_target_traces` | timeouts are elided or rejoin nodes other traces have built; the order of rows is not fixed | a tree; one leaf per target; each reply counted once; outages show |
| Connection manager, websocket (`services/ws_manager.py`, `api/ws.py`) | `_connections` | `connect`, `disconnect`, `broadcast`, answers to `request_snapshot` | anything happens between two sends of a broadcast; peers vanish | each connection gets a first snapshot and each later diff, or is dropped |
| Browser feed (`api/ws.ts`, `useTreeStore.ts`, `TreeView.tsx`) | socket, timer, `connected`, `nodes`, `seq` | receive a snapshot or a diff, detect a gap, resynchronise, prime by REST, reconnect | three sources of trees in any order; lost messages; a backend that restarts at seq 0; pages that are left while a socket opens, closes or waits | a tab draws whole trees the backend had; it ends at the current one; one socket at a time; "live" means live |
| Prober scheduler (`prober/app/scheduler.py`) | `_targets`, `_queued`, `_heap` | refresh, `_next_ready`, probe, `_reschedule` | targets leave and return while they are queued or probed; a refresh is late or fails | no target is lost or starved; each rests between probes |
| Target store (`api/admin_targets.py`, `api/admin_target_lists.py`, `services/target_list_sync.py`) | tables `targets`, `target_sources`, `target_lists` | create, update and delete targets and lists, sync a list | each is a transaction of its own at READ COMMITTED, blind to the others until they commit | active exactly while something wants it |
| Prober API and client (`api/prober.py`, `backend_client.py`) | `trace_runs`, `trace_hops` | get targets, submit a result | a result is committed before the recompute is requested | as the live tree |
| Probe runners (`scamper_runner.py`, `mtr_runner.py`) | none | run a process, parse its output | TTLs without a reply are missing from the output, the gateway is dropped, a route changes during a run | hops are the route, in order and numbered without a gap |
| Lookups (`asn_lookup.py`, `hostname_lookup.py`) | `_cache`, two tables | look up, expire | two levels of cache, negative answers, failures between them, restarts; a name is part of a node's identity | asked rarely; the right answer in the end |
| Retention (`retention.py`) | none | delete old runs in batches | it runs between the queries of a load; batches fail | old runs go, and only old ones |
| History API (`api/tree.py`) | none | history of a target or a hop | runs come and go meanwhile | no young run of a target is missing |
| Canvas, panel (`layout.ts`, `TreeCanvas.tsx`, `DetailPanel.tsx`) | `manualState`, `selectedNodeId`, `showHistorical`, history, `layoutCache` | filter, collapse, search, select, load a history | ghosts keep what they had; a diff leaves fields as they were; what is drawn is cached; answers come late; the store outlives the page | each node on the screen once; each target drawn or counted once; what is selected is drawn, with its own history |
| Authentication, admin pages | a cookie | forms over the REST API | little: stateless on the server | — |

The interactions that matter: (1) a handler commits and then sets the event;
(2) the debounce loop reads the database in several awaits and replaces the tree
in one step; (3) that step bumps the seq and its diff goes out one connection at
a time; (4) a tab applies a diff only at `seq + 1` and otherwise asks for a
snapshot on the same socket; (5) the prober polls the list of active targets,
which the target store decides.

`PROJECT.json` lists every hazard at its line with the properties that cover it,
or why none does yet.

## Modules

| Module | Models | Role |
|---|---|---|
| `TreeService` | `tree_service.py`, the order of commit and request in the handlers, the reads of `load_target_traces` | the core; composed into `TreeFeed` |
| `TreeFeed` | `ws_manager.py`, `api/ws.py`, `GET /api/tree`, `api/ws.ts`, `useTreeStore.ts`, `TreeView.tsx` | EXTENDS `TreeService`; its actions carry `TreeService`'s |
| `TreeMirror` | what the feed promises: a tab draws whole trees the backend had | abstract specification, implemented by `TreeFeed` (`MirrorSpec`) |
| `TreeBuilder` | `tree_builder.build_tree`, hop by hop | an algorithm as a state machine over every input within the bounds |
| `Scheduler` | `prober/app/scheduler.py` with `backend_client.py` | stands alone; `active` is what the target store decides |
| `TargetStore` | the admin endpoints that write, and `target_list_sync.py`, as transactions | stands alone |
| `LookupCache` | `hostname_lookup.py` and `asn_lookup.py`, one program twice | stands alone; called by a recompute |
| `ProbeParsers` | `scamper_runner.py`, `mtr_runner.py`, `gateway.py` | operators, used by `TraceStore` |
| `TraceStore` | the runs in the database: `submit_result`, `retention.py`, `load_target_traces`, the history endpoints | EXTENDS `ProbeParsers` |
| `TreeLayout` | `layout.ts`, but for the geometry | operators, used by `TreePage` |
| `TreeSocket` | the life of `api/ws.ts`'s socket and of the flag `connected` | a specification of its own, which `TreePage` implements |
| `TreePage` | `TreeView.tsx`, `TreeCanvas.tsx`, `DetailPanel.tsx` and what of the store they share | EXTENDS `TreeSocket` and `TreeLayout` |
| `MC*` | | instances for TLC: trees, traces, symmetry, wildcards |
| `*_proofs` | | theorems |

### TreeService

| In the module | In the code |
|---|---|
| `active`, `trace` | `targets.active`, each target's latest run |
| `SubmitResult`, `ChangeTarget`, then `RequestRecompute` | `submit_result`, the admin handlers: `await db.commit()` and then `request_recompute()`, two steps with `posted` counting those in between |
| `BackgroundSync` | `sync_loop`, which changes targets and requests nothing |
| `loop`: waiting, sleeping, due, reading, sending | where `debounce_loop` stands: `event.wait()`, `asyncio.sleep`, before and during `load_target_traces`, `broadcast` |
| `Wake`, `EndSleep` | the two `clear()`s of the event, one on each side of the sleep |
| `ReadTargets`, `ReadTrace` | the query for active targets, and the query per target |
| `Publish` | the rest of `_recompute`, which awaits nothing: build, merge with ghosts, compare, replace, bump the seq |
| `FailRecompute`, `Restart` | the `except Exception` of `recompute_and_broadcast`; the process ends and starts again |

A trace is abstracted to the place it ends at and its severity; `Path` gives the
nodes of a trace, so `Build` states what `build_tree` computes from it. How that
trie comes about from hops is `TreeBuilder`'s subject. `needed` is the event;
`posted > 0` is a handler between its commit and its request. `missed` records
that a change was stored which no request stands for: by a background sync, by a
handler that died, or by a recompute that raised.

### TreeFeed and TreeMirror

A connection is a pair of FIFO channels, `down` and `requests`, that may break.
`PublishAndSend` composes `Publish` with the first send, since nothing is awaited
between them; `SendNext` is one further send; `FinishBroadcast` drops the dead.
In a tab, `Receive` handles one message (`Gap` is the test
`diff.seq !== seq + 1`, `Apply` is `applyDiff`), `AnswerTree` and `ApplyAnswer`
are the REST prime, which arrives whenever it likes. `DropSocket` breaks a
connection, losing what is in it; the tab notices at once, the backend when its
receive raises (`Disconnect`) or a send fails (`FinishBroadcast`). A REST request
that fails is one whose answer never arrives. `RestartFeed` ends every connection,
but an answer of `GET /api/tree` that was sent stays on its way (`prime` is then
"outlived"): the tab applies it whenever it comes, in the middle of the next life's
messages, too. The history variable `astray` says of a tab that its tree is such an
answer ("old") or that answer patched by diffs of the next life ("mixed"); the next
snapshot ends it.

`TreeMirror` has neither channels nor seqs: the backend goes from tree to tree
and a tab draws one it had. `MirrorSpec` is `TreeMirror`'s specification with
`drawn` mapped to what the tab's store holds (nothing while it is mixed) and `past`
to every tree published.

### TreeBuilder

`Seed` is the first pass, one trace per step; `PlaceReply`, `Rejoin` and `Fork`
are the three ways the second pass takes a hop, and `EndTrace` attaches the leaf.
Node ids are hashes of parent and label, modelled as the path of labels itself.
`Rebuild` reads the same rows in another order, as the `SELECT` without
`ORDER BY` may, to compare the two trees.

### Scheduler

The heap is a sequence in the order in which it is popped; an entry holds the
ticks left until it is eligible. `Take` pops what `_next_ready` pops: stale
entries and then an eligible one. `FindNone` is the call that finds none.
`Merge` is `_refresh_targets_once` after its answer, `FinishProbe` and
`Reschedule` the two awaits a worker has. `Crash` is an exception that ends
`asyncio.gather`; what follows is a fresh process.

### TargetStore

Each request and the sync loop is a process with a transaction: what it adds,
deletes and sets is in `adds`, `dels` and `sets` until it commits, other
transactions see only committed rows, a row written is locked, and the ORM keeps a target
as it first loaded it (`seen`). Deleting a list cascades to its sources and waits
for open inserts that refer to it. Transactions that wait for each other are
broken up by PostgreSQL (`BreakDeadlock`): a sync that adds a source to a list
while a request deletes that list does get there. `Like` is what an address
matches as an ILIKE pattern.

### LookupCache

| In the module | In the code |
|---|---|
| `Begin` | the call up to its first await: hits in `_cache`, and `now` |
| `ReadTable` | the query of the table, and what it puts into `_cache` |
| `LookUp`, `LookUpFails` | one of the lookups that `gather` waits for; one that fails or times out answers `None` |
| `Remember`, `Store` | the answers go into `_cache` first and then, an await later, into the table |
| `Raise` | the query or the upsert raises, and the call with it |
| `Restart` | `_cache` is empty again |

Entries hold their age instead of `looked_up_at`; ages stop counting where no
comparison tells them apart. `asked` is a history variable: how long ago this process asked
DNS for an address. Only a recompute calls the lookups, and recomputes do not overlap,
so one call at a time is modelled; `_lock`, which is never held over an await, then
decides nothing. The table is searched by `CAST(ip AS VARCHAR)`, which PostgreSQL
writes with a mask (`CastText`), for plain addresses: `ReadTable` goes through a table
that fills up and finds no row of it. The proofs have that as the lemma `NothingFound`.

### ProbeParsers and TraceStore

`ScamperHops` and `MtrHops` are the two parsers as folds over TTLs and hubs;
`MtrReport` is what mtr would report of the same replies, so that the two can be
compared. `TraceStore` starts probes (`StartProbe` takes the prober's time),
stores or drops their results in any order (`Submit`, `Drop`), sweeps
(`BeginSweep`, `PruneBatch`, `FailSweep`), and loads (`ReadRun`, `ReadHops`: two
queries per target, between which anything happens). `TargetHistory` and
`NodeHistory` are the answers of the history endpoints, as operators: each is one
query. That of a shared hop compares addresses with `CastText`, too, and so is always
empty, which the lemma `NothingFound` proves and no property relies on. `stored`, `last`
and `crossed` are history variables.

### TreeLayout, TreeSocket and TreePage

`TreeLayout` has the functions of `layout.ts` as operators over a tree: the filter,
the counts, which nodes are collapsed and what is then visible. `TreeSocket` has
for each call of `connectTreeSocket` a socket and a timer, and one flag
`connected` for all; a socket whose `close()` was called or whose connection broke
is "closing" until its `onclose`. `TreePage` composes the two with the store:

| In the module | In the code |
|---|---|
| `Mount`, `Unmount` | the effect of `TreeView.tsx` and its cleanup; they carry `Connect` and `Disconnect` |
| `Receive`, `Prime` | `onmessage` and the REST answer |
| `Replace`, `Patch` | `applySnapshot`; `applyDiff`, which leaves `target_ids` and `is_leaf_target` of a node that stays as they were |
| `visibleTree`, `layout` | what `buildVisibleTree` makes of the store; what is drawn, which is `layoutCache` |
| `Draw`, `DrawAnew` | a rendering: the cached layout if `serializeStructure` of the visible tree is the same, a new one if not; after a snapshot the same structure may come in another order, and the layout is then new |
| `Click`, `ExpandAll`, `CollapseAll`, `ToggleHistorical`, `SearchFor` | the canvas's handlers; a click is on what is drawn |
| `AskHistory`, `ShowDetails`, `HideDetails`, `Answer` | the panel's effect and its cleanup; `asked` has the requests that are not cancelled, as the answer of one that is changes nothing |

Which trees come when is `TreeFeed`'s subject; here the store's tree may be replaced by,
or patched towards, any of a few. What the store then holds need be no tree the backend
had (`StoreTrees`).

## Runs

Sizes are of a complete exploration; every action fires in a passing run.

| Run | Asks | Bounds | States |
|---|---|---|---|
| `TreeService` | Is the tree always a tree, is no change slept over, does the tree catch up? | 2 targets, a branch of 2 nodes below the root, 2 changes, 1 failure, fade window 2 of 3 ticks | 155k |
| `TreeFeed` | Does a tab only draw whole trees, and the present one when nothing is under way, also across a failed recompute or a restart? | 1 tab with 2 sockets, 2 changes, ghosts, 1 failure or restart, a REST answer that may be late and of the earlier life | 1.30M |
| `TreeFeed_live` | Does a commit reach the pixels, also across a failed recompute or a restart? | as above, 1 change, ghosts that fade | 215k |
| `Scheduler` | Is no target lost, starved or probed too soon, and one that is gone left alone? | 2 targets, 2 workers, 4 changes, 1 crash, minimum cycle 2 ticks | 227k |
| `TreeBuilder` | Is what comes of any traces a tree with one leaf per target, each reply counted once, and outages visible? | every 3 traces of up to 3 hops over 2 labels and timeouts, in every order | 935k |
| `TargetStore` | Is a target active exactly while something wants it, and does what a list serves come back after any overlap? | 2 addresses, one with a wildcard; 1 list, 2 manual rows, 1 request beside the sync loop, 3 requests or changes of the served list, 1 failed transaction | 92k |
| `LookupCache` | Is DNS asked rarely, and is the answer the right one in the end? | 2 addresses, 1 name, TTL 2 ticks, calls of up to 1 | 152k |
| `TraceStore` | Are the histories of targets complete, does the last result win, is no sweep taken for an outage, do old runs go, are hops what was on the way? | 1 target, 2 probes at once, 3 ticks, retention 1 tick, batches of 1; 2 traces behind a gateway, and every record of 3 TTLs and up to 3 replies | 123k |
| `TreePage` | One socket? An honest header? Each node on the screen once? Each target drawn or counted once? Is what is selected drawn, with its own history? | 2 mounts, 2 published trees over 5 nodes in one branch that forks, what their diffs make of each other, and for the layout every tree over these nodes with 2 targets and everything a user can collapse | 101k |
| `TreeFeed_leaf`, `TreeBuilder_order`, `TargetStore_orphan` | statements of the repository that do not hold, see below | | |

Why these bounds are enough to be interesting:

* One ghost below a node that may be current or a ghost itself needs two nodes on
  one branch; a ghost that outlives, and one that does not, needs a fade window
  within the clock's range. A torn read needs two targets and a change between
  their queries. Lost wakeups need a change before, during and after the sleep:
  two changes and the two clears give them all.
* In the feed, two sockets give a reconnect and a message lost with the first;
  two changes give a diff that is missed and one that is not, or one in each life of the
  backend; a REST answer of the first life then comes before, between or after the
  messages of the second. Fading is left to `TreeFeed_live`: it only makes diffs that
  remove nodes, which a restart makes, too. A second tab would
  only add sends to a broadcast: the run's own interleavings already let a
  connection open or break between any two sends, its two sockets may both be
  registered (the old one before the backend notices), and tabs share nothing else.
* A target that leaves and returns twice (4 changes) gets its leftover entries
  while the other keeps a worker busy; two workers may hold one target.
* Three traces are the smallest number where one trace's timeout rejoins a branch
  the two others have built or forked; three hops are reply, timeout, reply.
* In `TargetStore`, three requests are: create a list, have an admin take over one of
  its targets, then delete either, with the sync loop at any point in between; or
  have the list drop the address. Safety is stated for moments at which no
  transaction is open; `overlapped` says whether two ever were.

* In the lookups, a TTL longer than a call is what the settings have (hours against
  seconds); two ticks and one give entries that are fresh when a call begins and
  stale when the next one does, a database that fails on either side of a
  lookup, and a restart in every state. Addresses share nothing but the call: two give
  a call that asks for one and has the other.
* In `TraceStore`, a retention of one of three ticks makes runs expire while probes,
  a load and a sweep are under way; batches of one need several per sweep. Two
  probes at once are the crossing that a target with two heap entries gives.
  Targets share nothing here but the sweep.
* On the page, two mounts give a socket that outlives its page; the two trees
  differ by a route that was cut short, so that inner nodes become leaves and
  leaves ghosts; a diff from one to the other leaves a node that has become a leaf
  without its target, and the same structure is drawn for a leaf and for its ghost.
  `EveryTargetOnce` is besides evaluated for all trees, in each state, as the layout is
  a function.

`CHECK_DEADLOCK FALSE` is set where a bound may run out and leave nothing to do
(no changes, no ticks, no sockets or mounts left, or all traces built). `Scheduler` keeps
the deadlock check: its workers and refreshes never stop.

### What the properties say

`TreeService`: `ParentClosed` (ghosts are dropped one by one, yet nothing hangs in
the air), `CurrentParents` (the filter of the Current Path view never orphans a
live node), `NoLostUpdate` (when the loop sleeps and nobody is about to wake it,
the tree is what is stored), `Freshness`. That the hand-written list of compared
fields misses nothing a client draws is not among them: it does miss leaf targets
(`TreeFeed_leaf`).

`TreeFeed`: `MirrorSpec`, `CaughtUp` (a tab with nothing on its way to it is at the
backend's seq and draws its tree), `EndToEnd`. Across a restart `CaughtUp` relies
on every new socket being sent a snapshot first. Both except a tab that a late REST
answer has set back (`overtaken`) or led astray (`astray`): the code does not make up
for these before the next message, or the next snapshot, see below. What a tab draws
is compared without leaf targets, for the reason above.

`Scheduler`: `NoLostTarget`, `TicketsBounded` (entries and busy workers of a target
never outnumber the times it joined), `RestPeriod` (for a target that joined
once), `ProbedForever`, `LeftAlone`.

`TreeBuilder`: `PrefixClosed`, `OneLeaf`, `NoDeadEnds`, `TraceIsPath`,
`EveryReplyCounted`, `OutageShows`.

`TargetStore`: `SerialConsistent`, `OneManual`, `SourcesHaveLists`,
`ListedComesBack`.

`LookupCache`: `AskedRarely` (by one process, also when the table cannot be read or
written and the recompute is lost with it), `NamesArrive` (no negative answer is for ever).

`TraceStore`: `HistoryComplete` (the history of a target has each of its young runs with
its last hop), `LastResultWins` (the run that started last is the
one that came last, unless probes of the target crossed), `NoSpuriousOutage` (a load that finds no hops looked at a probe that
failed, or at an old run), `OldRunsGo`, `HopsFaithful` (the hops are the route without the
gateway, a timeout is a loss of everything, scamper and mtr agree).

`TreePage`: `OneSocket`, `FlagHonest`, `Reconnects`, `EachNodeOnce` (what the store holds is
on the screen in one place and nothing else is, although the layout is cached and trees
come as diffs), `EveryTargetOnce` (whatever is collapsed, ghosts shown or not, each target
of a tree as published is drawn or counted once when it is laid out; after a diff or with
an old layout the counts may be wrong), `SelectedIsDrawn` (a search finds ghosts and
collapsed nodes, and the match is drawn), `HistoryMatches` (answers of other nodes
and of closed panels are not shown).

Each property of a passing run has a mutant: a plausible bug in a mapped
definition, next to it in the module, that makes TLC find the property violated.

## Where the code and its documentation part

Each is a run with one property, taken from the quoted text, that TLC refutes.

* `TreeFeed_leaf`: `_recompute` compares and sends neither `target_ids` nor
  `is_leaf_target`, and `applyDiff` keeps what the tab had. `layout.ts:64-65`
  counts "currently active leaf targets" from these fields. A target whose path
  now ends at a node the tab already has is missing from the counts until the
  next snapshot.
* `TreeBuilder_order`: `tree_builder.py:268-272` and `tests/test_tree_builder.py:125-126`
  say the order of the traces must not decide the merge. It does when a reply
  comes only after a timeout: with the traces `[*, Q, S]` and `[Q, *, S]`, what a
  timeout rejoins depends on which trace was read first.
* `TargetStore_orphan`: `TargetListTable.tsx:62` says of removing a list "Targets only
  sourced from it will be deactivated." If a sync of that list commits between
  the request's look at its sources and the deletion of the list, the cascade
  takes the new source unseen and its target stays active and probed.

Met while modelling, without a run:

* An answer of `GET /api/tree` later than the socket's first messages is applied
  over them (`TreeView.tsx:20-22`, where "the socket then takes over"): the tab goes
  back in time until the next message, which it finds to be a gap (`overtaken`). If the
  backend has restarted since, the answer has a seq of the earlier life, where
  `docs/ws-protocol.md:55` has a seq per connection: a tab may be left at the new life's
  seq with the old life's tree, and the next diff then fits by its number and is
  patched into it. Nothing corrects that before the next snapshot (`astray`).
* A target that leaves and returns while its entry is in the heap gets a second
  entry, and both are renewed from then on (`scheduler.py:44`; against
  `scheduler.py:4-7`, and `:33`, where `_queued` is "currently sitting in the heap").
  `RestPeriod` is stated for targets that joined once. Two workers may then probe it
  at once, and a later result may be stored for an earlier start: `LastResultWins`
  excuses such targets.
* The layout is cached by ids and summary flags (`TreeCanvas.tsx:79-87`) but holds
  `isCurrent`, `lastSeenAt` and the leaf count, from which links, fading and
  summaries are drawn. A node that becomes a ghost while no node comes or goes
  (its target was removed) stays drawn as current, although "fade is purely a function
  of elapsed wall-clock time since a node's last_seen_at, computed at render time"
  (`TreeCanvas.tsx:98-100`). `layout.ts:145-147` only has stats in mind.
  `EachNodeOnce` holds all the same; `EveryTargetOnce` excepts an old layout.
* "Expand all" (`useTreeStore.ts:89`) forgets what the user has collapsed: nodes
  above the threshold are collapsed again by default.
* The `onclose` of a socket that was replaced sets `connected` to false
  (`ws.ts:46`): the header says "reconnecting…" over an open socket until that
  closes and another opens. `FlagHonest` excuses it (`late`).
* Lookups and histories compare `CAST(inet AS VARCHAR)` with plain addresses
  (`hostname_lookup.py:76`, `asn_lookup.py:107`, `api/tree.py:197`). PostgreSQL writes
  "192.0.2.1/32", so that no row is found. Each restart looks everything up again,
  where `hostname_lookup.py:3-6` and `asn_lookup.py:7-9` have the table keep it from that,
  and the history of a shared hop, "all recorded hops" at its addresses by
  `tree.py:187-189`, is empty.
* The latest run is the one with the highest `started_at`, by the prober's clock: a
  run dated in the future hides all later ones until they overtake it.
* A TTL that is answered more often than it was probed has a negative loss
  (`scamper_runner.py:94`). `HopsFaithful` excuses it.
* A sync that raises (an address whose ILIKE pattern matches several targets)
  ends the whole sweep, and its list, never marked as fetched, is due again in
  the next: lists that follow it in the query's order may never be synced.
  `ListedComesBack` is therefore stated for wildcard-free lists.
* Two overlapping `POST /targets` for one address can leave two manual rows, since
  a unique constraint counts each null as different; one `DELETE` then does not
  deactivate the target. `OneManual` holds without overlap only.
* `sync_loop` changes the active targets and requests no recompute; a recompute
  that raises is not retried. The tree then waits for somebody else's request
  (`missed`).
* A tab that asked for a snapshot in the middle of a broadcast may be sent one that
  already includes the diff it is sent next; `docs/ws-protocol.md:55` has seqs
  rise by one. The tab takes it for a gap and asks again: harmless.

## Fairness

* `TreeService`: the debounce loop is a task of the event loop that is always
  rescheduled (weak fairness on its steps: sleeps end, queries answer or raise),
  and a handler that has committed goes on to its request. Changes are not fair:
  nobody owes one. Failures and restarts are not fair either.
* `TreeFeed`: further, the backend serves what it has received, a tab handles what
  it has received, and a tab without a socket opens another (its backoff ends).
  A connection may stay up for ever or break. That a send to a peer that reads nothing
  ends is uvicorn's keepalive, which is not in the repository.
* `Scheduler`: each worker polls, each probe ends (both runners kill their process
  after a timeout), each submission ends (the client has timeouts), time passes,
  and of the refreshes that are tried again and again not every one fails
  (strong fairness on `Merge`).
* `LookupCache`: recomputes go on (strong fairness on `Begin` per address), a call goes on, each lookup
  ends, since it has a timeout, and those for one address do not fail for ever
  (strong fairness on `LookUp`). `NamesArrive` is further stated for behaviours in
  which backend and database stay up, and the name stays, from some time on.
* `TraceStore`: `retention_loop` sweeps for ever (weak fairness on `BeginSweep`), and of its
  batches not all fail (strong fairness on `PruneBatch`). Probes, results and loads
  are not fair.
* `TreePage`: timers end and a closing socket reports its end (the browser's event loop),
  and of the connections tried again and again not every one fails (strong
  fairness on `Open`). No click, message or answer is owed.
* `TargetStore`: the sync loop sweeps, a URL that is fetched again and again answers
  at times (strong fairness per list), and a transaction waiting for a lock gets
  it in turn (strong fairness, since deadlocks may make it wait more than once:
  PostgreSQL queues the waiters of a lock). No request is owed.

## Proofs

The theorems hold for every value of the constants that meets the modules'
assumptions: any number of targets, nodes, workers, and any bounds. Every
invariant and every action property of the passing runs is the subject of one,
and so is the refinement `MirrorSpec`; the runs show them on small instances.

The provers have no induction over data, so what a loop or a recursion of the
code computes is proved by its closed form: the form satisfies the recursive
equation, and at a least place where another solution differed the equation would
make them equal. `WorstBelow` of `TreeBuilder` and the folds of `ProbeParsers` are
proved about in this way.

`TreeService_proofs`, from `TreeAssumption` (every `Path` runs to the root, closed
under `Parent`) and `DataAssumption` (severities 0 to 3, bounds that are naturals):

* `TypeCorrect`: `TypeOK` is inductive given that `Build` and `Merge` return trees of
  the type (`BuildType`, `MergeType`).
* `NoOrphans` and `CurrentAncestors`: `ParentClosed` is not inductive. A ghost goes by
  its own stamp only, so its child must never be younger. The invariant `Shape`
  says that stamps never rise on the way down and none is ahead of the clock; a
  merge keeps it since a current node's ancestors are current and stamped at once
  (`BuildClosed`), and since ghosts fade at one age.
* `NothingForgotten`: `NoLostUpdate` is not inductive. `Pending` says that a change the
  tree lacks always has somebody in charge: a request set or about to be, a loop
  that has yet to read, or one that is reading and whose traces, read so far, are
  still the stored ones.
* The lemma `EmptyDiffLooksSame`, for `TreeFeed_proofs`: if no node is added, removed or
  different in the compared fields, the merge has these fields as the tree before it.

`TreeFeed_proofs`, over those proofs and from `FeedAssumption` (the number of sockets
a tab opens is a natural):

* `SettledIsCaughtUp`: `CaughtUp` is not inductive. `History` says that within one life
  of the backend a seq stands for one tree, as far as a tab can tell: every snapshot
  and REST answer of this life shows the tree of its seq, every diff leads to it from the
  tree before, and an open tab that is not astray draws the tree of its seq or has a
  snapshot first in line, which is how it gets over a restart at seq 0. `AllEndNow` says
  that the last message on its way to a tab has the seq of now, and that a tab with none
  is there, has asked, was set back by a late answer or is astray. `Links` ties sockets to
  connections: none serves two tabs. `DiffLeads` and `ApplyLooks` prove that `applyDiff` of
  what `_recompute` compares is the new tree, in the fields a tab draws and gets by a diff
  (`Shown`).
* `ImplementsMirror`: each step of the feed maps to a step of `TreeMirror` or a stutter.
  What a tab draws was published by `History`, an answer that outlived its process
  included; that a published tree has all its parents is `Shape` of `TreeService_proofs`.

`TreeBuilder_proofs`, from `BuilderAssumption` (finitely many targets, three disjoint
kinds of labels):

* `AlwaysATree`: every step of either pass adds a child of a node that is there.
* `EveryTargetOneLeaf`: a target has a leaf exactly once its trace was placed (`LeafInv`).
* `TracesArePaths`: the samples of the trace being placed lie, in order, on the way to
  the node it has reached, and those of a placed one on the way to its leaf (`PathInv`).
* `RepliesCounted`: of the trace being placed, each reply so far has its one sample, at a
  node of its label (`CountInv`).
* `EveryNodeLeads`: a seeded node has no leaf below it until its trace is placed. `EndInv`
  says that each node leads to a leaf, to the node reached by the trace being
  placed, or was seeded for a trace yet to be placed; that such a trace does pass
  its seeded nodes is `LeadInv`.
* `OutagesShow`: a trace that ends in a timeout has a lost sample at its leaf (`DeadInv`), and
  `WorstBelow` is the worst severity of a node and all below it (`WorstBelowIs`), the tree
  being finite.

`Scheduler_proofs`, from `SchedulerAssumption` (finitely many targets and workers, a
positive minimum cycle):

* `TypeCorrect`, and `NeverLost`: `_reschedule` does not push a target that is queued, so
  `NoLostTarget` needs that being queued means having an entry. The invariant adds
  `QueuedInHeap`; lemmas on sequences (`Suffix`, `Prefix`, `Concatenation`,
  `PushNowEntries`) say which targets are in a heap that was cut or pushed to.
* `NoExtraTickets`: `TicketsBounded` is inductive beside `IInv`. Lemmas count the entries
  of a heap that is cut, joined or pushed to (`CountSplit`, `CountConcat`, `CountPushNow`).
* `Rests`: of a target that has joined once, an entry becomes eligible when the target
  has rested and not before (`RestedInHeap`), it is the only ticket, and only `Take` begins a
  probe (`OnlyTakeBegins`).

`TargetStore_proofs`, from `StoreAssumption` (lists and manual rows are distinct):

* `ListsOutliveSources`: `SourcesHaveLists` is not inductive, since a commit writes what
  its transaction has added before. The invariant adds `OwnList`: only a sync holds
  uncommitted sources of a list, and only of the list it works on. Its commit checks
  that this list is there; the deletion of a list waits for such transactions and
  takes the committed sources with it.
* `OneAtATimeConsistent` and `OneManualSource`: as long as no two transactions were open at
  once (`Serial`), the committed tables agree (`Agrees`), what the open one has loaded is what is
  stored (`Loaded`), and what it sees through its own writes balances (`Balanced`) but for
  the targets it has still to check: so its commit and its rollback both leave tables that agree.

`LookupCache_proofs`, from `LookupAssumption` (a positive TTL):

* `NotAskedAgain`: `AskedRarely` needs that memory has an entry no older than this
  process's last lookup (`LastIsKept`), and that the entry of an address a call asks for
  is stale (`MissesStale`). The table adds nothing to it, since no row is found
  (`NothingFound`).

`TraceStore_proofs`, from `StoreAssumption` (`Traces` are records as scamper prints
them, with any number of replies) and `AddrAssumption`:

* `YoungStays`: a run that is not in the table any more is older than the retention,
  and a cutoff lags behind the present one (`Kept`): time only adds to both.
* `NewestIsLast`: with one probe of a target at a time, a result that comes later also
  started later (`InOrder`), and a target's runs are told apart by their start
  (`Distinct`).
* `SweepsShowNoOutage`: what a load is about to read the hops of is a stored run, so
  that if it is gone, `YoungStays` dates it.
* `RecordsTell` and `RunsTell`: the hops that either parser's fold makes are listed
  by the TTLs on the way in their order, each in its place (`Listed`, `Place`; `ScamperIs`,
  `MtrIs`), so they are numbered without a gap. `HopsTell` is thus proved for every record,
  and `HopsFaithful` since stored hops come from one (`Parsed`).
* `HistoryKept`: a young run of a target is still there (`YoungStays`), so its history has
  it. The lemma `NothingFound` says what becomes of the history of a shared hop.

`TreePage_proofs`, from `SocketAssumption`, `LayoutAssumption` (finitely many nodes, whose
`Path`s run to the root) and `PageAssumption`:

* `ImplementsSocket`: each step of the page is a step of `TreeSocket` or leaves its
  variables alone; so what is proved of `TreeSocket` holds of the page.
* `SocketsTold` and `HeaderHonest`: `OneSocket` needs `CallersTold`: `closedByCaller` is set
  for exactly the calls whose page was left, which is what `onclose` looks at.
* `HistoryOfSelected`: a request that is not cancelled is for the node that is
  selected (`OneWanted`); while there is none, nothing is loading.
* `OnScreenOnce`: `EachNodeOnce` is not inductive. `StoreInv` says that the store holds a tree in
  which every node has its parent, and a current node a current one (`StoreTrees`, which a
  diff keeps: `PatchKeeps`), and that the layout has the structure of the visible tree
  (`LaidOut`; `Redrawn`, since `Drawn` is what serializing the visible tree gives:
  `DrawnStructure`). Where a node is on the screen depends on that structure alone, and
  of a tree laid out as it is each node is there once (`ShownOnce`), by induction along paths
  (`FromTheRoot`, by the number of nodes above): the nodes above a node are one above the
  other (`PathChain`), so that either all of them are drawn or one is the topmost
  collapsed one (`Topmost`).
* `TargetsDrawnOnce`: of every tree the backend can publish, every choice of collapsed nodes
  and every fresh layout. A target's leaf is on the screen once; what a summary above it
  counts is the number of targets below (`LeafCountIs`, by a bijection of leaves and targets).
* `SelectedDrawn`: a click selects what is drawn, and a search expands all that is above
  its match (`MatchDrawn`).

Only model-checked: liveness (`Freshness`, `EndToEnd`, `ProbedForever`, `LeftAlone`,
`ListedComesBack`, `NamesArrive`, `OldRunsGo`, `Reconnects`), since the provers reason
neither about fairness nor `ENABLED`. The three runs that expect a violation are
counterexamples, and need no proof.

## Limits, and what is not modelled

* Data: a trace is its end and severity in `TreeService` and its labels in
  `TreeBuilder`; times, ASNs, display names and the wording of errors are left out.
* One host name per address in `TreeBuilder`: how names come and change is
  `LookupCache`'s; that a change of name moves a subtree is what the code means.
* Clocks only move forward, and prober and backend have the same. A step back
  would let ghosts live longer and hide results.
* A probe is one step that ends, or a failure; command lines are configuration.
* Authentication is a signed cookie checked on each request, with no state on the
  server; the admin pages are forms that reload after each call; the other
  endpoints of `api/tree.py` only read. None of them is modelled.
* Of the page: the geometry, zoom, labels and the fading by `last_seen_at` are not
  modelled, nor are requests for a history that were cancelled. The mixture that an answer of an
  earlier life makes is `TreeFeed`'s; it may lack parents, and what `TreePage` says of
  the layout is said of a store without it. How long the backoff waits is left out. REST answers may come at any time
  once the page was shown.
* In `TreeFeed` the flag `connected` and the `onclose` of a socket that was already
  replaced are left out: they are `TreeSocket`'s.
* In `TargetStore`, an insertion of the same address by two transactions lets the second
  wait and then see the row; the unique violation that the code would get is
  one of the failures `Fail` stands for. The fetch interval is left out: it only
  decides when a list is due.

## Plan

Done: every module above with its runs; the proof of every invariant and action
property they check, and of the refinement `MirrorSpec`.

Left: `ProbeRotation`, an abstract specification of the scheduler (each target waits,
runs, rests) that `Scheduler` implements while no target returns.
