------------------------------ MODULE TreeFeed ------------------------------
(***************************************************************************)
(* The live tree from the backend to the browsers: TreeService with the    *)
(* connection manager (services/ws_manager.py), the websocket handler      *)
(* (api/ws.py), GET /api/tree, and in every browser tab the socket         *)
(* (frontend/src/api/ws.ts) and the store (hooks/useTreeStore.ts).         *)
(*                                                                         *)
(* Interleavings.  An asyncio task runs until it awaits something that is  *)
(* not ready.  The locks are never held across an await, so taking one     *)
(* never suspends; a send writes its frame and suspends afterwards, if the *)
(* peer reads too slowly.  Hence registering a connection and queueing its *)
(* first snapshot is one step, and so are publishing a tree and the first  *)
(* send of its diff, but anything may happen between two sends of one      *)
(* broadcast.  A connection is a FIFO channel each way that may break at   *)
(* any time and then loses what it holds.                                  *)
(***************************************************************************)
EXTENDS TreeService, Sequences

CONSTANTS
  Tab,        \* browser tabs showing the tree
  MaxSockets  \* bound: sockets a tab opens

ASSUME FeedAssumption == MaxSockets \in Nat

Conn == Tab \X (1..MaxSockets)
NoSeq == -1

VARIABLES
  conns,     \* _connections of the manager
  up,        \* the connections whose transport works
  down,      \* per connection, messages on their way to the tab
  requests,  \* per connection, request_snapshot messages on their way back
  diff,      \* the message a broadcast is sending
  owed,      \* the connections it has still to send it to
  dead,      \* the connections it could not send it to
  opened,    \* per tab, sockets opened so far
  online,    \* per tab, whether its last socket is open
  view,      \* per tab, the store's nodes
  viewSeq,   \* per tab, the store's seq, or NoSeq for null
  prime,     \* per tab, the REST request of TreeView: asked, answered (by this
             \* life of the backend), outlived (by an earlier one) or done
  answer,    \* per tab, the body of its answer
  published, \* history: the trees the backend has had, as diffs tell them
  overtaken, \* history: a tab's tree came from a REST answer that was older
  astray     \* history: whether a tab's tree is one of an earlier life, "old",
             \* such a one patched with diffs of this life, "mixed", or "no"

clientVars == <<opened, online, view, viewSeq, overtaken, astray>>
restVars == <<prime, answer>>
channelVars == <<up, down, requests>>
broadcastVars == <<diff, owed, dead>>
feedVars == <<conns, channelVars, broadcastVars, clientVars, restVars, published>>
vars == <<serviceVars, feedVars>>

Socket(tab) == <<tab, opened[tab]>>

Snapshot == [type |-> "tree_snapshot", seq |-> seq, nodes |-> nodes]

NoAnswer == [type |-> "tree_snapshot", seq |-> 0, nodes |-> <<>>]

FeedInit ==
  /\ Init
  /\ conns = {} /\ up = {}
  /\ down = [c \in Conn |-> <<>>]
  /\ requests = [c \in Conn |-> 0]
  /\ diff = <<>> /\ owed = {} /\ dead = {}
  /\ opened = [tab \in Tab |-> 0]
  /\ online = [tab \in Tab |-> FALSE]
  /\ view = [tab \in Tab |-> <<>>]
  /\ viewSeq = [tab \in Tab |-> NoSeq]
  /\ prime = [tab \in Tab |-> "asked"]
  /\ answer = [tab \in Tab |-> NoAnswer]
  /\ published = {Shown(nodes)}
  /\ overtaken = [tab \in Tab |-> FALSE]
  /\ astray = [tab \in Tab |-> "no"]

-----------------------------------------------------------------------------
(* The backend *)

Push(c, m) == down' = [down EXCEPT ![c] = Append(@, m)]

(* One round of broadcast's loop, for connection c. *)
SendTo(c, m) ==
  IF c \in up THEN Push(c, m) /\ dead' = dead
              ELSE dead' = dead \cup {c} /\ UNCHANGED down

DiffMessage(s, d) ==
  [type |-> "tree_diff", seq |-> s,
   added |-> d.added, updated |-> d.updated, removed |-> d.removed]

(* recompute_and_broadcast from the merge to the first send. *)
PublishAndSend ==
  /\ Publish
  /\ published' = published \cup {Shown(nodes')}
  /\ IF seq' = seq \/ conns = {}
       THEN UNCHANGED <<broadcastVars, channelVars>>
       ELSE LET m == DiffMessage(seq', Diff(nodes, nodes'))
            IN  /\ diff' = m
                /\ \E c \in conns : SendTo(c, m) /\ owed' = conns \ {c}
                /\ UNCHANGED <<up, requests>>
  /\ UNCHANGED <<conns, clientVars, restVars>>

SendNext ==
  /\ \E c \in owed : SendTo(c, diff) /\ owed' = owed \ {c}
  /\ UNCHANGED <<serviceVars, conns, up, requests, diff, clientVars, restVars,
                 published>>

FinishBroadcast ==
  /\ owed = {}
  /\ EndBroadcast
  /\ conns' = conns \ dead
  /\ dead' = {} /\ diff' = <<>>
  /\ UNCHANGED <<owed, channelVars, clientVars, restVars, published>>

(* ws_tree's loop: a request_snapshot is answered with the tree of now. *)
ServeRequest(c) ==
  /\ c \in up /\ requests[c] > 0
  /\ requests' = [requests EXCEPT ![c] = @ - 1]
  /\ Push(c, Snapshot)
  /\ UNCHANGED <<serviceVars, conns, up, broadcastVars, clientVars, restVars,
                 published>>

(* ws_tree's finally, once its receive has raised. *)
Disconnect(c) ==
  /\ c \in conns \ up
  /\ conns' = conns \ {c}
  /\ UNCHANGED <<serviceVars, channelVars, broadcastVars, clientVars, restVars,
                 published>>

(* GET /api/tree *)
AnswerTree(tab) ==
  /\ prime[tab] = "asked"
  /\ prime' = [prime EXCEPT ![tab] = "answered"]
  /\ answer' = [answer EXCEPT ![tab] = Snapshot]
  /\ UNCHANGED <<serviceVars, conns, channelVars, broadcastVars, clientVars,
                 published>>

-----------------------------------------------------------------------------
(* The browser *)

(* Mutant of OpenSocket: the manager is not told of the connection. *)
OpenUnregistered(tab) ==
  /\ ~online[tab] /\ opened[tab] < MaxSockets
  /\ opened' = [opened EXCEPT ![tab] = @ + 1]
  /\ online' = [online EXCEPT ![tab] = TRUE]
  /\ LET c == <<tab, opened[tab] + 1>>
     IN  up' = up \cup {c} /\ Push(c, Snapshot)
  /\ UNCHANGED <<serviceVars, conns, requests, broadcastVars, view, viewSeq,
                 overtaken, astray, restVars, published>>

(* connect, the upgrade, ws_tree's connect and first snapshot, onopen. *)
OpenSocket(tab) ==
  /\ ~online[tab] /\ opened[tab] < MaxSockets
  /\ opened' = [opened EXCEPT ![tab] = @ + 1]
  /\ online' = [online EXCEPT ![tab] = TRUE]
  /\ LET c == <<tab, opened[tab] + 1>>
     IN  conns' = conns \cup {c} /\ up' = up \cup {c} /\ Push(c, Snapshot)
  /\ UNCHANGED <<serviceVars, requests, broadcastVars, view, viewSeq, overtaken,
                 astray, restVars, published>>

(* applyDiff: removed, then added, then updated entries. *)
Apply(d, old) ==
  [n \in (DOMAIN old \ d.removed) \cup DOMAIN d.added |->
     LET e == IF n \in DOMAIN d.added THEN d.added[n] ELSE old[n]
     IN  IF n \notin DOMAIN d.updated THEN e
         ELSE LET u == d.updated[n]
              IN  [body |-> [own |-> u.own, worst |-> u.worst,
                             targets |-> e.body.targets],
                   current |-> u.current, seen |-> u.seen]]

(* Mutant of Gap: the seq of a diff is not looked at. *)
NeverGap(tab, m) == FALSE

Gap(tab, m) == viewSeq[tab] # NoSeq /\ m.seq # viewSeq[tab] + 1

Show(tab, shownNodes, shownSeq) ==
  /\ view' = [view EXCEPT ![tab] = shownNodes]
  /\ viewSeq' = [viewSeq EXCEPT ![tab] = shownSeq]

(* What a diff makes of a tree: one of an earlier life becomes a mixture.   *)
Patched(a) == IF a = "no" THEN "no" ELSE "mixed"

(* Mutant of Receive: a gap is noticed, and nothing is asked for. *)
ReceiveAndForget(tab) ==
  LET c == Socket(tab) m == Head(down[Socket(tab)]) IN
  /\ online[tab] /\ down[c] # <<>>
  /\ down' = [down EXCEPT ![c] = Tail(@)]
  /\ \/ /\ m.type = "tree_snapshot"
        /\ Show(tab, m.nodes, m.seq)
        /\ overtaken' = [overtaken EXCEPT ![tab] = FALSE]
        /\ astray' = [astray EXCEPT ![tab] = "no"]
     \/ /\ m.type = "tree_diff" /\ ~Gap(tab, m)
        /\ Show(tab, Apply(m, view[tab]), m.seq)
        /\ astray' = [astray EXCEPT ![tab] = Patched(@)]
        /\ UNCHANGED overtaken
     \/ /\ m.type = "tree_diff" /\ Gap(tab, m)
        /\ overtaken' = [overtaken EXCEPT ![tab] = FALSE]
        /\ UNCHANGED <<view, viewSeq, astray>>
  /\ UNCHANGED <<serviceVars, conns, up, requests, broadcastVars, opened, online,
                 restVars, published>>

(* onmessage *)
Receive(tab) ==
  LET c == Socket(tab) m == Head(down[Socket(tab)]) IN
  /\ online[tab] /\ down[c] # <<>>
  /\ down' = [down EXCEPT ![c] = Tail(@)]
  /\ \/ /\ m.type = "tree_snapshot"
        /\ Show(tab, m.nodes, m.seq)
        /\ overtaken' = [overtaken EXCEPT ![tab] = FALSE]
        /\ astray' = [astray EXCEPT ![tab] = "no"]
        /\ UNCHANGED requests
     \/ /\ m.type = "tree_diff" /\ ~Gap(tab, m)
        /\ Show(tab, Apply(m, view[tab]), m.seq)
        /\ astray' = [astray EXCEPT ![tab] = Patched(@)]
        /\ UNCHANGED <<requests, overtaken>>
     \/ /\ m.type = "tree_diff" /\ Gap(tab, m)
        /\ requests' = [requests EXCEPT ![c] = @ + 1]
        /\ overtaken' = [overtaken EXCEPT ![tab] = FALSE]
        /\ UNCHANGED <<view, viewSeq, astray>>
  /\ UNCHANGED <<serviceVars, conns, up, broadcastVars, opened, online, restVars,
                 published>>

(* The REST answer arrives: TreeView applies it whatever the store holds,   *)
(* and whichever life of the backend has sent it.                           *)
(* (A failure is caught and ignored: it is an answer that never arrives.)   *)
ApplyAnswer(tab) ==
  /\ prime[tab] \in {"answered", "outlived"}
  /\ prime' = [prime EXCEPT ![tab] = "done"]
  /\ Show(tab, answer[tab].nodes, answer[tab].seq)
  /\ overtaken' =
       [overtaken EXCEPT ![tab] = @ \/ answer[tab].seq < viewSeq[tab]]
  /\ astray' = [astray EXCEPT ![tab] = IF prime[tab] = "outlived" THEN "old" ELSE @]
  /\ answer' = [answer EXCEPT ![tab] = NoAnswer]
  /\ UNCHANGED <<serviceVars, conns, channelVars, broadcastVars, opened, online,
                 published>>

(* The network drops the socket: onclose here, a failed receive there. *)
Lose(tabs) ==
  LET cs == {Socket(tab) : tab \in {t \in tabs : online[t]}} IN
  /\ online' = [tab \in Tab |-> online[tab] /\ tab \notin tabs]
  /\ up' = up \ cs
  /\ down' = [c \in Conn |-> IF c \in cs THEN <<>> ELSE down[c]]
  /\ requests' = [c \in Conn |-> IF c \in cs THEN 0 ELSE requests[c]]

DropSocket(tab) ==
  /\ online[tab]
  /\ Lose({tab})
  /\ UNCHANGED <<serviceVars, conns, broadcastVars, opened, view, viewSeq,
                 overtaken, astray, restVars, published>>

(* The backend restarts: every connection dies with it.  An answer of       *)
(* GET /api/tree it has sent is still on its way (the proxy or the network  *)
(* holds it); a request it has not answered may reach the new process.      *)
RestartFeed ==
  /\ Restart
  /\ Lose(Tab)
  /\ conns' = {} /\ diff' = <<>> /\ owed' = {} /\ dead' = {}
  /\ prime' = [tab \in Tab |->
                 IF prime[tab] = "answered" THEN "outlived" ELSE prime[tab]]
  /\ UNCHANGED <<opened, view, viewSeq, overtaken, astray, answer, published>>

-----------------------------------------------------------------------------
BeforePublish ==
  \/ Wake
  \/ EndSleep
  \/ ReadTargets
  \/ \E t \in Target : ReadTrace(t)

(* The steps of TreeService that touch neither a connection nor a tab. *)
ServiceOnly ==
  /\ \/ Change
     \/ RequestRecompute
     \/ BeforePublish
     \/ FailRecompute
     \/ Tick
  /\ UNCHANGED feedVars

FeedNext ==
  \/ ServiceOnly
  \/ PublishAndSend
  \/ SendNext
  \/ FinishBroadcast
  \/ RestartFeed
  \/ \E c \in Conn : ServeRequest(c) \/ Disconnect(c)
  \/ \E tab \in Tab :
       \/ AnswerTree(tab) \/ ApplyAnswer(tab)
       \/ OpenSocket(tab) \/ Receive(tab) \/ DropSocket(tab)

FeedLoopStep ==
  \/ BeforePublish /\ UNCHANGED feedVars
  \/ PublishAndSend \/ SendNext \/ FinishBroadcast

(* The backend's tasks go on as in TreeService; a send to a stalled peer    *)
(* ends because uvicorn's keepalive closes the connection.  A tab reads its *)
(* socket, and opens another when its reconnect timer fires.  Nobody owes a *)
(* dropped link, a REST answer or a crash.                                  *)
FeedFairness ==
  /\ WF_vars(FeedLoopStep)
  /\ WF_vars(RequestRecompute /\ UNCHANGED feedVars)
  /\ \A c \in Conn : WF_vars(ServeRequest(c))
  /\ \A tab \in Tab : WF_vars(Receive(tab)) /\ WF_vars(OpenSocket(tab))

FeedSpec == FeedInit /\ [][FeedNext]_vars /\ FeedFairness

-----------------------------------------------------------------------------
(* The feed keeps TreeMirror's promise: what a tab draws at any moment, but *)
(* for which targets end where, is a whole tree the backend had in this or  *)
(* an earlier life, with every node's parent in it, although it is patched  *)
(* together from snapshots and diffs of three sources (first snapshot,      *)
(* answers to request_snapshot, REST) over connections that break and       *)
(* across restarts.  Nothing is said of a tab while its tree is mixed: an   *)
(* answer that outlived its process, patched by diffs of the next; the next *)
(* snapshot ends that.                                                      *)
Look4 == [own : 0..3, worst : 0..3, current : BOOLEAN, seen : 0..MaxNow]
ClosedTrees ==
  {tr \in UNION {[ids -> Look4] : ids \in SUBSET Node} :
     \A n \in DOMAIN tr \ {Root} : Parent[n] \in DOMAIN tr}
Mirror == INSTANCE TreeMirror WITH
  Trees <- ClosedTrees,
  tree <- Shown(nodes), past <- published,
  drawn <- [tab \in Tab |->
              Shown(IF astray[tab] = "mixed" THEN <<>> ELSE view[tab])]
MirrorSpec == Mirror!Spec

(* A tab with nothing on its way to it, nor still to be sent, is at the     *)
(* backend's seq and draws its tree (but for which targets end where, see   *)
(* LeafTargets), stamps of ghosts included: a diff that was missed, refused *)
(* or overtaken by a reconnect or a restart has always been made up for.    *)
(* The exceptions are a tab that a late REST answer has set back, until the *)
(* next message reaches it, and one that an answer of an earlier life has   *)
(* led astray, until the next snapshot does.                                *)
Settled(tab) ==
  /\ online[tab]
  /\ down[Socket(tab)] = <<>>
  /\ requests[Socket(tab)] = 0
  /\ Socket(tab) \notin owed
CaughtUp ==
  \A tab \in Tab :
    Settled(tab) /\ ~overtaken[tab] /\ astray[tab] = "no" =>
      viewSeq[tab] = seq /\ Shown(view[tab]) = Shown(nodes)

(* End to end: once writes stop, every tab that stays connected draws what  *)
(* is stored, and of ghosts those the backend has not let go of, unless a   *)
(* late REST answer has set it back or led it astray or the last change     *)
(* never led to a recompute.                                                *)
LiveLooks(tr) ==
  [n \in {m \in DOMAIN tr : tr[m].current} |->
     [own |-> tr[n].body.own, worst |-> tr[n].body.worst]]
StoredLooks ==
  LET b == Build([t \in active |-> trace[t]])
  IN  [n \in DOMAIN b |-> [own |-> b[n].own, worst |-> b[n].worst]]
EndToEnd ==
  \A tab \in Tab :
    <>[](\/ /\ LiveLooks(view[tab]) = StoredLooks
            /\ Shown(view[tab]) = Shown(nodes)
         \/ missed \/ ~online[tab] \/ overtaken[tab] \/ astray[tab] # "no")

-----------------------------------------------------------------------------
(* A statement of the repository that the code does not keep. *)

=============================================================================
