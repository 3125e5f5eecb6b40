--------------------------- MODULE TreeFeed_proofs ---------------------------
(***************************************************************************)
(* Proofs about TreeFeed, for every tree of node ids, any number of tabs   *)
(* and of sockets a tab opens: a tab only ever draws a whole tree the      *)
(* backend had (the feed implements TreeMirror), and one with nothing on   *)
(* its way draws the tree of now; but for a tab that an answer of an       *)
(* earlier life of the backend has led astray.                             *)
(*                                                                         *)
(* Neither is inductive.  The argument is that within one life of the      *)
(* backend a seq stands for one tree as a tab can tell it, and that every  *)
(* snapshot, every answer of this life and the view of every open tab that *)
(* is not astray is of the tree its seq stands for, every diff leads from  *)
(* the tree of the seq before to that of its own, and an answer that       *)
(* outlived its process is some tree the backend had.                      *)
(***************************************************************************)
EXTENDS TreeFeed, TreeService_proofs

(* What the channels and the store hold. *)
NodeMap == UNION {[ids -> Entry] : ids \in SUBSET Node}
Stats == [own : 0..3, worst : 0..3, current : BOOLEAN, seen : 0..MaxNow]
StatsMap == UNION {[ids -> Stats] : ids \in SUBSET Node}
SnapshotMessage == [type : {"tree_snapshot"}, seq : Nat, nodes : NodeMap]
TreeDiffMessage ==
  [type : {"tree_diff"}, seq : Nat, added : NodeMap, updated : StatsMap,
   removed : SUBSET Node]
Message == SnapshotMessage \cup TreeDiffMessage

FeedTypes ==
  /\ conns \subseteq Conn /\ up \subseteq Conn
  /\ owed \subseteq Conn /\ dead \subseteq Conn
  /\ down \in [Conn -> Seq(Message)]
  /\ requests \in [Conn -> Nat]
  /\ owed # {} => diff \in TreeDiffMessage
  /\ opened \in [Tab -> 0..MaxSockets]
  /\ online \in [Tab -> BOOLEAN]
  /\ view \in [Tab -> NodeMap]
  /\ viewSeq \in [Tab -> {NoSeq} \cup Nat]
  /\ prime \in [Tab -> {"asked", "answered", "outlived", "done"}]
  /\ answer \in [Tab -> SnapshotMessage]
  /\ overtaken \in [Tab -> BOOLEAN]
  /\ astray \in [Tab -> {"no", "old", "mixed"}]

(* How connections, sockets and the broadcast hang together: what is up is  *)
(* each online tab's last socket, the manager knows it, and no connection   *)
(* is counted dead before it is.                                            *)
Opened == \A tab \in Tab : online[tab] => opened[tab] # 0
LastSockets ==
  \A tab \in Tab, k \in 1..MaxSockets :
    <<tab, k>> \in up <=> online[tab] /\ k = opened[tab]
KnownPeers ==
  \A tab \in Tab, k \in 1..MaxSockets :
    <<tab, k>> \in conns \cup owed \cup dead => k <= opened[tab]
Registered == up \subseteq conns /\ up \cap dead = {}
Quiet == \A c \in Conn \ up : down[c] = <<>>
Broadcasting == owed # {} => loop = "sending"
Links ==
  Opened /\ LastSockets /\ KnownPeers /\ Registered /\ Quiet /\ Broadcasting

-----------------------------------------------------------------------------
(* What the helpers return *)

LEMMA EmptyMap == <<>> \in NodeMap
<1>1. <<>> \in [{} -> Entry]
  OBVIOUS
<1> QED BY <1>1 DEF NodeMap

LEMMA DiffType ==
  ASSUME NEW old \in NodeMap, NEW new \in NodeMap, NEW s \in Nat
  PROVE  DiffMessage(s, Diff(old, new)) \in TreeDiffMessage
<1> DEFINE d == Diff(old, new)
<1>1. /\ DOMAIN old \subseteq Node /\ old \in [DOMAIN old -> Entry]
      /\ DOMAIN new \subseteq Node /\ new \in [DOMAIN new -> Entry]
  BY DEF NodeMap
<1>2. d.added \in [DOMAIN new \ DOMAIN old -> Entry]
  BY <1>1 DEF Diff
<1>3. d.updated \in [Updated(old, new) -> Stats]
  <2>1. \A n \in Updated(old, new) : Update(new[n]) \in Stats
    BY <1>1 DEF Updated, Update, Stats, Entry
  <2> QED BY <2>1 DEF Diff
<1>4. d.removed \in SUBSET Node
  BY <1>1 DEF Diff
<1>5. d.added \in NodeMap
  BY <1>1, <1>2 DEF NodeMap
<1>6. d.updated \in StatsMap
  <2>1. Updated(old, new) \in SUBSET Node
    BY <1>1 DEF Updated
  <2> QED BY <1>3, <2>1 DEF StatsMap
<1> HIDE DEF d
<1>7. DiffMessage(s, d) \in TreeDiffMessage
  BY <1>4, <1>5, <1>6 DEF DiffMessage, TreeDiffMessage
<1> QED BY <1>7 DEF d

LEMMA ApplyType ==
  ASSUME NEW m \in TreeDiffMessage, NEW v \in NodeMap
  PROVE  Apply(m, v) \in NodeMap
<1> DEFINE ids == (DOMAIN v \ m.removed) \cup DOMAIN m.added
           w == Apply(m, v)
<1>1. /\ m.added \in NodeMap /\ m.updated \in StatsMap
  BY DEF TreeDiffMessage
<1>2. /\ DOMAIN v \subseteq Node /\ v \in [DOMAIN v -> Entry]
      /\ DOMAIN m.added \subseteq Node /\ m.added \in [DOMAIN m.added -> Entry]
      /\ m.updated \in [DOMAIN m.updated -> Stats]
  BY <1>1 DEF NodeMap, StatsMap
<1>3. ASSUME NEW n \in ids
      PROVE  w[n] \in Entry
  <2> DEFINE e == IF n \in DOMAIN m.added THEN m.added[n] ELSE v[n]
             u == m.updated[n]
  <2>1. e \in Entry
    BY <1>2
  <2>2. CASE n \notin DOMAIN m.updated
    <3>1. w[n] = e
      BY <2>2 DEF Apply
    <3> QED BY <2>1, <3>1
  <2>3. CASE n \in DOMAIN m.updated
    <3>1. w[n] = [body |-> [own |-> u.own, worst |-> u.worst,
                            targets |-> e.body.targets],
                  current |-> u.current, seen |-> u.seen]
      BY <2>3 DEF Apply
    <3>2. u \in Stats
      BY <1>2, <2>3
    <3>3. e.body.targets \in SUBSET Target
      BY <2>1 DEF Entry
    <3> HIDE DEF e, u
    <3> QED BY <3>1, <3>2, <3>3 DEF Entry, Stats
  <2> QED BY <2>2, <2>3
<1>4. w = [n \in ids |-> w[n]]
  BY DEF Apply
<1> HIDE DEF w
<1>5. w \in [ids -> Entry]
  BY <1>3, <1>4
<1>6. ids \in SUBSET Node
  BY <1>2
<1> HIDE DEF ids
<1>7. w \in NodeMap
  BY <1>5, <1>6 DEF NodeMap
<1> QED BY <1>7 DEF w

(* applyDiff, on what can be told of the trees. *)
Patch(d, shown) ==
  [n \in (DOMAIN shown \ d.removed) \cup DOMAIN d.added |->
     IF n \in DOMAIN d.updated
       THEN [own |-> d.updated[n].own, worst |-> d.updated[n].worst,
             current |-> d.updated[n].current,
             seen |-> IF d.updated[n].current THEN 0 ELSE d.updated[n].seen]
       ELSE IF n \in DOMAIN d.added THEN Look(d.added[n]) ELSE shown[n]]

LEMMA ApplyLooks ==
  ASSUME NEW d, NEW v
  PROVE  Shown(Apply(d, v)) = Patch(d, Shown(v))
<1> DEFINE ids == (DOMAIN v \ d.removed) \cup DOMAIN d.added
           w == Apply(d, v)
<1>1. DOMAIN w = ids
  BY DEF Apply
<1>2. DOMAIN Shown(v) = DOMAIN v /\ \A n \in DOMAIN v : Shown(v)[n] = Look(v[n])
  BY DEF Shown
<1>3. ASSUME NEW n \in ids
      PROVE  Look(w[n]) = Patch(d, Shown(v))[n]
  <2> DEFINE e == IF n \in DOMAIN d.added THEN d.added[n] ELSE v[n]
             u == d.updated[n]
  <2>1. CASE n \in DOMAIN d.updated
    <3>1. w[n] = [body |-> [own |-> u.own, worst |-> u.worst,
                            targets |-> e.body.targets],
                  current |-> u.current, seen |-> u.seen]
      BY <2>1 DEF Apply
    <3>2. Look(w[n]) = [own |-> u.own, worst |-> u.worst, current |-> u.current,
                        seen |-> IF u.current THEN 0 ELSE u.seen]
      BY <3>1 DEF Look
    <3> QED BY <3>2, <2>1, <1>2 DEF Patch
  <2>2. CASE n \notin DOMAIN d.updated
    <3>1. w[n] = e
      BY <2>2 DEF Apply
    <3> QED BY <3>1, <2>2, <1>2 DEF Patch
  <2> QED BY <2>1, <2>2
<1>4. Patch(d, Shown(v)) = [n \in ids |-> Patch(d, Shown(v))[n]]
  BY <1>2 DEF Patch
<1>5. Shown(w) = [n \in ids |-> Look(w[n])]
  BY <1>1 DEF Shown
<1> HIDE DEF ids, w
<1>6. Shown(w) = Patch(d, Shown(v))
  BY <1>3, <1>4, <1>5
<1> QED BY <1>6 DEF w

(* The diff of a recompute leads from the old tree to the new one, although *)
(* it compares three fields only: a ghost's stamp does not move, and a      *)
(* current node's is not drawn.                                             *)
LEMMA DiffLeads ==
  ASSUME NEW b, NEW old, old \in [DOMAIN old -> Entry], NEW at, NEW s
  PROVE  LET new == Merge(b, old, at)
         IN  Patch(DiffMessage(s, Diff(old, new)), Shown(old)) = Shown(new)
<1> DEFINE new == Merge(b, old, at)
           m == DiffMessage(s, Diff(old, new))
<1>1. /\ m.added = [n \in DOMAIN new \ DOMAIN old |-> new[n]]
      /\ m.updated = [n \in Updated(old, new) |-> Update(new[n])]
      /\ m.removed = DOMAIN old \ DOMAIN new
  BY DEF DiffMessage, Diff
<1>2. DOMAIN Shown(old) = DOMAIN old
      /\ \A n \in DOMAIN old : Shown(old)[n] = Look(old[n])
  BY DEF Shown
<1>3. \A n \in DOMAIN new \cap DOMAIN old :
        ~new[n].current => new[n].seen = old[n].seen
  <2> SUFFICES ASSUME NEW n \in DOMAIN new \cap DOMAIN old, ~new[n].current
               PROVE  new[n].seen = old[n].seen
    OBVIOUS
  <2>1. n \notin DOMAIN b
    BY DEF Merge
  <2>2. new[n] = [old[n] EXCEPT !.current = FALSE]
    BY <2>1 DEF Merge
  <2> QED BY <2>2 DEF Entry
<1> HIDE DEF new
<1>4. DOMAIN Patch(m, Shown(old)) = DOMAIN new
  BY <1>1, <1>2 DEF Patch
<1>5. ASSUME NEW n \in DOMAIN new
      PROVE  Patch(m, Shown(old))[n] = Look(new[n])
  <2>0. n \in (DOMAIN Shown(old) \ m.removed) \cup DOMAIN m.added
    BY <1>1, <1>2
  <2>1. CASE n \notin DOMAIN old
    <3>1. n \notin DOMAIN m.updated /\ n \in DOMAIN m.added
          /\ m.added[n] = new[n]
      BY <1>1, <2>1 DEF Updated
    <3> HIDE DEF m
    <3> QED BY <2>0, <3>1 DEF Patch
  <2>2. CASE n \in DOMAIN old /\ n \in Updated(old, new)
    <3>1. n \in DOMAIN m.updated /\ m.updated[n] = Update(new[n])
      BY <1>1, <2>2
    <3> HIDE DEF m
    <3> QED BY <2>0, <3>1 DEF Patch, Update, Look
  <2>3. CASE n \in DOMAIN old /\ n \notin Updated(old, new)
    <3>1. n \notin DOMAIN m.updated /\ n \notin DOMAIN m.added
      BY <1>1, <2>3
    <3>2. Patch(m, Shown(old))[n] = Look(old[n])
      <4> HIDE DEF m
      <4> QED BY <2>0, <3>1, <2>3, <1>2 DEF Patch
    <3>3. /\ new[n].body.own = old[n].body.own
          /\ new[n].body.worst = old[n].body.worst
          /\ new[n].current = old[n].current
      BY <2>3 DEF Updated, Differs
    <3>4. ~new[n].current => new[n].seen = old[n].seen
      BY <1>3, <2>3
    <3> QED BY <3>2, <3>3, <3>4 DEF Look
  <2> QED BY <2>1, <2>2, <2>3
<1>6. Patch(m, Shown(old)) = [n \in DOMAIN new |-> Patch(m, Shown(old))[n]]
  BY <1>4 DEF Patch
<1>7. Patch(m, Shown(old)) = Shown(new)
  <2> HIDE DEF m
  <2> QED BY <1>5, <1>6 DEF Shown
<1> QED BY <1>7 DEF new

-----------------------------------------------------------------------------
(* Types *)

(* Every step of the feed is one of the tree service's, or leaves it alone. *)
LEMMA ServiceStep == FeedNext => [Next]_serviceVars
BY DEF FeedNext, ServiceOnly, PublishAndSend, SendNext, FinishBroadcast,
       RestartFeed, ServeRequest, Disconnect, AnswerTree, ApplyAnswer,
       OpenSocket, Receive, DropSocket, Next, LoopStep, BeforePublish

LEMMA SnapshotType == TypeOK => Snapshot \in SnapshotMessage
<1> SUFFICES ASSUME TypeOK PROVE Snapshot \in SnapshotMessage
  OBVIOUS
<1>1. nodes \in NodeMap
  BY DEF TypeOK, NodeMap
<1> QED BY <1>1 DEF TypeOK, Snapshot, SnapshotMessage

LEMMA NoAnswerType == NoAnswer \in SnapshotMessage
BY EmptyMap DEF NoAnswer, SnapshotMessage

LEMMA SocketType ==
  FeedTypes /\ Links => \A tab \in Tab : online[tab] => Socket(tab) \in Conn
BY FeedAssumption DEF FeedTypes, Links, Opened, Socket, Conn

LEMMA PushType ==
  ASSUME FeedTypes, NEW c \in Conn, NEW m \in Message, Push(c, m)
  PROVE  down' \in [Conn -> Seq(Message)]
BY DEF FeedTypes, Push

LEMMA SendType ==
  ASSUME FeedTypes, NEW c \in Conn, NEW m \in Message, SendTo(c, m)
  PROVE  down' \in [Conn -> Seq(Message)] /\ dead' \subseteq Conn
BY PushType DEF FeedTypes, SendTo

LEMMA FeedTypesInit == FeedInit => FeedTypes
<1> SUFFICES ASSUME FeedInit PROVE FeedTypes
  OBVIOUS
<1>1. down \in [Conn -> Seq(Message)]
  BY DEF FeedInit
<1>2. view \in [Tab -> NodeMap]
  BY EmptyMap DEF FeedInit
<1>3. answer \in [Tab -> SnapshotMessage]
  BY NoAnswerType DEF FeedInit
<1> QED BY <1>1, <1>2, <1>3, FeedAssumption DEF FeedInit, FeedTypes

(* Losing sockets empties their channels. *)
LEMMA LoseType ==
  ASSUME FeedTypes, NEW tabs \in SUBSET Tab, Lose(tabs)
  PROVE  /\ online' \in [Tab -> BOOLEAN] /\ up' \subseteq Conn
         /\ down' \in [Conn -> Seq(Message)] /\ requests' \in [Conn -> Nat]
<1>1. \A c \in Conn : down'[c] \in Seq(Message) /\ requests'[c] \in Nat
  BY DEF FeedTypes, Lose
<1>2. /\ down' = [c \in Conn |-> down'[c]]
      /\ requests' = [c \in Conn |-> requests'[c]]
  BY DEF Lose
<1>3. online' \in [Tab -> BOOLEAN] /\ up' \subseteq Conn
  BY DEF FeedTypes, Lose
<1> QED BY <1>1, <1>2, <1>3

LEMMA FeedTypesStep ==
  TypeOK /\ TypeOK' /\ FeedTypes /\ Links /\ [FeedNext]_vars => FeedTypes'
<1> SUFFICES ASSUME TypeOK, TypeOK', FeedTypes, Links, [FeedNext]_vars
             PROVE  FeedTypes'
  OBVIOUS
<1>0. nodes \in NodeMap /\ nodes' \in NodeMap /\ seq \in Nat /\ seq' \in Nat
  BY DEF TypeOK, NodeMap
<1>1. CASE UNCHANGED feedVars
  BY <1>1 DEF FeedTypes, feedVars, channelVars, broadcastVars, clientVars,
              restVars
<1>2. CASE PublishAndSend
  <2>1. CASE UNCHANGED <<broadcastVars, channelVars>>
    BY <1>2, <2>1 DEF PublishAndSend, FeedTypes, channelVars, broadcastVars,
                      clientVars, restVars
  <2>2. ASSUME NEW m, m = DiffMessage(seq', Diff(nodes, nodes')), diff' = m,
               NEW c \in conns, SendTo(c, m), owed' = conns \ {c},
               UNCHANGED <<up, requests>>
        PROVE  FeedTypes'
    <3>1. m \in TreeDiffMessage
      BY <2>2, <1>0, DiffType
    <3>2. down' \in [Conn -> Seq(Message)] /\ dead' \subseteq Conn
      BY <2>2, <3>1, SendType DEF FeedTypes, Message
    <3> QED BY <1>2, <2>2, <3>1, <3>2
            DEF PublishAndSend, FeedTypes, clientVars, restVars
  <2> QED BY <1>2, <2>1, <2>2 DEF PublishAndSend
<1>3. CASE SendNext
  <2>1. PICK c \in owed : SendTo(c, diff) /\ owed' = owed \ {c}
    BY <1>3 DEF SendNext
  <2>2. diff \in Message /\ c \in Conn
    BY <2>1 DEF FeedTypes, Message
  <2>3. down' \in [Conn -> Seq(Message)] /\ dead' \subseteq Conn
    BY <2>1, <2>2, SendType
  <2> QED BY <1>3, <2>1, <2>3 DEF SendNext, FeedTypes, clientVars, restVars
<1>4. CASE FinishBroadcast
  BY <1>4 DEF FinishBroadcast, FeedTypes, channelVars, clientVars, restVars
<1>5. CASE RestartFeed
  <2>1. /\ online' \in [Tab -> BOOLEAN] /\ up' \subseteq Conn
        /\ down' \in [Conn -> Seq(Message)] /\ requests' \in [Conn -> Nat]
    BY <1>5, LoseType DEF RestartFeed
  <2>2. prime' \in [Tab -> {"asked", "answered", "outlived", "done"}]
    BY <1>5 DEF RestartFeed, FeedTypes
  <2> QED BY <1>5, <2>1, <2>2 DEF RestartFeed, FeedTypes
<1>6. ASSUME NEW c \in Conn, ServeRequest(c) PROVE FeedTypes'
  <2>1. down' \in [Conn -> Seq(Message)]
    BY <1>6, PushType, SnapshotType DEF ServeRequest, Message
  <2>2. requests' \in [Conn -> Nat]
    BY <1>6 DEF ServeRequest, FeedTypes
  <2> QED BY <1>6, <2>1, <2>2
          DEF ServeRequest, FeedTypes, broadcastVars, clientVars, restVars
<1>7. ASSUME NEW c \in Conn, Disconnect(c) PROVE FeedTypes'
  BY <1>7 DEF Disconnect, FeedTypes, channelVars, broadcastVars, clientVars,
              restVars
<1>8. ASSUME NEW tab \in Tab, AnswerTree(tab) PROVE FeedTypes'
  BY <1>8, SnapshotType DEF AnswerTree, FeedTypes, channelVars, broadcastVars,
                            clientVars
<1>9. ASSUME NEW tab \in Tab, ApplyAnswer(tab) PROVE FeedTypes'
  <2>1. answer[tab].nodes \in NodeMap /\ answer[tab].seq \in Nat
    BY DEF FeedTypes, SnapshotMessage
  <2>2. view' \in [Tab -> NodeMap] /\ viewSeq' \in [Tab -> {NoSeq} \cup Nat]
    BY <1>9, <2>1 DEF ApplyAnswer, Show, FeedTypes
  <2>3. answer' \in [Tab -> SnapshotMessage]
    BY <1>9, NoAnswerType DEF ApplyAnswer, FeedTypes
  <2>4. overtaken' \in [Tab -> BOOLEAN]
    BY <1>9 DEF ApplyAnswer, FeedTypes
  <2>5. prime' \in [Tab -> {"asked", "answered", "outlived", "done"}]
    BY <1>9 DEF ApplyAnswer, FeedTypes
  <2>6. astray' \in [Tab -> {"no", "old", "mixed"}]
    BY <1>9 DEF ApplyAnswer, FeedTypes
  <2> QED BY <1>9, <2>2, <2>3, <2>4, <2>5, <2>6
          DEF ApplyAnswer, FeedTypes, channelVars, broadcastVars
<1>10. ASSUME NEW tab \in Tab, OpenSocket(tab) PROVE FeedTypes'
  <2> DEFINE c == <<tab, opened[tab] + 1>>
  <2>1. c \in Conn
    BY <1>10, FeedAssumption DEF OpenSocket, FeedTypes, Conn
  <2>2. Push(c, Snapshot) /\ conns' = conns \cup {c} /\ up' = up \cup {c}
    BY <1>10 DEF OpenSocket
  <2>3. down' \in [Conn -> Seq(Message)]
    BY <2>1, <2>2, PushType, SnapshotType DEF Message
  <2>4. opened' \in [Tab -> 0..MaxSockets] /\ online' \in [Tab -> BOOLEAN]
    BY <1>10, FeedAssumption DEF OpenSocket, FeedTypes
  <2>5. conns' \subseteq Conn /\ up' \subseteq Conn
    BY <2>1, <2>2 DEF FeedTypes
  <2> QED BY <1>10, <2>3, <2>4, <2>5
          DEF OpenSocket, FeedTypes, broadcastVars, restVars
<1>11. ASSUME NEW tab \in Tab, Receive(tab) PROVE FeedTypes'
  <2> DEFINE c == Socket(tab)
             m == Head(down[c])
  <2>1. /\ down' = [down EXCEPT ![c] = Tail(@)] /\ down[c] # <<>>
        /\ UNCHANGED <<serviceVars, conns, up, broadcastVars, opened, online,
                       restVars, published>>
    BY <1>11 DEF Receive
  <2>4. astray' \in [Tab -> {"no", "old", "mixed"}]
    BY <1>11 DEF Receive, Patched, FeedTypes
  <2>2. CASE c \in Conn
    <3>1. down[c] \in Seq(Message) /\ m \in Message
      BY <2>1, <2>2 DEF FeedTypes
    <3>2. down' \in [Conn -> Seq(Message)]
      <4>1. Tail(down[c]) \in Seq(Message)
        BY <2>1, <3>1
      <4> HIDE DEF c, m
      <4> QED BY <2>1, <4>1 DEF FeedTypes
    <3>3. /\ view' \in [Tab -> NodeMap] /\ viewSeq' \in [Tab -> {NoSeq} \cup Nat]
          /\ requests' \in [Conn -> Nat] /\ overtaken' \in [Tab -> BOOLEAN]
      <4>1. CASE m.type = "tree_snapshot"
        <5>1. m.nodes \in NodeMap /\ m.seq \in Nat
          BY <3>1, <4>1 DEF Message, SnapshotMessage, TreeDiffMessage
        <5>2. /\ Show(tab, m.nodes, m.seq) /\ UNCHANGED requests
              /\ overtaken' = [overtaken EXCEPT ![tab] = FALSE]
          BY <1>11, <4>1 DEF Receive
        <5> HIDE DEF m
        <5> QED BY <5>1, <5>2 DEF Show, FeedTypes
      <4>2. CASE m.type = "tree_diff"
        <5>1. m \in TreeDiffMessage /\ m.seq \in Nat
          BY <3>1, <4>2 DEF Message, SnapshotMessage, TreeDiffMessage
        <5>2. Apply(m, view[tab]) \in NodeMap
          BY <5>1, ApplyType DEF FeedTypes
        <5>3. \/ /\ Show(tab, Apply(m, view[tab]), m.seq)
                 /\ UNCHANGED <<requests, overtaken>>
              \/ /\ requests' = [requests EXCEPT ![c] = @ + 1]
                 /\ overtaken' = [overtaken EXCEPT ![tab] = FALSE]
                 /\ UNCHANGED <<view, viewSeq>>
          BY <1>11, <4>2 DEF Receive
        <5> HIDE DEF m, c
        <5>4. CASE /\ Show(tab, Apply(m, view[tab]), m.seq)
                   /\ UNCHANGED <<requests, overtaken>>
          BY <5>1, <5>2, <5>4 DEF Show, FeedTypes
        <5>5. CASE /\ requests' = [requests EXCEPT ![c] = @ + 1]
                   /\ overtaken' = [overtaken EXCEPT ![tab] = FALSE]
                   /\ UNCHANGED <<view, viewSeq>>
          BY <5>5, <2>2 DEF FeedTypes
        <5> QED BY <5>3, <5>4, <5>5
      <4>3. m.type \in {"tree_snapshot", "tree_diff"}
        BY <1>11 DEF Receive
      <4> QED BY <4>1, <4>2, <4>3
    <3> HIDE DEF c, m
    <3> QED BY <2>1, <2>4, <3>2, <3>3 DEF FeedTypes, broadcastVars, restVars
  <2>3. c \in Conn
    BY <1>11, SocketType DEF Receive
  <2> QED BY <2>2, <2>3
<1>12. ASSUME NEW tab \in Tab, DropSocket(tab) PROVE FeedTypes'
  <2>1. /\ online' \in [Tab -> BOOLEAN] /\ up' \subseteq Conn
        /\ down' \in [Conn -> Seq(Message)] /\ requests' \in [Conn -> Nat]
    BY <1>12, LoseType DEF DropSocket
  <2> QED BY <1>12, <2>1 DEF DropSocket, FeedTypes, broadcastVars, restVars
<1> QED
  BY <1>1, <1>2, <1>3, <1>4, <1>5, <1>6, <1>7, <1>8, <1>9, <1>10, <1>11, <1>12
  DEF FeedNext, ServiceOnly, vars

-----------------------------------------------------------------------------
(* Connections *)

LEMMA LinksInit == FeedInit => Links
BY DEF FeedInit, Links, Opened, LastSockets, KnownPeers, Registered, Quiet,
       Broadcasting

LEMMA LinksStep == TypeOK /\ FeedTypes /\ Links /\ [FeedNext]_vars => Links'
<1> SUFFICES ASSUME TypeOK, FeedTypes, Links, [FeedNext]_vars
             PROVE  Links'
  OBVIOUS
<1> USE DEF Links
<1>1. CASE ServiceOnly
  <2>1. loop = "sending" => loop' = "sending"
    BY <1>1 DEF ServiceOnly, BeforePublish, Change, SubmitResult, ChangeTarget,
                BackgroundSync, Store, RequestRecompute, Wake, EndSleep,
                ReadTargets, ReadTrace, FailRecompute, Tick
  <2>2. UNCHANGED <<conns, up, down, owed, dead, opened, online>>
    BY <1>1 DEF ServiceOnly, feedVars, channelVars, broadcastVars, clientVars
  <2> QED BY <2>1, <2>2 DEF Opened, LastSockets, KnownPeers, Registered, Quiet,
                            Broadcasting
<1>2. CASE PublishAndSend
  <2>1. /\ UNCHANGED <<conns, up, opened, online>>
        /\ loop = "reading"
    BY <1>2 DEF PublishAndSend, Publish, clientVars, channelVars
  <2>2. CASE UNCHANGED <<broadcastVars, channelVars>>
    BY <2>1, <2>2 DEF Opened, LastSockets, KnownPeers, Registered, Quiet,
                      Broadcasting, broadcastVars, channelVars
  <2>3. CASE ~ UNCHANGED <<broadcastVars, channelVars>>
    <3>1. PICK c \in conns : \E m : SendTo(c, m) /\ owed' = conns \ {c}
      BY <1>2, <2>3 DEF PublishAndSend
    <3>2. /\ c \in up => dead' = dead
          /\ c \notin up => dead' = dead \cup {c}
          /\ owed' \subseteq conns
          /\ c \notin up => down' = down
          /\ \A d \in Conn \ {c} : down'[d] = down[d]
      BY <3>1 DEF SendTo, Push, FeedTypes
    <3>3. loop' = "sending"
      BY <1>2, <2>3 DEF PublishAndSend, Publish
    <3>4. Opened' /\ LastSockets' /\ Registered' /\ Quiet'
      BY <2>1, <3>1, <3>2 DEF Opened, LastSockets, Registered, Quiet
    <3>5. KnownPeers'
      BY <2>1, <3>1, <3>2 DEF KnownPeers
    <3> QED BY <3>3, <3>4, <3>5 DEF Broadcasting
  <2> QED BY <2>2, <2>3
<1>3. CASE SendNext
  <2>1. PICK c \in owed : SendTo(c, diff) /\ owed' = owed \ {c}
    BY <1>3 DEF SendNext
  <2>2. UNCHANGED <<conns, up, opened, online, loop>>
    BY <1>3 DEF SendNext, clientVars, serviceVars
  <2>3. /\ c \in up => dead' = dead
        /\ c \notin up => dead' = dead \cup {c}
        /\ c \notin up => down' = down
        /\ \A d \in Conn \ {c} : down'[d] = down[d]
    BY <2>1 DEF SendTo, Push, FeedTypes
  <2>4. Opened' /\ LastSockets' /\ Registered' /\ Quiet' /\ Broadcasting'
    BY <2>1, <2>2, <2>3 DEF Opened, LastSockets, Registered, Quiet, Broadcasting
  <2>5. KnownPeers'
    BY <2>1, <2>2, <2>3 DEF KnownPeers
  <2> QED BY <2>4, <2>5
<1>4. CASE FinishBroadcast
  BY <1>4 DEF FinishBroadcast, Opened, LastSockets, KnownPeers, Registered,
              Quiet, Broadcasting, channelVars, clientVars
<1>5. ASSUME NEW tabs \in SUBSET Tab, Lose(tabs), opened' = opened,
             \/ UNCHANGED <<conns, owed, dead, loop>>
             \/ conns' = {} /\ owed' = {} /\ dead' = {} /\ tabs = Tab
      PROVE  Links'
  <2>1. \A tab \in Tab : online'[tab] <=> online[tab] /\ tab \notin tabs
    BY <1>5 DEF Lose, FeedTypes
  <2>2. \A tab \in Tab, k \in 1..MaxSockets :
          <<tab, k>> \in up' <=> <<tab, k>> \in up /\ tab \notin tabs
    BY <1>5 DEF Lose, LastSockets, Socket
  <2>3. \A c \in Conn :
          \/ down'[c] = <<>>
          \/ down'[c] = down[c] /\ (c \in up => c \in up')
    <3> DEFINE cs == {Socket(tab) : tab \in {t \in tabs : online[t]}}
    <3>1. /\ up' = up \ cs
          /\ down' = [c \in Conn |-> IF c \in cs THEN <<>> ELSE down[c]]
      BY <1>5 DEF Lose
    <3> HIDE DEF cs
    <3> SUFFICES ASSUME NEW c \in Conn
                 PROVE  \/ down'[c] = <<>>
                        \/ down'[c] = down[c] /\ (c \in up => c \in up')
      OBVIOUS
    <3>2. CASE c \in cs
      BY <3>1, <3>2
    <3>3. CASE c \notin cs
      BY <3>1, <3>3
    <3> QED BY <3>2, <3>3
  <2>4. up' \subseteq up /\ up \subseteq Conn
    BY <1>5 DEF Lose, FeedTypes
  <2>5. Opened' /\ LastSockets' /\ Quiet'
    BY <1>5, <2>1, <2>2, <2>3, <2>4 DEF Opened, LastSockets, Quiet
  <2>6. KnownPeers' /\ Broadcasting'
    BY <1>5 DEF KnownPeers, Broadcasting
  <2>7. tabs = Tab => up' = {}
    BY <2>2, <2>4 DEF Conn
  <2>8. Registered'
    BY <1>5, <2>4, <2>7 DEF Registered
  <2> QED BY <2>5, <2>6, <2>8
<1>6. ASSUME NEW c \in Conn, ServeRequest(c) PROVE Links'
  <2>1. /\ \A d \in Conn \ {c} : down'[d] = down[d]
        /\ c \in up
        /\ UNCHANGED <<conns, up, owed, dead, opened, online, loop>>
    BY <1>6 DEF ServeRequest, Push, FeedTypes, broadcastVars, clientVars,
                serviceVars
  <2> QED BY <2>1 DEF Opened, LastSockets, KnownPeers, Registered, Quiet,
                      Broadcasting
<1>7. ASSUME NEW c \in Conn, Disconnect(c) PROVE Links'
  BY <1>7 DEF Disconnect, Opened, LastSockets, KnownPeers, Registered, Quiet,
              Broadcasting, channelVars, broadcastVars, clientVars, serviceVars
<1>8. ASSUME NEW tab \in Tab, AnswerTree(tab) \/ ApplyAnswer(tab) PROVE Links'
  BY <1>8 DEF AnswerTree, ApplyAnswer, Opened, LastSockets, KnownPeers,
              Registered, Quiet, Broadcasting, channelVars, broadcastVars,
              clientVars, serviceVars
<1>9. ASSUME NEW tab \in Tab, OpenSocket(tab) PROVE Links'
  <2> DEFINE c == <<tab, opened[tab] + 1>>
  <2>1. /\ ~online[tab] /\ opened[tab] < MaxSockets
        /\ opened' = [opened EXCEPT ![tab] = @ + 1]
        /\ online' = [online EXCEPT ![tab] = TRUE]
        /\ conns' = conns \cup {c} /\ up' = up \cup {c}
        /\ Push(c, Snapshot)
        /\ UNCHANGED <<owed, dead, loop>>
    BY <1>9 DEF OpenSocket, broadcastVars, serviceVars
  <2>2. opened[tab] \in Nat
    BY DEF FeedTypes
  <2>3. Opened'
    BY <2>1, <2>2 DEF Opened, FeedTypes
  <2>4. LastSockets'
    BY <2>1, <2>2 DEF LastSockets, FeedTypes
  <2>5. KnownPeers'
    <3> SUFFICES ASSUME NEW t \in Tab, NEW k \in 1..MaxSockets,
                        <<t, k>> \in conns' \cup owed' \cup dead'
                 PROVE  k <= opened'[t]
      BY DEF KnownPeers
    <3>1. opened[t] \in Nat /\ opened'[t] >= opened[t]
      BY <2>1 DEF FeedTypes
    <3>2. CASE <<t, k>> = c
      BY <2>1, <2>2, <3>2 DEF FeedTypes
    <3>3. CASE <<t, k>> # c
      BY <2>1, <3>1, <3>3 DEF KnownPeers
    <3> QED BY <3>2, <3>3
  <2>6. c \in Conn /\ c \notin dead
    BY <2>1, <2>2, FeedAssumption DEF KnownPeers, Conn
  <2>7. Registered'
    BY <2>1, <2>6 DEF Registered
  <2>8. Quiet'
    BY <2>1, <2>6 DEF Quiet, Push, FeedTypes
  <2> QED BY <2>1, <2>3, <2>4, <2>5, <2>7, <2>8 DEF Broadcasting
<1>10. ASSUME NEW tab \in Tab, Receive(tab) PROVE Links'
  <2>1. /\ \A d \in Conn : d # Socket(tab) => down'[d] = down[d]
        /\ UNCHANGED <<conns, up, owed, dead, opened, online, loop>>
    BY <1>10 DEF Receive, FeedTypes, broadcastVars, serviceVars
  <2>2. online[tab] /\ Socket(tab) \in up
    BY <1>10, SocketType DEF Receive, LastSockets, Socket, Conn
  <2> QED BY <2>1, <2>2 DEF Opened, LastSockets, KnownPeers, Registered, Quiet,
                            Broadcasting
<1>11. ASSUME NEW tab \in Tab, DropSocket(tab) PROVE Links'
  <2>1. Lose({tab}) /\ opened' = opened /\ UNCHANGED <<conns, owed, dead, loop>>
    BY <1>11 DEF DropSocket, broadcastVars, serviceVars
  <2> QED BY <2>1, <1>5
<1>12. CASE RestartFeed
  BY <1>12, <1>5 DEF RestartFeed
<1>13. CASE UNCHANGED vars
  BY <1>13 DEF vars, feedVars, serviceVars, Opened, LastSockets, KnownPeers,
               Registered, Quiet, Broadcasting, channelVars, broadcastVars,
               clientVars
<1> QED
  BY <1>1, <1>2, <1>3, <1>4, <1>6, <1>7, <1>8, <1>9, <1>10, <1>11, <1>12, <1>13
  DEF FeedNext

-----------------------------------------------------------------------------
(* The trees by their seq *)

(* h is the trees of this life of the backend by their seq, as a tab can    *)
(* tell them, and s the seq of the last: a snapshot shows the tree of its   *)
(* seq, a diff leads to it from the tree before, and what a tab's channel q *)
(* holds makes sense to a store with tree v of seq vs, or starts afresh,    *)
(* unless the tab is astray (f).                                            *)
IsSnapshotOf(m, h, s) ==
  m.type = "tree_snapshot" /\ m.seq \in 0..s /\ Shown(m.nodes) = h[m.seq]
LeadsOn(m, h, s) ==
  m.type = "tree_diff" /\ m.seq \in 1..s /\ Patch(m, h[m.seq - 1]) = h[m.seq]
Tells(m, h, s) == IsSnapshotOf(m, h, s) \/ LeadsOn(m, h, s)
Draws(v, vs, h, s) == vs \in 0..s /\ Shown(v) = h[vs]
InStep(q, v, vs, f, h, s) ==
  /\ \A i \in 1..Len(q) : Tells(q[i], h, s)
  /\ \/ f # "no"
     \/ Draws(v, vs, h, s)
     \/ q # <<>> /\ q[1].type = "tree_snapshot"

Recorded(h) ==
  /\ Shown(<<>>) \in published
  /\ h \in [0..seq -> published] /\ h[seq] = Shown(nodes)
  /\ owed # {} => diff.seq = seq /\ LeadsOn(diff, h, seq)
  /\ \A tab \in Tab : prime[tab] = "answered" => IsSnapshotOf(answer[tab], h, seq)
  /\ \A tab \in Tab :
       prime[tab] = "outlived" => Shown(answer[tab].nodes) \in published
  /\ \A tab \in Tab :
       online[tab] => InStep(down[Socket(tab)], view[tab], viewSeq[tab],
                             astray[tab], h, seq)
History == \E h : Recorded(h)

(* What was true of a seq stays true when another follows. *)
LEMMA StillTells ==
  ASSUME NEW h, NEW k, NEW s \in Nat, NEW r \in Nat, s <= r,
         \A i \in 0..s : k[i] = h[i]
  PROVE  /\ \A m : IsSnapshotOf(m, h, s) => IsSnapshotOf(m, k, r)
         /\ \A m : LeadsOn(m, h, s) => LeadsOn(m, k, r)
         /\ \A q, v, vs, f :
             InStep(q, v, vs, f, h, s) => InStep(q, v, vs, f, k, r)
<1>1. ASSUME NEW m, IsSnapshotOf(m, h, s)
      PROVE  IsSnapshotOf(m, k, r)
  BY <1>1 DEF IsSnapshotOf
<1>2. ASSUME NEW m, LeadsOn(m, h, s)
      PROVE  LeadsOn(m, k, r)
  <2>1. m.seq \in 0..s /\ m.seq - 1 \in 0..s /\ m.seq \in 1..r
    BY <1>2 DEF LeadsOn
  <2>2. k[m.seq] = h[m.seq] /\ k[m.seq - 1] = h[m.seq - 1]
    BY <2>1
  <2> QED BY <1>2, <2>1, <2>2 DEF LeadsOn
<1>3. ASSUME NEW q, NEW v, NEW vs, NEW f, InStep(q, v, vs, f, h, s)
      PROVE  InStep(q, v, vs, f, k, r)
  <2>1. \A i \in 1..Len(q) : Tells(q[i], k, r)
    BY <1>1, <1>2, <1>3 DEF InStep, Tells
  <2>2. Draws(v, vs, h, s) => Draws(v, vs, k, r)
    BY DEF Draws
  <2> QED BY <1>3, <2>1, <2>2 DEF InStep
<1> QED BY <1>1, <1>2, <1>3

LEMMA OneMore ==
  ASSUME NEW h, NEW s, NEW q \in Seq(Message), NEW m \in Message,
         NEW v, NEW vs, NEW f, Tells(m, h, s), InStep(q, v, vs, f, h, s)
  PROVE  InStep(Append(q, m), v, vs, f, h, s)
<1> DEFINE p == Append(q, m)
<1>1. /\ Len(p) = Len(q) + 1 /\ Len(q) \in Nat
      /\ \A i \in 1..Len(q) : p[i] = q[i]
      /\ p[Len(q) + 1] = m /\ p # <<>>
  OBVIOUS
<1>2. q # <<>> => p[1] = q[1]
  <2>1. q # <<>> => 1 \in 1..Len(q)
    OBVIOUS
  <2> QED BY <1>1, <2>1
<1> HIDE DEF p
<1>3. \A i \in 1..Len(p) : Tells(p[i], h, s)
  <2> SUFFICES ASSUME NEW i \in 1..Len(p) PROVE Tells(p[i], h, s)
    OBVIOUS
  <2>1. CASE i \in 1..Len(q)
    BY <1>1, <2>1 DEF InStep
  <2>2. CASE i = Len(q) + 1
    BY <1>1, <2>2
  <2> QED BY <1>1, <2>1, <2>2
<1>4. InStep(p, v, vs, f, h, s)
  BY <1>1, <1>2, <1>3 DEF InStep
<1> QED BY <1>4 DEF p

LEMMA OneLess ==
  ASSUME NEW h, NEW s, NEW q \in Seq(Message), q # <<>>, NEW v, NEW vs, NEW f,
         f = "no" => Draws(v, vs, h, s), \A i \in 1..Len(q) : Tells(q[i], h, s)
  PROVE  InStep(Tail(q), v, vs, f, h, s)
<1> DEFINE p == Tail(q)
<1>1. /\ Len(q) \in Nat \ {0} /\ Len(p) = Len(q) - 1
      /\ \A i \in 1..Len(p) : p[i] = q[i + 1]
  OBVIOUS
<1> HIDE DEF p
<1>2. \A i \in 1..Len(p) : i + 1 \in 1..Len(q)
  BY <1>1
<1>3. InStep(p, v, vs, f, h, s)
  BY <1>1, <1>2 DEF InStep
<1> QED BY <1>3 DEF p

(* A snapshot, for a tab or in an answer, is of the tree of now. *)
LEMMA SnapshotTells ==
  ASSUME TypeOK, NEW h, Recorded(h)
  PROVE  IsSnapshotOf(Snapshot, h, seq)
BY DEF TypeOK, Recorded, Snapshot, IsSnapshotOf

(* Whatever message comes next, the tab then draws the tree of its seq,     *)
(* unless it was astray and the message is a diff.                          *)
LEMMA ReceiveDraws ==
  ASSUME TypeOK, FeedTypes, Links, NEW h, Recorded(h),
         NEW tab \in Tab, Receive(tab)
  PROVE  /\ astray'[tab] = "no" => Draws(view'[tab], viewSeq'[tab], h, seq)
         /\ InStep(Tail(down[Socket(tab)]), view'[tab],
                   viewSeq'[tab], astray'[tab], h, seq)
<1> DEFINE q == down[Socket(tab)]
           m == Head(q)
<1>1. /\ online[tab] /\ Socket(tab) \in Conn
      /\ q \in Seq(Message) /\ q # <<>> /\ m = q[1]
  BY SocketType DEF Receive, FeedTypes
<1>2. InStep(q, view[tab],
             viewSeq[tab], astray[tab], h, seq) /\ Tells(m, h, seq)
  <2>1. InStep(q, view[tab], viewSeq[tab], astray[tab], h, seq)
    BY <1>1 DEF Recorded
  <2>2. 1 \in 1..Len(q)
    BY <1>1
  <2> HIDE DEF q
  <2>3. Tells(q[1], h, seq)
    BY <2>1, <2>2 DEF InStep
  <2> QED BY <1>1, <2>1, <2>3
<1>3. /\ m.type = "tree_snapshot" =>
           /\ view' = [view EXCEPT ![tab] = m.nodes]
           /\ viewSeq' = [viewSeq EXCEPT ![tab] = m.seq]
      /\ m.type = "tree_diff" /\ ~Gap(tab, m) =>
           /\ view' = [view EXCEPT ![tab] = Apply(m, view[tab])]
           /\ viewSeq' = [viewSeq EXCEPT ![tab] = m.seq]
      /\ m.type = "tree_diff" /\ Gap(tab, m) => UNCHANGED <<view, viewSeq>>
      /\ m.type = "tree_diff" =>
           astray' = astray \/ astray' = [astray EXCEPT ![tab] = Patched(@)]
  BY DEF Receive, Show
<1> HIDE DEF m
<1>4. ASSUME astray'[tab] = "no"
      PROVE  Draws(view'[tab], viewSeq'[tab], h, seq)
  <2>1. CASE m.type = "tree_snapshot"
    <3>1. view'[tab] = m.nodes /\ viewSeq'[tab] = m.seq
      BY <1>3, <2>1 DEF FeedTypes
    <3>2. IsSnapshotOf(m, h, seq)
      BY <1>2, <2>1 DEF Tells, LeadsOn
    <3> QED BY <3>1, <3>2 DEF IsSnapshotOf, Draws
  <2>2. CASE m.type = "tree_diff"
    <3>1. LeadsOn(m, h, seq)
      BY <1>2, <2>2 DEF Tells, IsSnapshotOf
    <3>2. Draws(view[tab], viewSeq[tab], h, seq)
      <4> HIDE DEF q
      <4>1. q[1].type # "tree_snapshot"
        BY <1>1, <2>2
      <4>2. astray[tab] = "no"
        BY <1>3, <1>4, <2>2 DEF Patched, FeedTypes
      <4> QED BY <1>2, <4>1, <4>2 DEF InStep
    <3>3. CASE Gap(tab, m)
      BY <1>3, <2>2, <3>2, <3>3
    <3>4. CASE ~Gap(tab, m)
      <4>1. view'[tab] = Apply(m, view[tab]) /\ viewSeq'[tab] = m.seq
        BY <1>3, <2>2, <3>4 DEF FeedTypes
      <4>2. viewSeq[tab] \in 0..seq /\ Shown(view[tab]) = h[viewSeq[tab]]
        BY <3>2 DEF Draws
      <4>3. m.seq \in 1..seq /\ Patch(m, h[m.seq - 1]) = h[m.seq]
        BY <3>1 DEF LeadsOn
      <4>4. m.seq - 1 = viewSeq[tab]
        BY <3>4, <4>2, <4>3 DEF Gap, NoSeq, TypeOK
      <4>5. Shown(Apply(m, view[tab])) = Patch(m, Shown(view[tab]))
        BY ApplyLooks
      <4>6. Shown(Apply(m, view[tab])) = h[m.seq]
        BY <4>2, <4>3, <4>4, <4>5
      <4> QED BY <4>1, <4>3, <4>6 DEF Draws
    <3> QED BY <3>3, <3>4
  <2> QED BY <1>2, <2>1, <2>2 DEF Tells, IsSnapshotOf, LeadsOn
<1>5. \A i \in 1..Len(q) : Tells(q[i], h, seq)
  BY <1>2 DEF InStep
<1> HIDE DEF q
<1>6. InStep(Tail(q), view'[tab], viewSeq'[tab], astray'[tab], h, seq)
  BY <1>1, <1>4, <1>5, OneLess
<1> QED BY <1>4, <1>6 DEF q

(* So does one that an answer of this life is applied to, and one that gets *)
(* an answer of an earlier life is astray.                                  *)
LEMMA AnswerDraws ==
  ASSUME FeedTypes, NEW h, Recorded(h), NEW tab \in Tab, ApplyAnswer(tab)
  PROVE  astray'[tab] = "no" => Draws(view'[tab], viewSeq'[tab], h, seq)
<1>1. view'[tab] = answer[tab].nodes /\ viewSeq'[tab] = answer[tab].seq
  BY DEF ApplyAnswer, Show, FeedTypes
<1>2. CASE prime[tab] = "answered"
  <2>1. IsSnapshotOf(answer[tab], h, seq)
    BY <1>2 DEF Recorded
  <2> QED BY <1>1, <2>1 DEF IsSnapshotOf, Draws
<1>3. CASE prime[tab] = "outlived"
  BY <1>3 DEF ApplyAnswer, FeedTypes
<1> QED BY <1>2, <1>3 DEF ApplyAnswer

SameTree ==
  /\ seq' = seq /\ Shown(nodes') = Shown(nodes)
  /\ published \subseteq published'

LEMMA HistoryInit == FeedInit => History
<1> SUFFICES ASSUME FeedInit PROVE History
  OBVIOUS
<1>1. PICK h : h = [i \in 0..0 |-> Shown(nodes)]
  OBVIOUS
<1>2. h \in [0..seq -> published] /\ h[seq] = Shown(nodes)
  BY <1>1 DEF FeedInit, Init
<1>3. Recorded(h)
  BY <1>2 DEF FeedInit, Init, Recorded
<1> QED BY <1>3 DEF History

(* A message pushed to one channel that tells of a tree by its seq. *)
LEMMA PushTells ==
  ASSUME FeedTypes, NEW h, NEW s, NEW c \in Conn, NEW m \in Message,
         Push(c, m), Tells(m, h, s), NEW d \in Conn, NEW v, NEW vs, NEW f,
         InStep(down[d], v, vs, f, h, s)
  PROVE  InStep(down'[d], v, vs, f, h, s)
<1>1. down[d] \in Seq(Message)
  BY DEF FeedTypes
<1>2. CASE d = c
  BY <1>1, <1>2, OneMore DEF Push, FeedTypes
<1>3. CASE d # c
  BY <1>3 DEF Push, FeedTypes
<1> QED BY <1>2, <1>3

LEMMA HistoryStep ==
  TypeOK /\ TypeOK' /\ FeedTypes /\ Links /\ History /\ [FeedNext]_vars
    => History'
<1> SUFFICES ASSUME TypeOK, TypeOK', FeedTypes, Links, NEW h, Recorded(h),
                    [FeedNext]_vars
             PROVE  \E k : Recorded(k)'
  BY DEF History
<1>0. /\ \A tab \in Tab : online[tab] => Socket(tab) \in Conn
      /\ seq \in Nat /\ seq' \in Nat
  BY SocketType DEF TypeOK
<1>a. ASSUME UNCHANGED <<online, opened, view, viewSeq, astray, prime, answer,
                        down, owed, diff>>,
             SameTree
      PROVE  Recorded(h)'
  BY <1>a DEF Recorded, SameTree, Socket
<1>1. CASE ServiceOnly \/ UNCHANGED vars
  <2>1. UNCHANGED feedVars /\ UNCHANGED tree
    BY <1>1 DEF ServiceOnly, BeforePublish, Change, SubmitResult, ChangeTarget,
                BackgroundSync, Store, RequestRecompute, Wake, EndSleep,
                ReadTargets, ReadTrace, FailRecompute, Tick, vars, serviceVars,
                tree
  <2> QED BY <2>1, <1>a DEF SameTree, tree, feedVars, channelVars,
                            broadcastVars, clientVars, restVars
<1>2. CASE PublishAndSend
  <2>1. /\ Publish /\ published' = published \cup {Shown(nodes')}
        /\ UNCHANGED <<conns, clientVars, restVars>>
        /\ owed = {}
        /\ nodes' = Merge(Build(loaded), nodes, now)
    BY <1>2 DEF PublishAndSend, Publish, NewNodes, Links, Broadcasting
  <2>2. CASE seq' = seq
    <3>1. UNCHANGED <<broadcastVars, channelVars>>
      BY <1>2, <2>2 DEF PublishAndSend
    <3>2. IsEmpty(Diff(nodes, nodes'))
      BY <2>1, <2>2, <1>0 DEF Publish
    <3>3. Shown(nodes') = Shown(nodes)
      BY <2>1, <3>2, EmptyDiffLooksSame
    <3> QED BY <2>1, <2>2, <3>1, <3>3, <1>a
            DEF SameTree, channelVars, broadcastVars, clientVars, restVars
  <2>3. CASE seq' # seq
    <3>1. seq' = seq + 1
      BY <2>1, <2>3 DEF Publish
    <3>2. PICK k : k = [i \in 0..(seq + 1) |->
                          IF i = seq + 1 THEN Shown(nodes') ELSE h[i]]
      OBVIOUS
    <3>3. /\ k \in [0..seq' -> published'] /\ k[seq'] = Shown(nodes')
          /\ \A i \in 0..seq : k[i] = h[i]
      BY <2>1, <3>1, <3>2, <1>0 DEF Recorded
    <3>4. /\ \A m : IsSnapshotOf(m, h, seq) => IsSnapshotOf(m, k, seq')
          /\ \A q, v, vs, f :
               InStep(q, v, vs, f, h, seq) => InStep(q, v, vs, f, k, seq')
      BY <1>0, <3>1, <3>3, StillTells
    <3>5. PICK m : m = DiffMessage(seq', Diff(nodes, nodes'))
      OBVIOUS
    <3>6. LeadsOn(m, k, seq')
      <4>1. Patch(m, Shown(nodes)) = Shown(nodes')
        BY <2>1, <3>5, DiffLeads DEF TypeOK
      <4>2. k[seq'] = Shown(nodes') /\ k[seq' - 1] = Shown(nodes)
        BY <3>1, <3>3, <1>0 DEF Recorded
      <4> QED BY <3>1, <3>5, <4>1, <4>2, <1>0 DEF LeadsOn, DiffMessage
    <3>7. m \in Message
      BY <3>5, <1>0, DiffType DEF TypeOK, NodeMap, Message
    <3>8. UNCHANGED <<online, opened, view, viewSeq, astray, prime, answer>>
      BY <2>1 DEF clientVars, restVars
    <3>9. CASE conns = {}
      <4>1. UNCHANGED <<broadcastVars, channelVars>>
        BY <1>2, <3>9 DEF PublishAndSend
      <4>2. \A tab \in Tab : ~online[tab]
        <5> SUFFICES ASSUME NEW tab \in Tab, online[tab] PROVE FALSE
          OBVIOUS
        <5>1. opened[tab] \in 1..MaxSockets
          BY FeedAssumption DEF Links, Opened, FeedTypes
        <5>2. <<tab, opened[tab]>> \in conns
          BY <5>1 DEF Links, LastSockets, Registered
        <5> QED BY <5>2, <3>9
      <4>3. Recorded(k)'
        BY <2>1, <3>3, <3>4, <3>8, <4>1, <4>2 DEF Recorded, broadcastVars
      <4> QED BY <4>3
    <3>10. CASE conns # {}
      <4>1. PICK c \in conns : SendTo(c, m) /\ owed' = conns \ {c}
        BY <1>2, <2>3, <3>5, <3>10 DEF PublishAndSend
      <4>2. diff' = m /\ c \in Conn
        BY <1>2, <2>3, <3>5, <3>10 DEF PublishAndSend, FeedTypes
      <4>3. owed' # {} => diff'.seq = seq' /\ LeadsOn(diff', k, seq')
        BY <3>5, <3>6, <4>2 DEF DiffMessage
      <4>4. ASSUME NEW tab \in Tab, online[tab]
            PROVE  InStep(down'[Socket(tab)], view[tab],
                          viewSeq[tab], astray[tab], k, seq')
        <5>1. InStep(down[Socket(tab)], view[tab],
                     viewSeq[tab], astray[tab], k, seq')
          BY <3>4, <4>4 DEF Recorded
        <5>2. CASE c \in up
          <6>1. Push(c, m)
            BY <4>1, <5>2 DEF SendTo
          <6> QED BY <6>1, <5>1, <4>2, <4>4, <3>6, <3>7, <1>0, PushTells DEF Tells
        <5>3. CASE c \notin up
          BY <4>1, <5>1, <5>3 DEF SendTo
        <5> QED BY <5>2, <5>3
      <4>5. \A tab \in Tab :
              /\ prime'[tab] = "answered" => IsSnapshotOf(answer'[tab], k, seq')
              /\ prime'[tab] = "outlived" =>
                   Shown(answer'[tab].nodes) \in published'
        BY <2>1, <3>4, <3>8 DEF Recorded
      <4>6. Shown(<<>>) \in published'
        BY <2>1 DEF Recorded
      <4>7. ASSUME NEW tab \in Tab, online'[tab]
            PROVE  InStep(down'[Socket(tab)'], view'[tab],
                          viewSeq'[tab], astray'[tab], k, seq')
        BY <3>8, <4>4, <4>7 DEF Socket
      <4>8. Recorded(k)'
        BY <3>3, <4>3, <4>5, <4>6, <4>7 DEF Recorded
      <4> QED BY <4>8
    <3> QED BY <3>9, <3>10
  <2> QED BY <2>2, <2>3
<1>3. CASE SendNext
  <2>1. PICK c \in owed : SendTo(c, diff) /\ owed' = owed \ {c}
    BY <1>3 DEF SendNext
  <2>2. /\ UNCHANGED <<online, opened, view, viewSeq, astray, prime, answer,
                       diff>>
        /\ SameTree
    BY <1>3 DEF SendNext, SameTree, serviceVars, clientVars, restVars
  <2>3. /\ c \in Conn /\ diff \in Message /\ Tells(diff, h, seq)
        /\ diff.seq = seq /\ LeadsOn(diff, h, seq)
    BY <2>1 DEF FeedTypes, Message, Recorded, Tells
  <2>4. ASSUME NEW tab \in Tab, online[tab]
        PROVE  InStep(down'[Socket(tab)], view[tab],
                      viewSeq[tab], astray[tab], h, seq)
    <3>1. InStep(down[Socket(tab)], view[tab],
                 viewSeq[tab], astray[tab], h, seq)
      BY <2>4 DEF Recorded
    <3>2. CASE c \in up
      <4>1. Push(c, diff)
        BY <2>1, <3>2 DEF SendTo
      <4> QED BY <4>1, <3>1, <2>3, <2>4, <1>0, PushTells
    <3>3. CASE c \notin up
      BY <2>1, <3>1, <3>3 DEF SendTo
    <3> QED BY <3>2, <3>3
  <2>5. Recorded(h)'
    BY <2>2, <2>3, <2>4 DEF Recorded, SameTree, Socket
  <2> QED BY <2>5
<1>4. CASE FinishBroadcast
  <2>1. /\ UNCHANGED <<online, opened, view, viewSeq, astray, prime, answer,
                       down, owed>>
        /\ owed = {} /\ SameTree
    BY <1>4 DEF FinishBroadcast, EndBroadcast, SameTree, clientVars, restVars,
                channelVars, tree
  <2>2. Recorded(h)'
    BY <2>1 DEF Recorded, SameTree, Socket
  <2> QED BY <2>2
<1>5. CASE RestartFeed
  <2>1. PICK k : k = [i \in 0..0 |-> Shown(nodes')]
    OBVIOUS
  <2>2. /\ nodes' = <<>> /\ seq' = 0 /\ owed' = {} /\ published' = published
        /\ \A tab \in Tab : ~online'[tab] /\ prime'[tab] # "answered"
    BY <1>5 DEF RestartFeed, Restart, Lose
  <2>5. ASSUME NEW tab \in Tab, prime'[tab] = "outlived"
        PROVE  Shown(answer'[tab].nodes) \in published'
    <3>1. answer' = answer /\ published' = published
          /\ prime[tab] \in {"answered", "outlived"}
      BY <1>5, <2>5 DEF RestartFeed
    <3>2. CASE prime[tab] = "answered"
      BY <3>1, <3>2 DEF Recorded, IsSnapshotOf
    <3>3. CASE prime[tab] = "outlived"
      BY <3>1, <3>3 DEF Recorded
    <3> QED BY <3>1, <3>2, <3>3
  <2>3. k \in [0..seq' -> published'] /\ k[seq'] = Shown(nodes')
    BY <2>1, <2>2 DEF Recorded
  <2>4. Recorded(k)'
    BY <2>2, <2>3, <2>5 DEF Recorded
  <2> QED BY <2>4
<1>6. ASSUME NEW c \in Conn, ServeRequest(c) PROVE Recorded(h)'
  <2>1. /\ UNCHANGED <<online, opened, view, viewSeq, astray, prime, answer,
                       owed, diff>>
        /\ SameTree /\ Push(c, Snapshot)
    BY <1>6 DEF ServeRequest, SameTree, serviceVars, clientVars, restVars,
                broadcastVars
  <2>2. Snapshot \in Message /\ Tells(Snapshot, h, seq)
    BY SnapshotType, SnapshotTells DEF Message, Tells
  <2>3. ASSUME NEW tab \in Tab, online[tab]
        PROVE  InStep(down'[Socket(tab)], view[tab],
                      viewSeq[tab], astray[tab], h, seq)
    <3>1. InStep(down[Socket(tab)], view[tab],
                 viewSeq[tab], astray[tab], h, seq)
      BY <2>3 DEF Recorded
    <3> QED BY <3>1, <2>1, <2>2, <2>3, <1>0, PushTells
  <2> QED BY <2>1, <2>3 DEF Recorded, SameTree, Socket
<1>7. ASSUME NEW c \in Conn, Disconnect(c) PROVE Recorded(h)'
  BY <1>7, <1>a DEF Disconnect, SameTree, serviceVars, channelVars,
                    broadcastVars, clientVars, restVars
<1>8. ASSUME NEW tab \in Tab, AnswerTree(tab) PROVE Recorded(h)'
  <2>1. /\ UNCHANGED <<online, opened, view, viewSeq, astray, down, owed, diff>>
        /\ SameTree
        /\ answer' = [answer EXCEPT ![tab] = Snapshot]
        /\ prime' = [prime EXCEPT ![tab] = "answered"]
    BY <1>8 DEF AnswerTree, SameTree, serviceVars, clientVars, channelVars,
                broadcastVars
  <2>3. ASSUME NEW t \in Tab, prime'[t] = "outlived"
        PROVE  Shown(answer'[t].nodes) \in published'
    <3>1. t # tab /\ prime[t] = "outlived" /\ answer'[t] = answer[t]
      BY <2>1, <2>3 DEF FeedTypes
    <3> QED BY <2>1, <3>1 DEF Recorded, SameTree
  <2>2. \A t \in Tab : prime'[t] = "answered" => IsSnapshotOf(answer'[t], h, seq)
    <3> SUFFICES ASSUME NEW t \in Tab, prime'[t] = "answered"
                 PROVE  IsSnapshotOf(answer'[t], h, seq)
      OBVIOUS
    <3>1. CASE t = tab
      <4>1. answer'[t] = Snapshot
        BY <2>1, <3>1 DEF FeedTypes
      <4> QED BY <4>1, SnapshotTells
    <3>2. CASE t # tab
      BY <2>1, <3>2 DEF FeedTypes, Recorded
    <3> QED BY <3>1, <3>2
  <2> QED BY <2>1, <2>2, <2>3 DEF Recorded, SameTree, Socket
<1>9. ASSUME NEW tab \in Tab, ApplyAnswer(tab) PROVE Recorded(h)'
  <2>1. /\ UNCHANGED <<online, opened, down, owed, diff>>
        /\ SameTree
        /\ prime' = [prime EXCEPT ![tab] = "done"]
        /\ \A t \in Tab :
             t # tab => /\ view'[t] = view[t] /\ viewSeq'[t] = viewSeq[t]
                        /\ answer'[t] = answer[t] /\ astray'[t] = astray[t]
    BY <1>9 DEF ApplyAnswer, Show, FeedTypes, SameTree, serviceVars,
                channelVars, broadcastVars
  <2>2. astray'[tab] = "no" => Draws(view'[tab], viewSeq'[tab], h, seq)
    BY <1>9, AnswerDraws
  <2>5. \A t \in Tab :
          prime'[t] = "outlived" => Shown(answer'[t].nodes) \in published'
    BY <2>1 DEF FeedTypes, Recorded, SameTree
  <2>3. \A t \in Tab : prime'[t] = "answered" => IsSnapshotOf(answer'[t], h, seq)
    BY <2>1 DEF FeedTypes, Recorded
  <2>4. ASSUME NEW t \in Tab, online[t]
        PROVE  InStep(down[Socket(t)], view'[t],
                      viewSeq'[t], astray'[t], h, seq)
    <3>1. InStep(down[Socket(t)], view[t], viewSeq[t], astray[t], h, seq)
      BY <2>4 DEF Recorded
    <3>2. CASE t = tab
      BY <3>1, <3>2, <2>2 DEF InStep
    <3>3. CASE t # tab
      BY <3>1, <3>3, <2>1
    <3> QED BY <3>2, <3>3
  <2> QED BY <2>1, <2>3, <2>4, <2>5 DEF Recorded, SameTree, Socket
<1>10. ASSUME NEW tab \in Tab, OpenSocket(tab) PROVE Recorded(h)'
  <2> DEFINE c == <<tab, opened[tab] + 1>>
  <2>1. /\ UNCHANGED <<view, viewSeq, astray, prime, answer, owed, diff>>
        /\ SameTree /\ Push(c, Snapshot)
        /\ ~online[tab] /\ opened[tab] < MaxSockets
        /\ opened' = [opened EXCEPT ![tab] = @ + 1]
        /\ online' = [online EXCEPT ![tab] = TRUE]
    BY <1>10 DEF OpenSocket, SameTree, serviceVars, restVars, broadcastVars
  <2>2. Snapshot \in Message /\ Tells(Snapshot, h, seq)
    BY SnapshotType, SnapshotTells DEF Message, Tells
  <2>3. c \in Conn /\ opened'[tab] = opened[tab] + 1
    BY <2>1, FeedAssumption DEF FeedTypes, Conn
  <2>4. down[c] = <<>>
    <3>1. c \notin up
      BY <2>1, <2>3, FeedAssumption DEF FeedTypes, Conn, Links, LastSockets
    <3> QED BY <3>1, <2>3 DEF Links, Quiet
  <2>5. down'[c] = <<Snapshot>>
    BY <2>1, <2>3, <2>4 DEF Push, FeedTypes
  <2>6. InStep(down'[c], view'[tab], viewSeq'[tab], astray'[tab], h, seq)
    <3>1. \A i \in 1..Len(<<Snapshot>>) : <<Snapshot>>[i] = Snapshot
      OBVIOUS
    <3>2. <<Snapshot>> # <<>> /\ <<Snapshot>>[1].type = "tree_snapshot"
      BY DEF Snapshot
    <3> QED BY <2>2, <2>5, <3>1, <3>2 DEF InStep
  <2>7. ASSUME NEW t \in Tab, online'[t]
        PROVE  InStep(down'[<<t, opened'[t]>>], view'[t],
                      viewSeq'[t], astray'[t], h, seq)
    <3>1. CASE t = tab
      BY <3>1, <2>3, <2>6
    <3>2. CASE t # tab
      <4>1. online[t] /\ opened'[t] = opened[t]
        BY <2>1, <2>7, <3>2 DEF FeedTypes
      <4>2. InStep(down[Socket(t)], view[t], viewSeq[t], astray[t], h, seq)
        BY <4>1 DEF Recorded
      <4>3. InStep(down'[Socket(t)], view[t], viewSeq[t], astray[t], h, seq)
        BY <4>1, <4>2, <2>1, <2>2, <2>3, <1>0, PushTells
      <4> QED BY <4>1, <4>3, <2>1 DEF Socket
    <3> QED BY <3>1, <3>2
  <2> QED BY <2>1, <2>7 DEF Recorded, SameTree, Socket
<1>11. ASSUME NEW tab \in Tab, Receive(tab) PROVE Recorded(h)'
  <2> DEFINE c == Socket(tab)
  <2>1. /\ UNCHANGED <<online, opened, prime, answer, owed, diff>>
        /\ SameTree /\ online[tab]
        /\ down' = [down EXCEPT ![c] = Tail(@)]
        /\ \A t \in Tab : t # tab => /\ view'[t] = view[t] /\ viewSeq'[t] = viewSeq[t]
                                     /\ astray'[t] = astray[t]
    BY <1>11 DEF Receive, Show, FeedTypes, SameTree, serviceVars, restVars,
                 broadcastVars
  <2>2. InStep(Tail(down[c]), view'[tab], viewSeq'[tab], astray'[tab], h, seq)
    BY <1>11, ReceiveDraws
  <2>3. ASSUME NEW t \in Tab, online[t]
        PROVE  InStep(down'[Socket(t)], view'[t],
                      viewSeq'[t], astray'[t], h, seq)
    <3>1. CASE t = tab
      <4>1. down'[c] = Tail(down[c])
        BY <2>1, <1>0 DEF FeedTypes
      <4> QED BY <3>1, <4>1, <2>2
    <3>2. CASE t # tab
      <4>1. Socket(t) # c
        BY <3>2 DEF Socket
      <4>2. down'[Socket(t)] = down[Socket(t)]
        BY <4>1, <2>1, <2>3, <1>0 DEF FeedTypes
      <4> QED BY <2>1, <2>3, <3>2, <4>2 DEF Recorded
    <3> QED BY <3>1, <3>2
  <2> QED BY <2>1, <2>3 DEF Recorded, SameTree, Socket
<1>12. ASSUME NEW tab \in Tab, DropSocket(tab) PROVE Recorded(h)'
  <2>1. /\ UNCHANGED <<opened, view, viewSeq, astray, prime, answer, owed, diff>>
        /\ SameTree /\ Lose({tab})
    BY <1>12 DEF DropSocket, SameTree, serviceVars, restVars, broadcastVars
  <2>2. \A t \in Tab : online'[t] => online[t] /\ t # tab
    BY <2>1 DEF Lose
  <2>3. ASSUME NEW t \in Tab, online'[t]
        PROVE  down'[Socket(t)] = down[Socket(t)]
    <3>1. Socket(t) \notin {Socket(u) : u \in {v \in {tab} : online[v]}}
      BY <2>2, <2>3 DEF Socket
    <3>2. Socket(t) \in Conn
      BY <2>2, <2>3, <1>0
    <3> QED BY <2>1, <3>1, <3>2 DEF Lose
  <2> QED BY <2>1, <2>2, <2>3 DEF Recorded, SameTree, Socket
<1> QED
  BY <1>1, <1>2, <1>3, <1>4, <1>5, <1>6, <1>7, <1>8, <1>9, <1>10, <1>11, <1>12
  DEF FeedNext

-----------------------------------------------------------------------------
(* Nothing is left out *)

(* The last message on its way to an open tab is of the seq of now; when    *)
(* nothing is on its way the tab is at that seq, has asked for a snapshot,  *)
(* or was set back or led astray by a late answer.                          *)
EndsNow(tab) ==
  online[tab] /\ Socket(tab) \notin owed =>
    IF down[Socket(tab)] = <<>>
      THEN \/ requests[Socket(tab)] > 0 \/ viewSeq[tab] = seq
           \/ overtaken[tab] \/ astray[tab] # "no"
      ELSE down[Socket(tab)][Len(down[Socket(tab)])].seq = seq
AllEndNow == \A tab \in Tab : EndsNow(tab)

LEMMA PushEnds ==
  ASSUME FeedTypes, NEW c \in Conn, NEW m \in Message, Push(c, m)
  PROVE  /\ down'[c] # <<>> /\ down'[c][Len(down'[c])] = m
         /\ \A d \in Conn : d # c => down'[d] = down[d]
<1>1. down[c] \in Seq(Message) /\ down'[c] = Append(down[c], m)
  BY DEF Push, FeedTypes
<1>2. /\ Append(down[c], m) # <<>>
      /\ Append(down[c], m)[Len(Append(down[c], m))] = m
  BY <1>1
<1> QED BY <1>1, <1>2 DEF Push, FeedTypes

LEMMA TailEnds ==
  ASSUME NEW q \in Seq(Message), q # <<>>
  PROVE  /\ Tail(q) = <<>> => Head(q) = q[Len(q)]
         /\ Tail(q) # <<>> => Tail(q)[Len(Tail(q))] = q[Len(q)]
<1>1. /\ Len(q) \in Nat \ {0} /\ Len(Tail(q)) = Len(q) - 1 /\ Head(q) = q[1]
      /\ \A i \in 1..(Len(q) - 1) : Tail(q)[i] = q[i + 1]
      /\ Tail(q) \in Seq(Message)
  OBVIOUS
<1>2. Tail(q) = <<>> => Len(q) = 1
  <2>1. Len(<<>>) = 0
    OBVIOUS
  <2>2. Tail(q) = <<>> => Len(Tail(q)) = 0
    BY <2>1
  <2> QED BY <1>1, <2>2
<1>3. Tail(q) # <<>> => Len(q) - 1 \in 1..(Len(q) - 1)
  BY <1>1
<1> QED BY <1>1, <1>2, <1>3

LEMMA EndsStep ==
  TypeOK /\ TypeOK' /\ FeedTypes /\ Links /\ History /\ AllEndNow
    /\ [FeedNext]_vars => AllEndNow'
<1> SUFFICES ASSUME TypeOK, TypeOK', FeedTypes, Links, NEW h, Recorded(h),
                    AllEndNow, [FeedNext]_vars, NEW tab \in Tab, online'[tab]
             PROVE  EndsNow(tab)'
  BY DEF History, AllEndNow, EndsNow
<1> DEFINE c == Socket(tab)
<1>0. /\ \A t \in Tab : online[t] => Socket(t) \in Conn /\ Socket(t) \in up
      /\ seq \in Nat /\ seq' \in Nat
  BY SocketType DEF TypeOK, Links, LastSockets, Socket, Conn
<1>e. EndsNow(tab)
  BY DEF AllEndNow
<1>a. ASSUME UNCHANGED <<online, opened, viewSeq, astray, down, owed,
                        requests, overtaken, seq>>
      PROVE  EndsNow(tab)'
  BY <1>a, <1>e DEF EndsNow, Socket
<1>1. CASE ServiceOnly \/ UNCHANGED vars
  <2>1. UNCHANGED feedVars /\ UNCHANGED tree
    BY <1>1 DEF ServiceOnly, BeforePublish, Change, SubmitResult, ChangeTarget,
                BackgroundSync, Store, RequestRecompute, Wake, EndSleep,
                ReadTargets, ReadTrace, FailRecompute, Tick, vars, serviceVars,
                tree
  <2> QED BY <2>1, <1>a DEF tree, feedVars, channelVars, broadcastVars,
                            clientVars, restVars
<1>b. ASSUME UNCHANGED <<online, opened>>, Socket(tab) \notin owed',
             down'[Socket(tab)] # <<>>,
             down'[Socket(tab)][Len(down'[Socket(tab)])].seq = seq'
      PROVE  EndsNow(tab)'
  BY <1>b DEF EndsNow, Socket
<1>2. CASE PublishAndSend
  <2>1. UNCHANGED <<conns, online, opened, view, viewSeq, overtaken, astray>>
    BY <1>2 DEF PublishAndSend, clientVars
  <2>2. online[tab] /\ c \in up /\ c \in conns /\ c \in Conn
    BY <2>1, <1>0 DEF Links, Registered
  <2>3. CASE seq' = seq
    BY <1>2, <1>a, <2>1, <2>3 DEF PublishAndSend, channelVars, broadcastVars
  <2>4. CASE seq' # seq
    <3>1. PICK m : m = DiffMessage(seq', Diff(nodes, nodes'))
      OBVIOUS
    <3>2. PICK d \in conns : SendTo(d, m) /\ owed' = conns \ {d}
      BY <1>2, <2>2, <2>4, <3>1 DEF PublishAndSend
    <3>3. m \in Message /\ m.seq = seq'
      BY <3>1, <1>0, DiffType DEF TypeOK, NodeMap, Message, DiffMessage
    <3>4. CASE d = c
      <4>1. Push(c, m)
        BY <3>2, <3>4, <2>2 DEF SendTo
      <4>2. down'[c] # <<>> /\ down'[c][Len(down'[c])] = m
        BY <4>1, <2>2, <3>3, PushEnds
      <4> QED BY <1>b, <2>1, <3>2, <3>3, <3>4, <4>2
    <3>5. CASE d # c
      <4>1. c \in owed'
        BY <3>2, <3>5, <2>2
      <4> QED BY <4>1, <2>1 DEF EndsNow, Socket
    <3> QED BY <3>4, <3>5
  <2> QED BY <2>3, <2>4
<1>3. CASE SendNext
  <2>1. PICK d \in owed : SendTo(d, diff) /\ owed' = owed \ {d}
    BY <1>3 DEF SendNext
  <2>2. UNCHANGED <<online, opened, viewSeq, overtaken, astray, requests, seq>>
    BY <1>3 DEF SendNext, clientVars, serviceVars
  <2>3. diff \in Message /\ diff.seq = seq /\ d \in Conn
    BY <2>1 DEF FeedTypes, Message, Recorded
  <2>4. online[tab] /\ c \in up /\ c \in Conn
    BY <2>2, <1>0
  <2>5. CASE d = c
    <3>1. Push(c, diff)
      BY <2>1, <2>4, <2>5 DEF SendTo
    <3>2. down'[c] # <<>> /\ down'[c][Len(down'[c])] = diff
      BY <3>1, <2>3, <2>4, PushEnds
    <3> QED BY <1>b, <2>1, <2>2, <2>3, <2>5, <3>2
  <2>6. CASE d # c
    <3>1. down'[c] = down[c]
      BY <2>1, <2>3, <2>4, <2>6, PushEnds DEF SendTo
    <3>2. c \in owed' <=> c \in owed
      BY <2>1, <2>6
    <3> QED BY <1>e, <2>2, <3>1, <3>2 DEF EndsNow, Socket
  <2> QED BY <2>5, <2>6
<1>4. CASE FinishBroadcast
  <2>1. UNCHANGED <<online, opened, viewSeq, astray, down, owed, requests,
                    overtaken, seq>>
    BY <1>4 DEF FinishBroadcast, EndBroadcast, clientVars, channelVars, tree
  <2> QED BY <2>1, <1>a
<1>5. CASE RestartFeed
  BY <1>5 DEF RestartFeed, Lose
<1>6. ASSUME NEW d \in Conn, ServeRequest(d) PROVE EndsNow(tab)'
  <2>1. /\ UNCHANGED <<online, opened, viewSeq, overtaken, astray, seq, owed>>
        /\ Push(d, Snapshot) /\ requests' = [requests EXCEPT ![d] = @ - 1]
    BY <1>6 DEF ServeRequest, clientVars, serviceVars, broadcastVars
  <2>2. Snapshot \in Message /\ Snapshot.seq = seq
    BY SnapshotType DEF Message, Snapshot
  <2>3. online[tab] /\ c \in Conn
    BY <2>1, <1>0
  <2>4. CASE d = c
    <3>1. down'[c] # <<>> /\ down'[c][Len(down'[c])] = Snapshot
      BY <2>1, <2>2, <2>4, PushEnds
    <3>2. CASE c \in owed
      BY <3>2, <2>1 DEF EndsNow, Socket
    <3> QED BY <1>b, <2>1, <2>2, <3>1, <3>2
  <2>5. CASE d # c
    <3>1. down'[c] = down[c] /\ requests'[c] = requests[c]
      BY <2>1, <2>2, <2>3, <2>5, PushEnds DEF FeedTypes
    <3> QED BY <1>e, <2>1, <3>1 DEF EndsNow, Socket
  <2> QED BY <2>4, <2>5
<1>7. ASSUME NEW d \in Conn, Disconnect(d) PROVE EndsNow(tab)'
  BY <1>7, <1>a DEF Disconnect, serviceVars, channelVars, broadcastVars,
                    clientVars
<1>8. ASSUME NEW t \in Tab, AnswerTree(t) PROVE EndsNow(tab)'
  BY <1>8, <1>a DEF AnswerTree, serviceVars, channelVars, broadcastVars,
                    clientVars
<1>9. ASSUME NEW t \in Tab, ApplyAnswer(t) PROVE EndsNow(tab)'
  <2>1. UNCHANGED <<online, opened, down, owed, requests, seq>>
    BY <1>9 DEF ApplyAnswer, serviceVars, channelVars, broadcastVars
  <2>2. CASE t # tab
    <3>1. /\ viewSeq'[tab] = viewSeq[tab] /\ overtaken'[tab] = overtaken[tab]
          /\ astray'[tab] = astray[tab]
      BY <1>9, <2>2 DEF ApplyAnswer, Show, FeedTypes
    <3> QED BY <1>e, <2>1, <3>1 DEF EndsNow, Socket
  <2>3. CASE t = tab
    <3> DEFINE late == answer[tab].seq < viewSeq[tab]
    <3>1. /\ viewSeq'[tab] = answer[tab].seq
          /\ late => overtaken'[tab]
          /\ overtaken[tab] => overtaken'[tab]
      <4>1. overtaken' = [overtaken EXCEPT ![tab] = @ \/ late]
        BY <1>9, <2>3 DEF ApplyAnswer
      <4> HIDE DEF late
      <4>2. overtaken'[tab] = (overtaken[tab] \/ late)
        BY <4>1 DEF FeedTypes
      <4> QED BY <1>9, <2>3, <4>2 DEF ApplyAnswer, Show, FeedTypes
    <3>4. overtaken[tab] => overtaken'[tab]
      BY <3>1
    <3>5. CASE prime[tab] = "answered"
      <4>1. answer[tab].seq \in 0..seq
        BY <3>5 DEF Recorded, IsSnapshotOf
      <4>2. viewSeq[tab] = seq => viewSeq'[tab] = seq \/ overtaken'[tab]
        BY <3>1, <4>1, <1>0
      <4>3. astray'[tab] = astray[tab]
        BY <1>9, <2>3, <3>5 DEF ApplyAnswer, FeedTypes
      <4> QED BY <1>e, <2>1, <3>4, <4>2, <4>3 DEF EndsNow, Socket
    <3>6. CASE prime[tab] = "outlived"
      <4>1. astray'[tab] = "old"
        BY <1>9, <2>3, <3>6 DEF ApplyAnswer, FeedTypes
      <4> QED BY <1>e, <2>1, <4>1 DEF EndsNow, Socket
    <3> QED BY <1>9, <2>3, <3>5, <3>6 DEF ApplyAnswer
  <2> QED BY <2>2, <2>3
<1>10. ASSUME NEW t \in Tab, OpenSocket(t) PROVE EndsNow(tab)'
  <2> DEFINE d == <<t, opened[t] + 1>>
  <2>1. /\ UNCHANGED <<viewSeq, overtaken, astray, requests, owed, seq>>
        /\ Push(d, Snapshot)
        /\ opened' = [opened EXCEPT ![t] = @ + 1]
        /\ online' = [online EXCEPT ![t] = TRUE]
        /\ opened[t] < MaxSockets
    BY <1>10 DEF OpenSocket, serviceVars, broadcastVars
  <2>2. Snapshot \in Message /\ Snapshot.seq = seq
    BY SnapshotType DEF Message, Snapshot
  <2>3. d \in Conn
    BY <2>1, FeedAssumption DEF FeedTypes, Conn
  <2>4. CASE t = tab
    <3>1. Socket(tab)' = d
      BY <2>1, <2>4 DEF Socket, FeedTypes
    <3>2. down'[d] # <<>> /\ down'[d][Len(down'[d])].seq = seq
      BY <2>1, <2>2, <2>3, PushEnds
    <3> QED BY <2>1, <3>1, <3>2 DEF EndsNow
  <2>5. CASE t # tab
    <3>1. online[tab] /\ opened'[tab] = opened[tab]
      BY <2>1, <2>5 DEF FeedTypes
    <3>2. down'[c] = down[c]
      <4>1. c # d
        BY <2>5 DEF Socket
      <4> QED BY <4>1, <2>1, <2>2, <2>3, <3>1, <1>0, PushEnds
    <3> QED BY <1>e, <2>1, <3>1, <3>2 DEF EndsNow, Socket
  <2> QED BY <2>4, <2>5
<1>11. ASSUME NEW t \in Tab, Receive(t) PROVE EndsNow(tab)'
  <2> DEFINE d == Socket(t)
             m == Head(down[d])
  <2>1. /\ UNCHANGED <<online, opened, owed, seq>>
        /\ online[t] /\ down[d] # <<>>
        /\ down' = [down EXCEPT ![d] = Tail(@)]
        /\ \A u \in Tab :
             u # t => /\ viewSeq'[u] = viewSeq[u] /\ overtaken'[u] = overtaken[u]
                      /\ astray'[u] = astray[u]
        /\ requests' = requests \/ requests' = [requests EXCEPT ![d] = @ + 1]
    BY <1>11 DEF Receive, Show, FeedTypes, serviceVars, broadcastVars
  <2>2. online[tab] /\ c \in Conn /\ d \in Conn
    BY <2>1, <1>0
  <2>3. CASE t # tab
    <3>1. c # d
      BY <2>3 DEF Socket
    <3>2. down'[c] = down[c] /\ requests'[c] = requests[c]
      BY <2>1, <2>2, <3>1 DEF FeedTypes
    <3> QED BY <1>e, <2>1, <2>3, <3>2 DEF EndsNow, Socket
  <2>4. CASE t = tab /\ c \in owed
    BY <2>1, <2>4 DEF EndsNow, Socket
  <2>5. CASE t = tab /\ c \notin owed
    <3>1. down[c] \in Seq(Message) /\ down'[c] = Tail(down[c])
      BY <2>1, <2>2, <2>5 DEF FeedTypes
    <3>2. down[c][Len(down[c])].seq = seq
      BY <1>e, <2>1, <2>2, <2>5 DEF EndsNow
    <3>3. CASE Tail(down[c]) # <<>>
      <4>1. down'[c][Len(down'[c])].seq = seq
        BY <2>1, <2>5, <3>1, <3>2, <3>3, TailEnds
      <4> QED BY <1>b, <2>1, <2>5, <3>1, <3>3, <4>1
    <3>4. CASE Tail(down[c]) = <<>>
      <4>1. Head(down[c]).seq = seq
        BY <2>1, <2>5, <3>1, <3>2, <3>4, TailEnds
      <4>2. viewSeq'[tab] = seq \/ requests'[c] > 0
        <5>1. \/ Show(tab, m.nodes, m.seq)
              \/ Show(tab, Apply(m, view[tab]), m.seq)
              \/ requests' = [requests EXCEPT ![d] = @ + 1]
          BY <1>11, <2>5 DEF Receive
        <5> QED BY <5>1, <4>1, <2>2, <2>5 DEF Show, FeedTypes
      <4> QED BY <2>1, <3>1, <3>4, <4>2 DEF EndsNow, Socket
    <3> QED BY <3>3, <3>4
  <2> QED BY <2>3, <2>4, <2>5
<1>12. ASSUME NEW t \in Tab, DropSocket(t) PROVE EndsNow(tab)'
  <2>1. /\ UNCHANGED <<opened, viewSeq, overtaken, astray, owed, seq>> /\ Lose({t})
    BY <1>12 DEF DropSocket, serviceVars, broadcastVars
  <2>2. online[tab] /\ t # tab
    BY <2>1 DEF Lose
  <2>3. down'[c] = down[c] /\ requests'[c] = requests[c]
    <3>1. c \notin {Socket(u) : u \in {v \in {t} : online[v]}}
      BY <2>2 DEF Socket
    <3> QED BY <2>1, <2>2, <3>1, <1>0 DEF Lose
  <2> QED BY <1>e, <2>1, <2>2, <2>3 DEF EndsNow, Socket
<1> QED
  BY <1>1, <1>2, <1>3, <1>4, <1>5, <1>6, <1>7, <1>8, <1>9, <1>10, <1>11, <1>12
  DEF FeedNext

-----------------------------------------------------------------------------
(* The invariant *)

FeedInv ==
  TypeOK /\ Shape /\ FeedTypes /\ Links /\ History /\ AllEndNow

LEMMA FeedInvariant == FeedSpec => []FeedInv
<1>1. FeedInit => FeedInv
  <2>1. FeedInit => AllEndNow
    BY DEF FeedInit, AllEndNow, EndsNow
  <2>2. FeedInit => TypeOK
    BY TypeInit DEF FeedInit
  <2>3. FeedInit => Shape
    BY DEF FeedInit, Init, Shape, StampsRise, StampsPast, CurrentParents
  <2> QED BY <2>1, <2>2, <2>3, FeedTypesInit, LinksInit, HistoryInit DEF FeedInv
<1>2. FeedInv /\ [FeedNext]_vars => FeedInv'
  <2> SUFFICES ASSUME FeedInv, [FeedNext]_vars PROVE FeedInv'
    OBVIOUS
  <2>1. [Next]_serviceVars
    BY ServiceStep DEF vars
  <2>2. TypeOK' /\ Shape'
    BY <2>1, TypeStep, ShapeStep DEF FeedInv
  <2>3. FeedTypes' /\ Links' /\ History' /\ AllEndNow'
    BY <2>2, FeedTypesStep, LinksStep, HistoryStep, EndsStep DEF FeedInv
  <2> QED BY <2>2, <2>3 DEF FeedInv
<1> QED BY <1>1, <1>2, PTL DEF FeedSpec

(* A tab that is connected, with nothing on its way to it or owed to it,    *)
(* draws exactly the tree of now, whatever was missed, refused, repeated or *)
(* lost before, restarts of the backend included, for any number of tabs    *)
(* and sockets; unless a late answer of GET /api/tree has set it back, or   *)
(* one of an earlier life has led it astray.                                *)
THEOREM SettledIsCaughtUp == FeedSpec => []CaughtUp
<1>1. FeedInv => CaughtUp
  <2> SUFFICES ASSUME FeedInv, NEW tab \in Tab, Settled(tab), ~overtaken[tab],
                      astray[tab] = "no"
               PROVE  viewSeq[tab] = seq /\ Shown(view[tab]) = Shown(nodes)
    BY DEF CaughtUp
  <2>1. viewSeq[tab] = seq
    <3>1. EndsNow(tab)
      BY DEF FeedInv, AllEndNow
    <3>2. ~(requests[Socket(tab)] > 0)
      BY DEF Settled
    <3> QED BY <3>1, <3>2 DEF EndsNow, Settled
  <2>2. PICK h : Recorded(h)
    BY DEF FeedInv, History
  <2>3. Draws(view[tab], viewSeq[tab], h, seq)
    BY <2>2 DEF Settled, Recorded, InStep
  <2> QED BY <2>1, <2>2, <2>3 DEF Draws, Recorded
<1> QED BY <1>1, FeedInvariant, PTL

-----------------------------------------------------------------------------
(* The feed implements TreeMirror *)

LEMMA TreesAreClosed == TypeOK /\ Shape => Shown(nodes) \in ClosedTrees
<1> SUFFICES ASSUME TypeOK, Shape PROVE Shown(nodes) \in ClosedTrees
  OBVIOUS
<1>1. DOMAIN Shown(nodes) = DOMAIN nodes /\ DOMAIN nodes \in SUBSET Node
  BY DEF Shown, TypeOK
<1>2. Shown(nodes) \in [DOMAIN nodes -> Look4]
  <2>1. \A n \in DOMAIN nodes : Look(nodes[n]) \in Look4
    BY DataAssumption DEF TypeOK, Entry, Look, Look4
  <2> QED BY <2>1 DEF Shown
<1>3. \A n \in DOMAIN Shown(nodes) \ {Root} : Parent[n] \in DOMAIN Shown(nodes)
  BY <1>1 DEF Shape, StampsRise
<1> QED BY <1>1, <1>2, <1>3 DEF ClosedTrees

(* What MirrorSpec has a tab draw. *)
Drawn(tab) == Shown(IF astray[tab] = "mixed" THEN <<>> ELSE view[tab])

(* A message that is received or an answer that is applied changes one      *)
(* tab, and if what that tab is said to draw changes, then to a tree of the *)
(* backend.                                                                 *)
LEMMA OthersStay ==
  ASSUME FeedInv, NEW tab \in Tab, Receive(tab) \/ ApplyAnswer(tab)
  PROVE  \A t \in Tab : t # tab => Drawn(t)' = Drawn(t)
<1>1. /\ view' = view \/ \E w : view' = [view EXCEPT ![tab] = w]
      /\ astray' = astray \/ \E w : astray' = [astray EXCEPT ![tab] = w]
  BY DEF Receive, ApplyAnswer, Show
<1>2. \A t \in Tab : t # tab => view'[t] = view[t] /\ astray'[t] = astray[t]
  BY <1>1 DEF FeedInv, FeedTypes
<1> QED BY <1>2 DEF Drawn

LEMMA ViewStep ==
  ASSUME FeedInv, NEW tab \in Tab, Receive(tab) \/ ApplyAnswer(tab)
  PROVE  /\ Drawn(tab)' \in published \/ Drawn(tab)' = Drawn(tab)
         /\ \A t \in Tab : t # tab => Drawn(t)' = Drawn(t)
<1>1. PICK h : Recorded(h)
  BY DEF FeedInv, History
<1>2. astray'[tab] = "no" => Draws(view'[tab], viewSeq'[tab], h, seq)
  BY <1>1, ReceiveDraws, AnswerDraws DEF FeedInv
<1>3. CASE astray'[tab] = "no"
  <2>1. Shown(view'[tab]) \in published
    BY <1>1, <1>2, <1>3 DEF Draws, Recorded
  <2> QED BY <1>3, <2>1, OthersStay DEF Drawn
<1>4. CASE astray'[tab] = "mixed"
  <2>1. Shown(<<>>) \in published
    BY <1>1 DEF Recorded
  <2> QED BY <1>4, <2>1, OthersStay DEF Drawn
<1>5. CASE astray'[tab] = "old"
  <2>1. CASE prime[tab] = "outlived" /\ ApplyAnswer(tab)
    <3>1. view'[tab] = answer[tab].nodes
      BY <2>1 DEF ApplyAnswer, Show, FeedInv, FeedTypes
    <3>2. Shown(answer[tab].nodes) \in published
      BY <1>1, <2>1 DEF Recorded
    <3> QED BY <1>5, <3>1, <3>2, OthersStay DEF Drawn
  <2>2. CASE prime[tab] = "answered" /\ ApplyAnswer(tab)
    <3>1. view'[tab] = answer[tab].nodes
      BY <2>2 DEF ApplyAnswer, Show, FeedInv, FeedTypes
    <3>2. Shown(answer[tab].nodes) \in published
      BY <1>1, <2>2 DEF Recorded, IsSnapshotOf
    <3> QED BY <1>5, <3>1, <3>2, OthersStay DEF Drawn
  <2>3. CASE Receive(tab)
    <3>1. UNCHANGED <<view, astray>>
      BY <1>5, <2>3 DEF Receive, Patched, FeedInv, FeedTypes
    <3> QED BY <3>1 DEF Drawn
  <2> QED BY <2>1, <2>2, <2>3 DEF ApplyAnswer
<1>6. astray'[tab] \in {"no", "old", "mixed"}
  BY DEF Receive, ApplyAnswer, Patched, FeedInv, FeedTypes
<1> QED BY <1>3, <1>4, <1>5, <1>6

(* A tab draws a whole tree the backend had at some moment, with every      *)
(* node's parent in it: snapshots, diffs and REST answers, over connections *)
(* that break and across restarts, never add up to a mixture, but for diffs *)
(* that patch the answer of an earlier life.                                *)
THEOREM ImplementsMirror == FeedSpec => MirrorSpec
<1> DEFINE drawn == [tab \in Tab |-> Drawn(tab)]
           mirrorVars == <<Shown(nodes), published, drawn>>
<1>1. FeedInit => Mirror!Init
  <2> SUFFICES ASSUME FeedInit PROVE Mirror!Init
    OBVIOUS
  <2>1. Shown(nodes) \in ClosedTrees
    <3>1. TypeOK /\ Shape
      BY TypeInit DEF FeedInit, Init, Shape, StampsRise, StampsPast,
                      CurrentParents
    <3> QED BY <3>1, TreesAreClosed
  <2>2. drawn = [tab \in Tab |-> Shown(nodes)]
    BY DEF FeedInit, Init, Drawn
  <2> QED BY <2>1, <2>2 DEF FeedInit, Mirror!Init, Drawn
<1>2. FeedInv' => (Shown(nodes) \in ClosedTrees)'
  <2>1. FeedInv => Shown(nodes) \in ClosedTrees
    BY TreesAreClosed DEF FeedInv
  <2> QED BY <2>1, PTL
<1>3. FeedInv /\ FeedInv' /\ [FeedNext]_vars => [Mirror!Next]_mirrorVars
  <2> SUFFICES ASSUME FeedInv, FeedInv', [FeedNext]_vars
               PROVE  Mirror!Next \/ UNCHANGED mirrorVars
    OBVIOUS
  <2>1. Shown(nodes') \in ClosedTrees
    BY <1>2
  <2>2. ASSUME published' = published \cup {Shown(nodes')},
               UNCHANGED <<view, astray>>
        PROVE  Mirror!Next
    <3>1. drawn' = drawn
      BY <2>2 DEF Drawn
    <3> QED BY <2>1, <2>2, <3>1 DEF Mirror!Next, Mirror!Publish, Drawn
  <2>3. ASSUME NEW tab \in Tab, Receive(tab) \/ ApplyAnswer(tab)
        PROVE  Mirror!Next \/ UNCHANGED mirrorVars
    <3>1. nodes' = nodes /\ published' = published
      BY <2>3 DEF Receive, ApplyAnswer, serviceVars
    <3>2. drawn' = [drawn EXCEPT ![tab] = Drawn(tab)']
      BY <2>3, ViewStep
    <3>3. CASE Drawn(tab)' \in published
      BY <3>1, <3>2, <3>3 DEF Mirror!Next, Mirror!Draw, Drawn
    <3>4. CASE Drawn(tab)' = Drawn(tab)
      BY <3>1, <3>2, <3>4
    <3> QED BY <2>3, <3>3, <3>4, ViewStep
  <2>4. CASE PublishAndSend
    BY <2>4, <2>2 DEF PublishAndSend, clientVars
  <2>5. CASE RestartFeed
    <3>1. /\ Shown(<<>>) \in published /\ nodes' = <<>>
          /\ published' = published /\ UNCHANGED <<view, astray>>
      BY <2>5 DEF FeedInv, History, Recorded, RestartFeed, Restart
    <3> QED BY <3>1, <2>2
  <2>6. ASSUME UNCHANGED <<nodes, published, view, astray>>
        PROVE  UNCHANGED mirrorVars
    BY <2>6 DEF Drawn
  <2>7. \/ PublishAndSend \/ RestartFeed
        \/ \E tab \in Tab : Receive(tab) \/ ApplyAnswer(tab)
        \/ UNCHANGED <<nodes, published, view, astray>>
    BY DEF FeedNext, ServiceOnly, BeforePublish, Change, SubmitResult,
           ChangeTarget, BackgroundSync, Store, RequestRecompute, Wake, EndSleep,
           ReadTargets, ReadTrace, FailRecompute, Tick, SendNext,
           FinishBroadcast, EndBroadcast, ServeRequest, Disconnect, AnswerTree,
           OpenSocket, DropSocket, tree, vars, serviceVars, feedVars, clientVars
  <2> QED BY <2>3, <2>4, <2>5, <2>6, <2>7
<1> QED
  BY <1>1, <1>3, FeedInvariant, PTL DEF FeedSpec, MirrorSpec, Mirror!Spec, Drawn
=============================================================================
