-------------------------- MODULE TargetStore_proofs --------------------------
(***************************************************************************)
(* Proofs about TargetStore, for any number of lists, addresses, requests  *)
(* and failures: no source outlives its list; and as long as transactions  *)
(* come one at a time, a target is active exactly if it has a source, and  *)
(* has one manual source at most.                                          *)
(***************************************************************************)
EXTENDS TargetStore, FiniteSetTheorems, TLAPS

State == {"idle", "fetching", "adding", "pruning", "checking", "deleting", "committing"}

Shape ==
  /\ pc \in [Proc -> State]
  /\ DOMAIN job = Proc
  /\ DOMAIN adds = Proc

(* SourcesHaveLists is not inductive: a commit writes what a transaction    *)
(* has added, so the invariant says which lists those sources are of.  Only *)
(* a sync adds sources of a list, and only of the list it works on, which   *)
(* its commit checks.                                                       *)
OwnList ==
  \A p \in Proc : \A s \in adds[p] :
    s[2] \in List => pc[p] \in {"adding", "pruning"} /\ s[2] = job[p]

IInv == Shape /\ OwnList /\ SourcesHaveLists

(* A step that clears a transaction's buffers keeps the first two parts.    *)
LEMMA EndKeepsOwnList ==
  ASSUME Shape, OwnList, NEW p \in Proc, End(p)
  PROVE  Shape' /\ OwnList'
<1>1. /\ pc' = [pc EXCEPT ![p] = "idle"]
      /\ job' = [job EXCEPT ![p] = "none"]
      /\ adds' = [adds EXCEPT ![p] = {}]
  BY DEF End, Without
<1>2. Shape'
  BY <1>1 DEF Shape, State
<1>3. ASSUME NEW q \in Proc, NEW s \in adds'[q], s[2] \in List
      PROVE  pc'[q] \in {"adding", "pruning"} /\ s[2] = job'[q]
  <2>1. q # p
    BY <1>1, <1>3 DEF Shape
  <2>2. s \in adds[q] /\ pc'[q] = pc[q] /\ job'[q] = job[q]
    BY <1>1, <1>3, <2>1 DEF Shape
  <2> QED BY <1>3, <2>2 DEF OwnList
<1> QED BY <1>2, <1>3 DEF OwnList

(* What a transaction writes at its commit has its lists, if the list it    *)
(* worked on is still there or it was no sync at all.                       *)
LEMMA WrittenHasLists ==
  ASSUME IInv, NEW p \in Proc, NEW S, S \subseteq Sees(p),
         pc[p] \in {"adding", "pruning"} => job[p] \in lists,
         NEW s \in S, s[2] \in List
  PROVE  s[2] \in lists
<1>1. CASE s \in sources
  BY <1>1 DEF IInv, SourcesHaveLists
<1>2. CASE s \in adds[p]
  <2>1. pc[p] \in {"adding", "pruning"} /\ s[2] = job[p]
    BY <1>2 DEF IInv, OwnList
  <2> QED BY <2>1
<1> QED BY <1>1, <1>2 DEF Sees

LEMMA InitInv == Init => IInv
<1> SUFFICES ASSUME Init PROVE IInv
  OBVIOUS
<1>1. Shape
  BY DEF Init, Shape, State, Source
<1>2. OwnList /\ SourcesHaveLists
  BY DEF Init, OwnList, SourcesHaveLists
<1> QED BY <1>1, <1>2 DEF IInv

(* A step that takes p from one place to another, and only ever out of      *)
(* where it has added nothing of a list, or on within its sync.             *)
Moves(p) ==
  /\ Shape'
  /\ adds' = adds /\ sources' = sources
  /\ \A q \in Proc \ {p} : pc'[q] = pc[q] /\ job'[q] = job[q]
  /\ \/ pc[p] \notin {"adding", "pruning"}
     \/ pc'[p] \in {"adding", "pruning"} /\ job'[p] = job[p]

LEMMA MoveInv ==
  ASSUME IInv, NEW p \in Proc, Moves(p), lists \subseteq lists'
  PROVE  IInv'
<1>1. ASSUME NEW q \in Proc, NEW s \in adds'[q], s[2] \in List
      PROVE  pc'[q] \in {"adding", "pruning"} /\ s[2] = job'[q]
  <2>1. s \in adds[q] /\ pc[q] \in {"adding", "pruning"} /\ s[2] = job[q]
    BY <1>1 DEF IInv, OwnList, Moves
  <2>2. CASE q = p
    BY <2>1, <2>2 DEF Moves
  <2>3. CASE q # p
    BY <2>1, <2>3 DEF Moves
  <2> QED BY <2>2, <2>3
<1>2. SourcesHaveLists'
  BY DEF IInv, SourcesHaveLists, Moves
<1> QED BY <1>1, <1>2 DEF IInv, OwnList, Moves

LEMMA RollbackInv ==
  ASSUME IInv, NEW p \in Proc, Rollback(p)
  PROVE  IInv'
<1>1. End(p) /\ sources' = sources /\ lists' = lists
  BY DEF Rollback, tables
<1> QED BY <1>1, EndKeepsOwnList DEF IInv, SourcesHaveLists

(* A commit that leaves the lists as they are. *)
LEMMA CommitInv ==
  ASSUME IInv, NEW p \in Proc, End(p), Written(p), lists' = lists,
         pc[p] \in {"adding", "pruning"} => job[p] \in lists
  PROVE  IInv'
<1>1. Shape' /\ OwnList'
  BY EndKeepsOwnList DEF IInv
<1>2. sources' = Sees(p)
  BY DEF Written
<1>3. SourcesHaveLists'
  BY <1>2, WrittenHasLists DEF SourcesHaveLists
<1> QED BY <1>1, <1>3 DEF IInv

(* The list that a request deletes takes its sources with it, also those    *)
(* that were committed after the request has looked for them.               *)
LEMMA DeleteListInv ==
  ASSUME IInv, NEW r \in Request, CommitDeleteList(r)
  PROVE  IInv'
<1>1. r \in Proc
  BY DEF Proc
<1>2. Shape' /\ OwnList'
  BY <1>1, EndKeepsOwnList DEF IInv, CommitDeleteList
<1>3. ASSUME NEW s \in sources', s[2] \in List
      PROVE  s[2] \in lists'
  <2>1. sources' \subseteq Sees(r) /\ s[2] # job[r] /\ pc[r] = "deleting"
    BY <1>3 DEF CommitDeleteList
  <2>2. s[2] \in lists
    BY <1>1, <1>3, <2>1, WrittenHasLists
  <2> QED BY <2>1, <2>2 DEF CommitDeleteList
<1> QED BY <1>2, <1>3 DEF IInv, SourcesHaveLists

(* The steps of a sync. *)
LEMMA SyncInv ==
  ASSUME IInv, NEW p \in Proc,
         Fetch(p) \/ FetchFails(p) \/ SyncStep(p)
  PROVE  IInv'
<1>1. CASE Fetch(p)
  <2>1. Moves(p)
    BY <1>1 DEF Fetch, Moves, IInv, Shape, State, tables, buffers
  <2> QED BY <2>1, <1>1, MoveInv DEF Fetch, tables
<1>2. CASE FetchFails(p)
  <2>1. Moves(p)
    BY <1>2 DEF FetchFails, Moves, IInv, Shape, State, tables, buffers
  <2> QED BY <2>1, <1>2, MoveInv DEF FetchFails, tables
<1>3. ASSUME NEW a \in Address, AddTarget(p, a)
      PROVE  IInv'
  <2>1. PICK b : /\ pc[p] = "adding" /\ pc' = pc /\ job' = job
                 /\ sources' = sources /\ lists' = lists
                 /\ adds' = [adds EXCEPT ![p] = @ \cup ({<<b, job[p]>>} \ Sees(p))]
    BY <1>3 DEF AddTarget, tables
  <2>2. Shape'
    BY <2>1 DEF IInv, Shape
  <2>3. ASSUME NEW q \in Proc, NEW s \in adds'[q], s[2] \in List
        PROVE  pc'[q] \in {"adding", "pruning"} /\ s[2] = job'[q]
    <3>1. CASE s \in adds[q]
      BY <2>1, <2>3, <3>1 DEF IInv, OwnList
    <3>2. CASE s \notin adds[q]
      BY <2>1, <2>3, <3>2 DEF IInv, Shape
    <3> QED BY <3>1, <3>2
  <2> QED BY <2>1, <2>2, <2>3 DEF IInv, OwnList, SourcesHaveLists
<1>4. ASSUME NEW a \in Address, RemoveGone(p, a)
      PROVE  IInv'
  <2>1. UNCHANGED <<pc, job, adds, sources, lists>>
    BY <1>4 DEF RemoveGone, tables
  <2>2. Moves(p)
    BY <2>1 DEF Moves, IInv, Shape
  <2> QED BY <2>1, <2>2, MoveInv
<1>5. CASE Ambiguous(p)
  BY <1>5, RollbackInv DEF Ambiguous
<1>6. CASE FindGone(p)
  <2>1. Moves(p)
    BY <1>6 DEF FindGone, Moves, IInv, Shape, State, tables, buffers
  <2> QED BY <2>1, <1>6, MoveInv DEF FindGone, tables
<1>7. CASE CommitSync(p)
  <2>1. CASE job[p] \in lists
    BY <1>7, <2>1, CommitInv DEF CommitSync
  <2>2. CASE job[p] \notin lists
    BY <1>7, <2>2, RollbackInv DEF CommitSync
  <2> QED BY <2>1, <2>2
<1> QED BY <1>1, <1>2, <1>3, <1>4, <1>5, <1>6, <1>7 DEF SyncStep

(* The sync loop between two lists, and what no process does. *)
LEMMA LoopInv ==
  ASSUME IInv, Sweep \/ SyncDue \/ BreakDeadlock \/ \E l \in List : Serve(l)
  PROVE  IInv'
<1>1. CASE SyncDue
  <2>1. Loop \in Proc /\ pc[Loop] = "idle"
    BY <1>1 DEF Proc, SyncDue
  <2>2. UNCHANGED <<adds, sources, lists>>
    BY <1>1 DEF SyncDue, tables, buffers
  <2>3. Moves(Loop)
    <3>1. PICK l \in due :
            IF l \in lists
              THEN pc' = [pc EXCEPT ![Loop] = "fetching"] /\ job' = [job EXCEPT ![Loop] = l]
              ELSE UNCHANGED <<pc, job>>
      BY <1>1 DEF SyncDue
    <3>2. CASE l \in lists
      BY <2>1, <2>2, <3>1, <3>2 DEF Moves, IInv, Shape, State
    <3>3. CASE l \notin lists
      BY <2>1, <2>2, <3>1, <3>3 DEF Moves, IInv, Shape
    <3> QED BY <3>2, <3>3
  <2> QED BY <2>1, <2>2, <2>3, MoveInv
<1>2. CASE BreakDeadlock
  BY <1>2, RollbackInv DEF BreakDeadlock, Deadlocked
<1>3. CASE Sweep \/ \E l \in List : Serve(l)
  <2>1. UNCHANGED <<pc, job, adds, sources, lists>>
    BY <1>3 DEF Sweep, Serve, tables, buffers
  <2> QED BY <2>1 DEF IInv, Shape, OwnList, SourcesHaveLists
<1> QED BY <1>1, <1>2, <1>3

(* A request that begins. *)
LEMMA AskInv ==
  ASSUME IInv, NEW r \in Request, Ask(r)
  PROVE  IInv'
<1>1. r \in Proc
  BY DEF Proc
<1>2. ASSUME NEW l \in List, CreateList(r, l) \/ SyncNow(r, l) \/ DeleteList(r, l)
      PROVE  IInv'
  <2>1. pc[r] = "idle" /\ adds' = adds /\ sources' = sources /\ lists \subseteq lists'
    BY <1>2 DEF CreateList, SyncNow, DeleteList, Accept, tables, buffers
  <2>2. /\ job' = [job EXCEPT ![r] = l]
        /\ \E st \in State : pc' = [pc EXCEPT ![r] = st]
    BY <1>2 DEF CreateList, SyncNow, DeleteList, State
  <2>3. Moves(r)
    BY <1>1, <2>1, <2>2 DEF Moves, IInv, Shape
  <2> QED BY <1>1, <2>1, <2>3, MoveInv
<1>3. ASSUME NEW a \in Address, DeleteTarget(r, a)
      PROVE  IInv'
  <2>1. /\ pc[r] = "idle" /\ pc' = [pc EXCEPT ![r] = "checking"]
        /\ UNCHANGED <<job, adds, sources, lists>>
    BY <1>3 DEF DeleteTarget, Accept, tables
  <2>2. Moves(r)
    BY <1>1, <2>1 DEF Moves, IInv, Shape, State
  <2> QED BY <1>1, <2>1, <2>2, MoveInv
<1>4. ASSUME NEW a \in Address, CreateTarget(r, a)
      PROVE  IInv'
  <2>1. /\ pc[r] = "idle" /\ pc' = [pc EXCEPT ![r] = "committing"]
        /\ UNCHANGED <<job, sources, lists>>
    BY <1>4 DEF CreateTarget, Accept, tables
  <2>2. \/ adds' = adds
        \/ \E b, m : m \in Manual /\ adds' = [adds EXCEPT ![r] = {<<b, m>>}]
    BY <1>4 DEF CreateTarget
  <2>3. CASE adds' = adds
    <3>1. Moves(r)
      BY <1>1, <2>1, <2>3 DEF Moves, IInv, Shape, State
    <3> QED BY <1>1, <2>1, <3>1, MoveInv
  <2>4. ASSUME NEW b, NEW m \in Manual, adds' = [adds EXCEPT ![r] = {<<b, m>>}]
        PROVE  IInv'
    <3>1. Shape'
      BY <1>1, <2>1, <2>4 DEF IInv, Shape, State
    <3>2. ASSUME NEW q \in Proc, NEW s \in adds'[q], s[2] \in List
          PROVE  pc'[q] \in {"adding", "pruning"} /\ s[2] = job'[q]
      <4>1. q # r
        BY <1>1, <2>4, <3>2, StoreAssumption DEF IInv, Shape
      <4> QED BY <2>1, <2>4, <3>2, <4>1 DEF IInv, Shape, OwnList
    <3> QED BY <2>1, <3>1, <3>2 DEF IInv, OwnList, SourcesHaveLists
  <2> QED BY <2>2, <2>3, <2>4
<1>5. CASE (\E l \in List : UpdateList(r, l)) \/ (\E a \in Address : UpdateTarget(r, a))
  <2>1. UNCHANGED <<pc, job, adds, sources, lists>>
    BY <1>5 DEF UpdateList, UpdateTarget, buffers
  <2> QED BY <2>1 DEF IInv, Shape, OwnList, SourcesHaveLists
<1> QED BY <1>2, <1>3, <1>4, <1>5 DEF Ask

(* A request that goes on. *)
LEMMA RequestInv ==
  ASSUME IInv, NEW r \in Request, RequestStep(r)
  PROVE  IInv'
<1>1. r \in Proc
  BY DEF Proc
<1>2. CASE Commit(r)
  BY <1>1, <1>2, CommitInv DEF Commit
<1>3. CASE CommitDeleteTarget(r)
  BY <1>1, <1>3, CommitInv DEF CommitDeleteTarget
<1>4. CASE CommitDeleteList(r)
  BY <1>4, DeleteListInv
<1>5. ASSUME NEW a \in Address, CheckOrphan(r, a)
      PROVE  IInv'
  <2>1. UNCHANGED <<pc, job, adds, sources, lists>>
    BY <1>5 DEF CheckOrphan, tables
  <2> QED BY <2>1 DEF IInv, Shape, OwnList, SourcesHaveLists
<1> QED BY <1>2, <1>3, <1>4, <1>5 DEF RequestStep

LEMMA StepInv == IInv /\ [Next]_vars => IInv'
<1> SUFFICES ASSUME IInv, [Next]_vars PROVE IInv'
  OBVIOUS
<1>1. ASSUME NEW p \in Proc, Fetch(p) \/ FetchFails(p) \/ SyncStep(p)
      PROVE  IInv'
  BY <1>1, SyncInv
<1>2. ASSUME NEW p \in Proc, Fail(p)
      PROVE  IInv'
  BY <1>2, RollbackInv DEF Fail
<1>3. ASSUME NEW r \in Request, Ask(r) \/ RequestStep(r)
      PROVE  IInv'
  BY <1>3, AskInv, RequestInv
<1>4. CASE Sweep \/ SyncDue \/ BreakDeadlock \/ \E l \in List : Serve(l)
  BY <1>4, LoopInv
<1>5. CASE UNCHANGED vars
  <2>1. UNCHANGED <<pc, job, adds, sources, lists>>
    BY <1>5 DEF vars, tables, buffers
  <2> QED BY <2>1 DEF IInv, Shape, OwnList, SourcesHaveLists
<1> QED BY <1>1, <1>2, <1>3, <1>4, <1>5 DEF Next

(* Every source of a list has its list, through syncs, deletions, failures  *)
(* and deadlocks in any interleaving: the lock that the deletion of a list  *)
(* waits for, the cascade and a sync's update of its list see to it.        *)
THEOREM ListsOutliveSources == Spec => []SourcesHaveLists
<1>1. IInv => SourcesHaveLists
  BY DEF IInv
<1> QED BY <1>1, InitInv, StepInv, PTL DEF Spec

-----------------------------------------------------------------------------
(* Types *)

RowFlag == {"none", "on", "off"}
Flags == UNION {[as -> RowFlag] : as \in SUBSET Address}

Types ==
  /\ rows \in [Address -> RowFlag]
  /\ sources \subseteq Source /\ lists \subseteq List /\ enabled \subseteq List
  /\ content \in [List -> SUBSET Address] /\ due \subseteq List
  /\ pc \in [Proc -> State] /\ job \in [Proc -> List \cup {"none"}]
  /\ \A p \in Proc :
       pc[p] \in {"fetching", "adding", "pruning", "deleting"} => job[p] \in List
  /\ body \in [Proc -> SUBSET Address] /\ todo \in [Proc -> SUBSET Address]
  /\ seen \in [Proc -> Flags] /\ sets \in [Proc -> Flags]
  /\ adds \in [Proc -> SUBSET Source] /\ dels \in [Proc -> SUBSET Source]
  /\ patched \subseteq Address /\ overlapped \in BOOLEAN

LEMMA EmptyFlags == <<>> \in Flags /\ DOMAIN <<>> = {}
<1>1. <<>> \in [{} -> RowFlag]
  OBVIOUS
<1> QED BY <1>1 DEF Flags

LEMMA FlagsType ==
  ASSUME NEW f \in Flags
  PROVE  /\ DOMAIN f \subseteq Address /\ \A a \in DOMAIN f : f[a] \in RowFlag
BY DEF Flags

LEMMA TypesInit == Init => Types
<1> SUFFICES ASSUME Init PROVE Types
  OBVIOUS
<1> QED BY EmptyFlags DEF Init, Types, State, RowFlag, Source

(* The target an address stands for: the one it matches, or a new one. *)
LEMMA MatchType ==
  ASSUME NEW p, NEW a \in Address
  PROVE  (IF Found(p, a) = {} THEN a ELSE CHOOSE c \in Found(p, a) : TRUE) \in Address
BY StoreAssumption DEF Found

(* What a transaction has loaded and set, after some targets more. *)
LEMMA AssignDoes ==
  ASSUME Types, NEW p \in Proc, NEW as \in SUBSET Address,
         NEW on \in SUBSET Address, NEW off \in SUBSET Address,
         Assign(p, as, on, off)
  PROVE  /\ seen' \in [Proc -> Flags] /\ sets' \in [Proc -> Flags]
         /\ \A q \in Proc \ {p} : seen'[q] = seen[q] /\ sets'[q] = sets[q]
         /\ seen'[p] = [a \in DOMAIN seen[p] \cup as |->
                          IF a \in DOMAIN seen[p] THEN seen[p][a] ELSE rows[a]]
         /\ \E ch \in SUBSET Address :
              /\ \A a \in Address : a \in ch <=>
                   (a \in on /\ Flag(p, a) # "on") \/ (a \in off /\ Flag(p, a) # "off")
              /\ sets'[p] = [a \in DOMAIN sets[p] \cup ch |->
                               IF a \in ch THEN IF a \in on THEN "on" ELSE "off"
                               ELSE sets[p][a]]
<1> DEFINE changed == {a \in on : Flag(p, a) # "on"} \cup {a \in off : Flag(p, a) # "off"}
           sn == [a \in DOMAIN seen[p] \cup as |->
                    IF a \in DOMAIN seen[p] THEN seen[p][a] ELSE rows[a]]
           st == [a \in DOMAIN sets[p] \cup changed |->
                    IF a \in changed THEN IF a \in on THEN "on" ELSE "off"
                    ELSE sets[p][a]]
<1>1. seen' = [seen EXCEPT ![p] = sn] /\ sets' = [sets EXCEPT ![p] = st]
  BY DEF Assign
<1>2. /\ changed \in SUBSET Address
      /\ \A a \in Address : a \in changed <=>
           (a \in on /\ Flag(p, a) # "on") \/ (a \in off /\ Flag(p, a) # "off")
  <2>1. changed \subseteq Address
    OBVIOUS
  <2>2. ASSUME NEW a \in Address
        PROVE  a \in changed <=>
                 (a \in on /\ Flag(p, a) # "on") \/ (a \in off /\ Flag(p, a) # "off")
    <3>1. a \in {b \in on : Flag(p, b) # "on"} <=> a \in on /\ Flag(p, a) # "on"
      OBVIOUS
    <3>2. a \in {b \in off : Flag(p, b) # "off"} <=> a \in off /\ Flag(p, a) # "off"
      OBVIOUS
    <3> QED BY <3>1, <3>2
  <2> HIDE DEF changed
  <2> QED BY <2>1, <2>2
<1> HIDE DEF changed
<1>3. /\ DOMAIN seen[p] \subseteq Address /\ DOMAIN sets[p] \subseteq Address
      /\ \A a \in DOMAIN seen[p] : seen[p][a] \in RowFlag
      /\ \A a \in DOMAIN sets[p] : sets[p][a] \in RowFlag
  BY FlagsType DEF Types
<1>4. sn \in Flags
  <2>1. sn \in [DOMAIN seen[p] \cup as -> RowFlag]
    BY <1>3 DEF Types
  <2>2. DOMAIN seen[p] \cup as \in SUBSET Address
    BY <1>3
  <2> HIDE DEF sn
  <2> QED BY <2>1, <2>2 DEF Flags
<1>5. st \in Flags
  <2>1. st \in [DOMAIN sets[p] \cup changed -> RowFlag]
    BY <1>3 DEF RowFlag
  <2>2. DOMAIN sets[p] \cup changed \in SUBSET Address
    BY <1>2, <1>3
  <2> HIDE DEF st
  <2> QED BY <2>1, <2>2 DEF Flags
<1>6. seen'[p] = sn /\ sets'[p] = st
  BY <1>1 DEF Types
<1>7. /\ seen' \in [Proc -> Flags] /\ sets' \in [Proc -> Flags]
      /\ \A q \in Proc \ {p} : seen'[q] = seen[q] /\ sets'[q] = sets[q]
  <2> HIDE DEF sn, st
  <2> QED BY <1>1, <1>4, <1>5 DEF Types
<1> QED BY <1>2, <1>6, <1>7

(* A transaction that ends leaves nothing behind. *)
LEMMA EndTypes ==
  ASSUME Types, NEW p \in Proc, End(p)
  PROVE  /\ pc' \in [Proc -> State] /\ job' \in [Proc -> List \cup {"none"}]
         /\ \A q \in Proc :
              pc'[q] \in {"fetching", "adding", "pruning", "deleting"}
                => job'[q] \in List
         /\ body' \in [Proc -> SUBSET Address]
         /\ todo' \in [Proc -> SUBSET Address]
         /\ seen' \in [Proc -> Flags] /\ sets' \in [Proc -> Flags]
         /\ adds' \in [Proc -> SUBSET Source]
         /\ dels' \in [Proc -> SUBSET Source]
<1>1. /\ pc' = [pc EXCEPT ![p] = "idle"] /\ job' = [job EXCEPT ![p] = "none"]
      /\ seen' = [seen EXCEPT ![p] = <<>>] /\ sets' = [sets EXCEPT ![p] = <<>>]
      /\ adds' = [adds EXCEPT ![p] = {}] /\ dels' = [dels EXCEPT ![p] = {}]
      /\ body' = [body EXCEPT ![p] = {}] /\ todo' = [todo EXCEPT ![p] = {}]
  BY DEF End, Without
<1>2. seen' \in [Proc -> Flags] /\ sets' \in [Proc -> Flags]
  BY <1>1, EmptyFlags DEF Types
<1>3. pc' \in [Proc -> State] /\ job' \in [Proc -> List \cup {"none"}]
  BY <1>1 DEF Types, State
<1>4. \A q \in Proc : pc'[q] \in {"fetching", "adding", "pruning", "deleting"}
                       => job'[q] \in List
  BY <1>1 DEF Types
<1>5. /\ body' \in [Proc -> SUBSET Address] /\ todo' \in [Proc -> SUBSET Address]
      /\ adds' \in [Proc -> SUBSET Source] /\ dels' \in [Proc -> SUBSET Source]
  BY <1>1 DEF Types
<1> QED BY <1>2, <1>3, <1>4, <1>5

LEMMA WrittenTypes ==
  ASSUME Types, NEW p \in Proc, Written(p)
  PROVE  rows' \in [Address -> RowFlag] /\ sources' \subseteq Source
<1>1. \A a \in DOMAIN sets[p] : sets[p][a] \in RowFlag
  BY FlagsType DEF Types
<1>2. rows' \in [Address -> RowFlag]
  BY <1>1 DEF Written, Types
<1>3. sources' \subseteq Source
  BY DEF Written, Sees, Types
<1> QED BY <1>2, <1>3

LEMMA RollbackTypes ==
  ASSUME Types, NEW p \in Proc, Rollback(p)
  PROVE  Types'
<1>1. due' \subseteq List /\ UNCHANGED <<tables, content, history>> /\ End(p)
  BY DEF Rollback, Types
<1> QED BY <1>1, EndTypes DEF Types, tables, history

LEMMA TypesStep == Types /\ [Next]_vars => Types'
<1> SUFFICES ASSUME Types, [Next]_vars PROVE Types'
  OBVIOUS
<1> USE DEF tables, buffers, history, bounds
<1>1. ASSUME NEW p \in Proc, Fetch(p) PROVE Types'
  <2>1. pc' = [pc EXCEPT ![p] = "adding"] /\ job' = job /\ pc[p] = "fetching"
    BY <1>1 DEF Fetch
  <2>2. content[job[p]] \in SUBSET Address
    BY <2>1 DEF Types
  <2>3. body' \in [Proc -> SUBSET Address] /\ todo' \in [Proc -> SUBSET Address]
    BY <1>1, <2>2 DEF Fetch, Types
  <2>4. pc' \in [Proc -> State]
    BY <2>1 DEF Types, State
  <2>5. \A q \in Proc :
          pc'[q] \in {"fetching", "adding", "pruning", "deleting"} => job'[q] \in List
    BY <2>1 DEF Types
  <2>6. overlapped' \in BOOLEAN
    BY <1>1 DEF Fetch, Begin, Types
  <2> QED BY <1>1, <2>3, <2>4, <2>5, <2>6 DEF Fetch, Types
<1>2. ASSUME NEW p \in Proc, FetchFails(p) PROVE Types'
  <2>1. /\ pc' = [pc EXCEPT ![p] = "idle"] /\ job' = [job EXCEPT ![p] = "none"]
        /\ due' \subseteq List
    BY <1>2 DEF FetchFails, Types
  <2>2. pc' \in [Proc -> State] /\ job' \in [Proc -> List \cup {"none"}]
    BY <2>1 DEF Types, State
  <2>3. \A q \in Proc :
          pc'[q] \in {"fetching", "adding", "pruning", "deleting"} => job'[q] \in List
    BY <2>1 DEF Types
  <2> QED BY <1>2, <2>1, <2>2, <2>3 DEF FetchFails, Types
<1>3. ASSUME NEW p \in Proc, NEW a \in Address, AddTarget(p, a) PROVE Types'
  <2>1. PICK b \in Address :
          /\ Assign(p, {b}, {b}, {})
          /\ adds' = [adds EXCEPT ![p] = @ \cup ({<<b, job[p]>>} \ Sees(p))]
    BY <1>3, MatchType DEF AddTarget
  <2>2. seen' \in [Proc -> Flags] /\ sets' \in [Proc -> Flags]
    <3>1. {b} \in SUBSET Address /\ {} \in SUBSET Address
      OBVIOUS
    <3> QED BY <2>1, <3>1, AssignDoes
  <2>3. pc[p] = "adding" /\ <<b, job[p]>> \in Source
    BY <1>3 DEF AddTarget, Types, Source
  <2>4. adds' \in [Proc -> SUBSET Source]
    BY <2>1, <2>3 DEF Types
  <2>5. todo' \in [Proc -> SUBSET Address]
    BY <1>3 DEF AddTarget, Types
  <2> QED BY <1>3, <2>2, <2>4, <2>5 DEF AddTarget, Types
<1>4. ASSUME NEW p \in Proc, NEW a \in Address, RemoveGone(p, a) PROVE Types'
  <2>1. PICK off \in SUBSET Address : Assign(p, {a}, {}, off)
    BY <1>4 DEF RemoveGone
  <2>2. seen' \in [Proc -> Flags] /\ sets' \in [Proc -> Flags]
    <3>1. {a} \in SUBSET Address /\ {} \in SUBSET Address
      OBVIOUS
    <3> QED BY <2>1, <3>1, AssignDoes
  <2>3. pc[p] = "pruning" /\ <<a, job[p]>> \in Source
    BY <1>4 DEF RemoveGone, Types, Source
  <2>4. dels' \in [Proc -> SUBSET Source]
    BY <1>4, <2>3 DEF RemoveGone, Types
  <2>5. todo' \in [Proc -> SUBSET Address]
    BY <1>4 DEF RemoveGone, Types
  <2> QED BY <1>4, <2>2, <2>4, <2>5 DEF RemoveGone, Types
<1>5. ASSUME NEW p \in Proc, Ambiguous(p) PROVE Types'
  BY <1>5, RollbackTypes DEF Ambiguous
<1>6. ASSUME NEW p \in Proc, FindGone(p) PROVE Types'
  <2>1. pc' = [pc EXCEPT ![p] = "pruning"] /\ job' = job /\ pc[p] = "adding"
    BY <1>6 DEF FindGone
  <2>2. pc' \in [Proc -> State]
    BY <2>1 DEF Types, State
  <2>3. \A q \in Proc :
          pc'[q] \in {"fetching", "adding", "pruning", "deleting"} => job'[q] \in List
    BY <2>1 DEF Types
  <2>4. todo' \in [Proc -> SUBSET Address]
    BY <1>6 DEF FindGone, Types
  <2> QED BY <1>6, <2>1, <2>2, <2>3, <2>4 DEF FindGone, Types
<1>7. ASSUME NEW p \in Proc, CommitSync(p) PROVE Types'
  <2>1. CASE job[p] \in lists
    BY <1>7, <2>1, EndTypes, WrittenTypes DEF CommitSync, Types
  <2>2. CASE job[p] \notin lists
    BY <1>7, <2>2, RollbackTypes DEF CommitSync
  <2> QED BY <2>1, <2>2
<1>8. ASSUME NEW p \in Proc, Fail(p) PROVE Types'
  BY <1>8, RollbackTypes DEF Fail
<1>9. CASE BreakDeadlock
  BY <1>9, RollbackTypes DEF BreakDeadlock, Deadlocked
<1>10. CASE Sweep
  BY <1>10 DEF Sweep, Types
<1>11. CASE SyncDue
  <2>1. PICK l \in due :
          /\ due' = due \ {l}
          /\ IF l \in lists
               THEN pc' = [pc EXCEPT ![Loop] = "fetching"] /\ job' = [job EXCEPT ![Loop] = l]
               ELSE UNCHANGED <<pc, job>>
    BY <1>11 DEF SyncDue
  <2>2. l \in List /\ due' \subseteq List
    BY <2>1 DEF Types
  <2>3. /\ pc' \in [Proc -> State] /\ job' \in [Proc -> List \cup {"none"}]
        /\ \A q \in Proc :
             pc'[q] \in {"fetching", "adding", "pruning", "deleting"} => job'[q] \in List
    BY <2>1, <2>2 DEF Types, State
  <2> QED BY <1>11, <2>2, <2>3 DEF SyncDue, Types
<1>12. ASSUME NEW l \in List, Serve(l) PROVE Types'
  <2>1. content' \in [List -> SUBSET Address]
    BY <1>12 DEF Serve, Types
  <2> QED BY <1>12, <2>1 DEF Serve, Types
<1>13. ASSUME NEW r \in Request, NEW l \in List, CreateList(r, l) \/ SyncNow(r, l)
       PROVE  Types'
  <2>1. /\ r \in Proc /\ lists' \subseteq List /\ enabled' \subseteq List
        /\ pc' = [pc EXCEPT ![r] = "fetching"] /\ job' = [job EXCEPT ![r] = l]
        /\ UNCHANGED <<rows, sources, content, due, body, todo, seen, sets, adds,
                       dels, patched, overlapped>>
    BY <1>13 DEF CreateList, SyncNow, Accept, Proc, Types
  <2>2. /\ pc' \in [Proc -> State] /\ job' \in [Proc -> List \cup {"none"}]
        /\ \A q \in Proc :
             pc'[q] \in {"fetching", "adding", "pruning", "deleting"} => job'[q] \in List
    BY <2>1 DEF Types, State
  <2> QED BY <2>1, <2>2 DEF Types
<1>14. ASSUME NEW r \in Request, NEW l \in List, UpdateList(r, l) PROVE Types'
  <2>1. enabled' \subseteq List
    BY <1>14 DEF UpdateList, Types
  <2> QED BY <1>14, <2>1 DEF UpdateList, Accept, Types
<1>15. ASSUME NEW r \in Request, NEW l \in List, DeleteList(r, l) PROVE Types'
  <2>1. /\ r \in Proc /\ job' = [job EXCEPT ![r] = l]
        /\ pc' = [pc EXCEPT ![r] = "deleting"]
        /\ dels' = [dels EXCEPT ![r] = {s \in sources : s[2] = l}]
        /\ todo' = [todo EXCEPT ![r] = {s[1] : s \in {z \in sources : z[2] = l}}]
        /\ UNCHANGED <<tables, content, due, body, seen, sets, adds, patched>>
    BY <1>15 DEF DeleteList, Accept, Proc
  <2>2. /\ pc' \in [Proc -> State] /\ job' \in [Proc -> List \cup {"none"}]
        /\ \A q \in Proc :
             pc'[q] \in {"fetching", "adding", "pruning", "deleting"} => job'[q] \in List
    BY <2>1 DEF Types, State
  <2>3. dels' \in [Proc -> SUBSET Source]
    BY <2>1 DEF Types
  <2>4. todo' \in [Proc -> SUBSET Address]
    BY <2>1 DEF Types, Source
  <2>5. overlapped' \in BOOLEAN
    BY <1>15 DEF DeleteList, Begin, Types
  <2> QED BY <2>1, <2>2, <2>3, <2>4, <2>5 DEF Types
<1>16. ASSUME NEW r \in Request, NEW a \in Address, CheckOrphan(r, a) PROVE Types'
  <2>1. r \in Proc /\ \E off \in SUBSET Address : Assign(r, {a}, {}, off)
    BY <1>16 DEF CheckOrphan, Proc
  <2>2. seen' \in [Proc -> Flags] /\ sets' \in [Proc -> Flags]
    <3>1. {a} \in SUBSET Address /\ {} \in SUBSET Address
      OBVIOUS
    <3> QED BY <2>1, <3>1, AssignDoes
  <2>3. todo' \in [Proc -> SUBSET Address]
    BY <1>16, <2>1 DEF CheckOrphan, Types
  <2> QED BY <1>16, <2>2, <2>3 DEF CheckOrphan, Types
<1>17. ASSUME NEW r \in Request, CommitDeleteList(r) PROVE Types'
  <2>1. r \in Proc
    BY DEF Proc
  <2>2. rows' \in [Address -> RowFlag]
    <3>1. \A a \in DOMAIN sets[r] : sets[r][a] \in RowFlag
      BY <2>1, FlagsType DEF Types
    <3> QED BY <1>17, <3>1 DEF CommitDeleteList, Types
  <2>3. sources' \subseteq Source /\ lists' \subseteq List /\ enabled' \subseteq List
    BY <1>17, <2>1 DEF CommitDeleteList, Sees, Types
  <2> QED BY <1>17, <2>1, <2>2, <2>3, EndTypes DEF CommitDeleteList, Types
<1>18. ASSUME NEW r \in Request, Commit(r) \/ CommitDeleteTarget(r) PROVE Types'
  <2>1. r \in Proc
    BY DEF Proc
  <2> QED BY <1>18, <2>1, EndTypes, WrittenTypes DEF Commit, CommitDeleteTarget, Types
<1>19. ASSUME NEW r \in Request, NEW a \in Address, CreateTarget(r, a) PROVE Types'
  <2>1. PICK b \in Address :
          /\ Assign(r, {b}, {b}, {})
          /\ \/ adds' = adds
             \/ \E m \in Manual : adds' = [adds EXCEPT ![r] = {<<b, m>>}]
    BY <1>19, MatchType DEF CreateTarget
  <2>2. seen' \in [Proc -> Flags] /\ sets' \in [Proc -> Flags] /\ r \in Proc
    <3>1. {b} \in SUBSET Address /\ {} \in SUBSET Address /\ r \in Proc
      BY DEF Proc
    <3> QED BY <2>1, <3>1, AssignDoes
  <2>3. adds' \in [Proc -> SUBSET Source]
    BY <2>1 DEF Types, Source
  <2>4. pc' \in [Proc -> State] /\ pc' = [pc EXCEPT ![r] = "committing"]
    BY <1>19 DEF CreateTarget, Types, State
  <2>5. \A q \in Proc :
          pc'[q] \in {"fetching", "adding", "pruning", "deleting"} => job'[q] \in List
    BY <1>19, <2>2, <2>4 DEF CreateTarget, Types
  <2>6. overlapped' \in BOOLEAN
    BY <1>19 DEF CreateTarget, Begin, Types
  <2> QED BY <1>19, <2>2, <2>3, <2>4, <2>5, <2>6 DEF CreateTarget, Accept, Types
<1>20. ASSUME NEW r \in Request, NEW a \in Address, DeleteTarget(r, a) PROVE Types'
  <2>1. /\ r \in Proc /\ Assign(r, {a}, {}, {})
        /\ \/ dels' = dels
           \/ \E s \in sources : dels' = [dels EXCEPT ![r] = {s}]
        /\ todo' = [todo EXCEPT ![r] = {a}]
        /\ pc' = [pc EXCEPT ![r] = "checking"]
    BY <1>20 DEF DeleteTarget, Proc
  <2>2. seen' \in [Proc -> Flags] /\ sets' \in [Proc -> Flags]
    <3>1. {a} \in SUBSET Address /\ {} \in SUBSET Address
      OBVIOUS
    <3> QED BY <2>1, <3>1, AssignDoes
  <2>3. dels' \in [Proc -> SUBSET Source] /\ todo' \in [Proc -> SUBSET Address]
    BY <2>1 DEF Types
  <2>4. pc' \in [Proc -> State]
    BY <2>1 DEF Types, State
  <2>5. \A q \in Proc :
          pc'[q] \in {"fetching", "adding", "pruning", "deleting"} => job'[q] \in List
    BY <1>20, <2>1 DEF DeleteTarget, Types
  <2>6. overlapped' \in BOOLEAN
    BY <1>20 DEF DeleteTarget, Begin, Types
  <2> QED BY <1>20, <2>2, <2>3, <2>4, <2>5, <2>6 DEF DeleteTarget, Accept, Types
<1>21. ASSUME NEW r \in Request, NEW a \in Address, UpdateTarget(r, a) PROVE Types'
  <2>1. rows' \in [Address -> RowFlag]
    BY <1>21 DEF UpdateTarget, Types, RowFlag
  <2>2. patched' \subseteq Address
    BY <1>21 DEF UpdateTarget, Types
  <2> QED BY <1>21, <2>1, <2>2 DEF UpdateTarget, Accept, Types
<1>22. CASE UNCHANGED vars
  BY <1>22 DEF vars, Types
<1> QED
  BY <1>1, <1>2, <1>3, <1>4, <1>5, <1>6, <1>7, <1>8, <1>9, <1>10, <1>11, <1>12,
     <1>13, <1>14, <1>15, <1>16, <1>17, <1>18, <1>19, <1>20, <1>21, <1>22
  DEF Next, SyncStep, RequestStep, Ask

-----------------------------------------------------------------------------
(* One transaction at a time *)

(* SerialConsistent is not inductive: while a transaction is open the       *)
(* tables are consistent because nobody else writes them, and its commit    *)
(* keeps them so because what it would leave, its own writes over the       *)
(* tables, is consistent too, but for the targets it has still to check.    *)
Eff(p, a) == IF a \in DOMAIN sets[p] THEN sets[p][a] ELSE rows[a]
Left(p) == IF pc[p] \in {"checking", "deleting"} THEN todo[p] ELSE {}
Balanced(p) ==
  \A a \in Address \ patched :
    /\ HasSource(p, a) => Eff(p, a) = "on"
    /\ a \notin Left(p) /\ Eff(p, a) = "on" => HasSource(p, a)
Single(S) ==
  \A a \in Address, m \in Manual, n \in Manual :
    <<a, m>> \in S /\ <<a, n>> \in S => m = n
Clean(p) ==
  adds[p] = {} /\ dels[p] = {} /\ DOMAIN sets[p] = {} /\ DOMAIN seen[p] = {}
Loaded(p) == \A a \in DOMAIN seen[p] \ patched : seen[p][a] = rows[a]
Consistent(p) ==
  /\ ~Open(p) => Clean(p)
  /\ pc[p] = "adding" => dels[p] = {}
  /\ pc[p] = "deleting" => adds[p] = {} /\ dels[p] = {s \in sources : s[2] = job[p]}
  /\ Loaded(p) /\ Balanced(p) /\ Single(Sees(p))

Sole == \A p, q \in Proc : Open(p) /\ Open(q) => p = q
Agrees == \A a \in Address \ patched : rows[a] = "on" <=> IsSourced(a)
Serial ==
  overlapped \/ (Sole /\ Agrees /\ Single(sources) /\ \A p \in Proc : Consistent(p))

(* A step of p alone. *)
OthersSame(p) ==
  \A q \in Proc \ {p} :
    /\ pc'[q] = pc[q] /\ job'[q] = job[q] /\ todo'[q] = todo[q]
    /\ seen'[q] = seen[q] /\ sets'[q] = sets[q]
    /\ adds'[q] = adds[q] /\ dels'[q] = dels[q]

LEMMA OthersStay ==
  ASSUME NEW p \in Proc, OthersSame(p), NEW q \in Proc \ {p}, Consistent(q),
         UNCHANGED <<rows, sources, patched>>
  PROVE  Consistent(q)' /\ (Open(q)' <=> Open(q))
<1>1. /\ pc'[q] = pc[q] /\ job'[q] = job[q] /\ todo'[q] = todo[q]
      /\ seen'[q] = seen[q] /\ sets'[q] = sets[q]
      /\ adds'[q] = adds[q] /\ dels'[q] = dels[q]
  BY DEF OthersSame
<1>2. Open(q)' <=> Open(q)
  BY <1>1 DEF Open
<1>3. Sees(q)' = Sees(q)
  BY <1>1 DEF Sees
<1>4. Balanced(q)'
  BY <1>1, <1>3 DEF Consistent, Balanced, Left, Eff, HasSource
<1>5. Single(Sees(q))'
  BY <1>3 DEF Consistent, Single
<1>6. Loaded(q)'
  BY <1>1 DEF Consistent, Loaded
<1> QED BY <1>1, <1>2, <1>4, <1>5, <1>6 DEF Consistent, Clean

(* Who has no transaction open is consistent when the tables are. *)
LEMMA ClosedStays ==
  ASSUME NEW q \in Proc, ~Open(q)', Clean(q)', Agrees', Single(sources)'
  PROVE  Consistent(q)'
<1>1. Sees(q)' = sources' /\ Left(q)' = {}
  BY DEF Sees, Clean, Left, Open
<1>2. Balanced(q)'
  BY <1>1 DEF Balanced, Eff, HasSource, Clean, Agrees, IsSourced
<1>3. Single(Sees(q))'
  BY <1>1 DEF Single
<1> QED BY <1>2, <1>3 DEF Consistent, Open, Clean, Loaded

(* A transaction ends, and leaves consistent tables. *)
LEMMA EndSerial ==
  ASSUME Types, NEW p \in Proc, End(p), Open(p) \/ UNCHANGED <<rows, sources>>,
         UNCHANGED <<patched, overlapped>>, Serial,
         ~overlapped => Agrees' /\ Single(sources)'
  PROVE  Serial'
<1> SUFFICES ASSUME ~overlapped PROVE Serial'
  BY DEF Serial
<1>0. Sole /\ Agrees' /\ Single(sources)' /\ \A q \in Proc : Consistent(q)
  BY DEF Serial
<1>1. /\ pc' = [pc EXCEPT ![p] = "idle"] /\ job' = [job EXCEPT ![p] = "none"]
      /\ seen' = [seen EXCEPT ![p] = <<>>] /\ sets' = [sets EXCEPT ![p] = <<>>]
      /\ adds' = [adds EXCEPT ![p] = {}] /\ dels' = [dels EXCEPT ![p] = {}]
      /\ todo' = [todo EXCEPT ![p] = {}]
  BY DEF End, Without
<1>2. OthersSame(p)
  BY <1>1 DEF OthersSame, Types
<1>3. ~Open(p)' /\ Clean(p)'
  BY <1>1, EmptyFlags DEF Open, Clean, Types
<1>4. Consistent(p)'
  BY <1>0, <1>3, ClosedStays
<1>5. ASSUME NEW q \in Proc \ {p}
      PROVE  Consistent(q)' /\ (Open(q)' <=> Open(q))
  <2>1. CASE UNCHANGED <<rows, sources>>
    BY <1>0, <1>2, <2>1, OthersStay
  <2>2. CASE Open(p)
    <3>1. ~Open(q) /\ Clean(q)
      BY <1>0, <2>2 DEF Sole, Consistent
    <3>2. ~Open(q)' /\ Clean(q)'
      BY <3>1, <1>2 DEF OthersSame, Open, Clean
    <3> QED BY <1>0, <3>1, <3>2, ClosedStays
  <2> QED BY <2>1, <2>2
<1>6. Sole'
  BY <1>0, <1>3, <1>5 DEF Sole
<1> QED BY <1>0, <1>4, <1>5, <1>6 DEF Serial

LEMMA RollbackSerial ==
  ASSUME Types, Serial, NEW p \in Proc, Rollback(p)
  PROVE  Serial'
<1>1. End(p) /\ UNCHANGED <<rows, sources, patched, overlapped>>
  BY DEF Rollback, tables, history
<1>2. ~overlapped => Agrees' /\ Single(sources)'
  BY <1>1 DEF Serial, Agrees, IsSourced, Single
<1> QED BY <1>1, <1>2, EndSerial

(* A step of p alone that writes no table. *)
LEMMA OwnStep ==
  ASSUME Serial, ~overlapped, NEW p \in Proc, OthersSame(p),
         UNCHANGED <<rows, sources, patched>>, Consistent(p)',
         Open(p)' => Open(p) \/ \A q \in Proc \ {p} : ~Open(q)
  PROVE  Serial'
<1>1. Sole /\ Agrees /\ Single(sources) /\ \A q \in Proc : Consistent(q)
  BY DEF Serial
<1>2. \A q \in Proc \ {p} : Consistent(q)' /\ (Open(q)' <=> Open(q))
  BY <1>1, OthersStay
<1>3. Sole'
  BY <1>1, <1>2 DEF Sole
<1>4. Agrees' /\ Single(sources)'
  BY <1>1 DEF Agrees, IsSourced, Single
<1>5. \A q \in Proc : Consistent(q)'
  BY <1>2
<1> QED BY <1>3, <1>4, <1>5 DEF Serial

(* A step of p with no transaction open, or that opens one and no more.     *)
LEMMA PlaceStep ==
  ASSUME NEW p \in Proc, Consistent(p), ~Open(p),
         UNCHANGED <<rows, sources, patched, seen, sets, adds, dels>>,
         Left(p)' = {}, pc'[p] # "deleting"
  PROVE  Consistent(p)'
<1>1. Clean(p) /\ Clean(p)'
  BY DEF Consistent, Clean
<1>2. Left(p) = {}
  BY DEF Left, Open
<1>3. Sees(p)' = Sees(p)
  BY DEF Sees
<1>4. Balanced(p)'
  BY <1>2, <1>3 DEF Consistent, Balanced, Eff, HasSource
<1>5. Loaded(p)' /\ Single(Sees(p))'
  BY <1>3 DEF Consistent, Loaded, Single
<1> QED BY <1>1, <1>4, <1>5 DEF Consistent, Clean

(* What Assign does to the flags p's transaction would leave.               *)
LEMMA AssignEff ==
  ASSUME Types, NEW p \in Proc, NEW as \in SUBSET Address,
         NEW on \in SUBSET Address, NEW off \in SUBSET Address,
         Assign(p, as, on, off), on \cap off = {}, Loaded(p),
         UNCHANGED <<rows, patched>>
  PROVE  /\ Loaded(p)'
         /\ \A q \in Proc \ {p} : seen'[q] = seen[q] /\ sets'[q] = sets[q]
         /\ \A a \in Address \ patched :
              Eff(p, a)' = IF a \in on THEN "on" ELSE IF a \in off THEN "off" ELSE Eff(p, a)
<1>1. \A q \in Proc \ {p} : seen'[q] = seen[q] /\ sets'[q] = sets[q]
  BY AssignDoes
<1>2. Loaded(p)'
  <2>1. seen'[p] = [a \in DOMAIN seen[p] \cup as |->
                      IF a \in DOMAIN seen[p] THEN seen[p][a] ELSE rows[a]]
    BY DEF Assign, Types
  <2> QED BY <2>1 DEF Loaded
<1>3. PICK ch \in SUBSET Address :
        /\ \A a \in Address : a \in ch <=>
             (a \in on /\ Flag(p, a) # "on") \/ (a \in off /\ Flag(p, a) # "off")
        /\ sets'[p] = [a \in DOMAIN sets[p] \cup ch |->
                         IF a \in ch THEN IF a \in on THEN "on" ELSE "off"
                         ELSE sets[p][a]]
  BY AssignDoes
<1>4. ASSUME NEW a \in Address \ patched
      PROVE  Eff(p, a)' = IF a \in on THEN "on" ELSE IF a \in off THEN "off" ELSE Eff(p, a)
  <2>1. Flag(p, a) = Eff(p, a)
    BY DEF Flag, Eff, Loaded
  <2>2. Eff(p, a)' = IF a \in ch THEN IF a \in on THEN "on" ELSE "off" ELSE Eff(p, a)
    BY <1>3 DEF Eff
  <2> QED BY <1>3, <2>1, <2>2
<1> QED BY <1>1, <1>2, <1>4

LEMMA SeesPairs ==
  ASSUME Types, NEW p \in Proc, NEW s \in Sees(p)
  PROVE  /\ s[1] \in Address /\ s[2] \in List \cup Manual /\ s = <<s[1], s[2]>>
<1>1. s \in Source
  BY DEF Types, Sees
<1> QED BY <1>1 DEF Source

(* A sync. *)
LEMMA FetchSerial ==
  ASSUME Types, Serial, NEW p \in Proc, Fetch(p) \/ FetchFails(p)
  PROVE  Serial'
<1> SUFFICES ASSUME ~overlapped' PROVE Serial'
  BY DEF Serial
<1>1. /\ pc[p] = "fetching" /\ \E st \in {"idle", "adding"} : pc' = [pc EXCEPT ![p] = st]
      /\ \A q \in Proc \ {p} : job'[q] = job[q] /\ todo'[q] = todo[q]
      /\ UNCHANGED <<rows, sources, patched, seen, sets, adds, dels>>
  BY DEF Fetch, FetchFails, tables, buffers, history, Types
<1>2. OthersSame(p)
  BY <1>1 DEF OthersSame, Types
<1>3. ~overlapped /\ (Open(p)' => \A q \in Proc \ {p} : ~Open(q))
  BY <1>1 DEF Fetch, FetchFails, Begin, history, Open, Types
<1>4. ~Open(p) /\ Left(p)' = {} /\ pc'[p] # "deleting"
  BY <1>1 DEF Open, Left, Types
<1>5. Consistent(p)'
  BY <1>1, <1>3, <1>4, PlaceStep DEF Serial
<1> QED BY <1>1, <1>2, <1>3, <1>5, OwnStep

LEMMA AddTargetSerial ==
  ASSUME Types, Serial, NEW p \in Proc, NEW a \in Address, AddTarget(p, a)
  PROVE  Serial'
<1> SUFFICES ASSUME ~overlapped' PROVE Serial'
  BY DEF Serial
<1>1. /\ pc[p] = "adding" /\ todo' = [todo EXCEPT ![p] = @ \ {a}]
      /\ UNCHANGED <<rows, sources, patched, overlapped, pc, job, dels>>
  BY DEF AddTarget, tables, history
<1>2. PICK b \in Address :
        /\ Assign(p, {b}, {b}, {})
        /\ adds' = [adds EXCEPT ![p] = @ \cup ({<<b, job[p]>>} \ Sees(p))]
  BY MatchType DEF AddTarget
<1>3. Consistent(p) /\ dels[p] = {}
  BY <1>1 DEF Serial, Consistent
<1>4. /\ Loaded(p)'
      /\ \A q \in Proc \ {p} : seen'[q] = seen[q] /\ sets'[q] = sets[q]
      /\ \A c \in Address \ patched : Eff(p, c)' = IF c = b THEN "on" ELSE Eff(p, c)
  <2>1. {b} \in SUBSET Address /\ {} \in SUBSET Address /\ {b} \cap {} = {}
    OBVIOUS
  <2>2. Loaded(p) /\ UNCHANGED <<rows, patched>>
    BY <1>1, <1>3 DEF Consistent
  <2>3. \A c \in Address \ patched :
          Eff(p, c)' = IF c \in {b} THEN "on" ELSE IF c \in {} THEN "off" ELSE Eff(p, c)
    BY <1>2, <2>1, <2>2, AssignEff DEF Eff
  <2>4. Loaded(p)' /\ \A q \in Proc \ {p} : seen'[q] = seen[q] /\ sets'[q] = sets[q]
    BY <1>2, <2>1, <2>2, AssignEff DEF Eff
  <2> QED BY <2>3, <2>4
<1>5. Sees(p)' = Sees(p) \cup {<<b, job[p]>>}
  BY <1>1, <1>2, <1>3 DEF Sees, Types
<1>6. Balanced(p)'
  <2>1. Left(p) = {} /\ Left(p)' = {}
    BY <1>1 DEF Left
  <2>2. ASSUME NEW c \in Address
        PROVE  HasSource(p, c)' <=> (c = b \/ HasSource(p, c))
    <3>1. <<b, job[p]>> \in Sees(p)' /\ <<b, job[p]>>[1] = b
      BY <1>5
    <3>2. ASSUME NEW s \in Sees(p)', s[1] = c
          PROVE  c = b \/ s \in Sees(p)
      BY <1>5, <3>2
    <3>3. HasSource(p, c) => HasSource(p, c)'
      BY <1>5 DEF HasSource
    <3> QED BY <3>1, <3>2, <3>3 DEF HasSource
  <2> QED BY <1>1, <1>3, <1>4, <2>1, <2>2 DEF Consistent, Balanced
<1>7. Single(Sees(p))'
  <2>1. job[p] \notin Manual
    BY <1>1, StoreAssumption DEF Types
  <2> QED BY <1>3, <1>5, <2>1 DEF Consistent, Single
<1>8. Consistent(p)'
  BY <1>1, <1>3, <1>4, <1>6, <1>7 DEF Consistent, Open
<1>9. OthersSame(p)
  BY <1>1, <1>2, <1>4 DEF OthersSame, Types
<1> QED BY <1>1, <1>8, <1>9, OwnStep DEF Open

LEMMA RemoveGoneSerial ==
  ASSUME Types, Serial, NEW p \in Proc, NEW a \in Address, RemoveGone(p, a)
  PROVE  Serial'
<1> SUFFICES ASSUME ~overlapped' PROVE Serial'
  BY DEF Serial
<1> DEFINE off == IF \E s \in Sees(p) : s[1] = a /\ s[2] # job[p] THEN {} ELSE {a}
<1>1. /\ pc[p] = "pruning" /\ todo' = [todo EXCEPT ![p] = @ \ {a}]
      /\ dels' = [dels EXCEPT ![p] = @ \cup {<<a, job[p]>>}]
      /\ Assign(p, {a}, {}, off)
      /\ UNCHANGED <<rows, sources, patched, overlapped, pc, job, adds>>
  BY DEF RemoveGone, tables, history
<1>2. Consistent(p)
  BY <1>1 DEF Serial
<1>3. /\ Loaded(p)'
      /\ \A q \in Proc \ {p} : seen'[q] = seen[q] /\ sets'[q] = sets[q]
      /\ \A c \in Address \ patched : Eff(p, c)' = IF c \in off THEN "off" ELSE Eff(p, c)
  <2>1. {a} \in SUBSET Address /\ {} \in SUBSET Address /\ off \in SUBSET Address
    OBVIOUS
  <2> HIDE DEF off
  <2>2. Loaded(p) /\ UNCHANGED <<rows, patched>> /\ {} \cap off = {}
    BY <1>1, <1>2 DEF Consistent
  <2>5. Assign(p, {a}, {}, off)
    BY <1>1
  <2>3. \A c \in Address \ patched :
          Eff(p, c)' = IF c \in {} THEN "on" ELSE IF c \in off THEN "off" ELSE Eff(p, c)
    BY <2>1, <2>2, <2>5, AssignEff DEF Eff
  <2>4. Loaded(p)' /\ \A q \in Proc \ {p} : seen'[q] = seen[q] /\ sets'[q] = sets[q]
    BY <2>1, <2>2, <2>5, AssignEff DEF Eff
  <2> QED BY <2>3, <2>4
<1>4. Sees(p)' = Sees(p) \ {<<a, job[p]>>}
  BY <1>1 DEF Sees, Types
<1>5. Balanced(p)'
  <2>1. Left(p) = {} /\ Left(p)' = {}
    BY <1>1 DEF Left
  <2>2. ASSUME NEW c \in Address, c # a
        PROVE  (HasSource(p, c)' <=> HasSource(p, c)) /\ c \notin off
    BY <1>4, <2>2 DEF HasSource
  <2>3. HasSource(p, a)' <=> a \notin off
    <3>1. HasSource(p, a)' => a \notin off
      BY <1>4, SeesPairs DEF HasSource
    <3>2. a \notin off => HasSource(p, a)'
      BY <1>4 DEF HasSource
    <3> QED BY <3>1, <3>2
  <2>4. HasSource(p, a)' => HasSource(p, a)
    BY <1>4 DEF HasSource
  <2> HIDE DEF off
  <2>5. ASSUME NEW c \in Address \ patched
        PROVE  /\ HasSource(p, c)' => Eff(p, c)' = "on"
               /\ Eff(p, c)' = "on" => HasSource(p, c)'
    BY <1>2, <1>3, <2>1, <2>2, <2>3, <2>4 DEF Consistent, Balanced
  <2> QED BY <1>1, <2>5 DEF Balanced
<1>6. Single(Sees(p))'
  BY <1>2, <1>4 DEF Consistent, Single
<1>7. Consistent(p)'
  BY <1>1, <1>3, <1>5, <1>6 DEF Consistent, Open
<1>8. OthersSame(p)
  BY <1>1, <1>3 DEF OthersSame, Types
<1> HIDE DEF off
<1> QED BY <1>1, <1>7, <1>8, OwnStep DEF Open

LEMMA FindGoneSerial ==
  ASSUME Types, Serial, NEW p \in Proc, FindGone(p)
  PROVE  Serial'
<1> SUFFICES ASSUME ~overlapped' PROVE Serial'
  BY DEF Serial
<1>1. /\ pc[p] = "adding" /\ pc' = [pc EXCEPT ![p] = "pruning"]
      /\ \A q \in Proc \ {p} : todo'[q] = todo[q]
      /\ UNCHANGED <<rows, sources, patched, overlapped, job, seen, sets, adds, dels>>
  BY DEF FindGone, tables, buffers, history, Types
<1>2. Consistent(p) /\ Sees(p)' = Sees(p) /\ pc'[p] = "pruning"
  BY <1>1 DEF Serial, Sees, Types
<1>3. Left(p) = {} /\ Left(p)' = {}
  BY <1>1, <1>2 DEF Left
<1>4. Balanced(p)'
  BY <1>1, <1>2, <1>3 DEF Consistent, Balanced, Eff, HasSource
<1>5. Loaded(p)' /\ Single(Sees(p))'
  BY <1>1, <1>2 DEF Consistent, Loaded, Single
<1>6. Consistent(p)'
  BY <1>2, <1>4, <1>5 DEF Consistent, Open
<1>7. OthersSame(p)
  BY <1>1 DEF OthersSame, Types
<1> QED BY <1>1, <1>6, <1>7, OwnStep DEF Open

(* A commit that writes what the transaction sees, with nothing left to     *)
(* check.                                                                   *)
LEMMA CommitSerial ==
  ASSUME Types, Serial, NEW p \in Proc, Open(p), Left(p) = {}, Written(p), End(p),
         UNCHANGED <<patched, overlapped>>
  PROVE  Serial'
<1>1. ASSUME ~overlapped
      PROVE  Agrees' /\ Single(sources)'
  <2>1. Consistent(p)
    BY <1>1 DEF Serial
  <2>2. sources' = Sees(p) /\ \A a \in Address : rows'[a] = Eff(p, a)
    BY DEF Written, Eff
  <2>3. Agrees'
    BY <2>1, <2>2 DEF Consistent, Balanced, Agrees, IsSourced, HasSource
  <2> QED BY <2>1, <2>2, <2>3 DEF Consistent, Single
<1> QED BY <1>1, EndSerial

LEMMA SyncSerial ==
  ASSUME Types, Serial, NEW p \in Proc, SyncStep(p)
  PROVE  Serial'
<1>1. ASSUME CommitSync(p) PROVE Serial'
  <2>1. CASE job[p] \in lists
    <3>1. /\ Open(p) /\ Left(p) = {} /\ Written(p) /\ End(p)
          /\ UNCHANGED <<patched, overlapped>>
      BY <1>1, <2>1 DEF CommitSync, Open, Left, history
    <3> QED BY <3>1, CommitSerial
  <2>2. CASE job[p] \notin lists
    BY <1>1, <2>2, RollbackSerial DEF CommitSync
  <2> QED BY <2>1, <2>2
<1> QED
  BY <1>1, AddTargetSerial, RemoveGoneSerial, FindGoneSerial, RollbackSerial
  DEF SyncStep, Ambiguous

(* A request that opens a transaction, alone. *)
LEMMA Alone ==
  ASSUME Types, Serial, NEW p \in Proc, Begin(p), ~overlapped', ~Open(p)
  PROVE  /\ ~overlapped /\ \A q \in Proc \ {p} : ~Open(q)
         /\ Agrees /\ Single(sources) /\ Consistent(p)
         /\ adds[p] = {} /\ dels[p] = {} /\ Sees(p) = sources /\ Loaded(p)
         /\ \A a \in Address : Eff(p, a) = rows[a]
<1>1. ~overlapped /\ \A q \in Proc \ {p} : ~Open(q)
  BY DEF Begin, Types
<1>2. Agrees /\ Single(sources) /\ Consistent(p)
  BY <1>1 DEF Serial
<1>3. Clean(p) /\ Loaded(p)
  BY <1>2 DEF Consistent
<1> QED BY <1>1, <1>2, <1>3 DEF Clean, Sees, Eff

LEMMA DeleteListSerial ==
  ASSUME Types, Serial, NEW r \in Request, NEW l \in List, DeleteList(r, l)
  PROVE  Serial'
<1> SUFFICES ASSUME ~overlapped' PROVE Serial'
  BY DEF Serial
<1> DEFINE gone == {s \in sources : s[2] = l}
<1>1. /\ r \in Proc /\ Begin(r) /\ pc[r] = "idle"
      /\ pc' = [pc EXCEPT ![r] = "deleting"] /\ job' = [job EXCEPT ![r] = l]
      /\ dels' = [dels EXCEPT ![r] = gone]
      /\ todo' = [todo EXCEPT ![r] = {s[1] : s \in gone}]
      /\ UNCHANGED <<rows, sources, patched, seen, sets, adds>>
  BY DEF DeleteList, Accept, Proc, tables
<1>2. /\ ~overlapped /\ \A q \in Proc \ {r} : ~Open(q)
      /\ Agrees /\ Single(sources)
      /\ adds[r] = {} /\ Loaded(r)
      /\ \A a \in Address : Eff(r, a) = rows[a]
  BY <1>1, Alone DEF Open
<1>3. /\ pc'[r] = "deleting" /\ job'[r] = l /\ dels'[r] = gone
      /\ Sees(r)' = sources \ gone /\ Left(r)' = {s[1] : s \in gone}
  BY <1>1, <1>2 DEF Sees, Left, Types
<1>4. Balanced(r)'
  <2>1. ASSUME NEW a \in Address \ patched
        PROVE  /\ Eff(r, a)' = rows[a]
               /\ HasSource(r, a)' => IsSourced(a)
               /\ a \notin Left(r)' /\ IsSourced(a) => HasSource(r, a)'
    <3>1. Eff(r, a)' = rows[a]
      BY <1>1, <1>2 DEF Eff
    <3>2. HasSource(r, a)' => IsSourced(a)
      BY <1>3 DEF HasSource, IsSourced
    <3>3. a \notin Left(r)' /\ IsSourced(a) => HasSource(r, a)'
      BY <1>3 DEF HasSource, IsSourced
    <3> QED BY <3>1, <3>2, <3>3
  <2> QED BY <1>1, <1>2, <2>1 DEF Balanced, Agrees
<1>5. Single(Sees(r))' /\ Loaded(r)'
  BY <1>1, <1>2, <1>3 DEF Single, Loaded
<1>6. Consistent(r)'
  BY <1>1, <1>2, <1>3, <1>4, <1>5 DEF Consistent, Open
<1>7. OthersSame(r)
  BY <1>1 DEF OthersSame, Types
<1> QED BY <1>1, <1>2, <1>6, <1>7, OwnStep

LEMMA CreateTargetSerial ==
  ASSUME Types, Serial, NEW r \in Request, NEW a \in Address, CreateTarget(r, a)
  PROVE  Serial'
<1> SUFFICES ASSUME ~overlapped' PROVE Serial'
  BY DEF Serial
<1>1. /\ r \in Proc /\ Begin(r) /\ pc[r] = "idle"
      /\ pc' = [pc EXCEPT ![r] = "committing"]
      /\ UNCHANGED <<rows, sources, patched, job, todo, dels>>
  BY DEF CreateTarget, Accept, Proc, tables
<1>2. PICK b \in Address :
        /\ Assign(r, {b}, {b}, {})
        /\ \/ (\E m \in Manual : <<b, m>> \in sources) /\ adds' = adds
           \/ /\ ~\E m \in Manual : <<b, m>> \in sources
              /\ \E m \in Manual : adds' = [adds EXCEPT ![r] = {<<b, m>>}]
  BY MatchType DEF CreateTarget
<1>3. /\ ~overlapped /\ \A q \in Proc \ {r} : ~Open(q)
      /\ Agrees /\ Single(sources)
      /\ adds[r] = {} /\ dels[r] = {} /\ Loaded(r)
      /\ \A c \in Address : Eff(r, c) = rows[c]
  BY <1>1, Alone DEF Open
<1>4. /\ Loaded(r)'
      /\ \A q \in Proc \ {r} : seen'[q] = seen[q] /\ sets'[q] = sets[q]
      /\ \A c \in Address \ patched : Eff(r, c)' = IF c = b THEN "on" ELSE rows[c]
  <2>1. {b} \in SUBSET Address /\ {} \in SUBSET Address /\ {b} \cap {} = {}
    OBVIOUS
  <2>2. Loaded(r) /\ UNCHANGED <<rows, patched>>
    BY <1>1, <1>3
  <2>3. \A c \in Address \ patched :
          Eff(r, c)' = IF c \in {b} THEN "on" ELSE IF c \in {} THEN "off" ELSE Eff(r, c)
    BY <1>1, <1>2, <2>1, <2>2, AssignEff DEF Eff
  <2>4. Loaded(r)' /\ \A q \in Proc \ {r} : seen'[q] = seen[q] /\ sets'[q] = sets[q]
    BY <1>1, <1>2, <2>1, <2>2, AssignEff DEF Eff
  <2> QED BY <1>3, <2>3, <2>4
<1>5. PICK m \in Manual :
        /\ <<b, m>> \in Sees(r)' /\ Sees(r)' = sources \cup {<<b, m>>}
        /\ \A n \in Manual : <<b, n>> \in sources => n = m
  <2>1. CASE \E n \in Manual : <<b, n>> \in sources
    <3>1. PICK n \in Manual : <<b, n>> \in sources
      BY <2>1
    <3>2. Sees(r)' = sources
      BY <1>1, <1>2, <1>3, <2>1 DEF Sees
    <3>3. \A k \in Manual : <<b, k>> \in sources => k = n
      BY <1>3, <3>1 DEF Single
    <3> QED BY <3>1, <3>2, <3>3
  <2>2. CASE ~\E n \in Manual : <<b, n>> \in sources
    <3>1. PICK m \in Manual : adds' = [adds EXCEPT ![r] = {<<b, m>>}]
      BY <1>2, <2>2
    <3>2. adds'[r] = {<<b, m>>} /\ dels'[r] = {}
      BY <1>1, <1>3, <3>1 DEF Types
    <3>3. Sees(r)' = sources \cup {<<b, m>>}
      BY <1>1, <3>2 DEF Sees
    <3> QED BY <2>2, <3>3
  <2> QED BY <2>1, <2>2
<1>6. Balanced(r)'
  <2>1. ASSUME NEW c \in Address
        PROVE  HasSource(r, c)' <=> (c = b \/ IsSourced(c))
    <3>1. <<b, m>>[1] = b
      OBVIOUS
    <3>2. ASSUME NEW s \in Sees(r)', s[1] = c
          PROVE  c = b \/ s \in sources
      BY <1>5, <3>2
    <3>3. IsSourced(c) => HasSource(r, c)'
      BY <1>5 DEF HasSource, IsSourced
    <3> QED BY <1>5, <3>1, <3>2, <3>3 DEF HasSource, IsSourced
  <2> QED BY <1>1, <1>3, <1>4, <2>1 DEF Balanced, Agrees
<1>7. Single(Sees(r))'
  BY <1>3, <1>5 DEF Single
<1>8. Consistent(r)'
  BY <1>1, <1>4, <1>6, <1>7 DEF Consistent, Open, Types
<1>9. OthersSame(r)
  BY <1>1, <1>2, <1>4 DEF OthersSame, Types
<1> QED BY <1>1, <1>3, <1>8, <1>9, OwnStep

LEMMA DeleteTargetSerial ==
  ASSUME Types, Serial, NEW r \in Request, NEW a \in Address, DeleteTarget(r, a)
  PROVE  Serial'
<1> SUFFICES ASSUME ~overlapped' PROVE Serial'
  BY DEF Serial
<1>1. /\ r \in Proc /\ Begin(r) /\ pc[r] = "idle"
      /\ pc' = [pc EXCEPT ![r] = "checking"] /\ todo' = [todo EXCEPT ![r] = {a}]
      /\ Assign(r, {a}, {}, {})
      /\ UNCHANGED <<rows, sources, patched, job, adds>>
  BY DEF DeleteTarget, Accept, Proc, tables
<1>2. PICK gone \in SUBSET {s \in sources : s[1] = a} :
        dels' = [dels EXCEPT ![r] = gone] \/ (gone = {} /\ dels' = dels)
  BY DEF DeleteTarget
<1>3. /\ ~overlapped /\ \A q \in Proc \ {r} : ~Open(q)
      /\ Agrees /\ Single(sources)
      /\ adds[r] = {} /\ dels[r] = {} /\ Loaded(r)
      /\ \A c \in Address : Eff(r, c) = rows[c]
  BY <1>1, Alone DEF Open
<1>4. /\ Loaded(r)'
      /\ \A q \in Proc \ {r} : seen'[q] = seen[q] /\ sets'[q] = sets[q]
      /\ \A c \in Address \ patched : Eff(r, c)' = rows[c]
  <2> DEFINE none == {}
  <2>1. {a} \in SUBSET Address /\ none \in SUBSET Address /\ none \cap none = {}
    OBVIOUS
  <2>2. r \in Proc /\ Loaded(r) /\ UNCHANGED <<rows, patched>>
    BY <1>1, <1>3
  <2>5. Assign(r, {a}, none, none) /\ \A c \in Address : c \notin none
    BY <1>1
  <2> HIDE DEF none
  <2>3. \A c \in Address \ patched :
          Eff(r, c)' = IF c \in none THEN "on" ELSE IF c \in none THEN "off" ELSE Eff(r, c)
    BY <2>1, <2>2, <2>5, AssignEff
  <2>4. Loaded(r)' /\ \A q \in Proc \ {r} : seen'[q] = seen[q] /\ sets'[q] = sets[q]
    BY <2>1, <2>2, <2>5, AssignEff
  <2> QED BY <1>3, <2>3, <2>4, <2>5
<1>5. Sees(r)' = sources \ gone /\ Left(r)' = {a}
  BY <1>1, <1>2, <1>3 DEF Sees, Left, Types
<1>6. Balanced(r)'
  <2>1. ASSUME NEW c \in Address
        PROVE  /\ HasSource(r, c)' => IsSourced(c)
               /\ c # a /\ IsSourced(c) => HasSource(r, c)'
    BY <1>5 DEF HasSource, IsSourced
  <2> QED BY <1>1, <1>3, <1>4, <1>5, <2>1 DEF Balanced, Agrees
<1>7. Single(Sees(r))'
  BY <1>3, <1>5 DEF Single
<1>8. Consistent(r)'
  BY <1>1, <1>4, <1>6, <1>7 DEF Consistent, Open, Types
<1>9. OthersSame(r)
  BY <1>1, <1>2, <1>4 DEF OthersSame, Types
<1> QED BY <1>1, <1>3, <1>8, <1>9, OwnStep

LEMMA CheckOrphanSerial ==
  ASSUME Types, Serial, NEW r \in Request, NEW a \in Address, CheckOrphan(r, a)
  PROVE  Serial'
<1> SUFFICES ASSUME ~overlapped' PROVE Serial'
  BY DEF Serial
<1> DEFINE off == IF HasSource(r, a) THEN {} ELSE {a}
<1>1. /\ r \in Proc /\ pc[r] \in {"checking", "deleting"}
      /\ todo' = [todo EXCEPT ![r] = @ \ {a}]
      /\ Assign(r, {a}, {}, off)
      /\ UNCHANGED <<rows, sources, patched, overlapped, pc, job, adds, dels>>
  BY DEF CheckOrphan, Proc, tables, history
<1>2. Consistent(r)
  BY <1>1 DEF Serial
<1>3. off \in SUBSET Address /\ \A c \in Address : c \in off <=> (c = a /\ ~HasSource(r, c))
  OBVIOUS
<1> HIDE DEF off
<1>4. /\ Loaded(r)'
      /\ \A q \in Proc \ {r} : seen'[q] = seen[q] /\ sets'[q] = sets[q]
      /\ \A c \in Address \ patched : Eff(r, c)' = IF c \in off THEN "off" ELSE Eff(r, c)
  <2>1. /\ {a} \in SUBSET Address /\ {} \in SUBSET Address /\ off \in SUBSET Address
        /\ {} \cap off = {}
    BY <1>3
  <2>2. Loaded(r) /\ UNCHANGED <<rows, patched>>
    BY <1>1, <1>2 DEF Consistent
  <2>5. r \in Proc /\ Assign(r, {a}, {}, off)
    BY <1>1
  <2>3. \A c \in Address \ patched :
          Eff(r, c)' = IF c \in {} THEN "on" ELSE IF c \in off THEN "off" ELSE Eff(r, c)
    BY <2>1, <2>2, <2>5, AssignEff
  <2>4. Loaded(r)' /\ \A q \in Proc \ {r} : seen'[q] = seen[q] /\ sets'[q] = sets[q]
    BY <2>1, <2>2, <2>5, AssignEff DEF Eff
  <2> QED BY <2>3, <2>4
<1>5. Sees(r)' = Sees(r) /\ Left(r) = todo[r] /\ Left(r)' = todo[r] \ {a}
  BY <1>1 DEF Sees, Left, Types
<1>6. Balanced(r)'
  <2>1. ASSUME NEW c \in Address
        PROVE  HasSource(r, c)' <=> HasSource(r, c)
    BY <1>5 DEF HasSource
  <2> QED BY <1>1, <1>2, <1>3, <1>4, <1>5, <2>1 DEF Consistent, Balanced
<1>7. Single(Sees(r))'
  BY <1>2, <1>5 DEF Consistent, Single
<1>8. Consistent(r)'
  BY <1>1, <1>2, <1>4, <1>6, <1>7 DEF Consistent, Open
<1>9. OthersSame(r)
  BY <1>1, <1>4 DEF OthersSame, Types
<1> QED BY <1>1, <1>8, <1>9, OwnStep DEF Open

(* The list's sources are the ones that its transaction has deleted: the    *)
(* cascade finds no others, for nobody has added one meanwhile.             *)
LEMMA CommitDeleteListSerial ==
  ASSUME Types, Serial, NEW r \in Request, CommitDeleteList(r)
  PROVE  Serial'
<1>1. /\ r \in Proc /\ pc[r] = "deleting" /\ todo[r] = {} /\ End(r)
      /\ \A a \in Address : rows'[a] = Eff(r, a)
      /\ sources' = {s \in Sees(r) : s[2] # job[r]}
      /\ UNCHANGED <<patched, overlapped>>
  BY DEF CommitDeleteList, Proc, Eff, history
<1>2. ASSUME ~overlapped
      PROVE  Agrees' /\ Single(sources)'
  <2>1. Consistent(r) /\ adds[r] = {} /\ dels[r] = {s \in sources : s[2] = job[r]}
    BY <1>1, <1>2 DEF Serial, Consistent
  <2>2. sources' = Sees(r)
    BY <1>1, <2>1 DEF Sees
  <2>3. Agrees'
    BY <1>1, <2>1, <2>2 DEF Consistent, Balanced, Left, Agrees, IsSourced, HasSource
  <2> QED BY <2>1, <2>2, <2>3 DEF Consistent, Single
<1>3. Open(r)
  BY <1>1 DEF Open
<1> QED BY <1>1, <1>2, <1>3, EndSerial

LEMMA RequestSerial ==
  ASSUME Types, Serial, NEW r \in Request, RequestStep(r)
  PROVE  Serial'
<1>1. ASSUME Commit(r) \/ CommitDeleteTarget(r)
      PROVE  Serial'
  <2>1. /\ r \in Proc /\ Open(r) /\ Left(r) = {} /\ Written(r) /\ End(r)
        /\ UNCHANGED <<patched, overlapped>>
    BY <1>1 DEF Commit, CommitDeleteTarget, Proc, Open, Left, history
  <2> QED BY <2>1, CommitSerial
<1> QED BY <1>1, CheckOrphanSerial, CommitDeleteListSerial DEF RequestStep

(* An admin's own (de)activation: the target is not judged any more.        *)
LEMMA UpdateTargetSerial ==
  ASSUME Types, Serial, NEW r \in Request, NEW a \in Address, UpdateTarget(r, a)
  PROVE  Serial'
<1> SUFFICES ASSUME ~overlapped PROVE Serial'
  BY DEF Serial, UpdateTarget
<1>1. /\ patched' = patched \cup {a} /\ \A c \in Address \ {a} : rows'[c] = rows[c]
      /\ UNCHANGED <<sources, pc, job, todo, seen, sets, adds, dels>>
  BY DEF UpdateTarget, Types, buffers
<1>2. Sole /\ Agrees /\ Single(sources) /\ \A q \in Proc : Consistent(q)
  BY DEF Serial
<1>3. Sole' /\ Agrees' /\ Single(sources)'
  BY <1>1, <1>2 DEF Sole, Open, Agrees, IsSourced, Single
<1>4. ASSUME NEW q \in Proc
      PROVE  Consistent(q)'
  <2>1. Sees(q)' = Sees(q) /\ Left(q)' = Left(q) /\ Consistent(q)
    BY <1>1, <1>2 DEF Sees, Left
  <2>2. Balanced(q)'
    BY <1>1, <2>1 DEF Consistent, Balanced, Eff, HasSource
  <2>3. Loaded(q)'
    <3>1. \A c \in DOMAIN seen[q] : c \in Address
      BY FlagsType DEF Types
    <3> QED BY <1>1, <2>1, <3>1 DEF Consistent, Loaded
  <2>4. Single(Sees(q))'
    BY <2>1 DEF Consistent, Single
  <2> QED BY <1>1, <2>1, <2>2, <2>3, <2>4 DEF Consistent, Open, Clean
<1> QED BY <1>3, <1>4 DEF Serial

LEMMA AskSerial ==
  ASSUME Types, Serial, NEW r \in Request, Ask(r)
  PROVE  Serial'
<1>1. ASSUME NEW l \in List, CreateList(r, l) \/ SyncNow(r, l)
      PROVE  Serial'
  <2> SUFFICES ASSUME ~overlapped' PROVE Serial'
    BY DEF Serial
  <2>1. /\ r \in Proc /\ pc[r] = "idle" /\ ~overlapped
        /\ pc' = [pc EXCEPT ![r] = "fetching"] /\ job' = [job EXCEPT ![r] = l]
        /\ UNCHANGED <<rows, sources, patched, todo, seen, sets, adds, dels>>
    BY <1>1 DEF CreateList, SyncNow, Accept, Proc, tables, buffers, history
  <2>2. ~Open(r) /\ ~Open(r)' /\ Left(r)' = {} /\ pc'[r] # "deleting"
    BY <2>1 DEF Open, Left, Types
  <2>3. Consistent(r)'
    BY <2>1, <2>2, PlaceStep DEF Serial
  <2>4. OthersSame(r)
    BY <2>1 DEF OthersSame, Types
  <2> QED BY <2>1, <2>2, <2>3, <2>4, OwnStep
<1>2. ASSUME NEW l \in List, UpdateList(r, l)
      PROVE  Serial'
  <2>1. UNCHANGED <<rows, sources, patched, overlapped, pc, job, todo, seen, sets, adds, dels>>
    BY <1>2 DEF UpdateList, buffers, history
  <2> QED
    BY <2>1 DEF Serial, Sole, Open, Agrees, IsSourced, Single, Consistent, Clean, Loaded,
       Balanced, Left, Eff, HasSource, Sees
<1> QED
  BY <1>1, <1>2, DeleteListSerial, CreateTargetSerial, DeleteTargetSerial, UpdateTargetSerial
  DEF Ask

(* The sync loop between two lists, and what no process does. *)
LEMMA LoopSerial ==
  ASSUME Types, Serial, Sweep \/ SyncDue \/ BreakDeadlock \/ \E l \in List : Serve(l)
  PROVE  Serial'
<1>1. CASE SyncDue
  <2> SUFFICES ASSUME ~overlapped' PROVE Serial'
    BY DEF Serial
  <2>1. /\ Loop \in Proc /\ pc[Loop] = "idle" /\ ~overlapped
        /\ UNCHANGED <<rows, sources, patched, todo, seen, sets, adds, dels>>
    BY <1>1 DEF SyncDue, Proc, tables, buffers, history
  <2>2. /\ pc'[Loop] \in {"idle", "fetching"}
        /\ \A q \in Proc \ {Loop} : pc'[q] = pc[q] /\ job'[q] = job[q]
    BY <1>1, <2>1 DEF SyncDue, Types
  <2>3. ~Open(Loop) /\ ~Open(Loop)' /\ Left(Loop)' = {} /\ pc'[Loop] # "deleting"
    BY <2>1, <2>2 DEF Open, Left
  <2>4. Consistent(Loop)'
    BY <2>1, <2>3, PlaceStep DEF Serial
  <2>5. OthersSame(Loop)
    BY <2>1, <2>2 DEF OthersSame
  <2> QED BY <2>1, <2>3, <2>4, <2>5, OwnStep
<1>2. CASE BreakDeadlock
  BY <1>2, RollbackSerial DEF BreakDeadlock, Deadlocked
<1>3. CASE Sweep \/ \E l \in List : Serve(l)
  <2>1. UNCHANGED <<rows, sources, patched, overlapped, pc, job, todo, seen, sets, adds, dels>>
    BY <1>3 DEF Sweep, Serve, tables, buffers, history
  <2> QED
    BY <2>1 DEF Serial, Sole, Open, Agrees, IsSourced, Single, Consistent, Clean, Loaded,
       Balanced, Left, Eff, HasSource, Sees
<1> QED BY <1>1, <1>2, <1>3

LEMMA SerialInit == Init => Serial
<1> SUFFICES ASSUME Init PROVE Serial
  OBVIOUS
<1>1. \A p \in Proc :
        /\ pc[p] = "idle" /\ seen[p] = <<>> /\ sets[p] = <<>>
        /\ adds[p] = {} /\ dels[p] = {}
  BY DEF Init
<1>2. ~overlapped /\ sources = {} /\ \A a \in Address : rows[a] = "none"
  BY DEF Init
<1>3. Sole /\ Agrees /\ Single(sources)
  BY <1>1, <1>2 DEF Sole, Open, Agrees, IsSourced, Single
<1>4. \A p \in Proc : Consistent(p)
  BY <1>1, <1>2, EmptyFlags DEF Consistent, Open, Clean, Loaded, Balanced, Left, Eff,
     HasSource, Sees, Single
<1> QED BY <1>3, <1>4 DEF Serial

LEMMA SerialStep == Types /\ Serial /\ [Next]_vars => Serial'
<1> SUFFICES ASSUME Types, Serial, [Next]_vars PROVE Serial'
  OBVIOUS
<1>1. ASSUME NEW p \in Proc, Fetch(p) \/ FetchFails(p) \/ SyncStep(p)
      PROVE  Serial'
  BY <1>1, FetchSerial, SyncSerial
<1>2. ASSUME NEW p \in Proc, Fail(p)
      PROVE  Serial'
  BY <1>2, RollbackSerial DEF Fail
<1>3. ASSUME NEW r \in Request, Ask(r) \/ RequestStep(r)
      PROVE  Serial'
  BY <1>3, AskSerial, RequestSerial
<1>4. CASE Sweep \/ SyncDue \/ BreakDeadlock \/ \E l \in List : Serve(l)
  BY <1>4, LoopSerial
<1>5. CASE UNCHANGED vars
  <2>1. UNCHANGED <<rows, sources, patched, overlapped, pc, job, todo, seen, sets, adds, dels>>
    BY <1>5 DEF vars, tables, buffers, history
  <2> QED
    BY <2>1 DEF Serial, Sole, Open, Agrees, IsSourced, Single, Consistent, Clean, Loaded,
       Balanced, Left, Eff, HasSource, Sees
<1> QED BY <1>1, <1>2, <1>3, <1>4, <1>5 DEF Next

LEMMA SerialAlways == Spec => [](Types /\ Serial)
<1>1. Init => Types /\ Serial
  BY TypesInit, SerialInit
<1>2. (Types /\ Serial) /\ [Next]_vars => (Types /\ Serial)'
  BY TypesStep, SerialStep
<1> QED BY <1>1, <1>2, PTL DEF Spec

(* As long as no two transactions overlap, a target that no admin has       *)
(* overridden is active exactly while a list or an admin wants it: whatever *)
(* the lists serve, whichever requests fail, and wherever they stop.        *)
THEOREM OneAtATimeConsistent == Spec => []SerialConsistent
<1>1. Types /\ Serial => SerialConsistent
  BY DEF Serial, Agrees, SerialConsistent
<1> QED BY <1>1, SerialAlways, PTL

(* ... and it has at most one manual source, so one DELETE removes it.      *)
THEOREM OneManualSource == Spec => []OneManual
<1>1. ASSUME Types, Serial
      PROVE  OneManual
  <2> SUFFICES ASSUME ~overlapped, NEW a \in Address
               PROVE  Cardinality({m \in Manual : <<a, m>> \in sources}) <= 1
    BY DEF OneManual
  <2> DEFINE M == {m \in Manual : <<a, m>> \in sources}
  <2> SUFFICES Cardinality(M) <= 1
    OBVIOUS
  <2>1. \A m, n \in M : m = n
    BY <1>1 DEF Serial, Single
  <2> HIDE DEF M
  <2>2. CASE M = {}
    BY <2>2, FS_EmptySet
  <2>3. CASE M # {}
    <3>1. PICK m \in M : TRUE
      BY <2>3
    <3>2. M = {m}
      BY <2>1, <3>1
    <3>3. Cardinality({m}) = 1
      BY FS_Singleton
    <3> QED BY <3>2, <3>3
  <2> QED BY <2>2, <2>3
<1>2. Types /\ Serial => OneManual
  BY <1>1
<1> QED BY <1>2, SerialAlways, PTL
=============================================================================
