-------------------------- MODULE TraceStore_proofs --------------------------
(***************************************************************************)
(* What the sweeps leave alone, that a load sees each target's latest      *)
(* result and the history every young one, and what the parsers make of    *)
(* what a probing process prints.                                          *)
(***************************************************************************)
EXTENDS TraceStore, FiniteSetTheorems, WellFoundedInduction, TLAPS

(* NoSpuriousOutage and LastResultWins are not inductive.  What is: only    *)
(* what is older than the retention is ever missing, and a sweep's cutoff   *)
(* lags behind time, never ahead of it ...                                  *)
Kept ==
  /\ runs \subseteq stored /\ reading \subseteq stored
  /\ \A r \in stored \ runs : r.started < now - Keep
  /\ \A cutoff \in sweep : cutoff <= now - Keep

(* ... the target and the start of a run tell it from all others ...        *)
Distinct ==
  /\ \A p, q \in probes : p.target = q.target /\ p.started = q.started => p = q
  /\ \A p \in probes, r \in stored : ~(p.target = r.target /\ p.started = r.started)
  /\ \A r, q \in stored : r.target = q.target /\ r.started = q.started => r = q
  /\ \A r, q \in reading : r.target = q.target /\ r.started = q.started

(* ... and probes that never overlap end in the order in which they start.  *)
InOrder ==
  /\ \A t \in Target : last[t] \subseteq {r \in stored : r.target = t}
  /\ \A t \in Target : \A r, q \in last[t] : r = q
  /\ \A t \in Target \ crossed :
       /\ \A p, q \in probes : p.target = t /\ q.target = t => p = q
       /\ \A p \in probes, r \in stored : p.target = t /\ r.target = t => r.started < p.started
       /\ \A r \in stored : r.target = t => \E l \in last[t] : r.started <= l.started

Typed ==
  /\ now \in Nat
  /\ \A p \in probes : p.target \in Target /\ p.started \in 0..now
  /\ \A r \in stored : r.target \in Target /\ r.started \in 0..now
  /\ sweep \subseteq Int
  /\ last \in [Target -> SUBSET stored]

IInv == Typed /\ Kept /\ Distinct /\ InOrder

-----------------------------------------------------------------------------
(* Sets of natural numbers, by the well-foundedness of <.                   *)
LEMMA Least ==
  ASSUME NEW S \in SUBSET Nat, S # {}
  PROVE  \E x \in S : \A y \in S : x <= y
<1>1. \E x \in S : \A y \in S : ~(<<y, x>> \in OpToRel(<, Nat))
  BY NatLessThanWellFounded, WFMin
<1>2. ASSUME NEW x \in Nat, NEW y \in Nat, y < x
      PROVE  <<y, x>> \in OpToRel(<, Nat)
  BY <1>2 DEF OpToRel
<1>3. \E x \in S : \A y \in S : ~(y < x)
  BY <1>1, <1>2, Zenon
<1>4. QED
  BY <1>3

LEMMA Greatest ==
  ASSUME NEW N \in Nat, NEW S \in SUBSET (0..N), S # {}
  PROVE  \E x \in S : \A y \in S : y <= x
<1> DEFINE T == {N - x : x \in S}
<1>1. T \in SUBSET Nat /\ T # {}
  <2>1. \A x \in S : N - x \in Nat
    OBVIOUS
  <2>2. QED
    BY <2>1, Zenon
<1>2. PICK m \in T : \A k \in T : m <= k
  BY <1>1, Least
<1>3. PICK x \in S : m = N - x
  BY <1>2
<1>4. \A y \in S : N - x <= N - y
  BY <1>2, <1>3
<1>5. QED
  BY <1>4

-----------------------------------------------------------------------------
(* What the parsers make of a record.  Both fold over the TTLs in their     *)
(* order; what they come to has a closed form: the hop at i is the TTL      *)
(* whose place on the way is i.                                             *)
At(way, i) == {ttl \in way : Place(way, ttl) = i}

HopAt(trace, way, i) ==
  LET ttl == CHOOSE t : t \in At(way, i)
  IN  Hop(i, GroupAddr(trace, ttl), HopLoss(trace, ttl))

Listed(trace, way) == [i \in 1..Cardinality(way) |-> HopAt(trace, way, i)]

(* The TTLs of a set that are on the way. *)
WayOf(trace, gateway, s) == {ttl \in s : ~IsGateway(GroupAddr(trace, ttl), gateway)}

(* One more TTL at the end of the way takes the next place, and leaves the  *)
(* others where they are.                                                   *)
LEMMA LongerWay ==
  ASSUME NEW way \in SUBSET Nat, IsFiniteSet(way), NEW x \in Nat, \A u \in way : u < x
  PROVE  /\ Cardinality(way \cup {x}) = Cardinality(way) + 1
         /\ Cardinality(way) \in Nat
         /\ \A i \in 1..Cardinality(way) : At(way \cup {x}, i) = At(way, i)
         /\ At(way \cup {x}, Cardinality(way) + 1) = {x}
<1> DEFINE longer == way \cup {x}
<1>0. \A u : u \in longer <=> u \in way \/ u = x
  OBVIOUS
<1>1. Cardinality(longer) = Cardinality(way) + 1 /\ Cardinality(way) \in Nat
  <2>1. x \notin way
    OBVIOUS
  <2>2. QED
    BY <2>1, FS_AddElement, FS_CardinalityType
<1> HIDE DEF longer
<1>2. Place(longer, x) = Cardinality(way) + 1
  <2>1. \A u \in longer : u <= x
    <3>1. \A u \in way : u \in Nat /\ u <= x
      OBVIOUS
    <3>2. x <= x
      OBVIOUS
    <3>3. QED
      BY <1>0, <3>1, <3>2
  <2>2. {u \in longer : u <= x} = longer
    BY <2>1
  <2>3. QED
    BY <1>1, <2>2 DEF Place
<1>3. ASSUME NEW t \in way PROVE Place(longer, t) = Place(way, t)
  <2>1. {u \in longer : u <= t} = {u \in way : u <= t}
    BY <1>0
  <2>2. QED
    BY <2>1 DEF Place
<1>4. ASSUME NEW t \in way PROVE Place(way, t) \in Nat /\ Place(way, t) <= Cardinality(way)
  <2>1. {u \in way : u <= t} \in SUBSET way
    OBVIOUS
  <2>2. QED
    BY <2>1, FS_Subset, FS_CardinalityType DEF Place
<1>5. ASSUME NEW i \in 1..Cardinality(way) PROVE At(longer, i) = At(way, i)
  <2>1. x \notin At(longer, i)
    BY <1>1, <1>2 DEF At
  <2>2. QED
    BY <1>0, <1>3, <2>1 DEF At
<1>6. At(longer, Cardinality(way) + 1) = {x}
  <2>1. \A t \in way : t \notin At(longer, Cardinality(way) + 1)
    BY <1>1, <1>3, <1>4 DEF At
  <2>2. x \in At(longer, Cardinality(way) + 1)
    BY <1>0, <1>2 DEF At
  <2>3. QED
    BY <1>0, <2>1, <2>2 DEF At
<1>7. QED
  BY <1>1, <1>5, <1>6 DEF longer

LEMMA LongerList ==
  ASSUME NEW trace, NEW way \in SUBSET Nat, IsFiniteSet(way), NEW x \in Nat, \A u \in way : u < x
  PROVE  /\ Listed(trace, way \cup {x})
              = Append(Listed(trace, way),
                       Hop(Len(Listed(trace, way)) + 1, GroupAddr(trace, x), HopLoss(trace, x)))
<1> DEFINE longer == way \cup {x}
           n == Cardinality(way)
<1>1. /\ Cardinality(longer) = n + 1 /\ n \in Nat
      /\ \A i \in 1..n : At(longer, i) = At(way, i)
      /\ At(longer, n + 1) = {x}
  BY LongerWay
<1> HIDE DEF longer, n
<1>2. \A i \in 1..n : HopAt(trace, longer, i) = HopAt(trace, way, i)
  BY <1>1 DEF HopAt
<1>3. HopAt(trace, longer, n + 1) = Hop(n + 1, GroupAddr(trace, x), HopLoss(trace, x))
  <2>1. (CHOOSE t : t \in At(longer, n + 1)) = x
    BY <1>1
  <2>2. QED
    BY <2>1 DEF HopAt
<1>4. Listed(trace, way) = [i \in 1..n |-> HopAt(trace, way, i)]
  BY DEF Listed, n
<1>5. Listed(trace, longer) = [i \in 1..n + 1 |-> HopAt(trace, longer, i)]
  BY <1>1 DEF Listed
<1>6. Len(Listed(trace, way)) = n
  BY <1>1, <1>4
<1> DEFINE h == Hop(n + 1, GroupAddr(trace, x), HopLoss(trace, x))
<1> HIDE DEF h
<1>7. Append(Listed(trace, way), h) = [i \in 1..n + 1 |-> IF i <= n THEN HopAt(trace, way, i) ELSE h]
  BY <1>1, <1>4, <1>6
<1>8. Listed(trace, longer) = Append(Listed(trace, way), h)
  <2>1. \A i \in 1..n + 1 : HopAt(trace, longer, i) = IF i <= n THEN HopAt(trace, way, i) ELSE h
    <3>1. \A i \in 1..n + 1 : i <= n \/ i = n + 1
      BY <1>1
    <3>2. ~(n + 1 <= n) /\ \A i \in 1..n + 1 : i <= n => i \in 1..n
      BY <1>1
    <3>3. QED
      BY <1>2, <1>3, <3>1, <3>2 DEF h
  <2>2. QED
    BY <1>5, <1>7, <2>1
<1>9. QED
  BY <1>6, <1>8 DEF longer, h

(* The functions that the folds recurse with. *)
Folds(f, trace, gateway) ==
  f = [s \in SUBSET (1..trace.hop_count) |->
         IF s = {} THEN <<>>
         ELSE LET ttl == Max(s)
                  hops == f[s \ {ttl}]
                  ip == GroupAddr(trace, ttl)
              IN  IF IsGateway(ip, gateway) THEN hops
                  ELSE Append(hops, Hop(Len(hops) + 1, ip, HopLoss(trace, ttl)))]

ListedOf(trace, gateway) ==
  [s \in SUBSET (1..trace.hop_count) |-> Listed(trace, WayOf(trace, gateway, s))]

LEMMA MaxIs ==
  ASSUME NEW N \in Nat, NEW S \in SUBSET (0..N), S # {}
  PROVE  Max(S) \in S /\ \A x \in S : x <= Max(S)
<1>1. \E x \in S : \A y \in S : x >= y
  <2>1. PICK x \in S : \A y \in S : y <= x
    BY Greatest
  <2>2. QED
    BY <2>1
<1>2. Max(S) \in S /\ \A y \in S : Max(S) >= y
  BY <1>1 DEF Max
<1>3. QED
  BY <1>2

LEMMA ListedFolds ==
  ASSUME NEW trace, trace.hop_count \in Nat, NEW gateway
  PROVE  Folds(ListedOf(trace, gateway), trace, gateway)
<1> DEFINE f == ListedOf(trace, gateway)
           body(s) ==
             LET ttl == Max(s)
                 hops == f[s \ {ttl}]
                 ip == GroupAddr(trace, ttl)
             IN  IF IsGateway(ip, gateway) THEN hops
                 ELSE Append(hops, Hop(Len(hops) + 1, ip, HopLoss(trace, ttl)))
<1>1. ASSUME NEW s \in SUBSET (1..trace.hop_count), s = {}
      PROVE  f[s] = <<>>
  <2>1. WayOf(trace, gateway, s) = {}
    BY <1>1 DEF WayOf
  <2> DEFINE none == {}
  <2>2. Cardinality(none) = 0
    BY FS_EmptySet
  <2>3. Listed(trace, none) = <<>>
    BY <2>2 DEF Listed
  <2>4. QED
    BY <1>1, <2>1, <2>3 DEF ListedOf
<1>2. ASSUME NEW s \in SUBSET (1..trace.hop_count), s # {}
      PROVE  f[s] = body(s)
  <2> DEFINE x == Max(s)
             rest == s \ {x}
             way == WayOf(trace, gateway, rest)
  <2>1. x \in s /\ x \in Nat /\ (\A u \in rest : u < x)
    <3>1. s \in SUBSET (0..trace.hop_count)
      BY <1>2
    <3>2. x \in s /\ \A u \in s : u <= x
      BY <1>2, <3>1, MaxIs
    <3>3. \A u \in s : u \in Nat
      OBVIOUS
    <3> HIDE DEF x
    <3>4. QED
      BY <3>2, <3>3
  <2>2. f[s] = Listed(trace, WayOf(trace, gateway, s)) /\ f[rest] = Listed(trace, way)
    BY DEF ListedOf
  <2>3. way \in SUBSET Nat /\ IsFiniteSet(way) /\ \A u \in way : u < x
    <3>1. way \in SUBSET (1..trace.hop_count)
      BY DEF WayOf
    <3>2. IsFiniteSet(1..trace.hop_count)
      BY FS_Interval
    <3>3. IsFiniteSet(way)
      BY <3>1, <3>2, FS_Subset
    <3>4. QED
      BY <2>1, <3>1, <3>3 DEF WayOf
  <2>4. CASE IsGateway(GroupAddr(trace, x), gateway)
    <3>1. WayOf(trace, gateway, s) = way
      BY <2>1, <2>4 DEF WayOf
    <3>2. QED
      BY <2>2, <2>4, <3>1
  <2>5. CASE ~IsGateway(GroupAddr(trace, x), gateway)
    <3>1. WayOf(trace, gateway, s) = way \cup {x}
      BY <2>1, <2>5 DEF WayOf
    <3>2. f[s] = Append(f[rest], Hop(Len(f[rest]) + 1, GroupAddr(trace, x), HopLoss(trace, x)))
      <4> HIDE DEF f, way, x, rest
      <4>1. QED
        BY <2>1, <2>2, <2>3, <3>1, LongerList
    <3>3. QED
      BY <2>5, <3>2
  <2>6. QED
    BY <2>4, <2>5
<1>3. f = [s \in SUBSET (1..trace.hop_count) |-> f[s]]
  BY DEF ListedOf
<1>4. f = [s \in SUBSET (1..trace.hop_count) |-> IF s = {} THEN <<>> ELSE body(s)]
  <2> HIDE DEF f, body
  <2>1. QED
    BY <1>1, <1>2, <1>3
<1>5. QED
  BY <1>4 DEF Folds

LEMMA OneFold ==
  ASSUME NEW trace, trace.hop_count \in Nat, NEW gateway,
         NEW f, Folds(f, trace, gateway), NEW g, Folds(g, trace, gateway)
  PROVE  \A s \in SUBSET (1..trace.hop_count) : f[s] = g[s]
<1> DEFINE Differ == {s \in SUBSET (1..trace.hop_count) : f[s] # g[s]}
           Sizes == {Cardinality(s) : s \in Differ}
<1>1. \A s \in SUBSET (1..trace.hop_count) : IsFiniteSet(s) /\ Cardinality(s) \in Nat
  <2>1. IsFiniteSet(1..trace.hop_count)
    BY FS_Interval
  <2>2. \A s \in SUBSET (1..trace.hop_count) : IsFiniteSet(s)
    BY <2>1, FS_Subset
  <2>3. QED
    BY <2>2, FS_CardinalityType
<1>2. ASSUME Differ # {} PROVE FALSE
  <2>1. Sizes \in SUBSET Nat /\ Sizes # {}
    BY <1>1, <1>2
  <2>2. PICK n \in Sizes : \A m \in Sizes : n <= m
    <3> HIDE DEF Sizes
    <3>1. QED
      BY <2>1, Least
  <2>3. PICK s \in Differ : \A r \in Differ : Cardinality(s) <= Cardinality(r)
    <3>1. PICK s \in Differ : n = Cardinality(s)
      OBVIOUS
    <3>2. \A r \in Differ : Cardinality(r) \in Sizes
      OBVIOUS
    <3> HIDE DEF Differ, Sizes
    <3>3. QED
      BY <2>2, <3>1, <3>2
  <2>4. s # {}
    BY DEF Folds
  <2> DEFINE x == Max(s)
             rest == s \ {x}
  <2>5. x \in s
    <3>1. s \in SUBSET (0..trace.hop_count)
      OBVIOUS
    <3>2. QED
      BY <2>4, <3>1, MaxIs
  <2>6. rest \in SUBSET (1..trace.hop_count) /\ ~(Cardinality(s) <= Cardinality(rest))
    <3>1. IsFiniteSet(s) /\ Cardinality(s) \in Nat
      BY <1>1
    <3>2. Cardinality(rest) = Cardinality(s) - 1
      <4> HIDE DEF x, Differ
      <4>1. QED
        BY <2>5, <3>1, FS_RemoveElement
    <3>3. rest \in SUBSET (1..trace.hop_count)
      <4>1. s \in SUBSET (1..trace.hop_count)
        OBVIOUS
      <4> HIDE DEF x, Differ
      <4>2. QED
        BY <4>1
    <3>4. ~(Cardinality(s) <= Cardinality(rest))
      BY <3>1, <3>2
    <3>5. QED
      BY <3>3, <3>4
  <2>7. f[rest] = g[rest]
    <3>1. rest \notin Differ
      <4> HIDE DEF Differ, rest
      <4>1. QED
        BY <2>3, <2>6
    <3>2. QED
      BY <2>6, <3>1
  <2>8. f[s] = g[s]
    BY <2>4, <2>7 DEF Folds
  <2>9. QED
    BY <2>8
<1>3. QED
  BY <1>2

LEMMA ScamperIs ==
  ASSUME NEW trace, trace.hop_count \in Nat, NEW gateway
  PROVE  ScamperHops(trace, gateway) = Listed(trace, OnTheWay(trace, gateway))
<1> DEFINE n == trace.hop_count
           ttls == UpTo(n)
           Scamper(f) ==
             f = [s \in SUBSET DOMAIN ttls |->
                   IF s = {} THEN <<>>
                   ELSE LET i == Max(s)
                            hops == f[s \ {i}]
                            ttl == ttls[i]
                            ip == GroupAddr(trace, ttl)
                        IN  IF IsGateway(ip, gateway) THEN hops
                            ELSE Append(hops, Hop(Len(hops) + 1, ip, HopLoss(trace, ttl)))]
<1>1. DOMAIN ttls = 1..n /\ \A i \in 1..n : ttls[i] = i
  BY DEF UpTo
<1>2. \A s \in SUBSET (1..n) : s # {} => ttls[Max(s)] = Max(s)
  <2>1. ASSUME NEW s \in SUBSET (1..n), s # {} PROVE Max(s) \in 1..n
    <3>1. s \in SUBSET (0..n)
      OBVIOUS
    <3>2. QED
      BY <2>1, <3>1, MaxIs
  <2> HIDE DEF ttls
  <2>2. QED
    BY <1>1, <2>1
<1>3. ASSUME NEW f PROVE Scamper(f) <=> Folds(f, trace, gateway)
  <2> HIDE DEF ttls
  <2>1. \A s \in SUBSET (1..n) :
          LET x == Max(s)
              hops == f[s \ {x}]
          IN  s # {} =>
                (IF IsGateway(GroupAddr(trace, ttls[x]), gateway) THEN hops
                 ELSE Append(hops, Hop(Len(hops) + 1, GroupAddr(trace, ttls[x]), HopLoss(trace, ttls[x]))))
                = (IF IsGateway(GroupAddr(trace, x), gateway) THEN hops
                   ELSE Append(hops, Hop(Len(hops) + 1, GroupAddr(trace, x), HopLoss(trace, x))))
    BY <1>2
  <2>2. QED
    BY <1>1, <2>1 DEF Folds
<1>4. ScamperHops(trace, gateway) = (CHOOSE f : Scamper(f))[1..n]
  BY <1>1 DEF ScamperHops, FoldLeft, MapThenFoldSet
<1> DEFINE iter == CHOOSE f : Scamper(f)
<1>5. Scamper(iter)
  <2>1. Scamper(ListedOf(trace, gateway))
    <3> HIDE DEF Scamper
    <3>1. QED
      BY <1>3, ListedFolds
  <2> HIDE DEF Scamper
  <2>2. QED
    BY <2>1
<1>6. iter[1..n] = ListedOf(trace, gateway)[1..n]
  <2> HIDE DEF Scamper, iter
  <2>1. QED
    BY <1>3, <1>5, ListedFolds, OneFold
<1>7. QED
  <2> HIDE DEF Scamper
  <2>1. ScamperHops(trace, gateway) = ListedOf(trace, gateway)[1..n]
    BY <1>4, <1>6
  <2>2. QED
    BY <2>1 DEF ListedOf, WayOf, OnTheWay

LEMMA MtrIs ==
  ASSUME NEW trace, trace.hop_count \in Nat, NEW gateway
  PROVE  MtrHops(MtrReport(trace), gateway) = Listed(trace, OnTheWay(trace, gateway))
<1> DEFINE n == trace.hop_count
           hubs == MtrReport(trace)
           Mtr(f) ==
             f = [s \in SUBSET DOMAIN hubs |->
                   IF s = {} THEN <<>>
                   ELSE LET i == Max(s)
                            hops == f[s \ {i}]
                            hub == hubs[i]
                        IN  IF IsGateway(hub.host, gateway) THEN hops
                            ELSE Append(hops, Hop(Len(hops) + 1, hub.host, hub.loss))]
<1>1. /\ DOMAIN hubs = 1..n
      /\ \A i \in 1..n : hubs[i].host = GroupAddr(trace, i) /\ hubs[i].loss = HopLoss(trace, i)
  BY DEF MtrReport
<1>2. \A s \in SUBSET (1..n) : s # {} => Max(s) \in 1..n
  <2>1. ASSUME NEW s \in SUBSET (1..n), s # {} PROVE Max(s) \in 1..n
    <3>1. s \in SUBSET (0..n)
      OBVIOUS
    <3>2. QED
      BY <2>1, <3>1, MaxIs
  <2>2. QED
    BY <2>1
<1>3. ASSUME NEW f PROVE Mtr(f) <=> Folds(f, trace, gateway)
  <2> HIDE DEF hubs
  <2>1. \A s \in SUBSET (1..n) :
          LET x == Max(s)
              hops == f[s \ {x}]
              hub == hubs[x]
          IN  s # {} =>
                (IF IsGateway(hub.host, gateway) THEN hops
                 ELSE Append(hops, Hop(Len(hops) + 1, hub.host, hub.loss)))
                = (IF IsGateway(GroupAddr(trace, x), gateway) THEN hops
                   ELSE Append(hops, Hop(Len(hops) + 1, GroupAddr(trace, x), HopLoss(trace, x))))
    BY <1>1, <1>2
  <2>2. QED
    BY <1>1, <2>1 DEF Folds
<1>4. MtrHops(hubs, gateway) = (CHOOSE f : Mtr(f))[1..n]
  <2> HIDE DEF hubs
  <2>1. QED
    BY <1>1 DEF MtrHops, FoldLeft, MapThenFoldSet
<1> DEFINE iter == CHOOSE f : Mtr(f)
<1>5. Mtr(iter)
  <2>1. Mtr(ListedOf(trace, gateway))
    <3> HIDE DEF Mtr
    <3>1. QED
      BY <1>3, ListedFolds
  <2> HIDE DEF Mtr
  <2>2. QED
    BY <2>1
<1>6. iter[1..n] = ListedOf(trace, gateway)[1..n]
  <2> HIDE DEF Mtr, iter
  <2>1. QED
    BY <1>3, <1>5, ListedFolds, OneFold
<1>7. QED
  <2> HIDE DEF Mtr
  <2>1. MtrHops(MtrReport(trace), gateway) = ListedOf(trace, gateway)[1..n]
    BY <1>4, <1>6
  <2>2. QED
    BY <2>1 DEF ListedOf, WayOf, OnTheWay

(* Each place on the way is taken by one TTL. *)
LEMMA PlacesTaken ==
  ASSUME NEW n \in Nat, NEW way \in SUBSET (1..n)
  PROVE  /\ IsFiniteSet(way) /\ Cardinality(way) \in Nat
         /\ \A t \in way : Place(way, t) \in 1..Cardinality(way) /\ At(way, Place(way, t)) = {t}
         /\ \A i \in 1..Cardinality(way) : \E t \in way : At(way, i) = {t}
<1> DEFINE upTo(t) == {u \in way : u <= t}
           size == Cardinality(way)
           place == [t \in way |-> Place(way, t)]
<1>1. IsFiniteSet(way) /\ size \in Nat
  <2>1. IsFiniteSet(1..n)
    BY FS_Interval
  <2>2. QED
    BY <2>1, FS_Subset, FS_CardinalityType
<1>2. ASSUME NEW t \in way
      PROVE  Place(way, t) \in 1..size /\ IsFiniteSet(upTo(t))
  <2>1. upTo(t) \in SUBSET way /\ upTo(t) # {}
    OBVIOUS
  <2> HIDE DEF upTo
  <2>2. /\ IsFiniteSet(upTo(t)) /\ Cardinality(upTo(t)) <= size
        /\ Cardinality(upTo(t)) \in Nat
    BY <1>1, <2>1, FS_Subset, FS_CardinalityType
  <2>3. Cardinality(upTo(t)) # 0
    BY <2>1, <2>2, FS_EmptySet
  <2>4. Place(way, t) = Cardinality(upTo(t))
    BY DEF Place, upTo
  <2>5. QED
    BY <1>1, <2>2, <2>3, <2>4
<1>3. ASSUME NEW t \in way, NEW u \in way, t < u
      PROVE  Place(way, t) # Place(way, u)
  <2>1. upTo(t) \in SUBSET upTo(u) /\ upTo(t) # upTo(u)
    <3>1. u \in upTo(u) /\ u \notin upTo(t)
      BY <1>3
    <3>2. \A v \in way : v \in Nat
      OBVIOUS
    <3>3. \A v \in way : v <= t => v <= u
      BY <1>3, <3>2
    <3>4. QED
      BY <3>1, <3>3
  <2>2. IsFiniteSet(upTo(u))
    BY <1>2
  <2> HIDE DEF upTo
  <2>3. Cardinality(upTo(u)) # Cardinality(upTo(t))
    BY <2>1, <2>2, FS_Subset
  <2>4. QED
    BY <2>3 DEF Place, upTo
<1>4. \A t, u \in way : Place(way, t) = Place(way, u) => t = u
  <2>1. \A t, u \in way : t < u \/ u < t \/ t = u
    OBVIOUS
  <2>2. QED
    BY <1>3, <2>1
<1>5. ASSUME NEW t \in way PROVE At(way, Place(way, t)) = {t}
  BY <1>4 DEF At
<1>6. ASSUME NEW i \in 1..size PROVE \E t \in way : At(way, i) = {t}
  <2>1. place \in [way -> 1..size]
    BY <1>2
  <2>2. place \in Injection(way, 1..size)
    BY <1>4, <2>1 DEF Injection, IsInjective
  <2>3. IsFiniteSet(1..size) /\ Cardinality(1..size) = size
    BY <1>1, FS_Interval
  <2>4. place \in Surjection(way, 1..size)
    <3> HIDE DEF place
    <3>1. QED
      BY <2>2, <2>3, FS_Injection
  <2>5. PICK t \in way : Place(way, t) = i
    BY <2>4 DEF Surjection
  <2>6. QED
    BY <1>5, <2>5
<1>7. QED
  BY <1>1, <1>2, <1>5, <1>6

(* The loss of a TTL that was not answered more often than it was probed.   *)
LEMMA LossIs ==
  ASSUME NEW attempts \in Nat, NEW replies \in Nat
  PROVE  /\ Loss(replies, attempts) \in Int /\ Loss(replies, attempts) <= 100
         /\ replies <= attempts =>
              /\ Loss(replies, attempts) \in 0..100
              /\ Loss(replies, attempts) = 100 <=> replies = 0
<1>1. CASE replies = 0
  BY <1>1 DEF Loss
<1>2. CASE replies # 0 /\ attempts = 0
  BY <1>2 DEF Loss
<1>3. CASE replies # 0 /\ attempts # 0
  <2> DEFINE q == (100 * (attempts - replies)) \div attempts
  <2>1. Loss(replies, attempts) = q
    BY <1>3 DEF Loss
  <2>2. q \in Int
    BY <1>3
  <2>3. attempts * q <= 100 * (attempts - replies)
    BY <1>3
  <2>4. 100 * (attempts - replies) < attempts * q + attempts
    BY <1>3
  <2> HIDE DEF q
  <2>5. q < 100
    <3>1. ~(100 <= q)
      <4>1. ASSUME 100 <= q PROVE attempts * 100 <= attempts * q
        BY <1>3, <2>2, <4>1
      <4>2. QED
        BY <1>3, <2>2, <2>3, <4>1
    <3>2. QED
      BY <2>2, <3>1
  <2>6. replies <= attempts => 0 <= q
    <3>1. ASSUME replies <= attempts, q < 0 PROVE FALSE
      <4>1. attempts * q + attempts <= 0
        <5>1. q + 1 <= 0
          BY <2>2, <3>1
        <5>2. attempts * (q + 1) <= 0
          BY <1>3, <2>2, <5>1
        <5>3. QED
          BY <2>2, <5>2
      <4>2. attempts * q + attempts \in Int
        BY <2>2
      <4> DEFINE p == attempts * q + attempts
      <4>3. p \in Int /\ p <= 0 /\ 100 * (attempts - replies) < p
        BY <2>4, <4>1, <4>2
      <4> HIDE DEF p
      <4>4. 0 <= 100 * (attempts - replies)
        BY <3>1
      <4>5. QED
        BY <4>3, <4>4
    <3>2. QED
      BY <2>2, <3>1
  <2>7. QED
    BY <1>3, <2>1, <2>2, <2>5, <2>6
<1>4. QED
  BY <1>1, <1>2, <1>3

LEMMA GroupIs ==
  ASSUME NEW trace \in TraceRecord, NEW ttl
  PROVE  /\ IsFiniteSet(Group(trace, ttl)) /\ Cardinality(Group(trace, ttl)) \in Nat
         /\ Cardinality(Group(trace, ttl)) = 0 <=> GroupAddr(trace, ttl) = NoAddr
         /\ GroupAddr(trace, ttl) \in Addr \cup {NoAddr}
<1> DEFINE group == Group(trace, ttl)
           len == Len(trace.hops)
<1>1. len \in Nat /\ group \in SUBSET (1..len) /\ \A i \in 1..len : trace.hops[i].addr \in Addr
  <2>1. trace.hops \in Seq([ttl : Nat, addr : Addr])
    BY DEF TraceRecord
  <2>2. len \in Nat /\ DOMAIN trace.hops = 1..len
    BY <2>1
  <2>3. \A i \in 1..len : trace.hops[i] \in [ttl : Nat, addr : Addr]
    <3> DEFINE list == trace.hops
               Reply == [ttl : Nat, addr : Addr]
    <3>1. list \in Seq(Reply)
      BY <2>1
    <3> HIDE DEF list, Reply
    <3>2. \A i \in 1..Len(list) : list[i] \in Reply
      BY <3>1
    <3>3. QED
      BY <3>2 DEF list, Reply
  <2> HIDE DEF len
  <2>4. group \in SUBSET (1..len)
    BY <2>2 DEF Group
  <2>5. QED
    BY <2>2, <2>3, <2>4
<1>2. IsFiniteSet(group) /\ Cardinality(group) \in Nat
  <2>1. IsFiniteSet(1..len)
    BY <1>1, FS_Interval
  <2>2. QED
    BY <1>1, <2>1, FS_Subset, FS_CardinalityType
<1> HIDE DEF len
<1>3. ASSUME group # {} PROVE GroupAddr(trace, ttl) \in Addr
  <2>1. group \in SUBSET (0..len)
    BY <1>1
  <2>2. Max(group) \in group
    <3> HIDE DEF group
    <3>1. QED
      BY <1>1, <1>3, <2>1, MaxIs
  <2>3. QED
    BY <1>1, <1>3, <2>2 DEF GroupAddr
<1>4. group = {} => GroupAddr(trace, ttl) = NoAddr
  BY DEF GroupAddr
<1>5. Cardinality(group) = 0 <=> group = {}
  <2> HIDE DEF group
  <2>1. QED
    BY <1>2, FS_EmptySet
<1>6. QED
  BY <1>2, <1>3, <1>4, <1>5, AddrAssumption

LEMMA HopIs ==
  ASSUME NEW n, NEW ip, NEW loss
  PROVE  LET hop == Hop(n, ip, loss)
         IN  /\ hop.hop_number = n /\ hop.hop_ip = ip /\ hop.loss_pct = loss
             /\ hop.is_timeout <=> ip = NoAddr
  BY DEF Hop

(* What the hops of a record are. *)
LEMMA HopsAre ==
  ASSUME NEW trace \in TraceRecord, NEW gateway
  PROVE  LET hops == ScamperHops(trace, gateway)
             way == OnTheWay(trace, gateway)
         IN  /\ Cardinality(way) \in Nat
             /\ hops = Listed(trace, way)
             /\ \A i \in 1..Cardinality(way) :
                  \E ttl \in way : hops[i] = Hop(i, GroupAddr(trace, ttl), HopLoss(trace, ttl))
             /\ \A ttl \in way :
                  /\ Place(way, ttl) \in 1..Cardinality(way)
                  /\ hops[Place(way, ttl)]
                       = Hop(Place(way, ttl), GroupAddr(trace, ttl), HopLoss(trace, ttl))
<1> DEFINE way == OnTheWay(trace, gateway)
           hops == ScamperHops(trace, gateway)
<1>1. trace.hop_count \in Nat
  BY DEF TraceRecord
<1>2. hops = Listed(trace, way)
  BY <1>1, ScamperIs
<1>3. way \in SUBSET (1..trace.hop_count)
  BY DEF OnTheWay
<1> HIDE DEF way, hops
<1>4. /\ Cardinality(way) \in Nat
      /\ \A t \in way : Place(way, t) \in 1..Cardinality(way) /\ At(way, Place(way, t)) = {t}
      /\ \A i \in 1..Cardinality(way) : \E t \in way : At(way, i) = {t}
  BY <1>1, <1>3, PlacesTaken
<1>5. ASSUME NEW i \in 1..Cardinality(way), NEW ttl, At(way, i) = {ttl}
      PROVE  hops[i] = Hop(i, GroupAddr(trace, ttl), HopLoss(trace, ttl))
  <2>1. hops[i] = HopAt(trace, way, i)
    BY <1>2 DEF Listed
  <2>2. (CHOOSE t : t \in At(way, i)) = ttl
    BY <1>5
  <2>3. QED
    BY <2>1, <2>2 DEF HopAt
<1>6. QED
  BY <1>2, <1>4, <1>5 DEF way, hops

(* A record of any length, of either program: the hops are what was on the  *)
(* way, in order and numbered without a gap, and a timeout lost everything. *)
THEOREM RecordsTell ==
  \A trace \in TraceRecord, gateway \in Addr \cup {NoAddr} : HopsTell(trace, gateway)
<1> SUFFICES ASSUME NEW trace \in TraceRecord, NEW gateway \in Addr \cup {NoAddr}
             PROVE  HopsTell(trace, gateway)
  OBVIOUS
<1> DEFINE way == OnTheWay(trace, gateway)
           hops == ScamperHops(trace, gateway)
<1>1. trace.hop_count \in Nat /\ trace.attempts \in Nat
  BY DEF TraceRecord
<1>2. /\ Cardinality(way) \in Nat
      /\ hops = Listed(trace, way)
      /\ \A i \in 1..Cardinality(way) :
           \E ttl \in way : hops[i] = Hop(i, GroupAddr(trace, ttl), HopLoss(trace, ttl))
      /\ \A ttl \in way :
           /\ Place(way, ttl) \in 1..Cardinality(way)
           /\ hops[Place(way, ttl)]
                = Hop(Place(way, ttl), GroupAddr(trace, ttl), HopLoss(trace, ttl))
  BY HopsAre
<1>3. hops = MtrHops(MtrReport(trace), gateway)
  BY <1>1, <1>2, MtrIs
<1>4. way \subseteq 1..trace.hop_count
  BY DEF OnTheWay
<1> HIDE DEF way, hops
<1>5. DOMAIN hops = 1..Cardinality(way) /\ Len(hops) = Cardinality(way)
  BY <1>2 DEF Listed
<1>6. \A ttl \in way : hops[Place(way, ttl)].hop_ip = GroupAddr(trace, ttl)
  BY <1>2, HopIs
<1>7. \A i \in DOMAIN hops : hops[i].hop_number = i
  BY <1>2, <1>5, HopIs
<1>8. ASSUME NoDuplicates(trace), NEW i \in DOMAIN hops
      PROVE  hops[i].loss_pct \in 0..100 /\ (hops[i].is_timeout <=> hops[i].loss_pct = 100)
  <2>1. PICK ttl \in way : hops[i] = Hop(i, GroupAddr(trace, ttl), HopLoss(trace, ttl))
    BY <1>2, <1>5
  <2>2. Cardinality(Group(trace, ttl)) <= trace.attempts
    BY <1>4, <1>8 DEF NoDuplicates
  <2>3. /\ HopLoss(trace, ttl) \in 0..100
        /\ HopLoss(trace, ttl) = 100 <=> Cardinality(Group(trace, ttl)) = 0
    BY <1>1, <2>2, GroupIs, LossIs DEF HopLoss
  <2>4. HopLoss(trace, ttl) = 100 <=> GroupAddr(trace, ttl) = NoAddr
    BY <2>3, GroupIs
  <2>5. QED
    BY <2>1, <2>3, <2>4, HopIs
<1>9. QED
  BY <1>3, <1>5, <1>6, <1>7, <1>8 DEF HopsTell, way, hops

-----------------------------------------------------------------------------
(* A target that has runs has a newest one. *)
LEMMA SomeNewest ==
  ASSUME Typed, Kept, NEW t \in Target, Newest(t) = {}
  PROVE  RunsOf(t) = {}
<1> SUFFICES ASSUME RunsOf(t) # {} PROVE FALSE
  OBVIOUS
<1> DEFINE S == {r.started : r \in RunsOf(t)}
<1>1. S \in SUBSET (0..now) /\ S # {}
  BY DEF RunsOf, Typed, Kept
<1>2. PICK x \in S : \A y \in S : y <= x
  BY <1>1, Greatest DEF Typed
<1>3. PICK r \in RunsOf(t) : r.started = x
  BY <1>2
<1>4. r \in Newest(t)
  BY <1>2, <1>3 DEF Newest
<1>5. QED
  BY <1>4

-----------------------------------------------------------------------------
LEMMA InitInv == Init => IInv
  BY StoreAssumption DEF Init, IInv, Typed, Kept, Distinct, InOrder

LEMMA StepInv == IInv /\ [Next]_vars => IInv'
<1> SUFFICES ASSUME IInv, [Next]_vars PROVE IInv'
  OBVIOUS
<1> USE StoreAssumption DEF IInv
<1>1. ASSUME NEW t \in Target, StartProbe(t) PROVE IInv'
  <2> USE <1>1 DEF StartProbe
  <2>1. Typed'
    BY DEF Typed
  <2>2. Kept'
    BY DEF Kept
  <2>3. Distinct'
    BY DEF Distinct, Typed
  <2>4. InOrder'
    BY DEF InOrder, Typed
  <2>5. QED
    BY <2>1, <2>2, <2>3, <2>4
<1>2. ASSUME NEW p \in probes, Submit(p) PROVE IInv'
  <2>1. PICK run : /\ run.target = p.target /\ run.started = p.started
                   /\ probes' = probes \ {p}
                   /\ runs' = runs \cup {run}
                   /\ stored' = stored \cup {run}
                   /\ last' = [last EXCEPT ![p.target] = {run}]
                   /\ UNCHANGED <<now, sweep, reading, view, crossed>>
    BY <1>2 DEF Submit
  <2>2. Typed'
    BY <2>1 DEF Typed
  <2>3. Kept'
    BY <2>1 DEF Kept
  <2>4. Distinct'
    BY <2>1 DEF Distinct
  <2>5. InOrder'
    BY <2>1 DEF InOrder, Typed, Distinct
  <2>6. QED
    BY <2>2, <2>3, <2>4, <2>5
<1>3. ASSUME NEW p \in probes, Drop(p) PROVE IInv'
  BY <1>3 DEF Drop, history, Typed, Kept, Distinct, InOrder
<1>4. CASE BeginSweep
  BY <1>4 DEF BeginSweep, history, Typed, Kept, Distinct, InOrder
<1>5. CASE PruneBatch
  <2>1. PICK cutoff \in sweep : \E batch \in SUBSET Expired(cutoff) :
          runs' = runs \ batch /\ sweep' \subseteq sweep
            /\ UNCHANGED <<now, probes, reading, view, history>>
    BY <1>5 DEF PruneBatch, kSubset
  <2>2. \A r \in runs \ runs' : r.started < now - Keep
    <3>1. \A r \in Expired(cutoff) : r.started < cutoff
      BY DEF Expired
    <3>2. cutoff <= now - Keep /\ cutoff \in Int
      BY DEF Kept, Typed
    <3>3. \A r \in Expired(cutoff) : r.started < now - Keep
      BY <3>1, <3>2 DEF Expired, Kept, Typed
    <3>4. QED
      BY <2>1, <3>3
  <2>3. Kept'
    BY <2>1, <2>2 DEF Kept, history
  <2>4. QED
    BY <2>1, <2>3 DEF Typed, Distinct, InOrder, history
<1>6. CASE FailSweep
  BY <1>6 DEF FailSweep, history, Typed, Kept, Distinct, InOrder
<1>7. ASSUME NEW t \in Target, ReadRun(t) PROVE IInv'
  <2>1. Newest(t) \subseteq runs /\ \A r, q \in Newest(t) : r.target = q.target /\ r.started = q.started
    BY DEF Newest, RunsOf, Typed, Kept
  <2>2. QED
    BY <1>7, <2>1 DEF ReadRun, history, Typed, Kept, Distinct, InOrder
<1>8. CASE ReadHops
  BY <1>8 DEF ReadHops, history, Typed, Kept, Distinct, InOrder
<1>9. CASE Tick
  BY <1>9 DEF Tick, history, Typed, Kept, Distinct, InOrder
<1>10. CASE UNCHANGED vars
  BY <1>10 DEF vars, history, Typed, Kept, Distinct, InOrder
<1>11. QED
  BY <1>1, <1>2, <1>3, <1>4, <1>5, <1>6, <1>7, <1>8, <1>9, <1>10 DEF Next

LEMMA Invariance == Spec => []IInv
  BY InitInv, StepInv, PTL DEF Spec

-----------------------------------------------------------------------------
(* Whenever sweeps run, fail or go on for long, no run that is younger than *)
(* the retention is ever missing.                                           *)
NothingYoungGoes == \A r \in stored : r.started >= now - Keep => r \in runs

THEOREM YoungStays == Spec => []NothingYoungGoes
<1>1. IInv => NothingYoungGoes
  BY StoreAssumption DEF IInv, Typed, Kept, NothingYoungGoes
<1>2. QED
  BY <1>1, Invariance, PTL

(* The run a load takes is the result that came last. *)
THEOREM NewestIsLast == Spec => []LastResultWins
<1>1. IInv => LastResultWins
  <2> SUFFICES ASSUME IInv, NEW t \in Target \ crossed, last[t] \subseteq runs
               PROVE  Newest(t) = last[t]
    BY DEF LastResultWins
  <2> USE DEF IInv, Typed, Kept, InOrder
  <2>1. ASSUME NEW r \in Newest(t) PROVE r \in last[t]
    <3>1. r \in stored /\ r.target = t
      BY DEF Newest, RunsOf
    <3>2. PICK l \in last[t] : r.started <= l.started
      BY <3>1
    <3>3. l \in RunsOf(t)
      BY DEF RunsOf
    <3>4. l.started <= r.started
      BY <3>3 DEF Newest
    <3>5. r = l
      BY <3>1, <3>2, <3>4 DEF Distinct
    <3>6. QED
      BY <3>5
  <2>2. ASSUME NEW l \in last[t] PROVE l \in Newest(t)
    <3>1. \A r \in RunsOf(t) : r.started <= l.started
      BY DEF RunsOf
    <3>2. QED
      BY <3>1 DEF Newest, RunsOf
  <2>3. QED
    BY <2>1, <2>2
<1>2. QED
  BY <1>1, Invariance, PTL

(* No sweep, wherever it falls between a load's two queries, makes a target *)
(* look dead that has an answer younger than the retention.                 *)
THEOREM SweepsShowNoOutage == Spec => NoSpuriousOutage
<1> DEFINE Outage(t) == view[t] # <<>> /\ view'[t] = <<>>
           Cause(t) == IF reading = {} THEN {q \in stored : q.target = t} ELSE reading
           A == \A t \in Target : Outage(t) =>
                  \A r \in Cause(t) : r.hops = <<>> \/ r.started < now - Keep
<1>1. IInv /\ [Next]_vars => [A]_vars
  <2> SUFFICES ASSUME IInv, Next, NEW t \in Target, Outage(t), NEW r \in Cause(t)
               PROVE  r.hops = <<>> \/ r.started < now - Keep
    OBVIOUS
  <2> USE DEF IInv
  <2>1. ASSUME NEW u \in Target, ReadRun(u) PROVE r.started < now - Keep
    <3>1. u = t /\ Newest(t) = {} /\ reading = {}
      BY <2>1 DEF ReadRun
    <3>2. RunsOf(t) = {}
      BY <3>1, SomeNewest
    <3>3. QED
      BY <3>1, <3>2 DEF RunsOf, Kept
  <2>2. CASE ReadHops
    <3>1. PICK q \in reading :
            view' = [view EXCEPT ![q.target] = IF q \in runs THEN q.hops ELSE <<>>]
      BY <2>2 DEF ReadHops
    <3>2. t = q.target /\ (q \notin runs \/ q.hops = <<>>)
      BY <3>1
    <3>3. r = q
      BY <3>1 DEF Distinct, Kept
    <3>4. QED
      BY <3>2, <3>3 DEF Kept
  <2>3. ASSUME view' = view PROVE FALSE
    BY <2>3
  <2>4. QED
    BY <2>1, <2>2, <2>3 DEF Next, StartProbe, Submit, Drop, BeginSweep, PruneBatch, FailSweep,
                            Tick, history
<1>2. QED
  BY <1>1, Invariance, PTL DEF Spec, NoSpuriousOutage

-----------------------------------------------------------------------------
(* What a run holds, a parser has made.                                     *)
Parsed ==
  \A r \in stored :
    \/ r.hops = <<>>
    \/ r.success /\ \E trace \in Traces : r.hops = ScamperHops(trace, Gateway)

LEMMA ParsedStays == Spec => []Parsed
<1>1. Init => Parsed
  BY DEF Init, Parsed
<1>2. ASSUME Parsed, [Next]_vars PROVE Parsed'
  <2>1. ASSUME UNCHANGED stored PROVE Parsed'
    BY <1>2, <2>1 DEF Parsed
  <2>2. ASSUME NEW p \in probes, Submit(p) PROVE Parsed'
    <3>1. PICK result \in {Failed} \cup {Traced(trace, Gateway) : trace \in Traces} :
            stored' = stored \cup {[target |-> p.target, started |-> p.started,
                                   success |-> result.success, hops |-> result.hops]}
      BY <2>2 DEF Submit
    <3>2. \/ result.hops = <<>>
          \/ result.success /\ \E trace \in Traces : result.hops = ScamperHops(trace, Gateway)
      BY DEF Failed, Traced
    <3>3. QED
      BY <1>2, <3>1, <3>2 DEF Parsed
  <2>3. QED
    BY <1>2, <2>1, <2>2 DEF Next, vars, history, StartProbe, ReadRun, Drop, BeginSweep, PruneBatch,
                            FailSweep, ReadHops, Tick
<1>3. QED
  BY <1>1, <1>2, PTL DEF Spec

(* What is stored of a run is what was on its way, and nothing if it failed. *)
THEOREM RunsTell == Spec => []HopsFaithful
<1>1. EveryRecordTells
  <2>1. ASSUME NEW trace \in Record(3, 3) PROVE trace \in TraceRecord
    <3> DEFINE Short == [ttl : 1..3, addr : Addr]
               Reply == [ttl : Nat, addr : Addr]
    <3>1. PICK m \in 0..3 : trace.hops \in [1..m -> Short]
      BY DEF Record, SeqOf
    <3>2. Short \subseteq Reply
      OBVIOUS
    <3>3. trace.hops \in Seq(Reply)
      <4> HIDE DEF Short, Reply
      <4>1. QED
        BY <3>1, <3>2
    <3>4. trace = [hops |-> trace.hops, hop_count |-> trace.hop_count, attempts |-> trace.attempts]
          /\ trace.hop_count \in Nat /\ trace.attempts \in Nat
      BY DEF Record
    <3>5. QED
      BY <3>3, <3>4 DEF TraceRecord
  <2>2. QED
    BY <2>1, RecordsTell DEF EveryRecordTells
<1>2. Parsed => \A r \in stored : r.success \/ r.hops = <<>>
  BY DEF Parsed
<1>3. QED
  BY <1>1, <1>2, ParsedStays, PTL DEF HopsFaithful

(* The history of a target misses no result that is younger than the        *)
(* retention, over any part of it, whenever the sweeps run, fail or go on.  *)
THEOREM HistoryKept == Spec => []HistoryComplete
<1>1. IInv => HistoryComplete
  <2> SUFFICES ASSUME IInv, NEW t \in Target, NEW cutoff \in (now - Keep)..now
               PROVE  TargetHistory(t, cutoff) =
                        {<<r.started, Last(r.hops)>> :
                           r \in {q \in stored : /\ q.target = t /\ q.hops # <<>>
                                                 /\ q.started >= cutoff}}
    BY DEF HistoryComplete
  <2>1. cutoff \in Int /\ cutoff >= now - Keep
    BY StoreAssumption DEF IInv, Typed
  <2>2. \A r \in stored : r.started >= cutoff => r \in runs
    <3>1. \A r \in stored : r.started \in Int /\ now \in Int
      BY DEF IInv, Typed
    <3>2. QED
      BY <2>1, <3>1, StoreAssumption DEF IInv, Kept
  <2>3. {q \in RunsOf(t) : q.hops # <<>> /\ q.started >= cutoff}
          = {q \in stored : q.target = t /\ q.hops # <<>> /\ q.started >= cutoff}
    BY <2>2 DEF RunsOf, IInv, Kept
  <2>4. QED
    BY <2>3 DEF TargetHistory
<1>2. QED
  BY <1>1, Invariance, PTL

-----------------------------------------------------------------------------
(* A shared hop has no history, whatever is stored: no stored address is    *)
(* found by the text of an address.                                         *)
NoNodeHistory == \A ips \in SUBSET Addr, cutoff \in 0..now : NodeHistory(ips, cutoff) = {}

LEMMA NothingFound == Spec => []NoNodeHistory
<1>1. IInv /\ Parsed => NoNodeHistory
  <2> SUFFICES ASSUME IInv, Parsed, NEW ips \in SUBSET Addr, NEW cutoff \in 0..now
               PROVE  NodeHistory(ips, cutoff) = {}
    BY DEF NoNodeHistory
  <2>1. ASSUME NEW r \in runs, NEW i \in DOMAIN r.hops
        PROVE  r.hops[i].hop_ip \in Addr \cup {NoAddr}
    <3>1. PICK trace \in Traces : r.hops = ScamperHops(trace, Gateway)
      BY <2>1 DEF IInv, Kept, Parsed
    <3>2. trace \in TraceRecord
      BY StoreAssumption
    <3> DEFINE way == OnTheWay(trace, Gateway)
    <3>3. /\ r.hops = Listed(trace, way)
          /\ \A k \in 1..Cardinality(way) :
               \E ttl \in way : r.hops[k] = Hop(k, GroupAddr(trace, ttl), HopLoss(trace, ttl))
      BY <3>1, <3>2, HopsAre
    <3> HIDE DEF way
    <3>4. i \in 1..Cardinality(way)
      BY <2>1, <3>3 DEF Listed
    <3>5. PICK ttl \in way : r.hops[i] = Hop(i, GroupAddr(trace, ttl), HopLoss(trace, ttl))
      BY <3>3, <3>4
    <3>6. QED
      BY <3>2, <3>5, GroupIs, HopIs
  <2>2. \A time : HopsAt(ips, time) = {}
    BY <2>1, StoreAssumption DEF HopsAt, Range
  <2>3. QED
    BY <2>2 DEF NodeHistory
<1>2. QED
  BY <1>1, Invariance, ParsedStays, PTL
=============================================================================
