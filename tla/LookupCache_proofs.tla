-------------------------- MODULE LookupCache_proofs --------------------------
(***************************************************************************)
(* What a process remembers of its lookups, for any addresses: it does not *)
(* ask again for what it still has, although a call's "now" is older than  *)
(* its answers and the table, which finds no address, may fail to be read  *)
(* or written.                                                             *)
(***************************************************************************)
EXTENDS LookupCache, TLAPS

Typed ==
  /\ DOMAIN cache \subseteq Ip /\ DOMAIN table \subseteq Ip
  /\ \A ip \in DOMAIN cache : cache[ip] \in [name : Answer, age : 0..Cap]
  /\ \A ip \in DOMAIN table : table[ip] \in [name : Answer, age : 0..Cap]
  /\ callAge \in 0..CallTime
  /\ misses \subseteq Ip /\ DOMAIN answers \subseteq misses
  /\ pc \in {"idle", "reading"} => DOMAIN answers = {}
  /\ \A ip \in DOMAIN answers : answers[ip] \in Answer
  /\ dns \in [Ip -> Answer]
  /\ asked \in [Ip -> 0..Cap]

(* The property is not inductive: it rests on what memory has of the        *)
(* addresses a call misses being stale at the call's "now" ...              *)
MissesStale ==
  pc \in {"reading", "asking"} =>
    \A ip \in misses \cap DOMAIN cache : cache[ip].age - callAge >= TTL

(* ... and on the last lookup being at least as old as what is kept of it.  *)
LastIsKept ==
  \A ip \in Ip :
    \/ asked[ip] = Cap
    \/ ip \in DOMAIN cache /\ cache[ip].age <= asked[ip]

IInv == Typed /\ MissesStale /\ LastIsKept

-----------------------------------------------------------------------------
LEMMA InitInv == Init => IInv
  BY LookupAssumption DEF Init, IInv, Typed, MissesStale, LastIsKept, Cap

-----------------------------------------------------------------------------
LEMMA BeginInv ==
  ASSUME IInv, NEW ips \in SUBSET Ip, Begin(ips)
  PROVE  IInv'
<1> USE LookupAssumption DEF IInv, Typed, Begin, Cap
<1>1. MissesStale'
  BY DEF MissesStale, Fresh
<1>2. Typed'
  BY DEF Typed
<1>3. LastIsKept'
  BY DEF LastIsKept
<1>4. QED
  BY <1>1, <1>2, <1>3

(* No row has the text of an address that a call asks for. *)
LEMMA NothingFound == misses \subseteq Ip => (DOMAIN table \subseteq Ip => FoundRows = {})
  BY LookupAssumption DEF FoundRows

LEMMA ReadTableInv ==
  ASSUME IInv, ReadTable
  PROVE  IInv'
<1>1. FoundRows = {}
  BY NothingFound DEF IInv, Typed
<1>2. /\ pc = "reading" /\ pc' \in {"idle", "asking"}
      /\ misses' = misses
      /\ UNCHANGED <<dns, table, callAge, answers, asked>>
  BY <1>1 DEF ReadTable
<1>3. DOMAIN cache' = DOMAIN cache /\ \A ip \in DOMAIN cache : cache'[ip] = cache[ip]
  BY <1>1 DEF ReadTable, Overlay
<1>4. Typed'
  BY <1>2, <1>3 DEF IInv, Typed
<1>5. MissesStale' /\ LastIsKept'
  BY <1>2, <1>3 DEF IInv, MissesStale, LastIsKept
<1>6. QED
  BY <1>4, <1>5 DEF IInv

LEMMA AnswerInv ==
  ASSUME IInv, NEW ip \in Ip, LookUp(ip) \/ LookUpFails(ip)
  PROVE  IInv'
<1>1. PICK name \in Answer :
        /\ pc = "asking" /\ ip \in misses
        /\ answers' = Overlay([i \in {ip} |-> name], answers)
        /\ UNCHANGED <<dns, cache, table, pc, callAge, misses, asked>>
  BY DEF LookUp, LookUpFails, IInv, Typed, Answer
<1>2. DOMAIN answers' = {ip} \cup DOMAIN answers /\ \A i \in DOMAIN answers' : answers'[i] \in Answer
  BY <1>1 DEF Overlay, IInv, Typed
<1>3. QED
  BY <1>1, <1>2 DEF IInv, Typed, MissesStale, LastIsKept

LEMMA RememberInv ==
  ASSUME IInv, Remember
  PROVE  IInv'
<1>1. /\ pc = "asking" /\ DOMAIN answers = misses /\ pc' = "storing"
      /\ cache' = Overlay(NewEntries, cache)
      /\ asked' = Overlay([ip \in misses |-> callAge], asked)
      /\ UNCHANGED <<dns, table, callAge, misses, answers>>
  BY DEF Remember
<1>2. /\ DOMAIN NewEntries = misses
      /\ \A ip \in misses : NewEntries[ip] = [name |-> answers[ip], age |-> callAge]
  BY <1>1 DEF NewEntries
<1>3. /\ DOMAIN cache' = misses \cup DOMAIN cache
      /\ \A ip \in misses : cache'[ip] = [name |-> answers[ip], age |-> callAge]
      /\ \A ip \in DOMAIN cache \ misses : cache'[ip] = cache[ip]
  BY <1>1, <1>2 DEF Overlay
<1> USE LookupAssumption DEF IInv, Typed, Cap
<1>4. asked' = [ip \in Ip |-> IF ip \in misses THEN callAge ELSE asked[ip]]
  BY <1>1 DEF Overlay
<1>5. Typed'
  BY <1>1, <1>3, <1>4 DEF Typed
<1>6. MissesStale'
  BY <1>1 DEF MissesStale
<1>7. LastIsKept'
  BY <1>1, <1>3, <1>4 DEF LastIsKept
<1>8. QED
  BY <1>5, <1>6, <1>7

LEMMA StoreInv ==
  ASSUME IInv, Store
  PROVE  IInv'
<1>1. /\ pc = "storing" /\ pc' = "idle" /\ misses' = {} /\ answers' = <<>>
      /\ table' = Overlay(NewEntries, table)
      /\ UNCHANGED <<dns, cache, callAge, asked>>
  BY DEF Store
<1>2. /\ DOMAIN NewEntries = DOMAIN answers
      /\ \A ip \in DOMAIN answers : NewEntries[ip] = [name |-> answers[ip], age |-> callAge]
  BY DEF NewEntries
<1>3. /\ DOMAIN table' = DOMAIN answers \cup DOMAIN table
      /\ \A ip \in DOMAIN answers : table'[ip] = [name |-> answers[ip], age |-> callAge]
      /\ \A ip \in DOMAIN table \ DOMAIN answers : table'[ip] = table[ip]
  BY <1>1, <1>2 DEF Overlay
<1> USE LookupAssumption DEF IInv, Typed, Cap
<1>4. Typed'
  BY <1>1, <1>3 DEF Typed
<1>5. MissesStale' /\ LastIsKept'
  BY <1>1 DEF MissesStale, LastIsKept
<1>6. QED
  BY <1>4, <1>5

(* An age grows by one, up to the cap. *)
LEMMA Ages ==
  /\ Cap \in Nat /\ Cap = TTL + CallTime /\ TTL \in Nat
  /\ \A age \in 0..Cap :
       /\ Older(age) \in 0..Cap
       /\ Older(age) >= age
       /\ Older(age) = age + 1 \/ Older(age) = Cap
  /\ \A age, other \in 0..Cap : age <= other => Older(age) <= Older(other)
  /\ \A age \in 0..CallTime : age < CallTime => Older(age) = age + 1
  /\ Older(Cap) = Cap
  BY LookupAssumption DEF Older, Cap

LEMMA TickInv ==
  ASSUME IInv, Tick
  PROVE  IInv'
<1>1. /\ callAge \in 0..CallTime /\ callAge' \in 0..CallTime
      /\ pc # "idle" => callAge < CallTime /\ callAge' = callAge + 1
      /\ UNCHANGED <<dns, pc, misses, answers>>
  BY LookupAssumption DEF Tick, IInv, Typed
<1>2. /\ DOMAIN cache' = DOMAIN cache
      /\ \A ip \in DOMAIN cache :
           /\ cache[ip].age \in 0..Cap
           /\ cache[ip] = [name |-> cache[ip].name, age |-> cache[ip].age]
           /\ cache'[ip] = [name |-> cache[ip].name, age |-> Older(cache[ip].age)]
  BY DEF Tick, AllOlder, IInv, Typed
<1>3. /\ DOMAIN table' = DOMAIN table
      /\ \A ip \in DOMAIN table :
           /\ table[ip].age \in 0..Cap
           /\ table[ip] = [name |-> table[ip].name, age |-> table[ip].age]
           /\ table'[ip] = [name |-> table[ip].name, age |-> Older(table[ip].age)]
  BY DEF Tick, AllOlder, IInv, Typed
<1>4. asked' = [ip \in Ip |-> Older(asked[ip])] /\ \A ip \in Ip : asked[ip] \in 0..Cap
  BY DEF Tick, IInv, Typed
<1>5. Typed'
  <2>1. \A ip \in DOMAIN cache : cache'[ip] \in [name : Answer, age : 0..Cap]
    BY <1>2, Ages DEF IInv, Typed
  <2>2. \A ip \in DOMAIN table : table'[ip] \in [name : Answer, age : 0..Cap]
    BY <1>3, Ages DEF IInv, Typed
  <2>3. asked' \in [Ip -> 0..Cap]
    BY <1>4, Ages
  <2>4. QED
    BY <1>1, <1>2, <1>3, <2>1, <2>2, <2>3 DEF IInv, Typed
<1>6. MissesStale'
  <2>1. \A age \in 0..Cap : pc # "idle" /\ age - callAge >= TTL => Older(age) - callAge' >= TTL
    BY <1>1, Ages, LookupAssumption
  <2>2. \A ip \in DOMAIN cache : cache'[ip].age = Older(cache[ip].age)
    BY <1>2
  <2>3. QED
    BY <1>1, <1>2, <2>1, <2>2 DEF IInv, MissesStale
<1>7. LastIsKept'
  <2> SUFFICES ASSUME NEW ip \in Ip
               PROVE  \/ asked'[ip] = Cap
                      \/ ip \in DOMAIN cache' /\ cache'[ip].age <= asked'[ip]
    BY DEF LastIsKept
  <2>1. CASE asked[ip] = Cap
    BY <1>4, <2>1, Ages
  <2>2. CASE ip \in DOMAIN cache /\ cache[ip].age <= asked[ip]
    BY <1>2, <1>4, <2>2, Ages
  <2>3. QED
    BY <2>1, <2>2 DEF IInv, LastIsKept
<1>8. QED
  BY <1>5, <1>6, <1>7 DEF IInv

LEMMA RestartInv ==
  ASSUME IInv, Restart
  PROVE  IInv'
  BY LookupAssumption DEF Restart, IInv, Typed, MissesStale, LastIsKept, Cap

LEMMA StepInv == IInv /\ [Next]_vars => IInv'
<1> SUFFICES ASSUME IInv, [Next]_vars PROVE IInv'
  OBVIOUS
<1>1. CASE Raise
  BY <1>1, LookupAssumption DEF Raise, IInv, Typed, MissesStale, LastIsKept
<1>2. ASSUME NEW ip \in Ip, ChangeDns(ip) PROVE IInv'
  BY <1>2 DEF ChangeDns, progress, IInv, Typed, MissesStale, LastIsKept
<1>3. CASE UNCHANGED vars
  BY <1>3 DEF vars, IInv, Typed, MissesStale, LastIsKept
<1>4. QED
  BY <1>1, <1>2, <1>3, BeginInv, ReadTableInv, AnswerInv, RememberInv, StoreInv, TickInv,
     RestartInv DEF Next

LEMMA Invariance == Spec => []IInv
  BY InitInv, StepInv, PTL DEF Spec

-----------------------------------------------------------------------------
(* One process never asks DNS for what it has asked for within the TTL,     *)
(* failed lookups and lost recomputes included, for any addresses, TTL and  *)
(* time a call takes.                                                       *)
THEOREM NotAskedAgain == Spec => []AskedRarely
<1>1. IInv => AskedRarely
  <2> SUFFICES ASSUME IInv, pc = "asking", NEW ip \in misses PROVE asked[ip] - callAge >= TTL
    BY DEF AskedRarely
  <2> USE LookupAssumption DEF IInv, Typed, Cap
  <2>1. \A a \in {asked[ip]} : a \in Int
    OBVIOUS
  <2>2. CASE asked[ip] = Cap
    BY <2>2
  <2>3. CASE ip \in DOMAIN cache /\ cache[ip].age <= asked[ip]
    BY <2>3 DEF MissesStale
  <2>4. QED
    BY <2>2, <2>3 DEF LastIsKept
<1>2. QED
  BY <1>1, Invariance, PTL
=============================================================================
