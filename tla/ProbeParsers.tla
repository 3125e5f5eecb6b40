----------------------------- MODULE ProbeParsers -----------------------------
(***************************************************************************)
(* From what a probing process leaves behind to the result the prober      *)
(* submits: prober/app/scamper_runner.py, mtr_runner.py and gateway.py.    *)
(* scamper lists the replies it got, in the order they came; a TTL without *)
(* a reply is not in the list.  mtr reports each TTL.  Both lists become   *)
(* hops numbered from 1, without the gateway of the prober's container.    *)
(*                                                                         *)
(* Times are left out.  A loss is a percentage, rounded down.              *)
(***************************************************************************)
EXTENDS Integers, Sequences, SequencesExt, FiniteSets

CONSTANTS
  Addr,   \* addresses that answer
  NoAddr  \* None: nobody answered, or no gateway is to be filtered

ASSUME AddrAssumption == NoAddr \notin Addr

(* The "trace" record: the replies, and of the run the highest TTL it has   *)
(* probed and how often it has probed each.                                 *)
TraceRecord == [hops : Seq([ttl : Nat, addr : Addr]), hop_count : Nat, attempts : Nat]

(* Those of runs over TTLs 1..n with at most so many replies.               *)
Record(n, replies) ==
  [hops : SeqOf([ttl : 1..n, addr : Addr], replies), hop_count : 0..n, attempts : 0..2]

Hop(n, ip, loss) ==
  [hop_number |-> n, hop_ip |-> ip, is_timeout |-> ip = NoAddr, loss_pct |-> loss]

(* The replies at a TTL, by their places in the list; the last decides the  *)
(* hop's address: the route may have changed during the run.                *)
Group(trace, ttl) == {i \in DOMAIN trace.hops : trace.hops[i].ttl = ttl}

GroupAddr(trace, ttl) ==
  IF Group(trace, ttl) = {} THEN NoAddr ELSE trace.hops[Max(Group(trace, ttl))].addr

(* In percent.  No reply is a loss of everything, however few were sent.    *)
Loss(replies, attempts) ==
  CASE replies = 0 -> 100
    [] replies > 0 /\ attempts = 0 -> 0
    [] OTHER -> (100 * (attempts - replies)) \div attempts

HopLoss(trace, ttl) == Loss(Cardinality(Group(trace, ttl)), trace.attempts)

IsGateway(ip, gateway) == gateway # NoAddr /\ ip = gateway

UpTo(n) == [i \in 1..n |-> i]

(* Mutant of ScamperHops: hops keep the TTL they were found at. *)
ScamperHopsByTTL(trace, gateway) ==
  FoldLeft(LAMBDA hops, ttl :
             LET ip == GroupAddr(trace, ttl)
             IN  IF IsGateway(ip, gateway) THEN hops
                 ELSE Append(hops, Hop(ttl, ip, HopLoss(trace, ttl))),
           <<>>, UpTo(trace.hop_count))

(* _parse_scamper_trace: each TTL up to hop_count, those without a reply    *)
(* filled in as timeouts, the gateway dropped and the rest renumbered.      *)
ScamperHops(trace, gateway) ==
  FoldLeft(LAMBDA hops, ttl :
             LET ip == GroupAddr(trace, ttl)
             IN  IF IsGateway(ip, gateway) THEN hops
                 ELSE Append(hops, Hop(Len(hops) + 1, ip, HopLoss(trace, ttl))),
           <<>>, UpTo(trace.hop_count))

(* _parse_mtr_json: a hub that answered nothing is called "???".            *)
MtrHops(hubs, gateway) ==
  FoldLeft(LAMBDA hops, hub :
             IF IsGateway(hub.host, gateway) THEN hops
             ELSE Append(hops, Hop(Len(hops) + 1, hub.host, hub.loss)),
           <<>>, hubs)

(* What mtr reports of the same probes: a hub per TTL, with the address     *)
(* that answered last.                                                      *)
MtrReport(trace) ==
  [ttl \in 1..trace.hop_count |->
     [host |-> GroupAddr(trace, ttl), loss |-> HopLoss(trace, ttl)]]

-----------------------------------------------------------------------------
(* What run_scamper and run_mtr return.  A run that found no address, was   *)
(* killed after its timeout, ended without output or with output nobody can *)
(* read, or raised, is a failure without hops.                              *)
Failed == [success |-> FALSE, hops |-> <<>>]
Traced(trace, gateway) == [success |-> TRUE, hops |-> ScamperHops(trace, gateway)]

-----------------------------------------------------------------------------
(* The TTLs that become a hop: all but those the gateway answered; and what  *)
(* hop a TTL becomes if there is no gap.                                    *)
OnTheWay(trace, gateway) ==
  {ttl \in 1..trace.hop_count : ~IsGateway(GroupAddr(trace, ttl), gateway)}

Place(way, ttl) == Cardinality({u \in way : u <= ttl})

(* No TTL was answered more often than it was probed.                       *)
NoDuplicates(trace) ==
  \A ttl \in 1..trace.hop_count : Cardinality(Group(trace, ttl)) <= trace.attempts

(* What is stored of a run is what was on its way, in order and numbered    *)
(* without a gap; a hop is a timeout exactly if it lost everything; and     *)
(* which of the two programs has probed makes no difference.                *)
HopsTell(trace, gateway) ==
  LET hops == ScamperHops(trace, gateway)
      way == OnTheWay(trace, gateway)
  IN  /\ hops = MtrHops(MtrReport(trace), gateway)
      /\ Len(hops) = Cardinality(way)
      /\ \A ttl \in way : hops[Place(way, ttl)].hop_ip = GroupAddr(trace, ttl)
      /\ \A i \in DOMAIN hops : hops[i].hop_number = i
      /\ NoDuplicates(trace) =>
           \A i \in DOMAIN hops :
             hops[i].loss_pct \in 0..100 /\ (hops[i].is_timeout <=> hops[i].loss_pct = 100)
=============================================================================
