---------------------------- MODULE MCTraceStore ----------------------------
EXTENDS TraceStore

CONSTANTS gw, q, s

(* A trace that ends at s, and one where s no longer answers and q has lost *)
(* a probe; both begin with the gateway.                                    *)
Reached == [hops |-> <<[ttl |-> 1, addr |-> gw], [ttl |-> 2, addr |-> s]>>,
            hop_count |-> 2, attempts |-> 1]
Lost == [hops |-> <<[ttl |-> 2, addr |-> q]>>, hop_count |-> 3, attempts |-> 2]

MCTraces == {Reached, Lost}
=============================================================================
