--------------------------- MODULE MCTreeService ---------------------------
(* A root with one branch of two nodes: a trace grows and shrinks by a hop, *)
(* and the node it drops stays as a ghost below a node that may be current. *)
EXTENDS TreeService

MCNode == {"root", "a", "b"}
MCParent == [n \in {"a", "b"} |-> IF n = "b" THEN "a" ELSE "root"]
MCPath == [n \in MCNode |-> {"root", n} \cup (IF n = "b" THEN {"a"} ELSE {})]
Branch == {"a", "b"}
=============================================================================
