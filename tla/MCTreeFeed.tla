----------------------------- MODULE MCTreeFeed -----------------------------
(* A root with one branch of two nodes: a trace grows and shrinks by a hop, *)
(* and what it drops stays as a ghost.                                      *)
EXTENDS TreeFeed

MCNode == {"root", "a", "b"}
MCParent == [n \in {"a", "b"} |-> IF n = "b" THEN "a" ELSE "root"]
MCPath == [n \in MCNode |-> {"root", n} \cup (IF n = "b" THEN {"a"} ELSE {})]
Branch == {"a", "b"}
=============================================================================
