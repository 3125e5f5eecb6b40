----------------------------- MODULE MCTreePage -----------------------------
(* One branch below the root that forks at its third node.                  *)
EXTENDS TreePage

CONSTANTS root, a, b, c, d, t1, t2

MCParent == [n \in {a, b, c, d} |-> CASE n = a -> root [] n = b -> a [] OTHER -> b]
MCPath == [n \in Node |-> CASE n = root -> {root} [] n = a -> {root, a}
                            [] n = b -> {root, a, b} [] OTHER -> {root, a, b, n}]

Hop == [target_ids |-> {}, is_current |-> TRUE]
Ghost(ts) == [target_ids |-> ts, is_current |-> FALSE]
Leaf(ts) == [target_ids |-> ts, is_current |-> TRUE]

(* The targets end at the end of a branch, or have come to end at its start.*)
Long == [n \in {root, a, b, c} |-> IF n = c THEN Leaf({t1, t2}) ELSE Hop]
Short == [n \in {root, a, b, c} |->
            CASE n = a -> Leaf({t1, t2}) [] n = b -> Ghost({}) [] n = c -> Ghost({t1})
              [] OTHER -> Hop]

MCTrees == {Long, Short}
=============================================================================
