---------------------------- MODULE MCTargetStore ----------------------------
EXTENDS TargetStore, TLC

CONSTANTS plain, wild

(* One address has a wildcard of ILIKE in it and matches the other too, as  *)
(* "db_1" matches "db-1".                                                   *)
Wildcard == (plain :> {plain}) @@ (wild :> {plain, wild})

Literal == [a \in Address |-> {a}]
=============================================================================
