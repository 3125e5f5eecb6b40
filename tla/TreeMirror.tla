------------------------------ MODULE TreeMirror ------------------------------
(***************************************************************************)
(* What the live feed promises, without channels, sequence numbers or      *)
(* diffs: the backend goes from one tree to the next, and a browser tab    *)
(* only ever draws a tree the backend had at some moment, never a mixture  *)
(* of two.                                                                 *)
(***************************************************************************)
CONSTANTS Tab, Trees   \* browser tabs; the trees there can be

VARIABLES tree, past, drawn  \* the backend's tree, those so far, each tab's

Init ==
  /\ tree \in Trees
  /\ past = {tree}
  /\ drawn = [tab \in Tab |-> tree]

Publish ==
  /\ tree' \in Trees
  /\ past' = past \cup {tree'}
  /\ UNCHANGED drawn

Draw(tab) ==
  /\ \E t \in past : drawn' = [drawn EXCEPT ![tab] = t]
  /\ UNCHANGED <<tree, past>>

Next == Publish \/ (\E tab \in Tab : Draw(tab))

Spec == Init /\ [][Next]_<<tree, past, drawn>>
=============================================================================
