--------------------------- MODULE MCIntervalTreap ---------------------------
(***************************************************************************)
(* An envelope of four instants that starts at 1 and has twice its         *)
(* capacity for soft claims, with windows in it, over all of it and over   *)
(* either end.                                                             *)
(***************************************************************************)
EXTENDS IntervalTreap

SomeWindows ==
  {[start |-> p[1], end |-> p[2]] : p \in {<<0, 3>>, <<1, 5>>, <<2, 4>>, <<3, 6>>}}

\* The priorities of the cells that may start at 1, 2, 3 and 4: a
\* balanced shape, inner cells below the outer ones, and ties.
Orders ==
  {[s \in Cells |-> order[s]] :
     order \in {<<2, 4, 3, 1>>, <<4, 1, 2, 3>>, <<2, 1, 1, 2>>}}

=============================================================================
