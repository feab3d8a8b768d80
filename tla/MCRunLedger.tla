----------------------------- MODULE MCRunLedger ----------------------------
(***************************************************************************)
(* Two submits, two requests, one idempotency key, two planning flows.     *)
(* For the first run the planner answers every graph of dependencies       *)
(* between three issues, and plans that break one rule each; for the other *)
(* one small plan.                                                         *)
(***************************************************************************)
EXTENDS RunLedger

CONSTANTS k, r1, r2, a, bad

Planned(key, deps) ==
  [key |-> key, deps |-> deps, acceptance |-> TRUE, risk |-> TRUE]

One == Planned(1, <<>>)

Graphs ==
  {<<Planned(2, d), Planned(a, e), Planned(1, f)>> :
     d \in {<<>>, <<a>>, <<1>>, <<1, a>>},
     e \in {<<>>, <<2>>, <<1>>, <<2, 1>>},
     f \in {<<>>, <<2>>, <<a>>, <<a, 2>>}}

Broken ==
  {<<>>, <<One, One>>, <<Planned(bad, <<>>)>>, <<Planned(a, <<a>>)>>,
   <<One, Planned(a, <<3>>)>>, <<[One EXCEPT !.acceptance = FALSE]>>,
   <<One, [Planned(2, <<1, 1>>) EXCEPT !.risk = FALSE]>>}

Small == {<<One, Planned(a, <<1, 1>>)>>}

MCAnswers(id) == IF id = 1 THEN Graphs \cup Broken ELSE Small

MCMoves == {"EXECUTING", "PLANNING", "CANCELLED"}

MCSymmetry == Permutations({r1, r2})

=============================================================================
