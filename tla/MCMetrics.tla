----------------------------- MODULE MCMetrics ------------------------------
(***************************************************************************)
(* A small instance of Metrics: two products share a source, the first     *)
(* checks it twice, and a client scrapes twice.                            *)
(***************************************************************************)
EXTENDS Metrics

CONSTANTS wA, wB, sA

PlanShared == [w \in Watchers |-> <<"shop">>]
MCTicks == [w \in Watchers |-> IF w = wA THEN 2 ELSE 1]

Cheap == [stock |-> 2, price |-> 1]

MCAnswers == {<<>>, <<Cheap>>}
=============================================================================
