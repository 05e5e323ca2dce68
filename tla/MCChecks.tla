------------------------------ MODULE MCChecks ------------------------------
(***************************************************************************)
(* A small instance of Checks: two URLs, collections of up to three        *)
(* entries in pages of one or two.                                         *)
(***************************************************************************)
EXTENDS Checks

In(i) == [item |-> i, orderable |-> TRUE]
Out(i) == [item |-> i, orderable |-> FALSE]

MCListings == {<<>>, <<In("a")>>, <<Out("a"), In("b")>>, <<In("b")>>,
               <<Out("a"), Out("c"), In("b")>>}
=============================================================================
