----------------------------- MODULE MCStartup ------------------------------
(***************************************************************************)
(* Small instances of Startup: up to two products with the intervals, caps *)
(* and sources that make a difference; obi may be listed without product   *)
(* IDs.                                                                    *)
(***************************************************************************)
EXTENDS Startup

MCProducts ==
    [interval : {0, 300}, priceMax : {0, 800},
     sources : {{}, {"bauhausStore"}, {"obi"}, {"obi", "bauhausStore"}},
     empty : {{}, {"obi"}}]

\* What a file can hold; an unreadable one and missing secrets hide the rest.
MCConfigs ==
    [readable : {TRUE}, secrets : {TRUE}, solver : BOOLEAN, priceMax : {900},
     products : UNION {[1..n -> MCProducts] : n \in 0..2}]
    \cup
    [readable : BOOLEAN, secrets : BOOLEAN, solver : {TRUE}, priceMax : {0},
     products : {<<[interval |-> 300, priceMax |-> -1, sources |-> {"obi"}, empty |-> {}]>>}]
=============================================================================
