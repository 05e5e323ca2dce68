----------------------------- MODULE MCReading ------------------------------
(***************************************************************************)
(* Reading with all sources, two prices from a thousand euros on and one   *)
(* below, a cap between them, and repeats at and beyond Pushover's limits. *)
(***************************************************************************)
EXTENDS Reading

MCSettings ==
    [priority : {1, 2}, retry : {0, 60, 10801}, expire : {0, 10800, 10801}]

MCPrefixes == {<<3>>}
=============================================================================
