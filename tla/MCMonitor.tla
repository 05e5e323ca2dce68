----------------------------- MODULE MCMonitor ------------------------------
(***************************************************************************)
(* Small instances of Monitor.  "Apart" is the normal configuration: the   *)
(* watchers have different names and keys; "Far" adds a branch out of the  *)
(* area to one of them.  "Alone" is the plan of a single product, OneName  *)
(* gives two products one name.                                            *)
(***************************************************************************)
EXTENDS Monitor

CONSTANTS k1, k2, k3, wA, wB

Online == [channel |-> "online", targeted |-> FALSE, plz |-> <<>>]

\* A branch outside the configured PLZ area; the third key is never wanted.
FarStore == [channel |-> "instore", targeted |-> FALSE, plz |-> <<8, 0>>]

MCPlace == [k \in Keys |-> IF k = k3 THEN FarStore ELSE Online]
MCPrefixes == {<<1>>, <<2, 0>>}

MCName == [w \in Watchers |-> IF w = wA THEN "A" ELSE "B"]

OneName == [w \in Watchers |-> "A"]

NoCap == [w \in Watchers |-> 0]
CapA == [w \in Watchers |-> IF w = wA THEN 1 ELSE 0]

PlanApart == [w \in Watchers |-> IF w = wA THEN <<k1>> ELSE <<k2>>]
PlanFar == [w \in Watchers |-> IF w = wA THEN <<k1>> ELSE <<k3, k2>>]
PlanAlone == [w \in Watchers |-> <<k1>>]

KnownPrices == {1, 2}

ASSUME ApartIsApart ==
    /\ Plan \in {PlanApart, PlanFar} => KeysDisjoint
    /\ Name = MCName => NamesDistinct
=============================================================================
