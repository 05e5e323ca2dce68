--------------------------- MODULE MCReconfigured ---------------------------
(***************************************************************************)
(* A small instance of Reconfigured.  Product "A" polls one key on two     *)
(* pages and a second key; it may be renamed to "R", or keep its name and  *)
(* lose the second key to product "B".                                     *)
(***************************************************************************)
EXTENDS Reconfigured

CONSTANTS k1, k2, wA, wR, wS, wB

Online == [channel |-> "online", targeted |-> FALSE, plz |-> <<>>]

MCPlace == [k \in Keys |-> Online]

MCName == [w \in Watchers |->
    CASE w = wR -> "R" [] w = wB -> "B" [] OTHER -> "A"]

MCPlan == [w \in Watchers |->
    CASE w = wS -> <<k1>> [] w = wB -> <<k2>> [] OTHER -> <<k1, k2, k1>>]

NoCap == [w \in Watchers |-> 0]

MCConfigurations == {{wA}, {wR}, {wS, wB}}

AnyPrices == {1, 2, NoPrice}

ASSUME InstanceIsApart == ConfigurationsDisjoint /\ NamesApart /\ CapsAgree
=============================================================================
