------------------------------ MODULE Filters -------------------------------
(***************************************************************************)
(* The filters a tick applies to an offer, and its test for a price drop   *)
(* (internal/monitor/monitor.go).  Where an offer is sold is a record of   *)
(* its channel, its PLZ as a sequence of digits, and whether it was asked  *)
(* for at a place of the user's choice (internal/model/model.go).          *)
(***************************************************************************)
EXTENDS Integers, Sequences, SequencesExt

CONSTANTS
    NoPrice,        \* a.Price = nil, and price IS NULL in a row
    None,           \* no row, not on offer, nothing announced
    LocalPrefixes   \* the configured localPLZPrefixes

ASSUME NoPriceAssumption ==
    /\ NoPrice \notin Nat
    /\ None \notin Nat \cup {NoPrice}

\* One of the configured prefixes starts the PLZ of an in-store offer; online
\* and targeted offers are not filtered, nor is anything without a prefix list.
Nearby(place) ==
    \/ place.targeted
    \/ place.channel # "instore"
    \/ LocalPrefixes = {}
    \/ \E p \in LocalPrefixes : IsPrefix(p, place.plz)

\* An offer without a price passes every budget, a cap of 0 or less is none.
WithinBudget(max, price) == max <= 0 \/ price = NoPrice \/ price <= max

\* The two prices are known and the new one is strictly lower: the only reason
\* to announce an offer that is already tracked.
IsDrop(price, stored) == price # NoPrice /\ stored # NoPrice /\ price < stored
=============================================================================
