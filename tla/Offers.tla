------------------------------- MODULE Offers -------------------------------
(***************************************************************************)
(* The data the monitor works on: what one row of a source's answer says   *)
(* (internal/model/model.go).  An offer keeps the fields that decide       *)
(* something: its deduplication key and its price.  Where the offer is     *)
(* sold never changes for a key, so it is a constant of the key.           *)
(***************************************************************************)
EXTENDS Filters

CONSTANTS
    Keys,       \* deduplication keys the configured sources can return
    Quotes,     \* prices a page can show, NoPrice included if it can show none
    Place       \* for each key: its channel, its PLZ and whether it is targeted

ASSUME QuotesAssumption == Quotes \subseteq Nat \cup {NoPrice}

Offer == [key : Keys, price : Quotes]

IsLocal(k) == Nearby(Place[k])
=============================================================================
