---------------------------- MODULE AlertLedger -----------------------------
(***************************************************************************)
(* What the service promises its user about one deduplication key, without *)
(* watchers, calls or failures (README.md:3-8 and "How it works", the      *)
(* package comment of internal/store/store.go and monitor.go:143):         *)
(*   - an item is tracked, and so kept quiet, only after it was announced; *)
(*   - a tracked item is announced again only when its price drops;        *)
(*   - the price kept for it goes down only to a price that was announced; *)
(*   - forgetting it, and only that, makes its next sighting news.         *)
(***************************************************************************)
EXTENDS Integers

CONSTANTS Keys, Quotes, NoPrice, None

VARIABLES
    told,       \* the last price announced since the key was last forgotten
    stored      \* the price kept for a tracked key, None if it is not tracked

ledger == <<told, stored>>

Below(p, q) == p # NoPrice /\ q # NoPrice /\ p < q

LedgerInit ==
    /\ told = [k \in Keys |-> None]
    /\ stored = [k \in Keys |-> None]

\* Announce an untracked item, or a drop of a tracked one.
Announce(k, q) ==
    /\ stored[k] # None => Below(q, stored[k])
    /\ told' = [told EXCEPT ![k] = q]
    /\ UNCHANGED stored

\* Start to keep an announced item quiet.
Track(k) ==
    /\ stored[k] = None /\ told[k] # None
    /\ stored' = [stored EXCEPT ![k] = told[k]]
    /\ UNCHANGED told

\* See a tracked item again: a lower price is kept only once it was announced.
Refresh(k, q) ==
    /\ stored[k] # None
    /\ Below(q, stored[k]) => q = told[k]
    /\ stored' = [stored EXCEPT ![k] = q]
    /\ UNCHANGED told

Forget(k) ==
    /\ stored[k] # None
    /\ stored' = [stored EXCEPT ![k] = None]
    /\ told' = [told EXCEPT ![k] = None]

LedgerNext ==
    \E k \in Keys :
        \/ \E q \in Quotes : Announce(k, q) \/ Refresh(k, q)
        \/ Track(k) \/ Forget(k)

LedgerSpec == LedgerInit /\ [][LedgerNext]_ledger
=============================================================================
