--------------------------- MODULE BauhausSession ---------------------------
(***************************************************************************)
(* The bauhaus-store source (internal/source/bauhausstore.go): a check     *)
(* asks the shop's API about every product and store with the Cloudflare   *)
(* session FlareSolverr harvested.  The session is kept for 15 minutes and *)
(* from check to check; a request that fails is tried once more with a new *)
(* one.  Each product has its own source and asks one thing at a time, so  *)
(* nobody ever waits for the mutex of the session.                         *)
(*                                                                         *)
(* What the shop has in stock is left to module Checks; here a request is  *)
(* answered or not.                                                        *)
(***************************************************************************)
EXTENDS Integers, FiniteSets

CONSTANTS
    PairCount,      \* number of product and store pairs
    MaxTroubles     \* bound on what goes wrong

ASSUME BauhausAssumption == PairCount \in Nat \ {0} /\ MaxTroubles \in Nat

VARIABLES
    tls,            \* the client with Chrome's fingerprint: "built" or "nil", for good
    pc,             \* "session", "request" or "done"
    pair,           \* the product and store asked about
    refresh,        \* this is the second try, with a forced refresh
    held,           \* the cookie kept: none, one Cloudflare accepts, or not
    expired,        \* the cookie is older than bauhausSessionTTL
    failed,         \* the pairs given up in this check
    solves,         \* requests to FlareSolverr so far
    troubles,       \* what went wrong so far
    spoilt          \* the pairs whose second try met trouble in this check

vars == <<tls, pc, pair, refresh, held, expired, failed, solves, troubles, spoilt>>

Pairs == 1..PairCount

TypeOK ==
    /\ tls \in {"built", "nil"}
    /\ pc \in {"session", "request", "done"}
    /\ pair \in Pairs
    /\ refresh \in BOOLEAN
    /\ held \in {"none", "accepted", "rejected"}
    /\ expired \in BOOLEAN
    /\ failed \subseteq Pairs /\ spoilt \subseteq Pairs
    /\ solves \in Nat /\ troubles \in Nat

Init ==
    /\ tls \in {"built", "nil"}
    /\ pc = "session" /\ pair = 1 /\ refresh = FALSE
    /\ held = "none" /\ expired = FALSE
    /\ failed = {} /\ spoilt = {}
    /\ solves = 0 /\ troubles = 0

\* Something goes wrong while pair is asked about.
Trouble ==
    /\ troubles < MaxTroubles
    /\ troubles' = troubles + 1
    /\ spoilt' = IF refresh THEN spoilt \cup {pair} ELSE spoilt

\* Mutant: one pair too many.
NextPair_OneTooFar ==
    /\ refresh' = FALSE
    /\ IF pair <= PairCount THEN pair' = pair + 1 /\ pc' = "session"
                            ELSE UNCHANGED pair /\ pc' = "done"

NextPair ==
    /\ refresh' = FALSE
    /\ IF pair < PairCount THEN pair' = pair + 1 /\ pc' = "session"
                           ELSE UNCHANGED pair /\ pc' = "done"

\* Mutant: the pair is given up at once.
QueryFails_NoRetry ==
    /\ failed' = failed \cup {pair}
    /\ NextPair

\* query returned an error: once more with a new session, then give up.
QueryFails ==
    IF refresh
    THEN failed' = failed \cup {pair} /\ NextPair
    ELSE refresh' = TRUE /\ pc' = "session" /\ UNCHANGED <<pair, failed>>

-----------------------------------------------------------------------------
\* Mutant: a retry takes the kept session as well.
Cached_NotForced == held # "none" /\ ~expired

\* session returns what it has kept.
Cached == ~refresh /\ held # "none" /\ ~expired

HasClient == tls # "nil"

UseSession ==
    /\ pc = "session" /\ HasClient /\ Cached
    /\ pc' = "request"
    /\ UNCHANGED <<tls, pair, refresh, held, expired, failed, solves, troubles, spoilt>>

\* Mutant: the new session is used but not kept.
Harvest_NotKept ==
    /\ pc = "session" /\ HasClient /\ ~Cached
    /\ solves' = solves + 1
    /\ held' = "accepted" /\ expired' = TRUE
    /\ pc' = "request"
    /\ UNCHANGED <<tls, pair, refresh, failed, troubles, spoilt>>

\* FlareSolverr solves the challenge.
Harvest ==
    /\ pc = "session" /\ HasClient /\ ~Cached
    /\ solves' = solves + 1
    /\ held' = "accepted" /\ expired' = FALSE
    /\ pc' = "request"
    /\ UNCHANGED <<tls, pair, refresh, failed, troubles, spoilt>>

\* It answers without a cookie: no error, but nothing that counts as kept.
HarvestEmpty ==
    /\ pc = "session" /\ HasClient /\ ~Cached
    /\ solves' = solves + 1
    /\ Trouble
    /\ held' = "none" /\ expired' = FALSE
    /\ pc' = "request"
    /\ UNCHANGED <<tls, pair, refresh, failed>>

\* It fails: what was kept stays.
HarvestFails ==
    /\ pc = "session" /\ HasClient /\ ~Cached
    /\ solves' = solves + 1
    /\ Trouble
    /\ QueryFails
    /\ UNCHANGED <<tls, held, expired>>

\* query without a client: no session is asked for, now or at the second try.
QueryWithoutClient ==
    /\ pc = "session" /\ ~HasClient
    /\ QueryFails
    /\ UNCHANGED <<tls, held, expired, solves, troubles, spoilt>>

RequestAnswers ==
    /\ pc = "request" /\ held = "accepted"
    /\ NextPair
    /\ UNCHANGED <<tls, held, expired, failed, solves, troubles, spoilt>>

\* A 403 without an accepted session.
RequestRejected ==
    /\ pc = "request" /\ held # "accepted"
    /\ QueryFails
    /\ UNCHANGED <<tls, held, expired, solves, troubles, spoilt>>

\* Any other error: no connection, another status, an undecodable body.
RequestFails ==
    /\ pc = "request"
    /\ Trouble
    /\ QueryFails
    /\ UNCHANGED <<tls, held, expired, solves>>

\* The next tick of the product.
CheckAgain ==
    /\ pc = "done"
    /\ pc' = "session" /\ pair' = 1
    /\ failed' = {} /\ spoilt' = {}
    /\ UNCHANGED <<tls, refresh, held, expired, solves, troubles>>

\* Cloudflare takes the clearance back, or the egress address changed.
Invalidate ==
    /\ held = "accepted"
    /\ Trouble
    /\ held' = "rejected"
    /\ UNCHANGED <<tls, pc, pair, refresh, expired, failed, solves>>

\* Fifteen minutes pass.
Expire ==
    /\ held # "none" /\ ~expired
    /\ Trouble
    /\ expired' = TRUE
    /\ UNCHANGED <<tls, pc, pair, refresh, held, failed, solves>>

Query ==
    \/ QueryWithoutClient
    \/ UseSession \/ Harvest \/ HarvestEmpty \/ HarvestFails
    \/ RequestAnswers \/ RequestRejected \/ RequestFails

Next == Query \/ CheckAgain \/ Invalidate \/ Expire

Spec == Init /\ [][Next]_vars

\* Every request returns: both HTTP clients have a timeout.
FairSpec == Spec /\ WF_vars(Query \/ CheckAgain)

-----------------------------------------------------------------------------
(* Properties *)

\* A stale session alone costs no result: a source with a client gives up a pair
\* only if its second try, with a session harvested for it, met trouble of its own
\* (bauhausstore.go:79-83).
StaleSessionHeals == HasClient => failed \subseteq spoilt

\* The session is shared by all pairs and checks: every solve after the first is
\* owed to something that went wrong or ran out since the one before, so neither
\* a healthy source nor one without a client keeps the solver busy
\* (bauhausstore.go:133-135, 184-191).
SolvesAreCaused == solves <= 1 + troubles

\* Once nothing goes wrong any more, the checks of a source with a client give up
\* no pair any more: no failure leaves it with a session it cannot get rid of.
Recovers == <>[](pc = "done" /\ HasClient => failed = {})
=============================================================================
