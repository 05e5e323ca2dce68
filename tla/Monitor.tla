------------------------------ MODULE Monitor -------------------------------
(***************************************************************************)
(* The monitor (internal/monitor/monitor.go) with the store it keeps and   *)
(* the notifier it calls.  Every configured product has a watcher          *)
(* goroutine; a watcher runs one tick at once and then one per interval.   *)
(* A tick fetches the product's pages, deletes the rows of offers it no    *)
(* longer sees, and then announces and records, or touches, every offer    *)
(* it saw, one call at a time.  The watchers share the store, so their     *)
(* calls interleave; any call may fail, an alert may be delivered and its  *)
(* reply lost, the process may be cancelled (SIGTERM) or crash between     *)
(* any two calls, and prices and stock change at any time.  Only the rows  *)
(* survive a restart.                                                      *)
(*                                                                         *)
(* A source's Check walks its URLs in order and skips those that fail; an  *)
(* error of the whole Check carries no offer, so for what a tick keeps,    *)
(* the sources of a product are one list of pages, here Plan[w].  The      *)
(* recorder is nil (monitor.go:201,207); module Metrics models it.         *)
(***************************************************************************)
EXTENDS Store

CONSTANTS
    Watchers,       \* the configured products, one goroutine each
    Name,           \* the product name of each watcher
    PriceMax,       \* the effective price cap of each watcher
    Plan,           \* the pages of each watcher in polling order: one key per page
    MaxMoves,       \* bound on changes of the market
    MaxFaults,      \* bound on faults outside a shutdown
    MaxCancels      \* bound on SIGTERMs

ASSUME MonitorAssumption ==
    /\ Name \in [Watchers -> Names]
    /\ PriceMax \in [Watchers -> Int]
    /\ Plan \in [Watchers -> Seq(Keys) \ {<<>>}]
    /\ MaxMoves \in Nat /\ MaxFaults \in Nat /\ MaxCancels \in Nat

VARIABLES
    pc,         \* what each watcher does next
    pos,        \* the page of its plan a watcher fetches next
    current,    \* the offers of this tick: all it keeps, then those not yet handled
    stale,      \* the rows a watcher still has to delete
    cancelled,  \* ctx is cancelled
    market,     \* what each key's page shows now, None if not in stock
    told,       \* the price last announced since the key was last untracked
    news,       \* an announcement of the key as new would be news
    dups,       \* announcements of the key as new that were not
    spared,     \* the rows this tick's reconciliation left for a failed call
    moves, faults, cancels

local == <<pc, pos, current, stale>>
heard == <<told, news, dups>>
history == <<heard, spared>>
vars == <<rows, local, history, cancelled, market, moves, faults, cancels>>

PCs == {"fetch", "keys", "delete", "lookup", "alert", "alertReply", "record",
        "drop", "dropReply", "touch", "idle", "stopped"}

KeysOf(w) == Range(Plan[w])

\* What tick keeps of an offer a source returned to w.
Passes(w, a) == WithinBudget(PriceMax[w], a.price) /\ IsLocal(a.key)

\* Some watcher would keep the offer the market shows for k.
Wanted(k) ==
    /\ market[k] # None
    /\ \E w \in Watchers :
          k \in KeysOf(w) /\ Passes(w, [key |-> k, price |-> market[k]])

Listed(offers) == {offers[i].key : i \in DOMAIN offers}

TypeOK ==
    /\ StoreTypeOK
    /\ pc \in [Watchers -> PCs]
    /\ pos \in [Watchers -> Nat \ {0}] /\ \A w \in Watchers : pos[w] <= Len(Plan[w])
    /\ current \in [Watchers -> Seq(Offer)]
    /\ stale \in [Watchers -> SUBSET Keys]
    /\ cancelled \in BOOLEAN
    /\ market \in [Keys -> Quotes \cup {None}]
    /\ told \in [Keys -> Quotes \cup {None}]
    /\ news \in [Keys -> BOOLEAN]
    /\ dups \in [Keys -> Nat]
    /\ spared \in [Watchers -> SUBSET Keys]
    /\ moves \in Nat /\ faults \in Nat /\ cancels \in Nat

\* A process that has just started: Run has spawned the watchers.
Boot ==
    /\ pc' = [w \in Watchers |-> "fetch"]
    /\ pos' = [w \in Watchers |-> 1]
    /\ current' = [w \in Watchers |-> <<>>]
    /\ stale' = [w \in Watchers |-> {}]
    /\ spared' = [w \in Watchers |-> {}]
    /\ cancelled' = FALSE

Init ==
    /\ StoreInit
    /\ pc = [w \in Watchers |-> "fetch"]
    /\ pos = [w \in Watchers |-> 1]
    /\ current = [w \in Watchers |-> <<>>]
    /\ stale = [w \in Watchers |-> {}]
    /\ cancelled = FALSE
    /\ market \in [Keys -> Quotes \cup {None}]
    /\ told = [k \in Keys |-> None]
    /\ news = [k \in Keys |-> TRUE]
    /\ dups = [k \in Keys |-> 0]
    /\ spared = [w \in Watchers |-> {}]
    /\ moves = 0 /\ faults = 0 /\ cancels = 0

-----------------------------------------------------------------------------
(* Outcomes of a call that takes ctx.  Once ctx is cancelled every new call *)
(* to the store, a source or the notifier returns an error; until then an   *)
(* error is a fault.                                                        *)

\* Mutant: the calls get a background context instead of the tick's.
Succeeds_NoContext == UNCHANGED faults

Succeeds == ~cancelled /\ UNCHANGED faults

Fault == faults < MaxFaults /\ faults' = faults + 1

Fails == (cancelled /\ UNCHANGED faults) \/ (~cancelled /\ Fault)

\* An error after the alert was delivered is a disturbance even when it comes
\* from the cancellation, which then hit the one window that costs an alert.
FailsAfterAlert == (cancelled /\ faults' = faults + 1) \/ (~cancelled /\ Fault)

Goto(w, label) == pc' = [pc EXCEPT ![w] = label]

Now(w) == Head(current[w])

\* tick, between the two loops: nothing seen ends the tick.
AfterReconcile(w) == IF current[w] = <<>> THEN "idle" ELSE "lookup"

\* continue with the next offer, or end the tick after the last one.
NextOffer(w) ==
    /\ current' = [current EXCEPT ![w] = Tail(@)]
    /\ Goto(w, IF Len(current[w]) = 1 THEN "idle" ELSE "lookup")
    /\ UNCHANGED <<pos, stale>>

-----------------------------------------------------------------------------
(* Polling the sources *)

NextPage(w) ==
    /\ IF pos[w] < Len(Plan[w])
       THEN pos' = [pos EXCEPT ![w] = @ + 1] /\ UNCHANGED pc
       ELSE pos' = [pos EXCEPT ![w] = 1] /\ Goto(w, "keys")
    /\ UNCHANGED <<rows, stale, history, cancelled, market, moves, cancels>>

\* Mutant: a page without the product counts as in stock.
FetchAnswers_Unchecked(w) ==
    /\ pc[w] = "fetch"
    /\ Succeeds
    /\ LET k == Plan[w][pos[w]]
           a == [key |-> k, price |-> market[k]]
       IN  current' = IF market[k] = None \/ Passes(w, a)
                      THEN [current EXCEPT ![w] = Append(@, a)]
                      ELSE current
    /\ NextPage(w)

\* The page answers: in stock or not, kept by the filters or not.
FetchAnswers(w) ==
    /\ pc[w] = "fetch"
    /\ Succeeds
    /\ LET k == Plan[w][pos[w]]
           a == [key |-> k, price |-> market[k]]
       IN  current' = IF market[k] # None /\ Passes(w, a)
                      THEN [current EXCEPT ![w] = Append(@, a)]
                      ELSE current
    /\ NextPage(w)

\* The page is skipped: its offer is missing from this tick.
FetchFails(w) ==
    /\ pc[w] = "fetch"
    /\ Fails
    /\ UNCHANGED current
    /\ NextPage(w)

-----------------------------------------------------------------------------
(* Dropping the rows of offers this tick did not see *)

\* Mutant: the early return on an empty tick comes before the reconciliation.
LoadKeys_AfterEmptyCheck(w) ==
    /\ pc[w] = "keys"
    /\ Succeeds
    /\ LET gone == IF current[w] = <<>> THEN {}
                   ELSE ProductKeys(Name[w]) \ Listed(current[w])
       IN  /\ stale' = [stale EXCEPT ![w] = gone]
           /\ Goto(w, IF gone = {} THEN AfterReconcile(w) ELSE "delete")
    /\ UNCHANGED <<rows, pos, current, history, cancelled, market, moves, cancels>>

LoadKeys(w) ==
    /\ pc[w] = "keys"
    /\ Succeeds
    /\ LET gone == ProductKeys(Name[w]) \ Listed(current[w])
       IN  /\ stale' = [stale EXCEPT ![w] = gone]
           /\ Goto(w, IF gone = {} THEN AfterReconcile(w) ELSE "delete")
    /\ UNCHANGED <<rows, pos, current, history, cancelled, market, moves, cancels>>

\* Mutant: the tick retries until the keys load.
LoadKeysFails_Retry(w) ==
    /\ pc[w] = "keys"
    /\ Fails
    /\ UNCHANGED <<rows, local, history, cancelled, market, moves, cancels>>

LoadKeysFails(w) ==
    /\ pc[w] = "keys"
    /\ Fails
    /\ Goto(w, AfterReconcile(w))
    /\ spared' = [spared EXCEPT ![w] = ProductKeys(Name[w])]
    /\ UNCHANGED <<rows, pos, current, stale, heard, cancelled, market, moves, cancels>>

\* The SELECT has no ORDER BY, so the rows come in any order.
NextStale(w, k) ==
    /\ stale' = [stale EXCEPT ![w] = @ \ {k}]
    /\ IF stale[w] = {k} THEN Goto(w, AfterReconcile(w)) ELSE UNCHANGED pc
    /\ UNCHANGED <<pos, current, news, dups, cancelled, market, moves, cancels>>

DeleteStale(w, k) ==
    /\ pc[w] = "delete" /\ k \in stale[w]
    /\ Succeeds
    /\ Delete(k)
    /\ told' = IF Tracked(k) THEN [told EXCEPT ![k] = None] ELSE told
    /\ UNCHANGED spared
    /\ NextStale(w, k)

\* Mutant: the first error ends the loop over the stale rows.
DeleteFails_EndsLoop(w, k) ==
    /\ pc[w] = "delete" /\ k \in stale[w]
    /\ Fails
    /\ spared' = [spared EXCEPT ![w] = @ \cup {k}]
    /\ stale' = [stale EXCEPT ![w] = {}]
    /\ Goto(w, AfterReconcile(w))
    /\ UNCHANGED <<rows, pos, current, heard, cancelled, market, moves, cancels>>

\* The row stays, the loop goes on with the next one.
DeleteFails(w, k) ==
    /\ pc[w] = "delete" /\ k \in stale[w]
    /\ Fails
    /\ spared' = [spared EXCEPT ![w] = @ \cup {k}]
    /\ UNCHANGED <<rows, told>>
    /\ NextStale(w, k)

-----------------------------------------------------------------------------
(* Handling the offers one by one *)

\* Mutant: Touch is taken for an upsert that needs no first alert.
Verdict_Upsert(row, a) ==
    IF row # None /\ IsDrop(a.price, row.price) THEN "drop" ELSE "touch"

\* What tick does with an offer, given the row Lookup returned.
Verdict(row, a) ==
    IF row = None THEN "alert"
    ELSE IF IsDrop(a.price, row.price) THEN "drop" ELSE "touch"

\* Mutant: a row of another product does not count.
LookupAnswers_OwnRow(w) ==
    /\ pc[w] = "lookup"
    /\ Succeeds
    /\ LET row == rows[Now(w).key]
       IN  Goto(w, Verdict(IF row # None /\ row.product # Name[w] THEN None ELSE row,
                           Now(w)))
    /\ UNCHANGED <<rows, pos, current, stale, history, cancelled, market, moves, cancels>>

LookupAnswers(w) ==
    /\ pc[w] = "lookup"
    /\ Succeeds
    /\ Goto(w, Verdict(rows[Now(w).key], Now(w)))
    /\ UNCHANGED <<rows, pos, current, stale, history, cancelled, market, moves, cancels>>

\* Mutant: a failed lookup is handled like an unknown key.
LookupFails_AsUnknown(w) ==
    /\ pc[w] = "lookup"
    /\ Fails
    /\ Goto(w, "alert")
    /\ UNCHANGED <<rows, pos, current, stale, history, cancelled, market, moves, cancels>>

LookupFails(w) ==
    /\ pc[w] = "lookup"
    /\ Fails
    /\ NextOffer(w)
    /\ UNCHANGED <<rows, history, cancelled, market, moves, cancels>>

\* The notifier's service delivers the alert.
NotifyDelivers(w) ==
    /\ pc[w] \in {"alert", "drop"}
    /\ Succeeds
    /\ LET k == Now(w).key
       IN  /\ told' = [told EXCEPT ![k] = Now(w).price]
           /\ news' = [news EXCEPT ![k] = ~Wanted(k)]
           /\ dups' = IF pc[w] = "alert" /\ ~news[k]
                      THEN [dups EXCEPT ![k] = @ + 1] ELSE dups
    /\ Goto(w, IF pc[w] = "alert" THEN "alertReply" ELSE "dropReply")
    /\ UNCHANGED <<rows, pos, current, stale, spared, cancelled, market, moves, cancels>>

\* Mutant: the item is recorded although the alert failed.
NotifyFails_Recorded(w) ==
    /\ pc[w] \in {"alert", "drop"}
    /\ Fails
    /\ Goto(w, IF pc[w] = "alert" THEN "record" ELSE "touch")
    /\ UNCHANGED <<rows, pos, current, stale, history, cancelled, market, moves, cancels>>

\* Mutant: the lower price is stored although the alert for the drop failed.
NotifyFails_Touched(w) ==
    /\ pc[w] \in {"alert", "drop"}
    /\ Fails
    /\ IF pc[w] = "drop"
       THEN Goto(w, "touch") /\ UNCHANGED <<pos, current, stale>>
       ELSE NextOffer(w)
    /\ UNCHANGED <<rows, history, cancelled, market, moves, cancels>>

\* The request never reaches the service: not recorded, tried again next tick.
NotifyFails(w) ==
    /\ pc[w] \in {"alert", "drop"}
    /\ Fails
    /\ NextOffer(w)
    /\ UNCHANGED <<rows, history, cancelled, market, moves, cancels>>

ReplyArrives(w) ==
    /\ pc[w] \in {"alertReply", "dropReply"}
    /\ Goto(w, IF pc[w] = "alertReply" THEN "record" ELSE "touch")
    /\ UNCHANGED <<rows, pos, current, stale, history, cancelled, market, moves,
                   faults, cancels>>

\* Notify returns an error although the alert was delivered: the reply timed
\* out, was cancelled, or carried a status other than 200.
ReplyLost(w) ==
    /\ pc[w] \in {"alertReply", "dropReply"}
    /\ FailsAfterAlert
    /\ NextOffer(w)
    /\ UNCHANGED <<rows, history, cancelled, market, moves, cancels>>

RecordRow(w) ==
    /\ pc[w] = "record"
    /\ Succeeds
    /\ Record(Now(w).key, Name[w], Now(w).price)
    /\ NextOffer(w)
    /\ UNCHANGED <<history, cancelled, market, moves, cancels>>

\* Record's error is only logged.  The primary key rejects a row that another
\* watcher inserted in the meantime.
RecordFails(w) ==
    /\ pc[w] = "record"
    /\ \/ FailsAfterAlert
       \/ ~cancelled /\ Tracked(Now(w).key) /\ UNCHANGED faults
    /\ NextOffer(w)
    /\ UNCHANGED <<rows, history, cancelled, market, moves, cancels>>

TouchRow(w) ==
    /\ pc[w] = "touch"
    /\ Succeeds
    /\ Touch(Now(w).key, Now(w).price)
    /\ NextOffer(w)
    /\ UNCHANGED <<history, cancelled, market, moves, cancels>>

TouchFails(w) ==
    /\ pc[w] = "touch"
    /\ Fails
    /\ NextOffer(w)
    /\ UNCHANGED <<rows, history, cancelled, market, moves, cancels>>

-----------------------------------------------------------------------------
(* The watch loop, shutdown and restart *)

\* The ticker wins the select.  It can do so even when ctx is cancelled.
Tick(w) ==
    /\ pc[w] = "idle"
    /\ Goto(w, "fetch")
    /\ spared' = [spared EXCEPT ![w] = {}]
    /\ UNCHANGED <<rows, pos, current, stale, heard, cancelled, market, moves,
                   faults, cancels>>

Stop(w) ==
    /\ pc[w] = "idle" /\ cancelled
    /\ Goto(w, "stopped")
    /\ spared' = [spared EXCEPT ![w] = {}]
    /\ UNCHANGED <<rows, pos, current, stale, heard, cancelled, market, moves,
                   faults, cancels>>

\* SIGTERM cancels the context every call uses.
Cancel ==
    /\ ~cancelled /\ cancels < MaxCancels
    /\ cancelled' = TRUE /\ cancels' = cancels + 1
    /\ UNCHANGED <<rows, local, history, market, moves, faults>>

\* Run returned and the process exited; it is started again.
Restart ==
    /\ \A w \in Watchers : pc[w] = "stopped"
    /\ Boot
    /\ UNCHANGED <<rows, heard, market, moves, faults, cancels>>

\* The process dies between two calls and is started again.
Crash ==
    /\ \E w \in Watchers : pc[w] # "stopped"
    /\ Fault
    /\ Boot
    /\ UNCHANGED <<rows, heard, market, moves, cancels>>

\* Stock or price of one key changes.
MarketMoves ==
    /\ moves < MaxMoves /\ moves' = moves + 1
    /\ \E k \in Keys, q \in Quotes \cup {None} :
          /\ q # market[k]
          /\ market' = [market EXCEPT ![k] = q]
          /\ news' = [news EXCEPT ![k] = @ \/ ~Wanted(k)']
    /\ UNCHANGED <<rows, local, told, dups, spared, cancelled, faults, cancels>>

-----------------------------------------------------------------------------
Work(w) ==
    \/ FetchAnswers(w) \/ FetchFails(w)
    \/ LoadKeys(w) \/ LoadKeysFails(w)
    \/ \E k \in stale[w] : DeleteStale(w, k) \/ DeleteFails(w, k)
    \/ LookupAnswers(w) \/ LookupFails(w)
    \/ NotifyDelivers(w) \/ NotifyFails(w)
    \/ ReplyArrives(w) \/ ReplyLost(w)
    \/ RecordRow(w) \/ RecordFails(w)
    \/ TouchRow(w) \/ TouchFails(w)
    \/ Tick(w)

Next ==
    \/ \E w \in Watchers : Work(w) \/ Stop(w)
    \/ Cancel \/ Restart \/ Crash \/ MarketMoves

Spec == Init /\ [][Next]_vars

\* Every call returns (the HTTP client has a timeout and the store a context)
\* and the ticker fires.  Go's select picks at random among the ready cases,
\* so a watcher that passes through it again and again takes ctx.Done().
Fairness == \A w \in Watchers : WF_vars(Work(w)) /\ SF_vars(Stop(w))

FairSpec == Spec /\ Fairness

-----------------------------------------------------------------------------
(* Properties *)

\* No two watchers poll the same key: what the stable per-result keys of the
\* sources give as long as no page is listed under two products.
KeysDisjoint ==
    \A v, w \in Watchers : v # w => KeysOf(v) \cap KeysOf(w) = {}

NamesDistinct == \A v, w \in Watchers : v # w => Name[v] # Name[w]

\* Products that poll the same page poll it under the same price cap.
CapsAgree ==
    \A v, w \in Watchers : KeysOf(v) \cap KeysOf(w) # {} => PriceMax[v] = PriceMax[w]

\* w's tick has an alert delivered in this step.
Alerting(w) ==
    pc[w] \in {"alert", "drop"} /\ pc'[w] \in {"alertReply", "dropReply"}

\* A watcher that handles an offer has one, and polls its page.
HasOffer(w) ==
    pc[w] \in {"lookup", "alert", "alertReply", "record", "drop", "dropReply", "touch"}
        => current[w] # <<>>

PollsOffers(w) == Listed(current[w]) \subseteq KeysOf(w)

\* What w decided at Lookup is still right when it acts on it, calls later: the
\* item it announces as new has no row, the drop is still a drop, and the price
\* it writes is not a lower one nobody was told (monitor.go:136-164).
Decision(w) ==
    LET a == Now(w)
        row == rows[a.key]
    IN  /\ pc[w] \in {"alert", "alertReply", "record"} => row = None
        /\ pc[w] \in {"alertReply", "record"} => told[a.key] = a.price
        /\ pc[w] = "drop" /\ row # None => IsDrop(a.price, row.price)
        /\ pc[w] = "dropReply" /\ row # None => told[a.key] = a.price
        /\ pc[w] = "touch" /\ row # None /\ IsDrop(a.price, row.price)
              => told[a.key] = a.price

DecisionStands == \A w \in Watchers : Decision(w)

\* At least once: a row keeps its item quiet, so there is a row only for an
\* item that was announced since it was last forgotten, whatever call failed
\* and wherever the process died between Notify and Record (monitor.go:159-164).
NoSilentRow == \A k \in Keys : Tracked(k) => told[k] # None

\* At most once, up to failures: every alert for an item that was already
\* announced and never left the offer since is paid for by a fault, one alert
\* per fault and key.  A shutdown costs one only if it hits the window between
\* the delivery and the commit of the row (README.md:6 "never get spammed").  It
\* takes products with distinct names: tick reconciles by name.
DuplicatesBounded == \A k \in Keys : dups[k] <= faults

\* The row of an item goes only when the item went out of stock or over budget
\* after it was announced (store.go:2-3, README.md:21).
RemovedOnlyWhenGone ==
    [][\A k \in Keys : Tracked(k) /\ ~Tracked(k)' => news[k]]_vars

\* An alert that goes out for an item whose row is in the store at that moment
\* announces a price strictly below the row's, although the decision was taken
\* at an earlier call (monitor.go:136-145).
TrackedAlertsAreDrops ==
    [][\A w \in Watchers :
          LET a == Now(w)
          IN  Alerting(w) /\ Tracked(a.key) =>
                 /\ a.price # NoPrice
                 /\ rows[a.key].price # NoPrice
                 /\ a.price < rows[a.key].price]_vars

\* w's tick gets through its reconciliation in this step.
Reconciled(w) == pc[w] \in {"keys", "delete"} /\ pc'[w] \in {"lookup", "idle"}

\* A reconciliation leaves no row of a page the watcher polls and did not see in
\* this tick, so the next restock alerts: but for the very rows whose own Delete
\* failed, or all of them when the keys could not be loaded, whatever failed,
\* crashed or was cancelled before (monitor.go:115-128).
SeenGoneIsForgotten ==
    [][\A w \in Watchers :
          Reconciled(w) =>
             \A k \in KeysOf(w) :
                Tracked(k)' => k \in Listed(current[w]) \cup spared'[w]]_vars

\* Once ctx is cancelled all checks fail and every tick sees nothing, yet no
\* row goes: the next process does not announce everything again
\* (monitor.go:86-121 under ctx.Done).
ShutdownKeepsRows ==
    [][cancelled => \A k \in Keys : Tracked(k) => Tracked(k)']_vars

\* An item that stays on offer is eventually announced and tracked for good,
\* since faults are finitely many and every failed alert is tried again on the
\* next tick (monitor.go:160 "retry on the next cycle").
WantedGetsTracked ==
    \A k \in Keys :
        <>[](Wanted(k) /\ ~cancelled) => <>[]Tracked(k)

\* An item that stays off the offer is eventually forgotten, so that its
\* restock will be announced (monitor.go:115, README.md:21-22).
GoneGetsForgotten ==
    \A k \in Keys :
        <>[](~Wanted(k) /\ ~cancelled) => <>[]~Tracked(k)

\* SIGTERM ends every watcher, also one in the middle of a tick, so that Run
\* returns (monitor.go:60,73-75).  A report held up behind a stalled client of
\* /metrics is left out here, as are all reports (module Metrics).
CancelStops ==
    cancelled ~> (~cancelled \/ \A w \in Watchers : pc[w] = "stopped")

\* The inductive invariant of the proofs: TypeOK, DecisionStands and NoSilentRow
\* and what they rest on.
IndInv ==
    /\ TypeOK
    /\ \A w \in Watchers : HasOffer(w) /\ PollsOffers(w)
    /\ KeysDisjoint => DecisionStands /\ NoSilentRow

\* Seen through the alerts and the rows, the monitor is the ledger.
Ledger == INSTANCE AlertLedger
    WITH stored <- [k \in Keys |-> IF Tracked(k) THEN rows[k].price ELSE None]

LedgerRefined == Ledger!LedgerSpec
=============================================================================
