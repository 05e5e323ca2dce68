------------------------------ MODULE Metrics -------------------------------
(***************************************************************************)
(* The Prometheus state (internal/metrics/metrics.go) between those that   *)
(* share it: the watchers, which report every check and every alert in the *)
(* order of tick (internal/monitor/monitor.go), and the /metrics handlers, *)
(* which print it.  One mutex guards it and a handler keeps the mutex      *)
(* while it writes to its client, so a client that stops reading stops the *)
(* watchers at their next report.                                          *)
(*                                                                         *)
(* A tick is reduced to what it reports: checks that answer or fail, then  *)
(* for each offer an alert that goes out or none (module Monitor decides). *)
(* The timestamp of the last check is left out.                            *)
(***************************************************************************)
EXTENDS Integers, Sequences, FiniteSets, SequencesExt, FiniteSetsExt

CONSTANTS
    Watchers,       \* the products, one goroutine each
    Sources,        \* source names: the label of a series
    Plan,           \* the sources of each watcher, in polling order
    Answers,        \* what a check can return: sequences of [stock, price], where
                    \* every source lists an offer with a unit at least
    Scrapers,       \* clients of /metrics
    NoPrice,        \* a.Price = nil
    Nobody,         \* the mutex is free
    Failed,         \* a check that returned an error
    MaxTicks,       \* bound on the ticks of each watcher
    MaxScrapes      \* bound on requests per scraper

ASSUME MetricsAssumption ==
    /\ IsFiniteSet(Watchers)
    /\ Plan \in [Watchers -> Seq(Sources) \ {<<>>}]
    /\ Answers \subseteq Seq([stock : Nat \ {0}, price : Nat \cup {NoPrice}])
    /\ NoPrice \notin Nat
    /\ Failed \notin Answers
    /\ Nobody \notin Scrapers
    /\ MaxTicks \in [Watchers -> Nat] /\ MaxScrapes \in Nat

VARIABLES
    src,        \* the series of every source reported so far
    mu,         \* the handler that holds the mutex, or Nobody
    pc,         \* what each watcher does next
    at,         \* the source of its plan a watcher polls
    found,      \* the result of the check a watcher is about to report
    offers,     \* the labels of the offers a tick has yet to handle
    serving,    \* what the handler of each scraper does
    client,     \* whether its client reads, has stalled or is gone
    page,       \* the families written so far in this response
    body,       \* the families of the last complete response
    done,       \* checks that came back, per source and result
    sent,       \* alerts that Notify acknowledged, per source
    ticks, scrapes

watching == <<pc, at, found, offers, done, sent, ticks>>
scraping == <<serving, client, page, body, scrapes>>
vars == <<src, mu, watching, scraping>>

Families == <<"up", "available", "stock", "minPrice", "checks", "notifications">>

Fresh == [success |-> 0, available |-> 0, stock |-> 0, minPrice |-> NoPrice,
          checksSuccess |-> 0, checksError |-> 0, notifications |-> 0]

\* Mutant: a source keeps its state, but get hands out a new one each time.
Get_AlwaysFresh(n) == Fresh

\* get creates the series on first use.
Get(n) == IF n \in DOMAIN src THEN src[n] ELSE Fresh

Put(n, s) == src' = [m \in DOMAIN src \cup {n} |-> IF m = n THEN s ELSE src[m]]

Stock(avail) ==
    LET total[i \in 0..Len(avail)] ==
            IF i = 0 THEN 0 ELSE total[i - 1] + avail[i].stock
    IN  total[Len(avail)]

\* Mutant: an unknown price is passed on as -1.
MinPrice_Sentinel(avail) ==
    LET known == {a.price : a \in Range(avail)} \ {NoPrice}
    IN  IF known = {} THEN -1 ELSE Min(known)

MinPrice(avail) ==
    LET known == {a.price : a \in Range(avail)} \ {NoPrice}
    IN  IF known = {} THEN NoPrice ELSE Min(known)

\* The three numbers tick passes on: of a failed check 0, 0 and nil.
AvailStats(result) ==
    IF result = Failed THEN [available |-> 0, stock |-> 0, minPrice |-> NoPrice]
    ELSE [available |-> Len(result), stock |-> Stock(result), minPrice |-> MinPrice(result)]

\* The samples of a family; a series without a price has no price sample.
Samples(f) ==
    CASE f = "up" -> [n \in DOMAIN src |-> src[n].success]
      [] f = "available" -> [n \in DOMAIN src |-> src[n].available]
      [] f = "stock" -> [n \in DOMAIN src |-> src[n].stock]
      [] f = "minPrice" ->
            [n \in {m \in DOMAIN src : src[m].minPrice # NoPrice} |-> src[n].minPrice]
      [] f = "checks" -> [n \in DOMAIN src |->
            [success |-> src[n].checksSuccess, error |-> src[n].checksError]]
      [] f = "notifications" -> [n \in DOMAIN src |-> src[n].notifications]

Series == [success : {0, 1}, available : Nat, stock : Nat, minPrice : Nat \cup {NoPrice},
           checksSuccess : Nat, checksError : Nat, notifications : Nat]

TypeOK ==
    /\ \E S \in SUBSET Sources : src \in [S -> Series]
    /\ mu \in Scrapers \cup {Nobody}
    /\ pc \in [Watchers -> {"check", "observe", "handle", "count", "rest"}]
    /\ at \in [Watchers -> Nat \ {0}] /\ \A w \in Watchers : at[w] <= Len(Plan[w])
    /\ found \in [Watchers -> Answers \cup {Failed}]
    /\ offers \in [Watchers -> Seq(Sources)]
    /\ serving \in [Scrapers -> {"idle", "waiting", "writing"}]
    /\ client \in [Scrapers -> {"reads", "stalled", "gone"}]
    /\ \A s \in Scrapers : DOMAIN page[s] \in {1..n : n \in 0..Len(Families)}
    /\ done \in [Sources -> [ok : Nat, error : Nat]]
    /\ sent \in [Sources -> Nat]
    /\ ticks \in [Watchers -> Nat] /\ scrapes \in [Scrapers -> Nat]

Init ==
    /\ src = <<>>
    /\ mu = Nobody
    /\ pc = [w \in Watchers |-> "check"]
    /\ at = [w \in Watchers |-> 1]
    /\ found = [w \in Watchers |-> Failed]
    /\ offers = [w \in Watchers |-> <<>>]
    /\ serving = [s \in Scrapers |-> "idle"]
    /\ client = [s \in Scrapers |-> "reads"]
    /\ page = [s \in Scrapers |-> <<>>]
    /\ body = [s \in Scrapers |-> <<>>]
    /\ done = [n \in Sources |-> [ok |-> 0, error |-> 0]]
    /\ sent = [n \in Sources |-> 0]
    /\ ticks = [w \in Watchers |-> 1]
    /\ scrapes = [s \in Scrapers |-> 0]

Goto(w, label) == pc' = [pc EXCEPT ![w] = label]

Polled(w) == Plan[w][at[w]]

-----------------------------------------------------------------------------
(* The watchers *)

\* A source's Check comes back.
CheckReturns(w) ==
    /\ pc[w] = "check"
    /\ \E result \in Answers \cup {Failed} :
          /\ found' = [found EXCEPT ![w] = result]
          /\ done' = IF result = Failed
                     THEN [done EXCEPT ![Polled(w)].error = @ + 1]
                     ELSE [done EXCEPT ![Polled(w)].ok = @ + 1]
    /\ Goto(w, "observe")
    /\ UNCHANGED <<src, mu, at, offers, sent, ticks, scraping>>

\* Mutant: a check without a price keeps the price of the one before.
Reported_KeepsPrice(s, result) ==
    IF result = Failed
    THEN [s EXCEPT !.success = 0, !.checksError = @ + 1]
    ELSE LET stats == AvailStats(result)
         IN  [s EXCEPT !.success = 1, !.checksSuccess = @ + 1,
                       !.available = stats.available, !.stock = stats.stock,
                       !.minPrice = IF stats.minPrice = NoPrice THEN @ ELSE stats.minPrice]

\* The series after a report of result: a failed check keeps the gauges of the
\* one before.
Reported(s, result) ==
    IF result = Failed
    THEN [s EXCEPT !.success = 0, !.checksError = @ + 1]
    ELSE LET stats == AvailStats(result)
         IN  [s EXCEPT !.success = 1, !.checksSuccess = @ + 1,
                       !.available = stats.available, !.stock = stats.stock,
                       !.minPrice = stats.minPrice]

\* The report itself and the way on: the next source, or the offers.
Observe(w) ==
    LET n == Polled(w)
        seen == IF found[w] = Failed THEN <<>> ELSE [i \in DOMAIN found[w] |-> n]
    IN  /\ Put(n, Reported(Get(n), found[w]))
        /\ offers' = [offers EXCEPT ![w] = @ \o seen]
        /\ IF at[w] < Len(Plan[w])
           THEN at' = [at EXCEPT ![w] = @ + 1] /\ Goto(w, "check")
           ELSE at' = [at EXCEPT ![w] = 1] /\ Goto(w, "handle")
        /\ UNCHANGED <<mu, found, done, sent, ticks, scraping>>

\* Mutant: the report does not take the mutex.
ObserveCheck_Unlocked(w) == pc[w] = "observe" /\ Observe(w)

ObserveCheck(w) == pc[w] = "observe" /\ mu = Nobody /\ Observe(w)

\* An alert for the next offer goes out.
NotifyAnswers(w) ==
    /\ pc[w] = "handle" /\ offers[w] # <<>>
    /\ sent' = [sent EXCEPT ![Head(offers[w])] = @ + 1]
    /\ Goto(w, "count")
    /\ UNCHANGED <<src, mu, at, found, offers, done, ticks, scraping>>

\* The next offer is known, or its alert failed.
OfferPasses(w) ==
    /\ pc[w] = "handle" /\ offers[w] # <<>>
    /\ offers' = [offers EXCEPT ![w] = Tail(@)]
    /\ UNCHANGED <<src, mu, pc, at, found, done, sent, ticks, scraping>>

ObserveNotification(w) ==
    /\ pc[w] = "count" /\ mu = Nobody
    /\ LET n == Head(offers[w])
       IN  Put(n, [Get(n) EXCEPT !.notifications = @ + 1])
    /\ offers' = [offers EXCEPT ![w] = Tail(@)]
    /\ Goto(w, "handle")
    /\ UNCHANGED <<mu, at, found, done, sent, ticks, scraping>>

EndTick(w) ==
    /\ pc[w] = "handle" /\ offers[w] = <<>>
    /\ Goto(w, "rest")
    /\ UNCHANGED <<src, mu, at, found, offers, done, sent, ticks, scraping>>

Tick(w) ==
    /\ pc[w] = "rest" /\ ticks[w] < MaxTicks[w]
    /\ ticks' = [ticks EXCEPT ![w] = @ + 1]
    /\ Goto(w, "check")
    /\ UNCHANGED <<src, mu, at, found, offers, done, sent, scraping>>

-----------------------------------------------------------------------------
(* The /metrics handlers; each request has a goroutine of its own *)

Request(s) ==
    /\ serving[s] = "idle" /\ scrapes[s] < MaxScrapes
    /\ scrapes' = [scrapes EXCEPT ![s] = @ + 1]
    /\ serving' = [serving EXCEPT ![s] = "waiting"]
    /\ client' = [client EXCEPT ![s] = "reads"]
    /\ UNCHANGED <<src, mu, watching, page, body>>

\* write takes the mutex.
StartWrite(s) ==
    /\ serving[s] = "waiting" /\ mu = Nobody
    /\ mu' = s
    /\ serving' = [serving EXCEPT ![s] = "writing"]
    /\ page' = [page EXCEPT ![s] = <<>>]
    /\ UNCHANGED <<src, watching, client, body, scrapes>>

\* The next family goes out; errors of Fprintf are ignored.
WriteFamily(s) ==
    /\ serving[s] = "writing" /\ Len(page[s]) < Len(Families)
    /\ client[s] # "stalled"
    /\ page' = [page EXCEPT ![s] = Append(@, Samples(Families[Len(@) + 1]))]
    /\ UNCHANGED <<src, mu, watching, serving, client, body, scrapes>>


\* The deferred Unlock; a client that is gone has no response.
EndWrite(s) ==
    /\ serving[s] = "writing" /\ Len(page[s]) = Len(Families)
    /\ mu' = Nobody
    /\ serving' = [serving EXCEPT ![s] = "idle"]
    /\ body' = IF client[s] = "gone" THEN body ELSE [body EXCEPT ![s] = page[s]]
    /\ UNCHANGED <<src, watching, client, page, scrapes>>

\* The client stops reading, so that the connection blocks; a blocked one
\* reads on or closes; any one may close.
ClientMoves(s) ==
    /\ serving[s] # "idle" /\ client[s] # "gone"
    /\ client' = [client EXCEPT ![s] = IF @ = "reads" THEN "stalled" ELSE "gone"]
    /\ UNCHANGED <<src, mu, watching, serving, page, body, scrapes>>

-----------------------------------------------------------------------------
Watch(w) ==
    \/ CheckReturns(w) \/ ObserveCheck(w)
    \/ NotifyAnswers(w) \/ OfferPasses(w) \/ ObserveNotification(w)
    \/ EndTick(w) \/ Tick(w)

Serve(s) == StartWrite(s) \/ WriteFamily(s) \/ EndWrite(s)

Next ==
    \/ \E w \in Watchers : Watch(w)
    \/ \E s \in Scrapers : Serve(s) \/ Request(s) \/ ClientMoves(s)

Spec == Init /\ [][Next]_vars

\* A watcher or a handler goes on whenever it can, also when the mutex is free only
\* now and then: Go hands it to a waiter that has starved for a millisecond.
\* Nothing is asked of the clients: the server sets no write timeout (main.go:211).
Fairness ==
    /\ \A w \in Watchers : SF_vars(Watch(w))
    /\ \A s \in Scrapers : SF_vars(Serve(s))

FairSpec == Spec /\ Fairness

-----------------------------------------------------------------------------
(* Properties *)

\* What a response has shown so far is what the state holds now, family by
\* family, although it goes out piecemeal while the watchers run: a response
\* shows one instant (metrics.go:84-131).
ResponseIsOneInstant ==
    \A s \in Scrapers : serving[s] = "writing" =>
        \A i \in DOMAIN page[s] : page[s][i] = Samples(Families[i])

\* In every complete response the families agree: an alert was sent only for a
\* source with a successful check, a source that is up was checked, and a price
\* or a stock is shown only next to an offering (monitor.go:92-93, 151, 167).
ResponseAgrees ==
    \A s \in Scrapers : body[s] # <<>> =>
        LET up == body[s][1]  available == body[s][2]  stock == body[s][3]
            price == body[s][4]  checks == body[s][5]  alerts == body[s][6]
        IN  \A n \in DOMAIN up :
              /\ up[n] = 1 \/ alerts[n] > 0 \/ available[n] > 0 => checks[n].success > 0
              /\ n \in DOMAIN price => available[n] > 0
              /\ stock[n] >= available[n]

\* Every check that came back and every alert that was acknowledged is counted
\* once, except those whose watcher still waits for the mutex: also for a source
\* that two products share (metrics.go:53-58, 73).
CountsAreExact ==
    \A n \in Sources :
        LET waiting(result) == Cardinality({w \in Watchers :
                pc[w] = "observe" /\ Polled(w) = n /\ result = (found[w] # Failed)})
            counting == Cardinality({w \in Watchers :
                pc[w] = "count" /\ Head(offers[w]) = n})
        IN  /\ Get(n).checksSuccess + waiting(TRUE) = done[n].ok
            /\ Get(n).checksError + waiting(FALSE) = done[n].error
            /\ Get(n).notifications + counting = sent[n]

\* Whoever holds the mutex for good, its client has stalled in the middle of a
\* response.
Stuck(s) == mu = s /\ serving[s] = "writing" /\ client[s] = "stalled"


\* A product is polled until ctx is cancelled, so a watcher gets past its report
\* (monitor.go:64).  One stalled client is enough to stop it for good.
PollingGoesOn ==
    \A w \in Watchers : pc[w] = "observe" ~> pc[w] # "observe"
=============================================================================
