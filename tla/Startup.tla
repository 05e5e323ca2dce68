------------------------------ MODULE Startup -------------------------------
(***************************************************************************)
(* The life of the process (cmd/product-monitor/main.go): load and         *)
(* validate the configuration (internal/config), open the database, start  *)
(* the metrics server, give every product its sources, run the watchers    *)
(* until SIGTERM, close the database.  What the watchers do meanwhile is   *)
(* module Monitor; which products they get, with which interval and price  *)
(* cap, is decided here.                                                   *)
(*                                                                         *)
(* All sources are alike here except bauhausStore, which cannot run        *)
(* without FlareSolverr.                                                   *)
(***************************************************************************)
EXTENDS Integers, Sequences, FiniteSets

CONSTANTS
    SourceKeys,     \* the keys a product can list under "sources"
    Configs         \* the configurations considered

\* empty: the sources listed without a single page, product or store to ask about.
Product == [interval : Int, priceMax : Int,
            sources : SUBSET SourceKeys, empty : SUBSET SourceKeys]

\* readable: the file exists, is YAML and its durations parse.
Config == [readable : BOOLEAN, secrets : BOOLEAN, solver : BOOLEAN,
           priceMax : Int, products : Seq(Product)]

ASSUME StartupAssumption ==
    /\ "bauhausStore" \in SourceKeys
    /\ Configs \subseteq Config

VARIABLES
    config,         \* the file and the environment the process finds
    stage,          \* "load", "open", "wire", "run" or "exited"
    code,           \* how it exited: a status, -1 killed by a signal, -2 not yet
    db,             \* "none", "open" or "closed"
    metrics,        \* the metrics server: "none", "starting", "serving", "down"
    at,             \* the configured product wired next
    products,       \* the products handed to the monitor
    watching,       \* the watchers that run: indices of products
    cancelled       \* ctx is cancelled

vars == <<config, stage, code, db, metrics, at, products, watching, cancelled>>

\* asks: the sources whose Check asks anything; the others answer "nothing".
Watched == [of : Nat, interval : Int, cap : Int,
            sources : SUBSET SourceKeys, asks : SUBSET SourceKeys]

TypeOK ==
    /\ config \in Configs
    /\ stage \in {"load", "open", "wire", "run", "exited"}
    /\ code \in -2..2 /\ (stage = "exited" <=> code # -2)
    /\ db \in {"none", "open", "closed"}
    /\ metrics \in {"none", "starting", "serving", "down"}
    /\ at \in 1..(Len(config.products) + 1)
    /\ products \in Seq(Watched)
    /\ watching \subseteq DOMAIN products
    /\ cancelled \in BOOLEAN

Init ==
    /\ config \in Configs
    /\ stage = "load" /\ code = -2
    /\ db = "none" /\ metrics = "none"
    /\ at = 1 /\ products = <<>> /\ watching = {}
    /\ cancelled = FALSE

\* Mutant: main returns instead of calling os.Exit.
Exit_NoStatus(status) == stage' = "exited" /\ UNCHANGED code

Exit(status) == stage' = "exited" /\ code' = status

-----------------------------------------------------------------------------
\* Mutant: the interval is not checked.
Validate_AnyInterval == config.secrets /\ config.products # <<>>

\* validate: the secrets, at least one product, and a positive interval each.
Validate ==
    /\ config.secrets
    /\ config.products # <<>>
    /\ \A i \in DOMAIN config.products : config.products[i].interval > 0

LoadConfig ==
    /\ stage = "load"
    /\ IF config.readable /\ Validate THEN stage' = "open" /\ UNCHANGED code
                                      ELSE Exit(2)
    /\ UNCHANGED <<config, db, metrics, at, products, watching, cancelled>>

\* store.Open succeeds; it takes no notice of ctx.  The metrics server is
\* started next, in a goroutine of its own.
OpenStore ==
    /\ stage = "open"
    /\ db' = "open" /\ metrics' = "starting" /\ stage' = "wire"
    /\ UNCHANGED <<config, code, at, products, watching, cancelled>>

OpenStoreFails ==
    /\ stage = "open"
    /\ Exit(1)
    /\ UNCHANGED <<config, db, metrics, at, products, watching, cancelled>>

\* It serves, or the address is taken, which is logged and no more.
ServeMetrics ==
    /\ metrics = "starting" /\ stage # "exited"
    /\ metrics' \in {"serving", "down"}
    /\ UNCHANGED <<config, stage, code, db, at, products, watching, cancelled>>

\* The product's own cap, or the global one.
EffectivePriceMax(p) == IF p.priceMax > 0 THEN p.priceMax ELSE config.priceMax

\* The sources of p that can run.
Runnable(p) == IF config.solver THEN p.sources ELSE p.sources \ {"bauhausStore"}

\* Mutant: a product without sources is handed on.
Accepted_Empty(p) == TRUE

\* Mutant: one source that cannot run takes its product with it.
Accepted_AllOrNothing(p) == Runnable(p) # {} /\ Runnable(p) = p.sources

\* A product without sources is skipped; what a source is to ask is not looked at.
Accepted(p) == Runnable(p) # {}

WireProduct ==
    /\ stage = "wire" /\ at <= Len(config.products)
    /\ at' = at + 1
    /\ LET p == config.products[at]
       IN  products' = IF Accepted(p)
                       THEN Append(products, [of |-> at, interval |-> p.interval,
                               cap |-> EffectivePriceMax(p), sources |-> Runnable(p),
                               asks |-> Runnable(p) \ p.empty])
                       ELSE products
    /\ UNCHANGED <<config, stage, code, db, metrics, watching, cancelled>>

\* Mutant: the metrics server is not started in a goroutine of its own.
Wired_ServesFirst == stage = "wire" /\ at > Len(config.products) /\ metrics = "down"

Wired == stage = "wire" /\ at > Len(config.products)

NothingToWatch ==
    /\ Wired /\ products = <<>>
    /\ Exit(2)
    /\ UNCHANGED <<config, db, metrics, at, products, watching, cancelled>>

\* Run starts a watcher per product.
Run ==
    /\ Wired /\ products # <<>>
    /\ stage' = "run"
    /\ watching' = DOMAIN products
    /\ UNCHANGED <<config, code, db, metrics, at, products, cancelled>>

WatcherStops(i) ==
    /\ i \in watching /\ cancelled
    /\ watching' = watching \ {i}
    /\ UNCHANGED <<config, stage, code, db, metrics, at, products, cancelled>>

\* Mutant: Run returns with ctx and does not wait for the watchers.
RunReturns_NoWait ==
    /\ stage = "run" /\ cancelled
    /\ db' = "closed" /\ Exit(0)
    /\ UNCHANGED <<config, metrics, at, products, watching, cancelled>>

\* Run has waited for every watcher; the deferred Close follows.
RunReturns ==
    /\ stage = "run" /\ watching = {}
    /\ db' = "closed" /\ Exit(0)
    /\ UNCHANGED <<config, metrics, at, products, watching, cancelled>>

\* SIGINT or SIGTERM: until NotifyContext it kills the process, then it cancels
\* ctx, then it is ignored.
Signal ==
    /\ stage # "exited" /\ ~cancelled
    /\ IF stage = "load" THEN Exit(-1) /\ UNCHANGED cancelled
                         ELSE cancelled' = TRUE /\ UNCHANGED <<stage, code>>
    /\ UNCHANGED <<config, db, metrics, at, products, watching>>

-----------------------------------------------------------------------------
Main ==
    \/ LoadConfig \/ OpenStore \/ OpenStoreFails
    \/ WireProduct \/ NothingToWatch \/ Run \/ RunReturns

Next ==
    \/ Main \/ ServeMetrics \/ Signal
    \/ \E i \in watching : WatcherStops(i)

Spec == Init /\ [][Next]_vars

\* main goes on; a cancelled watcher stops at last (CancelStops of Monitor), unless
\* its report waits behind a stalled client of /metrics (module Metrics), which is
\* left out here.  The metrics server may take for ever to start or to fail.
FairSpec ==
    Spec /\ WF_vars(Main) /\ WF_vars(\E i \in watching : WatcherStops(i))

-----------------------------------------------------------------------------
(* Properties *)

\* The configurations that cannot be run, as a reader of the README would say:
\* no file, no secrets, a product without a positive interval, or no source listed
\* that can run.
Unusable ==
    \/ ~config.readable \/ ~config.secrets
    \/ \E i \in DOMAIN config.products : config.products[i].interval <= 0
    \/ \A i \in DOMAIN config.products :
          config.products[i].sources \subseteq
              IF config.solver THEN {} ELSE {"bauhausStore"}

\* The exit status tells why: 2 the configuration and only that, 1 the database,
\* 0 a signal that let every watcher finish (main.go:32, 43, 199, 203-204).
ExitTellsWhy ==
    /\ stage = "run" \/ code = 0 => ~Unusable
    /\ code = 2 => Unusable
    /\ code = 1 => db = "none"
    /\ code = 0 => cancelled /\ db = "closed" /\ watching = {}

\* What the monitor relies on: every watcher has a positive interval, or its
\* ticker panics (monitor.go:70), and a source, or each of its ticks would find
\* nothing and delete all rows of its product (monitor.go:115-128).  Where all its
\* sources have empty lists that still happens: nothing looks at the lists.
WatchersAreSound ==
    \A i \in watching :
        /\ products[i].interval > 0 /\ products[i].sources # {}
        /\ products[i].asks = {} =>
              products[i].sources \subseteq config.products[products[i].of].empty

\* Every source listed under a product with something to ask is asked for it, by one
\* watcher and under one cap, except bauhausStore without FlareSolverr
\* (README.md:31-32 "A source runs only if it is listed under a product").
ListedIsPolled ==
    stage = "run" =>
        /\ \A i, j \in DOMAIN products : products[i].of = products[j].of => i = j
        /\ \A i \in DOMAIN config.products :
           \A key \in config.products[i].sources \ config.products[i].empty :
              \/ key = "bauhausStore" /\ ~config.solver
              \/ \E j \in DOMAIN products :
                    products[j].of = i /\ key \in products[j].asks

\* The database is open as long as a watcher runs, also while the process shuts
\* down: a tick in progress can still commit its row (main.go:45, 203).
StoreOutlivesWatchers ==
    watching # {} => db = "open"

\* A usable configuration and an open database lead to watchers, whatever becomes
\* of the metrics server (main.go:50).
UsableIsWatched ==
    db = "open" /\ ~Unusable ~> watching # {} \/ cancelled

\* After SIGTERM the process ends, wherever it was, given that no client of
\* /metrics holds up a watcher (main.go:37-38, 203).
SignalEnds == cancelled ~> stage = "exited"
=============================================================================
