--------------------------- MODULE StartupProofs ----------------------------
(***************************************************************************)
(* Proofs about Startup for every configuration, with any number of        *)
(* products and sources.                                                   *)
(***************************************************************************)
EXTENDS Startup, TLAPS

\* Validated configurations are all that gets past load.
Passed == config.readable /\ Validate

\* What holds at each stage.
StageOK ==
    /\ config \in Config
    /\ stage \in {"load", "open", "wire", "run", "exited"}
    /\ stage # "exited" => code = -2
    /\ stage \in {"load", "open"} => db = "none" /\ products = <<>> /\ at = 1
    /\ stage \in {"open", "wire", "run"} => Passed
    /\ stage \in {"wire", "run"} => db = "open"
    /\ stage # "run" => watching = {}

\* How far the loop over the products is.
LoopOK ==
    /\ at \in Nat /\ 1 <= at /\ at <= Len(config.products) + 1
    /\ products \in Seq(Watched)
    /\ watching \subseteq DOMAIN products
    /\ stage = "run" => at = Len(config.products) + 1 /\ products # <<>>

\* Each product handed on is one the loop has passed, with what can run of it.
Handed ==
    \A j \in DOMAIN products :
        /\ products[j].of \in 1..(at - 1)
        /\ products[j].interval > 0
        /\ products[j].sources = Runnable(config.products[products[j].of])
        /\ products[j].sources # {}
        /\ products[j].asks =
              products[j].sources \ config.products[products[j].of].empty

\* Each product passed was handed on, if anything of it can run, and once.
Passing ==
    /\ \A i \in 1..(at - 1) : Runnable(config.products[i]) # {} =>
          \E j \in DOMAIN products : products[j].of = i
    /\ \A i, j \in DOMAIN products : products[i].of = products[j].of => i = j

\* Watchers stop after the signal only.
Stopping == stage = "run" /\ watching # DOMAIN products => cancelled

\* The inductive invariant.
StartupInv == StageOK /\ LoopOK /\ Handed /\ Passing /\ Stopping /\ ExitTellsWhy

-----------------------------------------------------------------------------
\* The products of a configuration are a sequence of products.
LEMMA ConfigProducts ==
    ASSUME config \in Config
    PROVE  /\ config.products \in Seq(Product) /\ Len(config.products) \in Nat
           /\ DOMAIN config.products = 1..Len(config.products)
           /\ \A i \in DOMAIN config.products : config.products[i] \in Product
BY DEF Config

\* What can run of a product is what Unusable says cannot all be missing.
LEMMA RunnableSources ==
    \A p : Runnable(p) = {} <=>
        p.sources \subseteq (IF config.solver THEN {} ELSE {"bauhausStore"})
BY DEF Runnable

\* The invariant holds at start.
LEMMA StartupInit == Init => StartupInv
<1> SUFFICES ASSUME Init PROVE StartupInv
  OBVIOUS
<1>1. config \in Config
  BY StartupAssumption DEF Init
<1>2. StageOK
  BY <1>1 DEF Init, StageOK
<1>3. LoopOK
  BY <1>1, ConfigProducts DEF Init, LoopOK
<1>4. Handed /\ Passing
  BY DEF Init, Handed, Passing
<1>5. Stopping /\ ExitTellsWhy
  BY DEF Init, Stopping, ExitTellsWhy
<1> QED  BY <1>2, <1>3, <1>4, <1>5 DEF StartupInv

\* An exit keeps what the loop has done; it has to be explained.
LEMMA ExitKeeps ==
    ASSUME StartupInv, stage' = "exited", watching = {}, ExitTellsWhy',
           UNCHANGED <<config, at, products, watching>>
    PROVE  StartupInv'
<1>1. StageOK' /\ Stopping'
  BY DEF StartupInv, StageOK, Stopping
<1>2. LoopOK' /\ Handed' /\ Passing'
  BY DEF StartupInv, LoopOK, Handed, Passing, Runnable
<1> QED  BY <1>1, <1>2 DEF StartupInv

\* A rejected configuration is unusable.
LEMMA LoadKeeps ==
    ASSUME StartupInv, LoadConfig  PROVE StartupInv'
<1>1. stage = "load" /\ code = -2
      /\ UNCHANGED <<config, db, at, products, watching, cancelled>>
  BY DEF LoadConfig, StartupInv, StageOK
<1>2. CASE Passed
  <2>1. stage' = "open" /\ UNCHANGED code
    BY <1>2 DEF LoadConfig, Passed
  <2>2. StageOK' /\ Stopping'
    BY <1>1, <1>2, <2>1 DEF StartupInv, StageOK, Stopping, Passed, Validate
  <2>3. LoopOK' /\ Handed' /\ Passing'
    BY <1>1, <2>1 DEF StartupInv, LoopOK, Handed, Passing, Runnable
  <2>4. ExitTellsWhy'
    BY <1>1, <2>1 DEF ExitTellsWhy
  <2> QED  BY <2>2, <2>3, <2>4 DEF StartupInv
<1>3. CASE ~Passed
  <2>1. stage' = "exited" /\ code' = 2
    BY <1>3 DEF LoadConfig, Exit, Passed
  <2>2. config \in Config
    BY DEF StartupInv, StageOK
  <2>3. Unusable
    <3>1. CASE ~config.readable \/ ~config.secrets
      BY <3>1 DEF Unusable
    <3>2. CASE config.products = <<>>
      BY <3>2 DEF Unusable
    <3>3. CASE \E i \in DOMAIN config.products : ~(config.products[i].interval > 0)
      BY <3>3, <2>2, ConfigProducts DEF Unusable, Product
    <3> QED  BY <1>3, <3>1, <3>2, <3>3 DEF Passed, Validate
  <2>4. ExitTellsWhy'
    BY <1>1, <2>1, <2>3 DEF ExitTellsWhy, Unusable
  <2>5. watching = {}
    BY <1>1 DEF StartupInv, StageOK
  <2> QED  BY <1>1, <2>1, <2>4, <2>5, ExitKeeps
<1> QED  BY <1>2, <1>3

LEMMA OpenKeeps ==
    ASSUME StartupInv, OpenStore  PROVE StartupInv'
<1>1. stage = "open" /\ stage' = "wire" /\ db' = "open" /\ code = -2
      /\ UNCHANGED <<config, code, at, products, watching, cancelled>>
  BY DEF OpenStore, StartupInv, StageOK
<1>2. StageOK' /\ Stopping'
  BY <1>1 DEF StartupInv, StageOK, Stopping, Passed, Validate
<1>3. LoopOK' /\ Handed' /\ Passing'
  BY <1>1 DEF StartupInv, LoopOK, Handed, Passing, Runnable
<1>4. ExitTellsWhy'
  BY <1>1 DEF ExitTellsWhy
<1> QED  BY <1>2, <1>3, <1>4 DEF StartupInv

LEMMA OpenFailsKeeps ==
    ASSUME StartupInv, OpenStoreFails  PROVE StartupInv'
<1>1. stage = "open" /\ stage' = "exited" /\ code' = 1 /\ db = "none"
      /\ watching = {}
      /\ UNCHANGED <<config, db, at, products, watching, cancelled>>
  BY DEF OpenStoreFails, Exit, StartupInv, StageOK
<1>2. ExitTellsWhy'
  BY <1>1 DEF ExitTellsWhy
<1> QED  BY <1>1, <1>2, ExitKeeps

\* The next product: handed on, or without anything that can run.
LEMMA WireKeeps ==
    ASSUME StartupInv, WireProduct  PROVE StartupInv'
<1> DEFINE p == config.products[at]
           w == [of |-> at, interval |-> p.interval,
                 cap |-> EffectivePriceMax(p), sources |-> Runnable(p),
                 asks |-> Runnable(p) \ p.empty]
<1>1. stage = "wire" /\ at <= Len(config.products) /\ at' = at + 1
      /\ UNCHANGED <<config, stage, code, db, watching, cancelled>>
  BY DEF WireProduct
<1>2. config \in Config /\ config.priceMax \in Int /\ Passed
      /\ watching = {} /\ products \in Seq(Watched) /\ at \in Nat /\ 1 <= at
  BY <1>1 DEF StartupInv, StageOK, LoopOK, Config
<1>3. at \in DOMAIN config.products /\ p \in Product
  BY <1>1, <1>2, ConfigProducts
<1>4. p.interval > 0
  BY <1>2, <1>3 DEF Passed, Validate
<1>5. StageOK' /\ Stopping' /\ ExitTellsWhy'
  BY <1>1 DEF StartupInv, StageOK, Stopping, ExitTellsWhy, Passed, Validate, Unusable
<1>6. \A i : Runnable(i)' = Runnable(i)
  BY <1>1 DEF Runnable
<1>7. CASE Runnable(p) # {}
  <2>1. products' = Append(products, w)
    BY <1>7 DEF WireProduct, Accepted
  <2>2. w \in Watched
    BY <1>2, <1>3 DEF Product, Watched, EffectivePriceMax, Runnable
  <2> HIDE DEF w
  <2>3. products' \in Seq(Watched) /\ Len(products') = Len(products) + 1
        /\ DOMAIN products' = DOMAIN products \cup {Len(products) + 1}
        /\ products'[Len(products) + 1] = w
        /\ \A j \in DOMAIN products : products'[j] = products[j]
                                      /\ j # Len(products) + 1
    BY <1>2, <2>1, <2>2
  <2>4. w.of = at /\ w.interval > 0 /\ w.sources = Runnable(p)
        /\ w.asks = w.sources \ p.empty
    BY <1>4 DEF w
  <2>5. LoopOK'
    BY <1>1, <1>2, <2>3, ConfigProducts DEF LoopOK
  <2>6. Handed'
    <3> SUFFICES ASSUME NEW j \in DOMAIN products'
                 PROVE  /\ products'[j].of \in 1..at
                        /\ products'[j].interval > 0
                        /\ products'[j].sources =
                              Runnable(config.products[products'[j].of])
                        /\ products'[j].sources # {}
                        /\ products'[j].asks = products'[j].sources
                              \ config.products[products'[j].of].empty
      BY <1>1, <1>2, <1>6 DEF Handed
    <3>1. CASE j = Len(products) + 1
      BY <1>2, <1>7, <2>3, <2>4, <3>1
    <3>2. CASE j \in DOMAIN products
      BY <1>2, <2>3, <3>2 DEF StartupInv, Handed
    <3> QED  BY <2>3, <3>1, <3>2
  <2>7. \A j \in DOMAIN products : products[j].of < at
    BY <1>2 DEF StartupInv, Handed
  <2>8. \A i \in 1..at : Runnable(config.products[i]) # {} =>
            \E j \in DOMAIN products' : products'[j].of = i
    <3> SUFFICES ASSUME NEW i \in 1..at, Runnable(config.products[i]) # {}
                 PROVE  \E j \in DOMAIN products' : products'[j].of = i
      OBVIOUS
    <3>1. CASE i = at
      BY <2>3, <2>4, <3>1
    <3>2. CASE i \in 1..(at - 1)
      <4>1. PICK j \in DOMAIN products : products[j].of = i
        BY <3>2 DEF StartupInv, Passing
      <4> QED  BY <2>3, <4>1
    <3> QED  BY <1>2, <3>1, <3>2
  <2>9. \A i, j \in DOMAIN products' : products'[i].of = products'[j].of => i = j
    <3> SUFFICES ASSUME NEW i \in DOMAIN products', NEW j \in DOMAIN products',
                        products'[i].of = products'[j].of
                 PROVE  i = j
      OBVIOUS
    <3>1. CASE i \in DOMAIN products /\ j \in DOMAIN products
      BY <2>3, <3>1 DEF StartupInv, Passing
    <3>2. CASE i = Len(products) + 1 \/ j = Len(products) + 1
      <4>1. \A k \in DOMAIN products : products'[k].of # at
        BY <1>2, <2>3, <2>7 DEF StartupInv, Handed
      <4>2. products'[i].of = at /\ products'[j].of = at
        BY <2>3, <2>4, <3>2
      <4> QED  BY <2>3, <4>1, <4>2
    <3> QED  BY <2>3, <3>1, <3>2
  <2>10. Passing'
    <3>1. 1..(at' - 1) = 1..at
      BY <1>1, <1>2
    <3> QED  BY <1>1, <1>6, <2>8, <2>9, <3>1, Zenon DEF Passing
  <2> QED  BY <1>5, <2>5, <2>6, <2>10 DEF StartupInv
<1>8. CASE Runnable(p) = {}
  <2>1. UNCHANGED products
    BY <1>8 DEF WireProduct, Accepted
  <2>2. LoopOK'
    BY <1>1, <1>2, <2>1, ConfigProducts DEF StartupInv, LoopOK
  <2>3. Handed'
    BY <1>1, <1>2, <1>6, <2>1 DEF StartupInv, Handed
  <2>4. \A i \in 1..at : i = at \/ i \in 1..(at - 1)
    BY <1>2
  <2>5. Passing'
    <3>1. 1..(at' - 1) = 1..at
      BY <1>1, <1>2
    <3>2. \A i \in 1..at : Runnable(config.products[i]) # {} =>
              \E j \in DOMAIN products : products[j].of = i
      BY <1>8, <2>4 DEF StartupInv, Passing
    <3> QED  BY <1>1, <1>6, <2>1, <3>1, <3>2, Zenon DEF StartupInv, Passing
  <2> QED  BY <1>5, <2>2, <2>3, <2>5 DEF StartupInv
<1> QED  BY <1>7, <1>8

\* Nothing was handed on: nothing that is listed can run.
LEMMA NothingKeeps ==
    ASSUME StartupInv, NothingToWatch  PROVE StartupInv'
<1>1. /\ stage = "wire" /\ at > Len(config.products) /\ products = <<>>
      /\ stage' = "exited" /\ code' = 2 /\ watching = {}
      /\ UNCHANGED <<config, db, at, products, watching, cancelled>>
  BY DEF NothingToWatch, Wired, Exit, StartupInv, StageOK
<1>2. config \in Config /\ at \in Nat
  BY DEF StartupInv, StageOK, LoopOK
<1>3. \A i \in DOMAIN config.products : Runnable(config.products[i]) = {}
  <2>1. \A i \in DOMAIN config.products : i \in 1..(at - 1)
    BY <1>1, <1>2, ConfigProducts
  <2> QED  BY <1>1, <2>1 DEF StartupInv, Passing
<1>4. Unusable
  BY <1>3, RunnableSources DEF Unusable
<1>5. ExitTellsWhy'
  BY <1>1, <1>4 DEF ExitTellsWhy, Unusable
<1> QED  BY <1>1, <1>5, ExitKeeps

\* A validated configuration with a product handed on is usable.
LEMMA RunnableIsUsable ==
    ASSUME StartupInv, stage \in {"wire", "run"}, products # <<>>
    PROVE  ~Unusable
<1>1. config \in Config /\ Passed /\ products \in Seq(Watched)
      /\ at \in Nat /\ at <= Len(config.products) + 1
  BY DEF StartupInv, StageOK, LoopOK
<1>2. 1 \in DOMAIN products
  BY <1>1
<1>3. products[1].of \in 1..(at - 1)
      /\ Runnable(config.products[products[1].of]) # {}
  BY <1>2 DEF StartupInv, Handed
<1>4. products[1].of \in DOMAIN config.products
  BY <1>1, <1>3, ConfigProducts
<1>5. \A i \in DOMAIN config.products : ~(config.products[i].interval <= 0)
  BY <1>1, ConfigProducts DEF Passed, Validate, Product
<1> QED  BY <1>1, <1>3, <1>4, <1>5, RunnableSources DEF Unusable, Passed, Validate

LEMMA RunKeeps ==
    ASSUME StartupInv, Run  PROVE StartupInv'
<1>1. /\ stage = "wire" /\ at > Len(config.products) /\ products # <<>>
      /\ stage' = "run" /\ watching' = DOMAIN products /\ code = -2
      /\ UNCHANGED <<config, code, db, at, products, cancelled>>
  BY DEF Run, Wired, StartupInv, StageOK
<1>2. StageOK' /\ Stopping'
  BY <1>1 DEF StartupInv, StageOK, Stopping, Passed, Validate
<1>3. LoopOK'
  BY <1>1, ConfigProducts DEF StartupInv, StageOK, LoopOK
<1>4. Handed' /\ Passing'
  BY <1>1 DEF StartupInv, Handed, Passing, Runnable
<1>5. ExitTellsWhy'
  BY <1>1, RunnableIsUsable DEF ExitTellsWhy, Unusable
<1> QED  BY <1>2, <1>3, <1>4, <1>5 DEF StartupInv

LEMMA StopKeeps ==
    ASSUME StartupInv, NEW i \in watching, WatcherStops(i)  PROVE StartupInv'
<1>1. /\ cancelled /\ watching' = watching \ {i}
      /\ UNCHANGED <<config, stage, code, db, at, products, cancelled>>
  BY DEF WatcherStops
<1>2. stage = "run"
  BY DEF StartupInv, StageOK
<1>3. StageOK' /\ Stopping'
  BY <1>1, <1>2 DEF StartupInv, StageOK, Stopping, Passed, Validate
<1>4. LoopOK' /\ Handed' /\ Passing'
  BY <1>1 DEF StartupInv, LoopOK, Handed, Passing, Runnable
<1>5. ExitTellsWhy'
  BY <1>1, <1>2 DEF StartupInv, StageOK, ExitTellsWhy, Unusable
<1> QED  BY <1>3, <1>4, <1>5 DEF StartupInv

\* Every watcher has stopped, and there was one: the signal has come.
LEMMA ReturnKeeps ==
    ASSUME StartupInv, RunReturns  PROVE StartupInv'
<1>1. /\ stage = "run" /\ watching = {} /\ db' = "closed"
      /\ stage' = "exited" /\ code' = 0
      /\ UNCHANGED <<config, at, products, watching, cancelled>>
  BY DEF RunReturns, Exit
<1>2. DOMAIN products # {}
  <2>1. products \in Seq(Watched) /\ products # <<>>
    BY <1>1 DEF StartupInv, LoopOK
  <2> QED  BY <2>1
<1>3. cancelled
  BY <1>1, <1>2 DEF StartupInv, Stopping
<1>4. ~Unusable
  BY <1>1, RunnableIsUsable DEF StartupInv, LoopOK
<1>5. ExitTellsWhy'
  BY <1>1, <1>3, <1>4 DEF ExitTellsWhy, Unusable
<1> QED  BY <1>1, <1>5, ExitKeeps

LEMMA SignalKeeps ==
    ASSUME StartupInv, Signal  PROVE StartupInv'
<1>1. UNCHANGED <<config, db, at, products, watching>> /\ stage # "exited"
  BY DEF Signal
<1>2. CASE stage = "load"
  <2>1. stage' = "exited" /\ code' = -1 /\ watching = {}
    BY <1>2 DEF Signal, Exit, StartupInv, StageOK
  <2>2. ExitTellsWhy'
    BY <2>1 DEF ExitTellsWhy
  <2> QED  BY <1>1, <2>1, <2>2, ExitKeeps
<1>3. CASE stage # "load"
  <2>1. cancelled' = TRUE /\ UNCHANGED <<stage, code>>
    BY <1>3 DEF Signal
  <2>2. StageOK' /\ Stopping'
    BY <1>1, <2>1 DEF StartupInv, StageOK, Stopping, Passed, Validate
  <2>3. LoopOK' /\ Handed' /\ Passing'
    BY <1>1, <2>1 DEF StartupInv, LoopOK, Handed, Passing, Runnable
  <2>4. code = -2
    BY <1>1 DEF StartupInv, StageOK
  <2>5. ExitTellsWhy'
    BY <1>1, <2>1, <2>4 DEF StartupInv, ExitTellsWhy, Unusable
  <2> QED  BY <2>2, <2>3, <2>5 DEF StartupInv
<1> QED  BY <1>2, <1>3

\* The metrics server, or nothing, changes nothing the invariant speaks of.
LEMMA StillKeeps ==
    ASSUME StartupInv, ServeMetrics \/ UNCHANGED vars  PROVE StartupInv'
<1>1. UNCHANGED <<config, stage, code, db, at, products, watching, cancelled>>
  BY DEF ServeMetrics, vars
<1>2. StageOK' /\ Stopping'
  BY <1>1 DEF StartupInv, StageOK, Stopping, Passed, Validate
<1>3. LoopOK' /\ Handed' /\ Passing'
  BY <1>1 DEF StartupInv, LoopOK, Handed, Passing, Runnable
<1>4. ExitTellsWhy'
  BY <1>1 DEF StartupInv, ExitTellsWhy, Unusable
<1> QED  BY <1>2, <1>3, <1>4 DEF StartupInv

\* The inductive invariant holds in every reachable state.
THEOREM StartupInductive == Spec => []StartupInv
<1>1. StartupInv /\ [Next]_vars => StartupInv'
  BY LoadKeeps, OpenKeeps, OpenFailsKeeps, WireKeeps, NothingKeeps, RunKeeps,
     StopKeeps, ReturnKeeps, SignalKeeps, StillKeeps
  DEF Next, Main
<1> QED  BY <1>1, StartupInit, PTL DEF Spec

\* The exit status tells why the process ended (main.go:32, 43, 199, 203-204).
THEOREM StatusTellsWhy == Spec => []ExitTellsWhy
<1>1. StartupInv => ExitTellsWhy
  BY DEF StartupInv
<1> QED  BY <1>1, StartupInductive, PTL

\* Every watcher has a positive interval and a source, and one to ask unless all its
\* lists are empty, whatever the configuration (monitor.go:70, 115-128).
THEOREM SoundWatchers == Spec => []WatchersAreSound
<1>1. StartupInv => WatchersAreSound
  BY DEF StartupInv, LoopOK, Handed, WatchersAreSound
<1> QED  BY <1>1, StartupInductive, PTL

\* Whatever is listed with something to ask and can run is asked (README.md:31-32).
THEOREM NothingSkipped == Spec => []ListedIsPolled
<1>1. StartupInv => ListedIsPolled
  <2> SUFFICES ASSUME StartupInv, stage = "run"
               PROVE  \A i \in DOMAIN config.products :
                        \A key \in config.products[i].sources
                                   \ config.products[i].empty :
                          \/ key = "bauhausStore" /\ ~config.solver
                          \/ \E j \in DOMAIN products :
                                products[j].of = i /\ key \in products[j].asks
    BY DEF ListedIsPolled, StartupInv, Passing
  <2> SUFFICES ASSUME NEW i \in DOMAIN config.products,
                      NEW key \in config.products[i].sources \ config.products[i].empty,
                      ~(key = "bauhausStore" /\ ~config.solver)
               PROVE  \E j \in DOMAIN products :
                          products[j].of = i /\ key \in products[j].asks
    OBVIOUS
  <2>1. key \in Runnable(config.products[i])
    BY DEF Runnable
  <2>2. i \in 1..(at - 1)
    BY ConfigProducts DEF StartupInv, StageOK, LoopOK
  <2>3. PICK j \in DOMAIN products : products[j].of = i
    BY <2>1, <2>2 DEF StartupInv, Passing
  <2> QED  BY <2>1, <2>3 DEF StartupInv, Handed
<1> QED  BY <1>1, StartupInductive, PTL

\* The database is open as long as a watcher runs (main.go:45, 203).
THEOREM StoreOpenForWatchers == Spec => []StoreOutlivesWatchers
<1>1. StartupInv => StoreOutlivesWatchers
  BY DEF StartupInv, StageOK, StoreOutlivesWatchers
<1> QED  BY <1>1, StartupInductive, PTL

\* Every variable keeps its type, and main has a status if and only if it exited.
THEOREM StartupTypes == Spec => []TypeOK
<1> DEFINE Exits == code \in -2..2 /\ (stage = "exited" <=> code # -2)
           Kept == /\ config \in Configs
                   /\ db \in {"none", "open", "closed"}
                   /\ metrics \in {"none", "starting", "serving", "down"}
           Bool == cancelled \in BOOLEAN
<1>1. Init => Exits /\ Kept
  BY DEF Init
<1>2. Init => Bool
  BY Zenon DEF Init
<1>3. ASSUME StageOK, Exits, [Next]_vars  PROVE Exits'
  <2>1. ASSUME UNCHANGED <<stage, code>>  PROVE Exits'
    BY <1>3, <2>1
  <2>2. ASSUME stage # "exited", stage' # "exited", UNCHANGED code  PROVE Exits'
    BY <1>3, <2>2
  <2>3. ASSUME NEW s \in {-1, 0, 1, 2}, Exit(s)  PROVE Exits'
    BY <2>3 DEF Exit
  <2>4. CASE LoadConfig  BY <1>3, <2>2, <2>3, <2>4 DEF LoadConfig
  <2>5. CASE OpenStore  BY <2>2, <2>5 DEF OpenStore
  <2>6. CASE OpenStoreFails  BY <2>3, <2>6 DEF OpenStoreFails
  <2>7. CASE NothingToWatch  BY <2>3, <2>7 DEF NothingToWatch
  <2>8. CASE Run  BY <2>2, <2>8 DEF Run, Wired
  <2>9. CASE RunReturns  BY <2>3, <2>9 DEF RunReturns
  <2>10. CASE Signal  BY <2>1, <2>3, <2>10 DEF Signal
  <2>11. CASE WireProduct \/ ServeMetrics \/ (\E i \in watching : WatcherStops(i))
    BY <2>1, <2>11 DEF WireProduct, ServeMetrics, WatcherStops
  <2>12. CASE UNCHANGED vars  BY <2>1, <2>12 DEF vars
  <2> QED
    BY <1>3, <2>4, <2>5, <2>6, <2>7, <2>8, <2>9, <2>10, <2>11, <2>12 DEF Next, Main
<1>4. ASSUME Kept, [Next]_vars  PROVE Kept'
  BY <1>4 DEF Next, Main, LoadConfig, OpenStore, OpenStoreFails, WireProduct,
     NothingToWatch, Run, RunReturns, ServeMetrics, Signal, WatcherStops, vars
<1>5. ASSUME Bool, [Next]_vars  PROVE Bool'
  <2>1. cancelled' = cancelled \/ cancelled' = TRUE
    BY <1>5, Zenon DEF Next, Main, LoadConfig, OpenStore, OpenStoreFails,
       WireProduct, NothingToWatch, Run, RunReturns, ServeMetrics, Signal,
       WatcherStops, vars
  <2> QED  BY <1>5, <2>1, Zenon
<1>6. StartupInv => StageOK
  BY DEF StartupInv
<1>7. StartupInv => at \in 1..(Len(config.products) + 1)
  BY ConfigProducts DEF StartupInv, StageOK, LoopOK
<1>8. StartupInv /\ Exits /\ Kept /\ Bool => TypeOK
  BY <1>7, Zenon DEF StartupInv, StageOK, LoopOK, TypeOK
<1> QED
  BY <1>1, <1>2, <1>3, <1>4, <1>5, <1>6, <1>8, StartupInductive, PTL DEF Spec
=============================================================================
