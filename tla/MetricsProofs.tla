--------------------------- MODULE MetricsProofs ----------------------------
(***************************************************************************)
(* Proofs about Metrics for any watchers, sources, answers and scrapers:   *)
(* what the mutex buys, that nothing is lost or counted twice, and that    *)
(* the families of a response agree.  What a sum over the offers is for    *)
(* every answer is shown by its least counterexample.                      *)
(***************************************************************************)
EXTENDS Metrics, FiniteSetTheorems, SequenceTheorems, WellFoundedInduction, TLAPS

\* The functions of the handlers have one entry per scraper.
HandlersOK ==
    /\ serving \in [Scrapers -> {"idle", "waiting", "writing"}]
    /\ mu \in Scrapers \cup {Nobody}
    /\ DOMAIN page = Scrapers

\* The holder of the mutex is the one handler that writes.
LockHeld == \A s \in Scrapers : serving[s] = "writing" <=> mu = s

\* The samples a response can show now.
Outputs == {Samples(Families[i]) : i \in 1..Len(Families)}

\* A response under way is a sequence of what the state holds.
PageMade == \A s \in Scrapers : serving[s] = "writing" => page[s] \in Seq(Outputs)

\* The inductive invariant.
MutexInv == HandlersOK /\ LockHeld /\ PageMade /\ ResponseIsOneInstant

-----------------------------------------------------------------------------
\* Holding the mutex excludes every other handler, and Nobody excludes all.
LEMMA OneWriter ==
    ASSUME LockHeld
    PROVE  /\ mu = Nobody => \A s \in Scrapers : serving[s] # "writing"
           /\ \A r, s \in Scrapers :
                  serving[r] = "writing" /\ serving[s] = "writing" => r = s
BY MetricsAssumption DEF LockHeld

\* The samples depend on nothing but the series.
LEMMA SamplesStay ==
    ASSUME UNCHANGED src
    PROVE  Outputs' = Outputs /\ \A f : Samples(f)' = Samples(f)
BY DEF Outputs, Samples, Families

\* The invariant holds at start.
LEMMA MutexInit == Init => MutexInv
BY MetricsAssumption
DEF Init, MutexInv, HandlersOK, LockHeld, PageMade, ResponseIsOneInstant

\* A step that leaves the handlers alone is harmless if nobody writes or nothing
\* is reported.
LEMMA BystanderKeeps ==
    ASSUME MutexInv, UNCHANGED <<mu, serving, page>>,
           mu = Nobody \/ UNCHANGED src
    PROVE  MutexInv'
<1>1. HandlersOK' /\ LockHeld'
  BY DEF MutexInv, HandlersOK, LockHeld
<1>2. CASE mu = Nobody
  <2>1. \A s \in Scrapers : serving'[s] # "writing"
    BY <1>2, OneWriter DEF MutexInv
  <2> QED  BY <1>1, <2>1 DEF MutexInv, PageMade, ResponseIsOneInstant
<1>3. CASE UNCHANGED src
  BY <1>1, <1>3, SamplesStay DEF MutexInv, PageMade, ResponseIsOneInstant, Families
<1> QED  BY <1>2, <1>3

\* Watchers report only while nobody writes.
LEMMA WatchKeeps ==
    ASSUME MutexInv, NEW w \in Watchers, Watch(w)  PROVE MutexInv'
<1>1. UNCHANGED <<mu, serving, page>>
  BY DEF Watch, CheckReturns, ObserveCheck, Observe, NotifyAnswers, OfferPasses,
         ObserveNotification, EndTick, Tick, scraping
<1>2. mu = Nobody \/ UNCHANGED src
  BY DEF Watch, CheckReturns, ObserveCheck, NotifyAnswers, OfferPasses,
         ObserveNotification, EndTick, Tick
<1> QED  BY <1>1, <1>2, BystanderKeeps

LEMMA RequestKeeps ==
    ASSUME MutexInv, NEW s \in Scrapers, Request(s)  PROVE MutexInv'
<1>1. /\ serving[s] = "idle" /\ serving' = [serving EXCEPT ![s] = "waiting"]
      /\ UNCHANGED <<src, mu, page>>
  BY DEF Request
<1>2. serving[s] # "writing" /\ serving'[s] # "writing"
      /\ \A r \in Scrapers : r # s => serving'[r] = serving[r]
  BY <1>1 DEF MutexInv, HandlersOK
<1>3. HandlersOK' /\ LockHeld'
  BY <1>1, <1>2 DEF MutexInv, HandlersOK, LockHeld
<1>4. PageMade' /\ ResponseIsOneInstant'
  BY <1>1, <1>2, SamplesStay
  DEF MutexInv, PageMade, ResponseIsOneInstant, Families
<1> QED  BY <1>3, <1>4 DEF MutexInv

\* The mutex is taken only when it is free, and the response starts empty.
LEMMA StartKeeps ==
    ASSUME MutexInv, NEW s \in Scrapers, StartWrite(s)  PROVE MutexInv'
<1>1. /\ mu = Nobody /\ mu' = s /\ UNCHANGED src
      /\ serving' = [serving EXCEPT ![s] = "writing"]
      /\ page' = [page EXCEPT ![s] = <<>>]
  BY DEF StartWrite
<1>2. /\ serving'[s] = "writing" /\ page'[s] = <<>>
      /\ \A r \in Scrapers : r # s => serving'[r] = serving[r]
      /\ \A r \in Scrapers : serving[r] # "writing"
  BY <1>1, OneWriter DEF MutexInv, HandlersOK
<1>3. HandlersOK' /\ LockHeld'
  BY <1>1, <1>2 DEF MutexInv, HandlersOK, LockHeld
<1>4. \A r \in Scrapers : serving'[r] = "writing" => page'[r] = <<>>
  BY <1>2
<1>5. PageMade' /\ ResponseIsOneInstant'
  <2>1. \A S : <<>> \in Seq(S)
    OBVIOUS
  <2>2. PageMade'
    BY <1>4, <2>1, Zenon DEF PageMade
  <2>3. ResponseIsOneInstant'
    BY <1>4 DEF ResponseIsOneInstant
  <2> QED  BY <2>2, <2>3
<1> QED  BY <1>3, <1>5 DEF MutexInv

\* One more family of the same instant.
LEMMA WriteKeeps ==
    ASSUME MutexInv, NEW s \in Scrapers, WriteFamily(s)  PROVE MutexInv'
<1> DEFINE next == Samples(Families[Len(page[s]) + 1])
<1>1. /\ serving[s] = "writing" /\ Len(page[s]) < Len(Families)
      /\ page' = [page EXCEPT ![s] = Append(page[s], next)]
      /\ UNCHANGED <<src, mu, serving>>
  BY DEF WriteFamily
<1>2. page[s] \in Seq(Outputs)
      /\ \A i \in DOMAIN page[s] : page[s][i] = Samples(Families[i])
  BY <1>1 DEF MutexInv, PageMade, ResponseIsOneInstant
<1>3. page'[s] = Append(page[s], next)
  BY <1>1 DEF MutexInv, HandlersOK
<1>4. \A r \in Scrapers : serving'[r] = "writing" => r = s
  BY <1>1, OneWriter DEF MutexInv
<1>5. HandlersOK' /\ LockHeld'
  BY <1>1 DEF MutexInv, HandlersOK, LockHeld
<1>6. Outputs' = Outputs /\ \A f : Samples(f)' = Samples(f)
  BY <1>1, SamplesStay
<1>7. Len(page[s]) + 1 \in 1..Len(Families)
  BY <1>1, <1>2 DEF Families
<1>8. next \in Outputs
  BY <1>7 DEF Outputs
<1>9. page'[s] \in Seq(Outputs)
      /\ \A i \in DOMAIN page'[s] : page'[s][i] = Samples(Families[i])
  <2> HIDE DEF next
  <2>1. page'[s] \in Seq(Outputs)
    BY <1>2, <1>3, <1>8
  <2>2. \A i \in DOMAIN page'[s] :
            IF i = Len(page[s]) + 1 THEN page'[s][i] = next
            ELSE i \in DOMAIN page[s] /\ page'[s][i] = page[s][i]
    BY <1>2, <1>3, <1>8
  <2> QED  BY <1>2, <2>1, <2>2 DEF next
<1> QED  BY <1>4, <1>5, <1>6, <1>9 DEF MutexInv, PageMade, ResponseIsOneInstant, Families

\* The mutex is free again, and the writer writes no more.
LEMMA EndKeeps ==
    ASSUME MutexInv, NEW s \in Scrapers, EndWrite(s)  PROVE MutexInv'
<1>1. /\ serving[s] = "writing" /\ mu' = Nobody
      /\ serving' = [serving EXCEPT ![s] = "idle"]
      /\ UNCHANGED <<src, page>>
  BY DEF EndWrite
<1>2. \A r \in Scrapers : serving'[r] # "writing"
  BY <1>1, OneWriter DEF MutexInv, HandlersOK
<1>3. HandlersOK' /\ LockHeld'
  BY <1>1, <1>2, MetricsAssumption DEF MutexInv, HandlersOK, LockHeld
<1>4. PageMade' /\ ResponseIsOneInstant'
  BY <1>2 DEF PageMade, ResponseIsOneInstant
<1> QED  BY <1>3, <1>4 DEF MutexInv

\* The inductive invariant holds in every reachable state.
THEOREM MutexInductive == Spec => []MutexInv
<1>1. MutexInv /\ [Next]_vars => MutexInv'
  <2> SUFFICES ASSUME MutexInv, [Next]_vars  PROVE MutexInv'
    OBVIOUS
  <2>1. ASSUME NEW s \in Scrapers, ClientMoves(s)  PROVE MutexInv'
    BY <2>1, BystanderKeeps DEF ClientMoves
  <2>2. CASE UNCHANGED vars
    BY <2>2, BystanderKeeps DEF vars, scraping
  <2> QED
    BY <2>1, <2>2, WatchKeeps, RequestKeeps, StartKeeps, WriteKeeps, EndKeeps
    DEF Next, Serve
<1> QED  BY <1>1, MutexInit, PTL DEF Spec

\* Every response shows one instant, whoever reports meanwhile and however slowly
\* its client reads (metrics.go:84-131).
THEOREM OneInstant == Spec => []ResponseIsOneInstant
<1>1. MutexInv => ResponseIsOneInstant
  BY DEF MutexInv
<1> QED  BY <1>1, MutexInductive, PTL

-----------------------------------------------------------------------------
(* Counting *)

\* The watchers that have yet to count: a check that answered for source n, one
\* that failed, and an alert that went out.
Good(n) == {w \in Watchers : pc[w] = "observe" /\ Polled(w) = n /\ found[w] # Failed}
Bad(n) == {w \in Watchers : pc[w] = "observe" /\ Polled(w) = n /\ found[w] = Failed}
Alerting(n) == {w \in Watchers : pc[w] = "count" /\ Head(offers[w]) = n}

\* What the watchers carry.
Shapes ==
    /\ pc \in [Watchers -> {"check", "observe", "handle", "count", "rest"}]
    /\ at \in [Watchers -> Nat]
    /\ \A w \in Watchers : 1 <= at[w] /\ at[w] <= Len(Plan[w])
    /\ found \in [Watchers -> Answers \cup {Failed}]
    /\ offers \in [Watchers -> Seq(Sources)]
    /\ \A w \in Watchers : pc[w] = "count" => offers[w] # <<>>
    /\ done \in [Sources -> [ok : Nat, error : Nat]]
    /\ sent \in [Sources -> Nat]

\* A series has all its fields, and its counters are numbers.
IsSeries(s) ==
    /\ DOMAIN s = {"success", "available", "stock", "minPrice",
                   "checksSuccess", "checksError", "notifications"}
    /\ s.checksSuccess \in Nat /\ s.checksError \in Nat /\ s.notifications \in Nat

SeriesOK == \A n \in DOMAIN src : IsSeries(src[n])

\* The counters and those yet to count add up to what happened.
Exact ==
    \A n \in Sources :
        /\ Get(n).checksSuccess + Cardinality(Good(n)) = done[n].ok
        /\ Get(n).checksError + Cardinality(Bad(n)) = done[n].error
        /\ Get(n).notifications + Cardinality(Alerting(n)) = sent[n]

\* The inductive invariant.
CountInv == Shapes /\ SeriesOK /\ Exact

\* A step of w leaves the other watchers as they are.
OnlyMoves(w) ==
    \A v \in Watchers \ {w} :
        /\ pc'[v] = pc[v] /\ at'[v] = at[v]
        /\ found'[v] = found[v] /\ offers'[v] = offers[v]

-----------------------------------------------------------------------------
\* A watcher polls a source of its plan.
LEMMA PolledSource ==
    ASSUME Shapes, NEW w \in Watchers  PROVE Polled(w) \in Sources
BY MetricsAssumption DEF Shapes, Polled

\* Sets that differ in one watcher at most differ by one at most.
LEMMA OneApart ==
    ASSUME NEW w, NEW S \in SUBSET Watchers, NEW T \in SUBSET Watchers,
           S \ {w} = T \ {w}
    PROVE  /\ Cardinality(S) \in Nat /\ Cardinality(T) \in Nat
           /\ (w \in S <=> w \in T) => Cardinality(T) = Cardinality(S)
           /\ w \notin S /\ w \in T => Cardinality(T) = Cardinality(S) + 1
           /\ w \in S /\ w \notin T => Cardinality(S) = Cardinality(T) + 1
<1>1. IsFiniteSet(S) /\ IsFiniteSet(T)
  BY FS_Subset, MetricsAssumption
<1>2. Cardinality(S) \in Nat /\ Cardinality(T) \in Nat
  BY <1>1, FS_CardinalityType
<1>3. (w \in S <=> w \in T) => S = T
  OBVIOUS
<1>4. w \notin S /\ w \in T => T = S \cup {w}
  OBVIOUS
<1>5. w \in S /\ w \notin T => S = T \cup {w}
  OBVIOUS
<1> QED  BY <1>1, <1>2, <1>3, <1>4, <1>5, FS_AddElement

\* A step of w moves w alone between those who have yet to count.
LEMMA OthersWait ==
    ASSUME NEW w \in Watchers, OnlyMoves(w), NEW n
    PROVE  /\ Good(n)' \ {w} = Good(n) \ {w}
           /\ Bad(n)' \ {w} = Bad(n) \ {w}
           /\ Alerting(n)' \ {w} = Alerting(n) \ {w}
BY DEF OnlyMoves, Good, Bad, Alerting, Polled

\* Every source has a series with all its fields: its own or a fresh one.
LEMMA GetSeries ==
    ASSUME SeriesOK, NEW n  PROVE IsSeries(Get(n))
BY DEF SeriesOK, Get, Fresh, IsSeries

\* A report replaces one series.
LEMMA PutReplaces ==
    ASSUME SeriesOK, NEW n, NEW s, IsSeries(s), Put(n, s)
    PROVE  SeriesOK' /\ Get(n)' = s /\ \A m : m # n => Get(m)' = Get(m)
BY DEF SeriesOK, Put, Get

\* A report counts a check, as answered or as failed, and nothing else.
LEMMA ReportCounts ==
    ASSUME NEW s, IsSeries(s), NEW result
    PROVE  /\ IsSeries(Reported(s, result))
           /\ Reported(s, result).notifications = s.notifications
           /\ result = Failed =>
                /\ Reported(s, result).checksSuccess = s.checksSuccess
                /\ Reported(s, result).checksError = s.checksError + 1
           /\ result # Failed =>
                /\ Reported(s, result).checksSuccess = s.checksSuccess + 1
                /\ Reported(s, result).checksError = s.checksError
BY DEF IsSeries, Reported

-----------------------------------------------------------------------------
LEMMA CountInit == Init => CountInv
<1> SUFFICES ASSUME Init PROVE CountInv
  OBVIOUS
<1>1. Shapes
  BY MetricsAssumption DEF Init, Shapes
<1>2. SeriesOK
  BY DEF Init, SeriesOK
<1>3. \A n : Good(n) = {} /\ Bad(n) = {} /\ Alerting(n) = {}
  BY DEF Init, Good, Bad, Alerting
<1>4. \A n : Get(n) = Fresh
  BY DEF Init, Get
<1>5. \A n : /\ Get(n).checksSuccess = 0 /\ Get(n).checksError = 0
               /\ Get(n).notifications = 0
  BY <1>4 DEF Fresh
<1>6. \A n \in Sources : done[n].ok = 0 /\ done[n].error = 0 /\ sent[n] = 0
  BY DEF Init
<1>7. \A n : /\ Cardinality(Good(n)) = 0 /\ Cardinality(Bad(n)) = 0
               /\ Cardinality(Alerting(n)) = 0
  BY <1>3, FS_EmptySet
<1>8. Exact
  BY <1>5, <1>6, <1>7 DEF Exact
<1> QED  BY <1>1, <1>2, <1>8 DEF CountInv

\* The part of w in a set of watchers.
Part(w, S) == IF w \in S THEN 1 ELSE 0

\* A counter, those yet to count and what happened, before and after a step.
LEMMA Account ==
    ASSUME NEW g \in Int, NEW g2 \in Int, NEW c \in Int, NEW c2 \in Int,
           NEW d \in Int, NEW d2 \in Int, NEW p \in Int, NEW p2 \in Int,
           g + c = d, c2 = c + p2 - p, g2 + p2 - d2 = g + p - d
    PROVE  g2 + c2 = d2
OBVIOUS

\* It is enough to balance the account of the one watcher that moves.
LEMMA Balanced ==
    ASSUME CountInv, Shapes', SeriesOK', NEW w \in Watchers, OnlyMoves(w),
           \A n \in Sources :
              /\ Get(n)'.checksSuccess + Part(w, Good(n)') - done'[n].ok =
                    Get(n).checksSuccess + Part(w, Good(n)) - done[n].ok
              /\ Get(n)'.checksError + Part(w, Bad(n)') - done'[n].error =
                    Get(n).checksError + Part(w, Bad(n)) - done[n].error
              /\ Get(n)'.notifications + Part(w, Alerting(n)') - sent'[n] =
                    Get(n).notifications + Part(w, Alerting(n)) - sent[n]
    PROVE  CountInv'
<1> SUFFICES ASSUME NEW n \in Sources
             PROVE  /\ Get(n)'.checksSuccess + Cardinality(Good(n)') = done'[n].ok
                    /\ Get(n)'.checksError + Cardinality(Bad(n)') = done'[n].error
                    /\ Get(n)'.notifications + Cardinality(Alerting(n)') = sent'[n]
  BY DEF CountInv, Exact
<1>1. \A S \in SUBSET Watchers, T \in SUBSET Watchers : S \ {w} = T \ {w} =>
         /\ Cardinality(S) \in Nat /\ Cardinality(T) \in Nat
         /\ Cardinality(T) = Cardinality(S) + Part(w, T) - Part(w, S)
  <2> SUFFICES ASSUME NEW S \in SUBSET Watchers, NEW T \in SUBSET Watchers,
                      S \ {w} = T \ {w}
               PROVE  /\ Cardinality(S) \in Nat /\ Cardinality(T) \in Nat
                      /\ Cardinality(T) = Cardinality(S) + Part(w, T) - Part(w, S)
    OBVIOUS
  <2> QED  BY OneApart DEF Part
<1>2. /\ Good(n) \in SUBSET Watchers /\ Good(n)' \in SUBSET Watchers
      /\ Bad(n) \in SUBSET Watchers /\ Bad(n)' \in SUBSET Watchers
      /\ Alerting(n) \in SUBSET Watchers /\ Alerting(n)' \in SUBSET Watchers
  BY DEF Good, Bad, Alerting
<1>3. /\ Cardinality(Good(n)') = Cardinality(Good(n)) + Part(w, Good(n)') - Part(w, Good(n))
      /\ Cardinality(Bad(n)') = Cardinality(Bad(n)) + Part(w, Bad(n)') - Part(w, Bad(n))
      /\ Cardinality(Alerting(n)') =
            Cardinality(Alerting(n)) + Part(w, Alerting(n)') - Part(w, Alerting(n))
      /\ Cardinality(Good(n)) \in Nat /\ Cardinality(Bad(n)) \in Nat
      /\ Cardinality(Alerting(n)) \in Nat
  BY <1>1, <1>2, OthersWait
<1>4. /\ Get(n).checksSuccess + Cardinality(Good(n)) = done[n].ok
      /\ Get(n).checksError + Cardinality(Bad(n)) = done[n].error
      /\ Get(n).notifications + Cardinality(Alerting(n)) = sent[n]
  BY DEF CountInv, Exact
<1>5. IsSeries(Get(n)) /\ IsSeries(Get(n)')
  BY GetSeries DEF CountInv, SeriesOK, Get, Fresh, IsSeries
<1>6. /\ Get(n).checksSuccess \in Nat /\ Get(n)'.checksSuccess \in Nat
      /\ Get(n).checksError \in Nat /\ Get(n)'.checksError \in Nat
      /\ Get(n).notifications \in Nat /\ Get(n)'.notifications \in Nat
  BY <1>5 DEF IsSeries
<1>7. /\ done[n].ok \in Nat /\ done'[n].ok \in Nat
      /\ done[n].error \in Nat /\ done'[n].error \in Nat
      /\ sent[n] \in Nat /\ sent'[n] \in Nat
  BY DEF CountInv, Shapes
<1>8. /\ Part(w, Good(n)) \in {0, 1} /\ Part(w, Good(n)') \in {0, 1}
      /\ Part(w, Bad(n)) \in {0, 1} /\ Part(w, Bad(n)') \in {0, 1}
      /\ Part(w, Alerting(n)) \in {0, 1} /\ Part(w, Alerting(n)') \in {0, 1}
  BY DEF Part
<1>9. /\ Get(n)'.checksSuccess + Part(w, Good(n)') - done'[n].ok =
            Get(n).checksSuccess + Part(w, Good(n)) - done[n].ok
      /\ Get(n)'.checksError + Part(w, Bad(n)') - done'[n].error =
            Get(n).checksError + Part(w, Bad(n)) - done[n].error
      /\ Get(n)'.notifications + Part(w, Alerting(n)') - sent'[n] =
            Get(n).notifications + Part(w, Alerting(n)) - sent[n]
  OBVIOUS
<1>10. Get(n)'.checksSuccess + Cardinality(Good(n)') = done'[n].ok
  <2>1. /\ Get(n).checksSuccess \in Int /\ Get(n)'.checksSuccess \in Int
        /\ Cardinality(Good(n)) \in Int /\ Cardinality(Good(n)') \in Int
        /\ done[n].ok \in Int /\ done'[n].ok \in Int
        /\ Part(w, Good(n)) \in Int /\ Part(w, Good(n)') \in Int
    BY <1>3, <1>6, <1>7, <1>8
  <2>2. /\ Get(n).checksSuccess + Cardinality(Good(n)) = done[n].ok
        /\ Cardinality(Good(n)') = Cardinality(Good(n)) + Part(w, Good(n)') - Part(w, Good(n))
        /\ Get(n)'.checksSuccess + Part(w, Good(n)') - done'[n].ok =
              Get(n).checksSuccess + Part(w, Good(n)) - done[n].ok
    BY <1>3, <1>4, <1>9
  <2> QED  BY <2>1, <2>2, Account
<1>11. Get(n)'.checksError + Cardinality(Bad(n)') = done'[n].error
  <2>1. /\ Get(n).checksError \in Int /\ Get(n)'.checksError \in Int
        /\ Cardinality(Bad(n)) \in Int /\ Cardinality(Bad(n)') \in Int
        /\ done[n].error \in Int /\ done'[n].error \in Int
        /\ Part(w, Bad(n)) \in Int /\ Part(w, Bad(n)') \in Int
    BY <1>3, <1>6, <1>7, <1>8
  <2>2. /\ Get(n).checksError + Cardinality(Bad(n)) = done[n].error
        /\ Cardinality(Bad(n)') = Cardinality(Bad(n)) + Part(w, Bad(n)') - Part(w, Bad(n))
        /\ Get(n)'.checksError + Part(w, Bad(n)') - done'[n].error =
              Get(n).checksError + Part(w, Bad(n)) - done[n].error
    BY <1>3, <1>4, <1>9
  <2> QED  BY <2>1, <2>2, Account
<1>12. Get(n)'.notifications + Cardinality(Alerting(n)') = sent'[n]
  <2>1. /\ Get(n).notifications \in Int /\ Get(n)'.notifications \in Int
        /\ Cardinality(Alerting(n)) \in Int /\ Cardinality(Alerting(n)') \in Int
        /\ sent[n] \in Int /\ sent'[n] \in Int
        /\ Part(w, Alerting(n)) \in Int /\ Part(w, Alerting(n)') \in Int
    BY <1>3, <1>6, <1>7, <1>8
  <2>2. /\ Get(n).notifications + Cardinality(Alerting(n)) = sent[n]
        /\ Cardinality(Alerting(n)') = Cardinality(Alerting(n)) + Part(w, Alerting(n)') - Part(w, Alerting(n))
        /\ Get(n)'.notifications + Part(w, Alerting(n)') - sent'[n] =
              Get(n).notifications + Part(w, Alerting(n)) - sent[n]
    BY <1>3, <1>4, <1>9
  <2> QED  BY <2>1, <2>2, Account
<1> QED  BY <1>10, <1>11, <1>12

\* A check came back: one more to count.
LEMMA CheckCounted ==
    ASSUME CountInv, NEW w \in Watchers, CheckReturns(w)  PROVE CountInv'
<1> DEFINE n == Polled(w)
<1>1. PICK result \in Answers \cup {Failed} :
         /\ found' = [found EXCEPT ![w] = result]
         /\ done' = IF result = Failed THEN [done EXCEPT ![n].error = @ + 1]
                    ELSE [done EXCEPT ![n].ok = @ + 1]
  BY DEF CheckReturns
<1>2. /\ pc[w] = "check" /\ pc' = [pc EXCEPT ![w] = "observe"]
      /\ UNCHANGED <<src, at, offers, sent>>
  BY DEF CheckReturns, Goto
<1>3. n \in Sources
  BY PolledSource DEF CountInv
<1>4. Shapes' /\ SeriesOK' /\ OnlyMoves(w)
  BY <1>1, <1>2, <1>3 DEF CountInv, Shapes, SeriesOK, OnlyMoves
<1>5. pc'[w] = "observe" /\ Polled(w)' = n /\ found'[w] = result
  BY <1>1, <1>2 DEF CountInv, Shapes, Polled
<1>6. \A m : Get(m)' = Get(m)
  BY <1>2 DEF Get
<1>7. \A m \in Sources :
        /\ done'[m].ok = done[m].ok + IF m = n /\ result # Failed THEN 1 ELSE 0
        /\ done'[m].error = done[m].error + IF m = n /\ result = Failed THEN 1 ELSE 0
  BY <1>1, <1>3 DEF CountInv, Shapes
<1>8. \A m :
        /\ Part(w, Good(m)) = 0 /\ Part(w, Bad(m)) = 0
        /\ Part(w, Alerting(m)) = 0 /\ Part(w, Alerting(m)') = 0
        /\ Part(w, Good(m)') = IF m = n /\ result # Failed THEN 1 ELSE 0
        /\ Part(w, Bad(m)') = IF m = n /\ result = Failed THEN 1 ELSE 0
  BY <1>2, <1>5 DEF Part, Good, Bad, Alerting
<1>9. \A m \in Sources :
        /\ IsSeries(Get(m)) /\ done[m].ok \in Nat /\ done[m].error \in Nat
        /\ sent'[m] = sent[m] /\ sent[m] \in Nat
  BY <1>2, GetSeries DEF CountInv, Shapes
<1>10. \A m \in Sources :
        /\ Get(m).checksSuccess \in Nat /\ Get(m).checksError \in Nat
        /\ Get(m).notifications \in Nat
  BY <1>9 DEF IsSeries
<1> HIDE DEF n
<1>11. \A m \in Sources :
        /\ Get(m)'.checksSuccess + Part(w, Good(m)') - done'[m].ok =
              Get(m).checksSuccess + Part(w, Good(m)) - done[m].ok
        /\ Get(m)'.checksError + Part(w, Bad(m)') - done'[m].error =
              Get(m).checksError + Part(w, Bad(m)) - done[m].error
        /\ Get(m)'.notifications + Part(w, Alerting(m)') - sent'[m] =
              Get(m).notifications + Part(w, Alerting(m)) - sent[m]
  BY <1>6, <1>7, <1>8, <1>9, <1>10
<1> QED  BY <1>4, <1>11, Balanced

\* The check is counted, and its watcher has nothing more to count.
LEMMA ReportCounted ==
    ASSUME CountInv, NEW w \in Watchers, ObserveCheck(w)  PROVE CountInv'
<1>1. PICK n \in Sources : n = Polled(w)
  BY PolledSource DEF CountInv
<1>2. PICK s : s = Reported(Get(n), found[w])
  OBVIOUS
<1>3. PICK shown : shown = IF found[w] = Failed THEN <<>> ELSE [i \in DOMAIN found[w] |-> n]
  OBVIOUS
<1>4. /\ pc[w] = "observe" /\ Put(n, s)
      /\ offers' = [offers EXCEPT ![w] = @ \o shown]
      /\ UNCHANGED <<found, done, sent>>
  BY <1>1, <1>2, <1>3 DEF ObserveCheck, Observe
<1>5. \/ /\ at[w] < Len(Plan[w]) /\ at' = [at EXCEPT ![w] = @ + 1]
         /\ pc' = [pc EXCEPT ![w] = "check"]
      \/ at' = [at EXCEPT ![w] = 1] /\ pc' = [pc EXCEPT ![w] = "handle"]
  BY DEF ObserveCheck, Observe, Goto
<1>6. shown \in Seq(Sources)
  <2>1. CASE found[w] = Failed
    BY <1>3, <2>1
  <2>2. CASE found[w] # Failed
    <3>1. found[w] \in Seq([stock : Nat \ {0}, price : Nat \cup {NoPrice}])
      BY <2>2, MetricsAssumption DEF CountInv, Shapes
    <3>2. shown = [i \in 1..Len(found[w]) |-> n] /\ Len(found[w]) \in Nat
      BY <1>3, <2>2, <3>1
    <3> QED  BY <1>1, <3>2
  <2> QED  BY <2>1, <2>2
<1>7. offers' \in [Watchers -> Seq(Sources)]
      /\ \A v \in Watchers \ {w} : offers'[v] = offers[v]
  <2>1. offers[w] \o shown \in Seq(Sources)
    BY <1>6 DEF CountInv, Shapes
  <2> QED  BY <1>4, <2>1 DEF CountInv, Shapes
<1>8. /\ pc'[w] \in {"check", "handle"}
      /\ \A v \in Watchers \ {w} : pc'[v] = pc[v] /\ at'[v] = at[v]
      /\ pc' \in [Watchers -> {"check", "observe", "handle", "count", "rest"}]
      /\ at' \in [Watchers -> Nat]
  <2>1. CASE pc' = [pc EXCEPT ![w] = "check"] /\ at' = [at EXCEPT ![w] = @ + 1]
    BY <2>1 DEF CountInv, Shapes
  <2>2. CASE pc' = [pc EXCEPT ![w] = "handle"] /\ at' = [at EXCEPT ![w] = 1]
    BY <2>2 DEF CountInv, Shapes
  <2> QED  BY <1>5, <2>1, <2>2
<1>9. \A v \in Watchers : 1 <= at'[v] /\ at'[v] <= Len(Plan[v])
  <2>1. Plan[w] \in Seq(Sources) /\ Plan[w] # <<>>
    BY MetricsAssumption
  <2>2. Len(Plan[w]) \in Nat /\ Len(Plan[w]) >= 1
    BY <2>1
  <2>3. 1 <= at'[w] /\ at'[w] <= Len(Plan[w])
    BY <1>5, <2>2 DEF CountInv, Shapes
  <2> QED  BY <1>8, <2>3 DEF CountInv, Shapes
<1>10. Shapes' /\ OnlyMoves(w)
  <2>1. \A v \in Watchers : pc'[v] = "count" => offers'[v] # <<>>
    BY <1>7, <1>8 DEF CountInv, Shapes
  <2> QED  BY <1>4, <1>7, <1>8, <1>9, <2>1 DEF CountInv, Shapes, OnlyMoves
<1>11. IsSeries(Get(n)) /\ IsSeries(s)
  BY <1>2, GetSeries, ReportCounts DEF CountInv
<1>12. SeriesOK' /\ Get(n)' = s /\ \A m : m # n => Get(m)' = Get(m)
  BY <1>4, <1>11, PutReplaces DEF CountInv
<1>13. /\ s.notifications = Get(n).notifications
       /\ found[w] = Failed => /\ s.checksSuccess = Get(n).checksSuccess
                               /\ s.checksError = Get(n).checksError + 1
       /\ found[w] # Failed => /\ s.checksSuccess = Get(n).checksSuccess + 1
                               /\ s.checksError = Get(n).checksError
  BY <1>2, <1>11, ReportCounts
<1>14. \A m :
        /\ Part(w, Good(m)') = 0 /\ Part(w, Bad(m)') = 0
        /\ Part(w, Alerting(m)) = 0 /\ Part(w, Alerting(m)') = 0
        /\ Part(w, Good(m)) = IF m = n /\ found[w] # Failed THEN 1 ELSE 0
        /\ Part(w, Bad(m)) = IF m = n /\ found[w] = Failed THEN 1 ELSE 0
  BY <1>1, <1>4, <1>8 DEF Part, Good, Bad, Alerting
<1>15. \A m \in Sources :
        /\ IsSeries(Get(m)) /\ done[m].ok \in Nat /\ done[m].error \in Nat
        /\ sent[m] \in Nat
  BY GetSeries DEF CountInv, Shapes
<1>16. \A m \in Sources :
        /\ Get(m).checksSuccess \in Nat /\ Get(m).checksError \in Nat
        /\ Get(m).notifications \in Nat
  BY <1>15 DEF IsSeries
<1>17. ASSUME NEW m \in Sources
       PROVE  /\ Get(m)'.checksSuccess + Part(w, Good(m)') - done'[m].ok =
                    Get(m).checksSuccess + Part(w, Good(m)) - done[m].ok
              /\ Get(m)'.checksError + Part(w, Bad(m)') - done'[m].error =
                    Get(m).checksError + Part(w, Bad(m)) - done[m].error
              /\ Get(m)'.notifications + Part(w, Alerting(m)') - sent'[m] =
                    Get(m).notifications + Part(w, Alerting(m)) - sent[m]
  <2>0. /\ Get(m).checksSuccess \in Int /\ Get(m).checksError \in Int
        /\ Get(m).notifications \in Int
        /\ done[m].ok \in Int /\ done[m].error \in Int /\ sent[m] \in Int
        /\ done'[m].ok = done[m].ok /\ done'[m].error = done[m].error
        /\ sent'[m] = sent[m]
    BY <1>4, <1>15, <1>16
  <2>1. CASE m # n
    <3>1. Get(m)' = Get(m)
      BY <1>12, <2>1
    <3>2. /\ Part(w, Good(m)') = 0 /\ Part(w, Bad(m)') = 0
          /\ Part(w, Alerting(m)) = 0 /\ Part(w, Alerting(m)') = 0
          /\ Part(w, Good(m)) = 0 /\ Part(w, Bad(m)) = 0
      BY <1>14, <2>1
    <3> QED  BY <2>0, <3>1, <3>2
  <2>2. CASE m = n /\ found[w] = Failed
    <3>1. /\ Get(m)'.checksSuccess = Get(m).checksSuccess
          /\ Get(m)'.checksError = Get(m).checksError + 1
          /\ Get(m)'.notifications = Get(m).notifications
      BY <1>12, <1>13, <2>2
    <3>2. /\ Part(w, Good(m)') = 0 /\ Part(w, Bad(m)') = 0
          /\ Part(w, Alerting(m)) = 0 /\ Part(w, Alerting(m)') = 0
          /\ Part(w, Good(m)) = 0 /\ Part(w, Bad(m)) = 1
      BY <1>14, <2>2
    <3> QED  BY <2>0, <3>1, <3>2
  <2>3. CASE m = n /\ found[w] # Failed
    <3>1. /\ Get(m)'.checksSuccess = Get(m).checksSuccess + 1
          /\ Get(m)'.checksError = Get(m).checksError
          /\ Get(m)'.notifications = Get(m).notifications
      BY <1>12, <1>13, <2>3
    <3>2. /\ Part(w, Good(m)') = 0 /\ Part(w, Bad(m)') = 0
          /\ Part(w, Alerting(m)) = 0 /\ Part(w, Alerting(m)') = 0
          /\ Part(w, Good(m)) = 1 /\ Part(w, Bad(m)) = 0
      BY <1>14, <2>3
    <3> QED  BY <2>0, <3>1, <3>2
  <2> QED  BY <2>1, <2>2, <2>3
<1> QED  BY <1>10, <1>12, <1>17, Balanced

\* An alert went out: one more to count.
LEMMA AlertCounted ==
    ASSUME CountInv, NEW w \in Watchers, NotifyAnswers(w)  PROVE CountInv'
<1> DEFINE n == Head(offers[w])
<1>1. /\ pc[w] = "handle" /\ offers[w] # <<>>
      /\ sent' = [sent EXCEPT ![n] = @ + 1] /\ pc' = [pc EXCEPT ![w] = "count"]
      /\ UNCHANGED <<src, at, found, offers, done>>
  BY DEF NotifyAnswers, Goto
<1>2. n \in Sources
  BY <1>1 DEF CountInv, Shapes
<1>3. Shapes' /\ SeriesOK' /\ OnlyMoves(w)
  BY <1>1, <1>2 DEF CountInv, Shapes, SeriesOK, OnlyMoves
<1>4. \A m : Get(m)' = Get(m)
  BY <1>1 DEF Get
<1>5. \A m \in Sources : sent'[m] = sent[m] + IF m = n THEN 1 ELSE 0
  BY <1>1, <1>2 DEF CountInv, Shapes
<1>6. pc'[w] = "count"
  BY <1>1 DEF CountInv, Shapes
<1>7. \A m :
        /\ Part(w, Good(m)) = 0 /\ Part(w, Bad(m)) = 0 /\ Part(w, Alerting(m)) = 0
        /\ Part(w, Good(m)') = 0 /\ Part(w, Bad(m)') = 0
        /\ Part(w, Alerting(m)') = IF m = n THEN 1 ELSE 0
  BY <1>1, <1>6 DEF Part, Good, Bad, Alerting
<1>8. \A m \in Sources :
        /\ IsSeries(Get(m)) /\ done'[m] = done[m] /\ sent[m] \in Nat
  BY <1>1, GetSeries DEF CountInv, Shapes
<1>9. \A m \in Sources : Get(m).notifications \in Nat
  BY <1>8 DEF IsSeries
<1> HIDE DEF n
<1>10. \A m \in Sources :
        /\ Get(m)'.checksSuccess + Part(w, Good(m)') - done'[m].ok =
              Get(m).checksSuccess + Part(w, Good(m)) - done[m].ok
        /\ Get(m)'.checksError + Part(w, Bad(m)') - done'[m].error =
              Get(m).checksError + Part(w, Bad(m)) - done[m].error
        /\ Get(m)'.notifications + Part(w, Alerting(m)') - sent'[m] =
              Get(m).notifications + Part(w, Alerting(m)) - sent[m]
  BY <1>4, <1>5, <1>7, <1>8, <1>9
<1> QED  BY <1>3, <1>10, Balanced

\* The alert is counted.
LEMMA NotificationCounted ==
    ASSUME CountInv, NEW w \in Watchers, ObserveNotification(w)  PROVE CountInv'
<1>1. PICK n : n = Head(offers[w])
  OBVIOUS
<1>2. PICK s : s = [Get(n) EXCEPT !.notifications = @ + 1]
  OBVIOUS
<1>3. /\ pc[w] = "count" /\ Put(n, s) /\ pc' = [pc EXCEPT ![w] = "handle"]
      /\ offers' = [offers EXCEPT ![w] = Tail(@)]
      /\ UNCHANGED <<at, found, done, sent>>
  BY <1>1, <1>2 DEF ObserveNotification, Goto
<1>4. offers[w] # <<>> /\ n \in Sources /\ Tail(offers[w]) \in Seq(Sources)
  BY <1>1, <1>3 DEF CountInv, Shapes
<1>5. Shapes' /\ OnlyMoves(w)
  BY <1>3, <1>4 DEF CountInv, Shapes, OnlyMoves
<1>6. IsSeries(Get(n))
  BY GetSeries DEF CountInv
<1>7. /\ IsSeries(s) /\ s.notifications = Get(n).notifications + 1
      /\ s.checksSuccess = Get(n).checksSuccess /\ s.checksError = Get(n).checksError
  BY <1>2, <1>6 DEF IsSeries
<1>8. SeriesOK' /\ Get(n)' = s /\ \A m : m # n => Get(m)' = Get(m)
  BY <1>3, <1>7, PutReplaces DEF CountInv
<1>9. pc'[w] = "handle"
  BY <1>3 DEF CountInv, Shapes
<1>10. \A m :
        /\ Part(w, Good(m)) = 0 /\ Part(w, Good(m)') = 0
        /\ Part(w, Bad(m)) = 0 /\ Part(w, Bad(m)') = 0
        /\ Part(w, Alerting(m)) = IF m = n THEN 1 ELSE 0
        /\ Part(w, Alerting(m)') = 0
  BY <1>1, <1>3, <1>9 DEF Part, Good, Bad, Alerting
<1>11. \A m \in Sources : IsSeries(Get(m)) /\ sent[m] \in Nat
  BY GetSeries DEF CountInv, Shapes
<1>12. \A m \in Sources : Get(m).notifications \in Nat
  BY <1>11 DEF IsSeries
<1>13. ASSUME NEW m \in Sources
       PROVE  /\ Get(m)'.checksSuccess + Part(w, Good(m)') - done'[m].ok =
                    Get(m).checksSuccess + Part(w, Good(m)) - done[m].ok
              /\ Get(m)'.checksError + Part(w, Bad(m)') - done'[m].error =
                    Get(m).checksError + Part(w, Bad(m)) - done[m].error
              /\ Get(m)'.notifications + Part(w, Alerting(m)') - sent'[m] =
                    Get(m).notifications + Part(w, Alerting(m)) - sent[m]
  <2>1. CASE m # n
    BY <1>3, <1>8, <1>10, <2>1
  <2>2. CASE m = n
    BY <1>3, <1>7, <1>8, <1>10, <1>11, <1>12, <2>2
  <2> QED  BY <2>1, <2>2
<1> QED  BY <1>5, <1>8, <1>13, Balanced

\* A watcher that goes on without a check or an alert has nothing to count.
LEMMA IdleCounted ==
    ASSUME CountInv, NEW w \in Watchers,
           OfferPasses(w) \/ EndTick(w) \/ Tick(w)
    PROVE  CountInv'
<1>1. /\ pc[w] \in {"handle", "rest"} /\ UNCHANGED <<src, at, found, done, sent>>
      /\ \/ pc' = [pc EXCEPT ![w] = "check"] \/ pc' = [pc EXCEPT ![w] = "rest"]
         \/ UNCHANGED pc
      /\ \/ offers[w] # <<>> /\ offers' = [offers EXCEPT ![w] = Tail(@)]
         \/ UNCHANGED offers
  BY DEF OfferPasses, EndTick, Tick, Goto
<1>2. offers' \in [Watchers -> Seq(Sources)]
      /\ \A v \in Watchers \ {w} : offers'[v] = offers[v]
  <2>1. offers[w] # <<>> => Tail(offers[w]) \in Seq(Sources)
    BY DEF CountInv, Shapes
  <2> QED  BY <1>1, <2>1 DEF CountInv, Shapes
<1>3. /\ pc' \in [Watchers -> {"check", "observe", "handle", "count", "rest"}]
      /\ pc'[w] \in {"check", "handle", "rest"}
      /\ \A v \in Watchers \ {w} : pc'[v] = pc[v]
  BY <1>1 DEF CountInv, Shapes
<1>4. Shapes' /\ SeriesOK' /\ OnlyMoves(w)
  BY <1>1, <1>2, <1>3 DEF CountInv, Shapes, SeriesOK, OnlyMoves
<1>5. \A m : Get(m)' = Get(m)
  BY <1>1 DEF Get
<1>6. \A m :
        /\ Part(w, Good(m)) = 0 /\ Part(w, Bad(m)) = 0 /\ Part(w, Alerting(m)) = 0
        /\ Part(w, Good(m)') = 0 /\ Part(w, Bad(m)') = 0 /\ Part(w, Alerting(m)') = 0
  BY <1>1, <1>3 DEF Part, Good, Bad, Alerting
<1> QED  BY <1>1, <1>4, <1>5, <1>6, Balanced

\* The handlers of /metrics count nothing.
LEMMA HandlerCounted ==
    ASSUME CountInv, UNCHANGED <<src, watching>>  PROVE CountInv'
<1>1. UNCHANGED <<pc, at, found, offers, done, sent>>
  BY DEF watching
<1>2. \A n : /\ Get(n)' = Get(n) /\ Good(n)' = Good(n) /\ Bad(n)' = Bad(n)
             /\ Alerting(n)' = Alerting(n)
  BY <1>1 DEF Get, Good, Bad, Alerting, Polled
<1> QED  BY <1>1, <1>2 DEF CountInv, Shapes, SeriesOK, Exact

\* The inductive invariant holds in every reachable state.
THEOREM CountInductive == Spec => []CountInv
<1>1. CountInv /\ [Next]_vars => CountInv'
  <2> SUFFICES ASSUME CountInv, [Next]_vars  PROVE CountInv'
    OBVIOUS
  <2>1. ASSUME NEW w \in Watchers, Watch(w)  PROVE CountInv'
    BY <2>1, CheckCounted, ReportCounted, AlertCounted, NotificationCounted,
       IdleCounted DEF Watch
  <2>2. ASSUME NEW s \in Scrapers, Serve(s) \/ Request(s) \/ ClientMoves(s)
        PROVE  CountInv'
    BY <2>2, HandlerCounted
    DEF Serve, StartWrite, WriteFamily, EndWrite, Request, ClientMoves
  <2>3. CASE UNCHANGED vars
    BY <2>3, HandlerCounted DEF vars
  <2> QED  BY <2>1, <2>2, <2>3 DEF Next
<1> QED  BY <1>1, CountInit, PTL DEF Spec

\* No check and no alert is lost or counted twice, also for a source that any
\* number of products share (metrics.go:53-58, 73).
THEOREM CountedOnce == Spec => []CountsAreExact
<1>1. CountInv => CountsAreExact
  <2> SUFFICES ASSUME CountInv, NEW n \in Sources
               PROVE  LET waiting(result) == Cardinality({w \in Watchers :
                             pc[w] = "observe" /\ Polled(w) = n
                             /\ result = (found[w] # Failed)})
                          counting == Cardinality({w \in Watchers :
                             pc[w] = "count" /\ Head(offers[w]) = n})
                      IN  /\ Get(n).checksSuccess + waiting(TRUE) = done[n].ok
                          /\ Get(n).checksError + waiting(FALSE) = done[n].error
                          /\ Get(n).notifications + counting = sent[n]
    BY DEF CountsAreExact
  <2>1. Good(n) = {w \in Watchers : pc[w] = "observe" /\ Polled(w) = n
                                    /\ TRUE = (found[w] # Failed)}
    BY DEF Good
  <2>2. Bad(n) = {w \in Watchers : pc[w] = "observe" /\ Polled(w) = n
                                   /\ FALSE = (found[w] # Failed)}
    BY DEF Bad
  <2> QED  BY <2>1, <2>2 DEF CountInv, Exact, Alerting
<1> QED  BY <1>1, CountInductive, PTL

-----------------------------------------------------------------------------
(* The three numbers of a check *)

\* One entry of an answer.
Listing == [stock : Nat \ {0}, price : Nat \cup {NoPrice}]

\* The library's induction takes a predicate as a parameter; a least counterexample
\* does the same work.
LEMMA LeastNat ==
    ASSUME NEW S \in SUBSET Nat, S # {}
    PROVE  \E n \in S : \A m \in S : n <= m
<1>1. \E n \in S : \A m \in S : <<m, n>> \notin OpToRel(<, Nat)
  BY NatLessThanWellFounded, WFMin
<1>2. \A m, n \in S : <<m, n>> \notin OpToRel(<, Nat) => n <= m
  BY DEF OpToRel
<1> QED  BY <1>1, <1>2

\* The loop adds a unit at least for every offer.
LEMMA StockCounts ==
    ASSUME NEW avail \in Seq(Listing)
    PROVE  Stock(avail) \in Nat /\ Stock(avail) >= Len(avail)
<1> DEFINE L == Len(avail)
           Sum(f, n) == f = [i \in 0..n |-> IF i = 0 THEN 0 ELSE f[i - 1] + avail[i].stock]
           Short == {n \in 0..L : ~\E f : Sum(f, n)}
<1>0. L \in Nat /\ \A i \in 1..L : avail[i].stock \in Nat /\ avail[i].stock >= 1
  <2>1. L \in Nat /\ \A i \in 1..L : avail[i] \in Listing
    BY LenProperties, ElementOfSeq
  <2> QED  BY <2>1 DEF Listing
<1> HIDE DEF L
<1>1. \E f : Sum(f, L)
  <2> SUFFICES ASSUME Short # {}  PROVE FALSE
    BY <1>0
  <2>1. Short \in SUBSET Nat
    BY <1>0
  <2>2. PICK n \in Short : \A m \in Short : n <= m
    BY <2>1, LeastNat
  <2>3. n # 0
    <3>1. Sum([i \in 0..0 |-> 0], 0)
      OBVIOUS
    <3> QED  BY <2>2, <3>1
  <2>4. n - 1 \in 0..L /\ n - 1 \notin Short /\ n \in Nat /\ n \in 0..L
    <3>1. n \in Nat /\ n <= L
      BY <1>0
    <3>2. n - 1 \in 0..L /\ n - 1 < n
      BY <1>0, <2>3, <3>1
    <3>3. n - 1 \notin Short
      <4> HIDE DEF Short
      <4> QED  BY <2>2, <3>1, <3>2
    <3> QED  BY <3>1, <3>2, <3>3
  <2>5. PICK f : Sum(f, n - 1)
    BY <2>4
  <2>6. Sum([i \in 0..n |-> IF i = n THEN f[n - 1] + avail[n].stock ELSE f[i]], n)
    BY <2>3, <2>4, <2>5
  <2> QED  BY <2>2, <2>6
<1>2. PICK g : Sum(g, L) /\ Stock(avail) = g[L]
  <2> DEFINE g == CHOOSE f : Sum(f, L)
  <2>1. Sum(g, L)
    BY <1>1
  <2>2. Stock(avail) = g[L]
    BY DEF Stock, L
  <2> QED  BY <2>1, <2>2
<1> DEFINE Low == {n \in 0..L : ~(g[n] \in Nat /\ g[n] >= n)}
<1>3. Low = {}
  <2> SUFFICES ASSUME Low # {}  PROVE FALSE
    OBVIOUS
  <2>0. Low \in SUBSET Nat
    BY <1>0
  <2>1. PICK n \in Low : \A m \in Low : n <= m
    <3> HIDE DEF Low
    <3> QED  BY <2>0, LeastNat
  <2>2. n \in Nat /\ n <= L /\ g[n] = IF n = 0 THEN 0 ELSE g[n - 1] + avail[n].stock
    BY <1>0, <1>2, <2>1
  <2>3. n # 0 => g[n - 1] \in Nat /\ g[n - 1] >= n - 1
    BY <1>0, <2>1, <2>2
  <2> QED  BY <1>0, <2>1, <2>2, <2>3
<1>4. L \in 0..L /\ L \notin Low
  BY <1>0, <1>3
<1> QED  BY <1>2, <1>4 DEF L

\* A price is shown only of something offered.
LEMMA PriceKnown ==
    ASSUME NEW avail \in Seq(Listing)
    PROVE  /\ MinPrice(avail) \in Nat \cup {NoPrice}
           /\ MinPrice(avail) # NoPrice => Len(avail) > 0
<1> DEFINE known == {a.price : a \in Range(avail)} \ {NoPrice}
<1>1. known \in SUBSET Nat
  <2>1. \A a \in Range(avail) : a \in Listing
    BY ElementOfSeq, LenProperties DEF Range
  <2> QED  BY <2>1 DEF Listing
<1>2. known # {} => Len(avail) > 0
  BY DEF Range
<1>3. known # {} => Min(known) \in Nat
  <2> HIDE DEF known
  <2>1. known # {} => \E n \in known : \A m \in known : n <= m
    BY <1>1, LeastNat
  <2> QED  BY <1>1, <2>1 DEF Min
<1> QED  BY <1>2, <1>3, MetricsAssumption DEF MinPrice

-----------------------------------------------------------------------------
(* What a response says *)

\* A series that was up, was alerted or offers something has an answered check.
Sound(s) ==
    /\ s \in Series
    /\ s.success = 1 \/ s.notifications > 0 \/ s.available > 0 => s.checksSuccess > 0
    /\ s.minPrice # NoPrice => s.available > 0
    /\ s.stock >= s.available

SeriesSound ==
    /\ \E S \in SUBSET Sources : src \in [S -> Series]
    /\ \A n \in DOMAIN src : Sound(src[n])

\* The sources that have answered a check.
Answered == {n \in Sources : Get(n).checksSuccess > 0}

\* Every offer still to be handled comes from an answered check of its source.
Checked == \A w \in Watchers : \A i \in 1..Len(offers[w]) : offers[w][i] \in Answered

\* What the families of one instant say together.
Agrees(p) ==
    \A n \in DOMAIN p[1] :
        /\ p[1][n] = 1 \/ p[6][n] > 0 \/ p[2][n] > 0 => p[5][n].success > 0
        /\ n \in DOMAIN p[4] => p[2][n] > 0
        /\ p[3][n] >= p[2][n]

Bodies == DOMAIN body = Scrapers /\ \A s \in Scrapers : body[s] # <<>> => Agrees(body[s])

\* The types that neither the mutex nor the counters depend on.
RestOK ==
    /\ client \in [Scrapers -> {"reads", "stalled", "gone"}]
    /\ \A s \in Scrapers : DOMAIN page[s] \in {1..n : n \in 0..Len(Families)}
    /\ ticks \in [Watchers -> Nat] /\ scrapes \in [Scrapers -> Nat]

\* The inductive invariant, next to those of the mutex and of the counters.
ShowInv == SeriesSound /\ Checked /\ Bodies /\ RestOK

LEMMA GetSound ==
    ASSUME SeriesSound, NEW n  PROVE Sound(Get(n))
BY MetricsAssumption DEF SeriesSound, Get, Fresh, Sound, Series

LEMMA ReportSound ==
    ASSUME NEW s, Sound(s), NEW result \in Answers \cup {Failed}
    PROVE  /\ Sound(Reported(s, result))
           /\ Reported(s, result).checksSuccess >= s.checksSuccess
           /\ result # Failed => Reported(s, result).checksSuccess > 0
<1>0. s \in Series /\ s.checksSuccess \in Nat /\ s.checksError \in Nat
  BY DEF Sound, Series
<1>1. CASE result = Failed
  <2>1. PICK e \in Nat : e = s.checksError + 1
    BY <1>0
  <2>2. Reported(s, result) = [s EXCEPT !.success = 0, !.checksError = e]
    BY <1>1, <2>1 DEF Reported
  <2>3. /\ Reported(s, result) \in Series /\ Reported(s, result).success = 0
        /\ \A f \in {"checksSuccess", "available", "stock", "minPrice", "notifications"} :
              Reported(s, result)[f] = s[f]
    BY <1>0, <2>1, <2>2 DEF Series
  <2> QED  BY <1>0, <1>1, <2>3 DEF Sound
<1>2. CASE result # Failed
  <2>1. result \in Seq(Listing)
    BY <1>2, MetricsAssumption DEF Listing
  <2>2. PICK len, st, mp : len = Len(result) /\ st = Stock(result) /\ mp = MinPrice(result)
    OBVIOUS
  <2>3. /\ len \in Nat /\ st \in Nat /\ st >= len
        /\ mp \in Nat \cup {NoPrice} /\ (mp # NoPrice => len > 0)
    BY <2>1, <2>2, StockCounts, PriceKnown, LenProperties
  <2>4. PICK c \in Nat : c = s.checksSuccess + 1
    BY <1>0
  <2>5. Reported(s, result) =
           [s EXCEPT !.success = 1, !.checksSuccess = c, !.available = len,
                     !.stock = st, !.minPrice = mp]
    BY <1>2, <2>2, <2>4 DEF Reported, AvailStats
  <2>6. /\ Reported(s, result) \in Series /\ Reported(s, result).success = 1
        /\ Reported(s, result).checksSuccess = c /\ Reported(s, result).available = len
        /\ Reported(s, result).stock = st /\ Reported(s, result).minPrice = mp
    BY <1>0, <2>3, <2>5 DEF Series
  <2> QED  BY <1>0, <1>2, <2>3, <2>4, <2>6 DEF Sound
<1> QED  BY <1>1, <1>2

LEMMA PutSound ==
    ASSUME SeriesSound, NEW n \in Sources, NEW s, Sound(s), Put(n, s),
           s.checksSuccess >= Get(n).checksSuccess
    PROVE  /\ SeriesSound' /\ Get(n)' = s
           /\ Answered \subseteq Answered'
<1>1. Get(n)' = s /\ \A m : m # n => Get(m)' = Get(m)
  BY DEF Put, Get
<1>2. \A m : Get(m).checksSuccess \in Nat
  BY GetSound DEF Sound, Series
<1>3. SeriesSound'
  <2>1. PICK S \in SUBSET Sources : src \in [S -> Series]
    BY DEF SeriesSound
  <2>2. src' \in [S \cup {n} -> Series]
    BY <2>1 DEF Put, Sound
  <2>3. \A m \in DOMAIN src' : Sound(src'[m])
    BY DEF Put, SeriesSound
  <2> QED  BY <2>2, <2>3 DEF SeriesSound
<1>4. s.checksSuccess \in Nat
  BY DEF Sound, Series
<1> QED  BY <1>1, <1>2, <1>3, <1>4 DEF Answered

\* A complete page of one instant agrees with itself.
LEMMA PageAgrees ==
    ASSUME SeriesSound, NEW p, \A i \in 1..6 : p[i] = Samples(Families[i])
    PROVE  Agrees(p)
<1>1. /\ p[1] = Samples("up") /\ p[2] = Samples("available") /\ p[3] = Samples("stock")
      /\ p[4] = Samples("minPrice") /\ p[5] = Samples("checks")
      /\ p[6] = Samples("notifications")
  BY DEF Families
<1>2. /\ p[1] = [n \in DOMAIN src |-> src[n].success]
      /\ p[2] = [n \in DOMAIN src |-> src[n].available]
      /\ p[3] = [n \in DOMAIN src |-> src[n].stock]
  BY <1>1 DEF Samples
<1>3. p[4] = [n \in {m \in DOMAIN src : src[m].minPrice # NoPrice} |-> src[n].minPrice]
  BY <1>1 DEF Samples
<1>4. /\ p[5] = [n \in DOMAIN src |->
                   [success |-> src[n].checksSuccess, error |-> src[n].checksError]]
      /\ p[6] = [n \in DOMAIN src |-> src[n].notifications]
  BY <1>1 DEF Samples
<1> QED  BY <1>2, <1>3, <1>4 DEF SeriesSound, Sound, Agrees

LEMMA TailElement ==
    ASSUME NEW S, NEW q \in Seq(S), q # <<>>, NEW i \in 1..Len(Tail(q))
    PROVE  i + 1 \in 1..Len(q) /\ Tail(q)[i] = q[i + 1]
OBVIOUS

LEMMA JoinedElement ==
    ASSUME NEW S, NEW T, NEW q \in Seq(S), NEW r \in Seq(T), NEW i \in 1..Len(q \o r)
    PROVE  \/ i \in 1..Len(q) /\ (q \o r)[i] = q[i]
           \/ r # <<>> /\ (q \o r)[i] \in T
<1>1. Len(q) \in Nat /\ Len(r) \in Nat /\ Len(q \o r) = Len(q) + Len(r)
  OBVIOUS
<1>2. CASE i <= Len(q)
  BY <1>1, <1>2
<1>3. CASE i > Len(q)
  <2>1. i - Len(q) \in 1..Len(r) /\ (q \o r)[i] = r[i - Len(q)]
    BY <1>1, <1>3
  <2> QED  BY <2>1, ElementOfSeq
<1> QED  BY <1>1, <1>2, <1>3

LEMMA ShowInit == Init => ShowInv
<1> SUFFICES ASSUME Init  PROVE ShowInv
  OBVIOUS
<1>1. SeriesSound
  <2>1. src \in [{} -> Series]
    BY DEF Init
  <2> QED  BY <2>1 DEF SeriesSound
<1>2. Checked
  BY DEF Init, Checked
<1>3. Bodies
  BY DEF Init, Bodies
<1>4. RestOK
  <2>1. \A s \in Scrapers : DOMAIN page[s] = 1..0
    BY DEF Init
  <2>2. 0 \in 0..Len(Families)
    BY DEF Families
  <2> QED  BY <2>1, <2>2 DEF Init, RestOK
<1> QED  BY <1>1, <1>2, <1>3, <1>4 DEF ShowInv

\* What a watcher has yet to handle, after one of its steps.
LEMMA StillChecked ==
    ASSUME Checked, Answered \subseteq Answered',
           NEW w \in Watchers, \A v \in Watchers \ {w} : offers'[v] = offers[v],
           \A i \in 1..Len(offers'[w]) : offers'[w][i] \in Answered'
    PROVE  Checked'
BY DEF Checked

LEMMA ReportShows ==
    ASSUME ShowInv, CountInv, NEW w \in Watchers, ObserveCheck(w)
    PROVE  ShowInv'
<1>1. PICK n \in Sources : n = Polled(w)
  BY PolledSource DEF CountInv
<1>2. PICK s : s = Reported(Get(n), found[w])
  OBVIOUS
<1>3. PICK shown : shown = IF found[w] = Failed THEN <<>> ELSE [i \in DOMAIN found[w] |-> n]
  OBVIOUS
<1>4. /\ Put(n, s) /\ offers' = [offers EXCEPT ![w] = @ \o shown]
      /\ UNCHANGED <<client, page, body, ticks, scrapes>>
  BY <1>1, <1>2, <1>3 DEF ObserveCheck, Observe, scraping
<1>5. found[w] \in Answers \cup {Failed} /\ offers[w] \in Seq(Sources)
  BY DEF CountInv, Shapes
<1>6. /\ Sound(s) /\ s.checksSuccess >= Get(n).checksSuccess
      /\ found[w] # Failed => s.checksSuccess > 0
  BY <1>2, <1>5, GetSound, ReportSound DEF ShowInv
<1>7. SeriesSound' /\ Get(n)' = s /\ Answered \subseteq Answered'
  BY <1>4, <1>6, PutSound DEF ShowInv
<1>8. shown \in Seq({n}) /\ (shown # <<>> => found[w] # Failed)
  <2>1. CASE found[w] = Failed
    BY <1>3, <2>1
  <2>2. CASE found[w] # Failed
    <3>1. found[w] \in Seq(Listing)
      BY <1>5, <2>2, MetricsAssumption DEF Listing
    <3>2. shown = [i \in 1..Len(found[w]) |-> n] /\ Len(found[w]) \in Nat
      BY <1>3, <2>2, <3>1
    <3> QED  BY <2>2, <3>2
  <2> QED  BY <2>1, <2>2
<1>9. ASSUME NEW i \in 1..Len(offers'[w])  PROVE offers'[w][i] \in Answered'
  <2>1. offers'[w] = offers[w] \o shown
    BY <1>4 DEF CountInv, Shapes
  <2>2. \/ i \in 1..Len(offers[w]) /\ offers'[w][i] = offers[w][i]
        \/ shown # <<>> /\ offers'[w][i] = n
    BY <1>5, <1>8, <1>9, <2>1, JoinedElement
  <2>4. CASE i \in 1..Len(offers[w]) /\ offers'[w][i] = offers[w][i]
    BY <1>7, <2>4 DEF ShowInv, Checked
  <2>5. CASE shown # <<>> /\ offers'[w][i] = n
    BY <1>6, <1>7, <1>8, <2>5 DEF Answered
  <2> QED  BY <2>2, <2>4, <2>5
<1>10. Checked'
  <2>1. \A v \in Watchers \ {w} : offers'[v] = offers[v]
    BY <1>4 DEF CountInv, Shapes
  <2> QED  BY <1>7, <1>9, <2>1, StillChecked DEF ShowInv
<1> QED  BY <1>4, <1>7, <1>10 DEF ShowInv, Bodies, RestOK, Agrees

\* An alert is counted for a source that answered before.
LEMMA NotificationShows ==
    ASSUME ShowInv, CountInv, NEW w \in Watchers, ObserveNotification(w)
    PROVE  ShowInv'
<1>1. PICK n : n = Head(offers[w])
  OBVIOUS
<1>2. PICK s : s = [Get(n) EXCEPT !.notifications = @ + 1]
  OBVIOUS
<1>3. /\ pc[w] = "count" /\ Put(n, s) /\ offers' = [offers EXCEPT ![w] = Tail(@)]
      /\ UNCHANGED <<client, page, body, ticks, scrapes>>
  BY <1>1, <1>2 DEF ObserveNotification, scraping
<1>4. /\ offers[w] \in Seq(Sources) /\ offers[w] # <<>> /\ n \in Sources
      /\ n = offers[w][1] /\ 1 \in 1..Len(offers[w])
  BY <1>1, <1>3 DEF CountInv, Shapes
<1>5. Get(n).checksSuccess > 0
  BY <1>4 DEF ShowInv, Checked, Answered
<1>6. Sound(s) /\ s.checksSuccess = Get(n).checksSuccess
  <2>1. Sound(Get(n))
    BY GetSound DEF ShowInv
  <2> QED  BY <1>2, <1>5, <2>1 DEF Sound, Series
<1>7. SeriesSound' /\ Answered \subseteq Answered'
  <2>1. s.checksSuccess >= Get(n).checksSuccess
    BY <1>6 DEF Sound, Series
  <2> QED  BY <1>3, <1>4, <1>6, <2>1, PutSound DEF ShowInv
<1>8. Checked'
  <2>1. \A v \in Watchers \ {w} : offers'[v] = offers[v]
    BY <1>3 DEF CountInv, Shapes
  <2>2. \A i \in 1..Len(offers'[w]) :
           i + 1 \in 1..Len(offers[w]) /\ offers'[w][i] = offers[w][i + 1]
    <3>1. offers'[w] = Tail(offers[w])
      BY <1>3 DEF CountInv, Shapes
    <3> QED  BY <1>4, <3>1, TailElement
  <2>3. \A i \in 1..Len(offers'[w]) : offers'[w][i] \in Answered'
    BY <1>7, <2>2 DEF ShowInv, Checked
  <2> QED  BY <1>7, <2>1, <2>3, StillChecked DEF ShowInv
<1> QED  BY <1>3, <1>7, <1>8 DEF ShowInv, Bodies, RestOK, Agrees

\* The other steps of a watcher show nothing.
LEMMA OtherStepsShow ==
    ASSUME ShowInv, CountInv, NEW w \in Watchers,
           CheckReturns(w) \/ NotifyAnswers(w) \/ OfferPasses(w) \/ EndTick(w) \/ Tick(w)
    PROVE  ShowInv'
<1>1. /\ UNCHANGED <<src, client, page, body, scrapes>> /\ ticks' \in [Watchers -> Nat]
      /\ \/ UNCHANGED offers
         \/ offers[w] # <<>> /\ offers' = [offers EXCEPT ![w] = Tail(@)]
  BY DEF ShowInv, RestOK, CheckReturns, NotifyAnswers, OfferPasses, EndTick, Tick, scraping
<1>2. SeriesSound' /\ Answered' = Answered
  BY <1>1 DEF ShowInv, SeriesSound, Answered, Get
<1>3. Checked'
  <2>1. CASE UNCHANGED offers
    BY <1>2, <2>1 DEF ShowInv, Checked
  <2>2. CASE offers[w] # <<>> /\ offers' = [offers EXCEPT ![w] = Tail(@)]
    <3>1. /\ \A v \in Watchers \ {w} : offers'[v] = offers[v]
          /\ offers'[w] = Tail(offers[w]) /\ offers[w] \in Seq(Sources)
      BY <2>2 DEF CountInv, Shapes
    <3>2. \A i \in 1..Len(offers'[w]) :
             i + 1 \in 1..Len(offers[w]) /\ offers'[w][i] = offers[w][i + 1]
      <4>1. offers[w] # <<>>
        BY <2>2
      <4> QED  BY <3>1, <4>1, TailElement
    <3> QED  BY <1>2, <3>1, <3>2 DEF ShowInv, Checked
  <2> QED  BY <1>1, <2>1, <2>2
<1> QED  BY <1>1, <1>2, <1>3 DEF ShowInv, Bodies, RestOK, Agrees

\* A handler shows what the state holds.
LEMMA HandlerShows ==
    ASSUME ShowInv, MutexInv, NEW s \in Scrapers, Serve(s) \/ Request(s) \/ ClientMoves(s)
    PROVE  ShowInv'
<1>1. UNCHANGED <<src, offers, ticks>>
  BY DEF Serve, StartWrite, WriteFamily, EndWrite, Request, ClientMoves, watching
<1>2. SeriesSound' /\ Checked'
  BY <1>1 DEF ShowInv, SeriesSound, Checked, Answered, Get
<1>3. client' \in [Scrapers -> {"reads", "stalled", "gone"}] /\ scrapes' \in [Scrapers -> Nat]
  <2>1. CASE Request(s)
    BY <2>1 DEF ShowInv, RestOK, Request
  <2>2. CASE ClientMoves(s)
    <3>1. \E c \in {"stalled", "gone"} : client' = [client EXCEPT ![s] = c]
      BY <2>2 DEF ClientMoves
    <3> QED  BY <2>2, <3>1 DEF ShowInv, RestOK, ClientMoves
  <2> QED
    BY <2>1, <2>2 DEF ShowInv, RestOK, Serve, StartWrite, WriteFamily, EndWrite
<1>4. \A r \in Scrapers : DOMAIN page'[r] \in {1..n : n \in 0..Len(Families)}
  <2>1. CASE StartWrite(s)
    <3>1. \A r \in Scrapers : page'[r] = page[r] \/ page'[r] = <<>>
      BY <2>1 DEF StartWrite, MutexInv, HandlersOK
    <3>2. DOMAIN <<>> = 1..0 /\ 0 \in 0..Len(Families)
      BY DEF Families
    <3> QED  BY <3>1, <3>2 DEF ShowInv, RestOK
  <2>2. CASE WriteFamily(s)
    <3> DEFINE next == Samples(Families[Len(page[s]) + 1])
    <3>1. /\ page[s] \in Seq(Outputs) /\ Len(page[s]) < Len(Families)
          /\ page'[s] = Append(page[s], next)
          /\ \A r \in Scrapers : r # s => page'[r] = page[r]
      BY <2>2 DEF WriteFamily, MutexInv, HandlersOK, PageMade
    <3>2. DOMAIN page'[s] = 1..Len(page[s]) + 1 /\ Len(page[s]) + 1 \in 0..Len(Families)
      <4> HIDE DEF next
      <4> QED  BY <3>1 DEF Families
    <3> QED  BY <3>1, <3>2 DEF ShowInv, RestOK
  <2>3. CASE UNCHANGED page
    BY <2>3 DEF ShowInv, RestOK
  <2> QED  BY <2>1, <2>2, <2>3 DEF Serve, EndWrite, Request, ClientMoves
<1>5. Bodies'
  <2>1. CASE EndWrite(s)
    <3>1. /\ serving[s] = "writing" /\ Len(page[s]) = Len(Families)
          /\ body' = body \/ body' = [body EXCEPT ![s] = page[s]]
      BY <2>1 DEF EndWrite
    <3>2. page[s] \in Seq(Outputs)
          /\ \A i \in DOMAIN page[s] : page[s][i] = Samples(Families[i])
      BY <3>1 DEF MutexInv, PageMade, ResponseIsOneInstant
    <3>3. \A i \in 1..6 : page[s][i] = Samples(Families[i])
      BY <3>1, <3>2 DEF Families
    <3>4. Agrees(page[s])
      BY <3>3, PageAgrees DEF ShowInv
    <3>5. DOMAIN body' = Scrapers /\ \A r \in Scrapers : body'[r] = body[r] \/ body'[r] = page[s]
      BY <3>1 DEF ShowInv, Bodies
    <3> QED  BY <3>4, <3>5 DEF ShowInv, Bodies, Agrees
  <2>2. CASE UNCHANGED body
    BY <2>2 DEF ShowInv, Bodies, Agrees
  <2> QED  BY <2>1, <2>2 DEF Serve, StartWrite, WriteFamily, Request, ClientMoves
<1> QED  BY <1>1, <1>2, <1>3, <1>4, <1>5 DEF ShowInv, RestOK

LEMMA ShowInductive == Spec => []ShowInv
<1>1. ShowInv /\ CountInv /\ MutexInv /\ [Next]_vars => ShowInv'
  <2> SUFFICES ASSUME ShowInv, CountInv, MutexInv, [Next]_vars  PROVE ShowInv'
    OBVIOUS
  <2>1. ASSUME NEW w \in Watchers, Watch(w)  PROVE ShowInv'
    BY <2>1, ReportShows, NotificationShows, OtherStepsShow DEF Watch
  <2>2. CASE UNCHANGED vars
    BY <2>2 DEF vars, watching, scraping, ShowInv, SeriesSound, Checked, Answered, Get,
                Bodies, RestOK, Agrees
  <2> QED  BY <2>1, <2>2, HandlerShows DEF Next
<1> QED  BY <1>1, ShowInit, CountInductive, MutexInductive, PTL DEF Spec

\* The families of every complete response agree, for any number of products,
\* shared sources and clients: whatever is up, alerted or offered was checked, a
\* price comes with an offer and an offer with a unit (monitor.go:92-93, 151, 167).
THEOREM ResponsesAgree == Spec => []ResponseAgrees
<1>1. ShowInv => ResponseAgrees
  BY DEF ShowInv, Bodies, Agrees, ResponseAgrees
<1> QED  BY <1>1, ShowInductive, PTL

\* Every variable keeps its type.
THEOREM MetricsTypeCorrect == Spec => []TypeOK
<1>1. ShowInv /\ CountInv /\ MutexInv => TypeOK
  BY DEF ShowInv, SeriesSound, RestOK, CountInv, Shapes, MutexInv, HandlersOK, TypeOK
<1> QED  BY <1>1, ShowInductive, CountInductive, MutexInductive, PTL
=============================================================================
