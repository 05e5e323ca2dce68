--------------------------- MODULE MonitorProofs ----------------------------
(***************************************************************************)
(* Proofs about Monitor for any watchers, keys, prices, plans and bounds.  *)
(* IndInv is shown inductive action by action: the steps of a watcher      *)
(* first, for the watcher that moves (its own offers and decision) and     *)
(* for the others (nobody else handles its keys), then the environment.    *)
(***************************************************************************)
EXTENDS Monitor, TLAPS, SequenceTheorems

-----------------------------------------------------------------------------
(* Sequences of offers *)

\* The first offer of a tick and the rest of them are offers of that tick.
LEMMA RestOfOffers ==
    ASSUME NEW s \in Seq(Offer), s # <<>>
    PROVE  /\ Head(s) \in Offer
           /\ Head(s).key \in Listed(s)
           /\ Tail(s) \in Seq(Offer)
           /\ Listed(Tail(s)) \subseteq Listed(s)
           /\ Len(s) # 1 => Tail(s) # <<>>
<1>1. /\ Head(s) \in Offer /\ Tail(s) \in Seq(Offer)
      /\ Len(Tail(s)) = Len(s) - 1
      /\ \A i \in 1 .. Len(Tail(s)) : Tail(s)[i] = s[i + 1]
  BY HeadTailProperties
<1>2. Len(s) \in Nat \ {0} /\ DOMAIN s = 1 .. Len(s) /\ Head(s) = s[1]
  BY EmptySeq, LenProperties
<1>3. DOMAIN Tail(s) = 1 .. Len(Tail(s))
  BY <1>1, LenProperties
<1>4. Head(s).key \in Listed(s)
  BY <1>2 DEF Listed
<1>5. Listed(Tail(s)) \subseteq Listed(s)
  <2>1. ASSUME NEW i \in DOMAIN Tail(s)  PROVE Tail(s)[i].key \in Listed(s)
    <3>1. i + 1 \in DOMAIN s
      BY <1>1, <1>2, <1>3
    <3>2. Tail(s)[i] = s[i + 1]
      BY <1>1, <1>3
    <3> QED  BY <3>1, <3>2 DEF Listed
  <2> QED  BY <2>1 DEF Listed
<1>6. Len(s) # 1 => Tail(s) # <<>>
  <2>1. Len(s) # 1 => Len(Tail(s)) # 0
    BY <1>1, <1>2
  <2>2. Len(<<>>) = 0
    OBVIOUS
  <2> QED  BY <2>1, <2>2
<1> QED  BY <1>1, <1>4, <1>5, <1>6

\* Keeping one more offer adds its key and nothing else.
LEMMA OneMoreOffer ==
    ASSUME NEW s \in Seq(Offer), NEW a \in Offer
    PROVE  /\ Append(s, a) \in Seq(Offer)
           /\ Listed(Append(s, a)) = Listed(s) \cup {a.key}
<1> DEFINE t == Append(s, a)
<1>1. /\ t \in Seq(Offer) /\ Len(t) = Len(s) + 1
      /\ \A i \in 1 .. Len(s) : t[i] = s[i]
      /\ t[Len(s) + 1] = a
  OBVIOUS
<1>2. /\ Len(s) \in Nat /\ DOMAIN s = 1 .. Len(s)
      /\ DOMAIN t = 1 .. Len(s) + 1
  BY <1>1, LenProperties
<1> HIDE DEF t
<1>3. ASSUME NEW i \in DOMAIN t  PROVE t[i].key \in Listed(s) \cup {a.key}
  <2>1. CASE i \in 1 .. Len(s)
    BY <1>1, <1>2, <2>1 DEF Listed
  <2>2. CASE i = Len(s) + 1
    BY <1>1, <2>2
  <2> QED  BY <1>2, <2>1, <2>2
<1>4. ASSUME NEW i \in DOMAIN s  PROVE s[i].key \in Listed(t)
  BY <1>1, <1>2, <1>4 DEF Listed
<1>5. a.key \in Listed(t)
  BY <1>1, <1>2 DEF Listed
<1> QED
  <2>1. Listed(t) \subseteq Listed(s) \cup {a.key}
    BY <1>3 DEF Listed
  <2>2. Listed(s) \cup {a.key} \subseteq Listed(t)
    <3>1. Listed(s) \subseteq Listed(t)
      BY <1>4 DEF Listed
    <3> QED  BY <1>5, <3>1
  <2> QED  BY <1>1, <2>1, <2>2 DEF t

-----------------------------------------------------------------------------
(* The pieces of the invariant *)

Handling == {"lookup", "alert", "alertReply", "record", "drop", "dropReply", "touch"}

Mine(apart, w) == HasOffer(w) /\ PollsOffers(w) /\ (apart => Decision(w))

Quiet(apart) == apart => NoSilentRow

\* The offer a watcher handles is of one of its own keys.
LEMMA NowIsOwn ==
    ASSUME TypeOK, NEW w \in Watchers, HasOffer(w), PollsOffers(w),
           pc[w] \in Handling
    PROVE  /\ current[w] \in Seq(Offer) /\ current[w] # <<>>
           /\ Now(w) \in Offer /\ Now(w).key \in Keys /\ Now(w).price \in Quotes
           /\ Now(w).key \in KeysOf(w)
<1>1. current[w] \in Seq(Offer) /\ current[w] # <<>>
  BY DEF TypeOK, HasOffer, Handling
<1>2. Now(w) \in Offer /\ Now(w).key \in Listed(current[w])
  BY <1>1, RestOfOffers DEF Now
<1> QED  BY <1>1, <1>2 DEF PollsOffers, Offer

\* A watcher that does not move keeps its part of the invariant, as long as the
\* keys it may be handling keep their row and their announcement or lose the row.
LEMMA BystanderKeeps ==
    ASSUME NEW CONSTANT apart \in BOOLEAN, TypeOK,
           NEW v \in Watchers, Mine(apart, v),
           pc'[v] = pc[v], current'[v] = current[v],
           \A k \in KeysOf(v) :
              \/ rows'[k] = rows[k] /\ told'[k] = told[k]
              \/ rows[k] # None /\ rows'[k] = None
    PROVE  Mine(apart, v)'
<1>1. HasOffer(v)' /\ PollsOffers(v)'
  BY DEF Mine, HasOffer, PollsOffers, KeysOf, Listed
<1>2. ASSUME apart  PROVE Decision(v)'
  <2>1. CASE pc[v] \in Handling
    <3>1. Now(v).key \in KeysOf(v)
      BY <2>1, NowIsOwn DEF Mine
    <3>2. Now(v)' = Now(v)
      BY DEF Now
    <3> QED  BY <1>2, <3>1, <3>2 DEF Mine, Decision
  <2>2. CASE pc[v] \notin Handling
    BY <2>2 DEF Decision, Handling
  <2> QED  BY <2>1, <2>2
<1> QED  BY <1>1, <1>2 DEF Mine

\* Going on to the next offer leaves a watcher with offers it polled, and with
\* no decision taken.
LEMMA NextOfferKeeps ==
    ASSUME NEW CONSTANT apart \in BOOLEAN, TypeOK,
           NEW w \in Watchers, Mine(apart, w), pc[w] \in Handling, NextOffer(w)
    PROVE  /\ current' \in [Watchers -> Seq(Offer)]
           /\ pc' \in [Watchers -> PCs]
           /\ Mine(apart, w)'
           /\ \A v \in Watchers \ {w} : pc'[v] = pc[v] /\ current'[v] = current[v]
<1>1. current[w] \in Seq(Offer) /\ current[w] # <<>>
  BY NowIsOwn DEF Mine
<1>2. /\ Tail(current[w]) \in Seq(Offer)
      /\ Listed(Tail(current[w])) \subseteq Listed(current[w])
      /\ Len(current[w]) # 1 => Tail(current[w]) # <<>>
  BY <1>1, RestOfOffers
<1>3. /\ current' = [current EXCEPT ![w] = Tail(current[w])]
      /\ pc' = [pc EXCEPT ![w] = IF Len(current[w]) = 1 THEN "idle" ELSE "lookup"]
  BY DEF NextOffer, Goto
<1>4. current'[w] = Tail(current[w]) /\ pc'[w] \in {"idle", "lookup"}
  BY <1>3 DEF TypeOK
<1>5. pc'[w] = "lookup" => Len(current[w]) # 1
  BY <1>3 DEF TypeOK
<1>6. HasOffer(w)' /\ Decision(w)'
  BY <1>2, <1>4, <1>5 DEF HasOffer, Decision
<1>7. PollsOffers(w)'
  <2>1. Listed(current'[w]) \subseteq KeysOf(w)
    BY <1>2, <1>4 DEF Mine, PollsOffers
  <2> QED  BY <2>1 DEF PollsOffers, KeysOf, Listed
<1>8. current' \in [Watchers -> Seq(Offer)] /\ pc' \in [Watchers -> PCs]
  BY <1>2, <1>3 DEF TypeOK, PCs
<1> QED  BY <1>3, <1>6, <1>7, <1>8 DEF Mine, TypeOK

-----------------------------------------------------------------------------
(* The steps of a watcher *)

\* What every step of w must do: keep the types, its own part of the invariant
\* and NoSilentRow, leave the other watchers where they are, and touch no row or
\* announcement of a key it does not poll, except to delete the row.
Keeps(apart, w) ==
    /\ TypeOK'
    /\ Mine(apart, w)'
    /\ Quiet(apart)'
    /\ \A v \in Watchers \ {w} : pc'[v] = pc[v] /\ current'[v] = current[v]
    /\ \A k \in Keys \ KeysOf(w) :
          \/ rows'[k] = rows[k] /\ told'[k] = told[k]
          \/ rows[k] # None /\ rows'[k] = None

\* A failing call may or may not count as a fault; either way a number.
LEMMA FaultsCounted ==
    ASSUME TypeOK, Succeeds \/ Fault \/ Fails \/ FailsAfterAlert
    PROVE  faults' \in Nat
BY DEF TypeOK, Succeeds, Fault, Fails, FailsAfterAlert

\* Moving to a label that takes no decision, with the offers unchanged.
LEMMA GotoKeeps ==
    ASSUME NEW CONSTANT apart \in BOOLEAN, TypeOK,
           NEW w \in Watchers, Mine(apart, w), Quiet(apart),
           NEW label \in {"fetch", "keys", "delete", "lookup", "idle", "stopped"},
           label = "lookup" => current[w] # <<>>,
           Goto(w, label),
           UNCHANGED <<rows, current, heard, cancelled, market, moves, cancels>>,
           pos' \in [Watchers -> Nat \ {0}],
           spared' \in [Watchers -> SUBSET Keys],
           \A v \in Watchers : pos'[v] <= Len(Plan[v]),
           stale' \in [Watchers -> SUBSET Keys],
           faults' \in Nat
    PROVE  Keeps(apart, w)
<1>1. pc' = [pc EXCEPT ![w] = label] /\ pc'[w] = label
  BY DEF Goto, TypeOK
<1>2. pc' \in [Watchers -> PCs]
  BY <1>1 DEF TypeOK, PCs
<1>3. TypeOK'
  BY <1>2 DEF TypeOK, StoreTypeOK, history, heard
<1>4. HasOffer(w)' /\ Decision(w)'
  BY <1>1 DEF HasOffer, Decision
<1>5. PollsOffers(w)'
  BY DEF Mine, PollsOffers, KeysOf, Listed
<1>6. Quiet(apart)'
  BY DEF Quiet, NoSilentRow, Tracked, history, heard
<1> QED  BY <1>1, <1>3, <1>4, <1>5, <1>6 DEF Keeps, Mine, history, heard, TypeOK

\* Going on to the next offer with the rows and the announcements unchanged.
LEMMA SkipKeeps ==
    ASSUME NEW CONSTANT apart \in BOOLEAN, TypeOK,
           NEW w \in Watchers, Mine(apart, w), Quiet(apart),
           pc[w] \in Handling, NextOffer(w),
           UNCHANGED <<rows, history, cancelled, market, moves, cancels>>,
           faults' \in Nat
    PROVE  Keeps(apart, w)
<1>1. /\ current' \in [Watchers -> Seq(Offer)]
      /\ pc' \in [Watchers -> PCs]
      /\ Mine(apart, w)'
      /\ \A v \in Watchers \ {w} : pc'[v] = pc[v] /\ current'[v] = current[v]
  BY NextOfferKeeps
<1>2. UNCHANGED <<pos, stale>>
  BY DEF NextOffer
<1>3. TypeOK'
  BY <1>1, <1>2 DEF TypeOK, StoreTypeOK, history, heard
<1>4. Quiet(apart)'
  BY DEF Quiet, NoSilentRow, Tracked, history, heard
<1> QED  BY <1>1, <1>3, <1>4 DEF Keeps, history, heard

LEMMA FetchKeeps ==
    ASSUME NEW CONSTANT apart \in BOOLEAN, TypeOK,
           NEW w \in Watchers, Mine(apart, w), Quiet(apart),
           FetchAnswers(w) \/ FetchFails(w)
    PROVE  Keeps(apart, w)
<1> DEFINE k == Plan[w][pos[w]]
           a == [key |-> k, price |-> market[k]]
<1>1. pc[w] = "fetch" /\ NextPage(w) /\ faults' \in Nat
  BY FaultsCounted DEF FetchAnswers, FetchFails
<1>2. /\ k \in Keys /\ k \in KeysOf(w)
      /\ pos[w] \in Nat \ {0} /\ pos[w] <= Len(Plan[w]) /\ Len(Plan[w]) \in Nat
  <2>1. Plan[w] \in Seq(Keys)
    BY MonitorAssumption
  <2>2. pos[w] \in 1 .. Len(Plan[w]) /\ Len(Plan[w]) \in Nat
    BY <2>1, LenProperties DEF TypeOK
  <2>3. k \in Keys
    BY <2>1, <2>2, ElementOfSeq
  <2>4. DOMAIN Plan[w] = 1 .. Len(Plan[w])
    BY <2>1, LenProperties
  <2> QED  BY <2>2, <2>3, <2>4 DEF KeysOf, Range
<1>3. \/ current' = current
      \/ a \in Offer /\ current' = [current EXCEPT ![w] = Append(current[w], a)]
  <2>1. CASE FetchAnswers(w) /\ market[k] # None
    <3>1. market[k] \in Quotes
      BY <1>2, <2>1 DEF TypeOK
    <3> QED  BY <1>2, <2>1, <3>1 DEF FetchAnswers, Offer
  <2>2. CASE FetchAnswers(w) /\ market[k] = None
    BY <2>2 DEF FetchAnswers
  <2>3. CASE FetchFails(w)
    BY <2>3 DEF FetchFails
  <2> QED  BY <1>1, <2>1, <2>2, <2>3 DEF FetchAnswers, FetchFails
<1>4. /\ current' \in [Watchers -> Seq(Offer)]
      /\ Listed(current'[w]) \subseteq KeysOf(w)
      /\ \A v \in Watchers \ {w} : current'[v] = current[v]
  <2>1. CASE current' = current
    BY <2>1 DEF TypeOK, Mine, PollsOffers
  <2>2. CASE a \in Offer /\ current' = [current EXCEPT ![w] = Append(current[w], a)]
    <3>1. current[w] \in Seq(Offer)
      BY DEF TypeOK
    <3>2. /\ Append(current[w], a) \in Seq(Offer)
          /\ Listed(Append(current[w], a)) = Listed(current[w]) \cup {a.key}
      BY <2>2, <3>1, OneMoreOffer
    <3>3. current'[w] = Append(current[w], a)
      BY <2>2 DEF TypeOK
    <3> QED  BY <1>2, <2>2, <3>2, <3>3 DEF TypeOK, Mine, PollsOffers
  <2> QED  BY <1>3, <2>1, <2>2
<1>5. /\ pos' \in [Watchers -> Nat \ {0}]
      /\ \A v \in Watchers : pos'[v] <= Len(Plan[v])
      /\ pc'[w] \in {"fetch", "keys"} /\ pc' \in [Watchers -> PCs]
      /\ \A v \in Watchers \ {w} : pc'[v] = pc[v]
  <2>1. Len(Plan[w]) >= 1
    BY <1>2
  <2>2. CASE pos[w] < Len(Plan[w])
    <3>1. pos' = [pos EXCEPT ![w] = pos[w] + 1] /\ pc' = pc
      BY <1>1, <2>2 DEF NextPage
    <3>2. pos[w] + 1 \in Nat \ {0} /\ pos[w] + 1 <= Len(Plan[w])
      BY <1>2, <2>2
    <3>3. pos' \in [Watchers -> Nat \ {0}] /\ \A v \in Watchers : pos'[v] <= Len(Plan[v])
      BY <3>1, <3>2 DEF TypeOK
    <3> QED  BY <1>1, <3>1, <3>3 DEF TypeOK
  <2>3. CASE ~(pos[w] < Len(Plan[w]))
    <3>1. pos' = [pos EXCEPT ![w] = 1] /\ pc' = [pc EXCEPT ![w] = "keys"]
      BY <1>1, <2>3 DEF NextPage, Goto
    <3>2. pos' \in [Watchers -> Nat \ {0}] /\ \A v \in Watchers : pos'[v] <= Len(Plan[v])
      BY <2>1, <3>1 DEF TypeOK
    <3> QED  BY <3>1, <3>2 DEF TypeOK, PCs
  <2> QED  BY <2>2, <2>3
<1>6. UNCHANGED <<rows, stale, history, cancelled, market, moves, cancels>>
  BY <1>1 DEF NextPage
<1>7. TypeOK'
  BY <1>1, <1>4, <1>5, <1>6 DEF TypeOK, StoreTypeOK, history, heard
<1>8. HasOffer(w)' /\ Decision(w)'
  BY <1>5 DEF HasOffer, Decision
<1>9. PollsOffers(w)'
  BY <1>4 DEF PollsOffers, KeysOf, Listed
<1>10. Quiet(apart)'
  BY <1>6 DEF Quiet, NoSilentRow, Tracked, history, heard
<1> QED  BY <1>4, <1>5, <1>6, <1>7, <1>8, <1>9, <1>10 DEF Keeps, Mine, history, heard
LEMMA LoadKeysKeeps ==
    ASSUME NEW CONSTANT apart \in BOOLEAN, TypeOK,
           NEW w \in Watchers, Mine(apart, w), Quiet(apart),
           LoadKeys(w) \/ LoadKeysFails(w)
    PROVE  Keeps(apart, w)
<1>1. /\ UNCHANGED <<rows, current, heard, cancelled, market, moves, cancels, pos>>
      /\ faults' \in Nat
  BY FaultsCounted DEF LoadKeys, LoadKeysFails, history
<1>2. stale' \in [Watchers -> SUBSET Keys] /\ spared' \in [Watchers -> SUBSET Keys]
  BY DEF LoadKeys, LoadKeysFails, TypeOK, ProductKeys, history
<1>3. /\ AfterReconcile(w) \in {"idle", "lookup"}
      /\ AfterReconcile(w) = "lookup" => current[w] # <<>>
  BY DEF AfterReconcile
<1>4. Goto(w, "delete") \/ Goto(w, AfterReconcile(w))
  BY DEF LoadKeys, LoadKeysFails
<1>5. /\ pos' \in [Watchers -> Nat \ {0}]
      /\ \A v \in Watchers : pos'[v] <= Len(Plan[v])
  BY <1>1 DEF TypeOK
<1>6. CASE Goto(w, "delete")
  BY <1>1, <1>2, <1>5, <1>6, GotoKeeps
<1>7. CASE Goto(w, AfterReconcile(w))
  BY <1>1, <1>2, <1>3, <1>5, <1>7, GotoKeeps
<1> QED  BY <1>4, <1>6, <1>7

LEMMA DeleteKeeps ==
    ASSUME NEW CONSTANT apart \in BOOLEAN, TypeOK,
           NEW w \in Watchers, Mine(apart, w), Quiet(apart), NEW k \in stale[w],
           DeleteStale(w, k) \/ DeleteFails(w, k)
    PROVE  Keeps(apart, w)
<1>1. /\ UNCHANGED <<pos, current, news, dups, cancelled, market, moves, cancels>>
      /\ stale' = [stale EXCEPT ![w] = stale[w] \ {k}]
      /\ faults' \in Nat /\ pc[w] = "delete"
  BY FaultsCounted DEF DeleteStale, DeleteFails, NextStale
<1>2. k \in Keys
  BY DEF TypeOK
<1>3. /\ pc'[w] \in {"delete", "idle", "lookup"} /\ pc' \in [Watchers -> PCs]
      /\ pc'[w] = "lookup" => current[w] # <<>>
      /\ \A v \in Watchers \ {w} : pc'[v] = pc[v]
  <2>1. pc' = pc \/ pc' = [pc EXCEPT ![w] = AfterReconcile(w)]
    BY DEF DeleteStale, DeleteFails, NextStale, Goto
  <2> QED  BY <1>1, <2>1 DEF TypeOK, PCs, AfterReconcile
<1>4. \A j \in Keys : \/ rows'[j] = rows[j] /\ told'[j] = told[j]
                      \/ rows[j] # None /\ rows'[j] = None
  <2>1. CASE DeleteStale(w, k)
    BY <1>2, <2>1 DEF DeleteStale, Delete, Tracked, TypeOK, StoreTypeOK
  <2>2. CASE DeleteFails(w, k)
    BY <2>2 DEF DeleteFails
  <2> QED  BY <2>1, <2>2
<1>5. /\ StoreTypeOK' /\ told' \in [Keys -> Quotes \cup {None}]
      /\ spared' \in [Watchers -> SUBSET Keys]
  <2>1. StoreTypeOK' /\ told' \in [Keys -> Quotes \cup {None}]
    BY <1>2 DEF DeleteStale, DeleteFails, Delete, TypeOK, StoreTypeOK
  <2>2. spared' = spared \/ spared' = [spared EXCEPT ![w] = spared[w] \cup {k}]
    BY DEF DeleteStale, DeleteFails
  <2>3. spared \in [Watchers -> SUBSET Keys] /\ spared[w] \cup {k} \in SUBSET Keys
    BY <1>2 DEF TypeOK
  <2>4. spared' \in [Watchers -> SUBSET Keys]
    BY <2>2, <2>3
  <2> QED  BY <2>1, <2>4
<1>6. TypeOK'
  BY <1>1, <1>3, <1>5 DEF TypeOK
<1>7. Quiet(apart)'
  BY <1>4 DEF Quiet, NoSilentRow, Tracked
<1>8. HasOffer(w)' /\ Decision(w)'
  BY <1>1, <1>3 DEF HasOffer, Decision
<1>9. PollsOffers(w)'
  BY <1>1 DEF Mine, PollsOffers, KeysOf, Listed
<1> QED  BY <1>1, <1>3, <1>4, <1>6, <1>7, <1>8, <1>9 DEF Keeps, Mine

LEMMA LookupKeeps ==
    ASSUME NEW CONSTANT apart \in BOOLEAN, TypeOK,
           NEW w \in Watchers, Mine(apart, w), Quiet(apart), LookupAnswers(w)
    PROVE  Keeps(apart, w)
<1>1. /\ UNCHANGED <<rows, pos, current, stale, history, cancelled, market, moves, cancels>>
      /\ faults' \in Nat /\ pc[w] = "lookup"
  BY FaultsCounted DEF LookupAnswers
<1> DEFINE a == Now(w)
           row == rows[a.key]
<1>2. pc' = [pc EXCEPT ![w] = Verdict(row, a)]
  BY DEF LookupAnswers, Goto
<1>3. /\ pc'[w] = Verdict(row, a) /\ Verdict(row, a) \in {"alert", "drop", "touch"}
      /\ \A v \in Watchers \ {w} : pc'[v] = pc[v]
  BY <1>2 DEF TypeOK, Verdict
<1>4. TypeOK'
  BY <1>1, <1>2, <1>3 DEF TypeOK, PCs, StoreTypeOK, history, heard
<1>5. HasOffer(w)' /\ PollsOffers(w)'
  BY <1>1 DEF Mine, HasOffer, PollsOffers, KeysOf, Listed
<1>6. Now(w)' = Now(w) /\ rows' = rows
  BY <1>1 DEF Now
<1>7. Decision(w)'
  BY <1>3, <1>6 DEF Decision, Verdict
<1>8. Quiet(apart)'
  BY <1>1 DEF Quiet, NoSilentRow, Tracked, history, heard
<1> QED  BY <1>1, <1>3, <1>4, <1>5, <1>7, <1>8 DEF Keeps, Mine, history, heard

\* An alert that reaches the service announces the price the watcher handles.
LEMMA NotifyKeeps ==
    ASSUME NEW CONSTANT apart \in BOOLEAN, TypeOK,
           NEW w \in Watchers, Mine(apart, w), Quiet(apart), NotifyDelivers(w)
    PROVE  Keeps(apart, w)
<1> DEFINE a == Now(w)
<1>1. /\ UNCHANGED <<rows, pos, current, stale, spared, cancelled, market, moves, cancels>>
      /\ faults' \in Nat /\ pc[w] \in {"alert", "drop"}
      /\ told' = [told EXCEPT ![a.key] = a.price]
      /\ news' = [news EXCEPT ![a.key] = ~Wanted(a.key)]
      /\ \/ dups' = dups
         \/ dups' = [dups EXCEPT ![a.key] = dups[a.key] + 1]
      /\ pc' = [pc EXCEPT ![w] = IF pc[w] = "alert" THEN "alertReply" ELSE "dropReply"]
  BY FaultsCounted DEF NotifyDelivers, Goto
<1>2. a.key \in Keys /\ a.price \in Quotes /\ a.key \in KeysOf(w)
  BY <1>1, NowIsOwn DEF Mine, Handling
<1>3. a.price # None
  BY <1>2, QuotesAssumption, NoPriceAssumption
<1>4. /\ pc'[w] = IF pc[w] = "alert" THEN "alertReply" ELSE "dropReply"
      /\ \A v \in Watchers \ {w} : pc'[v] = pc[v]
      /\ pc' \in [Watchers -> PCs]
  BY <1>1 DEF TypeOK, PCs
<1>5. /\ told' \in [Keys -> Quotes \cup {None}] /\ told'[a.key] = a.price
      /\ \A k \in Keys : k # a.key => told'[k] = told[k]
  BY <1>1, <1>2 DEF TypeOK
<1>6. news' \in [Keys -> BOOLEAN]
  <2> DEFINE b == ~Wanted(a.key)
  <2>1. b \in BOOLEAN
    OBVIOUS
  <2> HIDE DEF b
  <2>2. news' = [news EXCEPT ![a.key] = b]
    BY <1>1 DEF b
  <2> QED  BY <2>1, <2>2 DEF TypeOK
<1>7. dups' \in [Keys -> Nat]
  BY <1>1, <1>2 DEF TypeOK
<1>8. TypeOK'
  BY <1>1, <1>4, <1>5, <1>6, <1>7 DEF TypeOK, StoreTypeOK
<1>9. HasOffer(w)' /\ PollsOffers(w)'
  BY <1>1 DEF Mine, HasOffer, PollsOffers, KeysOf, Listed
<1>10. ASSUME apart  PROVE Decision(w)'
  <2>1. Now(w)' = a /\ rows' = rows
    BY <1>1 DEF Now
  <2>2. pc[w] = "alert" => rows[a.key] = None
    BY <1>10 DEF Mine, Decision
  <2> QED  BY <1>1, <1>4, <1>5, <2>1, <2>2 DEF Decision
<1>11. Quiet(apart)'
  BY <1>1, <1>3, <1>5 DEF Quiet, NoSilentRow, Tracked
<1> QED  BY <1>1, <1>2, <1>4, <1>5, <1>8, <1>9, <1>10, <1>11 DEF Keeps, Mine

LEMMA ReplyKeeps ==
    ASSUME NEW CONSTANT apart \in BOOLEAN, TypeOK,
           NEW w \in Watchers, Mine(apart, w), Quiet(apart), ReplyArrives(w)
    PROVE  Keeps(apart, w)
<1>1. /\ UNCHANGED <<rows, pos, current, stale, history, cancelled, market, moves,
                     faults, cancels>>
      /\ pc[w] \in {"alertReply", "dropReply"}
      /\ pc' = [pc EXCEPT ![w] = IF pc[w] = "alertReply" THEN "record" ELSE "touch"]
  BY DEF ReplyArrives, Goto
<1>2. /\ pc'[w] = IF pc[w] = "alertReply" THEN "record" ELSE "touch"
      /\ \A v \in Watchers \ {w} : pc'[v] = pc[v]
      /\ pc' \in [Watchers -> PCs]
  BY <1>1 DEF TypeOK, PCs
<1>3. TypeOK'
  BY <1>1, <1>2 DEF TypeOK, StoreTypeOK, history, heard
<1>4. HasOffer(w)' /\ PollsOffers(w)'
  BY <1>1 DEF Mine, HasOffer, PollsOffers, KeysOf, Listed
<1>5. ASSUME apart  PROVE Decision(w)'
  <2>1. Now(w)' = Now(w) /\ rows' = rows /\ told' = told
    BY <1>1 DEF Now, history, heard
  <2> QED  BY <1>1, <1>2, <1>5, <2>1 DEF Mine, Decision
<1>6. Quiet(apart)'
  BY <1>1 DEF Quiet, NoSilentRow, Tracked, history, heard
<1> QED  BY <1>1, <1>2, <1>3, <1>4, <1>5, <1>6 DEF Keeps, Mine, history, heard
LEMMA RecordKeeps ==
    ASSUME NEW CONSTANT apart \in BOOLEAN, TypeOK,
           NEW w \in Watchers, Mine(apart, w), Quiet(apart), RecordRow(w)
    PROVE  Keeps(apart, w)
<1> DEFINE a == Now(w)
<1>1. /\ UNCHANGED <<history, cancelled, market, moves, cancels>>
      /\ faults' \in Nat /\ pc[w] = "record" /\ NextOffer(w)
      /\ rows[a.key] = None
      /\ rows' = [rows EXCEPT ![a.key] = [product |-> Name[w], price |-> a.price]]
  BY FaultsCounted DEF RecordRow, Record, Tracked
<1>2. a.key \in Keys /\ a.price \in Quotes /\ a.key \in KeysOf(w)
  BY <1>1, NowIsOwn DEF Mine, Handling
<1>3. /\ current' \in [Watchers -> Seq(Offer)]
      /\ pc' \in [Watchers -> PCs]
      /\ Mine(apart, w)'
      /\ \A v \in Watchers \ {w} : pc'[v] = pc[v] /\ current'[v] = current[v]
  BY <1>1, NextOfferKeeps DEF Handling
<1>4. StoreTypeOK'
  <2>1. Name[w] \in Names
    BY MonitorAssumption
  <2>2. [product |-> Name[w], price |-> a.price] \in RowType
    BY <1>2, <2>1 DEF RowType
  <2> QED  BY <1>1, <2>2 DEF TypeOK, StoreTypeOK
<1>5. UNCHANGED <<pos, stale>>
  BY <1>1 DEF NextOffer
<1>6. TypeOK'
  BY <1>1, <1>3, <1>4, <1>5 DEF TypeOK, history, heard
<1>7. \A k \in Keys : k # a.key => rows'[k] = rows[k]
  BY <1>1 DEF TypeOK, StoreTypeOK
<1>8. ASSUME apart  PROVE NoSilentRow'
  <2>1. told'[a.key] = a.price /\ a.price # None
    BY <1>1, <1>2, <1>8, QuotesAssumption, NoPriceAssumption DEF Mine, Decision, history, heard
  <2> QED  BY <1>1, <1>7, <1>8, <2>1 DEF Quiet, NoSilentRow, Tracked, history, heard
<1> QED  BY <1>1, <1>2, <1>3, <1>6, <1>7, <1>8 DEF Keeps, Quiet, history, heard

LEMMA TouchKeeps ==
    ASSUME NEW CONSTANT apart \in BOOLEAN, TypeOK,
           NEW w \in Watchers, Mine(apart, w), Quiet(apart), TouchRow(w)
    PROVE  Keeps(apart, w)
<1> DEFINE a == Now(w)
<1>1. /\ UNCHANGED <<history, cancelled, market, moves, cancels>>
      /\ faults' \in Nat /\ pc[w] = "touch" /\ NextOffer(w)
      /\ rows' = IF rows[a.key] # None
                 THEN [rows EXCEPT ![a.key].price = a.price] ELSE rows
  BY FaultsCounted DEF TouchRow, Touch, Tracked
<1>2. a.key \in Keys /\ a.price \in Quotes /\ a.key \in KeysOf(w)
  BY <1>1, NowIsOwn DEF Mine, Handling
<1>3. /\ current' \in [Watchers -> Seq(Offer)]
      /\ pc' \in [Watchers -> PCs]
      /\ Mine(apart, w)'
      /\ \A v \in Watchers \ {w} : pc'[v] = pc[v] /\ current'[v] = current[v]
  BY <1>1, NextOfferKeeps DEF Handling
<1>4. /\ StoreTypeOK'
      /\ \A k \in Keys : k # a.key => rows'[k] = rows[k]
      /\ rows'[a.key] # None => rows[a.key] # None
  <2>1. CASE rows[a.key] # None
    <3>1. rows[a.key] \in RowType
      BY <1>2, <2>1 DEF TypeOK, StoreTypeOK
    <3>2. [rows[a.key] EXCEPT !.price = a.price] \in RowType
      BY <1>2, <3>1 DEF RowType
    <3>3. rows' = [rows EXCEPT ![a.key] = [rows[a.key] EXCEPT !.price = a.price]]
      BY <1>1, <2>1
    <3> QED  BY <2>1, <3>2, <3>3 DEF TypeOK, StoreTypeOK
  <2>2. CASE rows[a.key] = None
    BY <1>1, <2>2 DEF TypeOK, StoreTypeOK
  <2> QED  BY <2>1, <2>2
<1>5. UNCHANGED <<pos, stale>>
  BY <1>1 DEF NextOffer
<1>6. TypeOK'
  BY <1>1, <1>3, <1>4, <1>5 DEF TypeOK, history, heard
<1>7. Quiet(apart)'
  BY <1>1, <1>4 DEF Quiet, NoSilentRow, Tracked, history, heard
<1> QED  BY <1>1, <1>2, <1>3, <1>4, <1>6, <1>7 DEF Keeps, history, heard

\* The failing calls that skip the offer at hand.
LEMMA FailureKeeps ==
    ASSUME NEW CONSTANT apart \in BOOLEAN, TypeOK,
           NEW w \in Watchers, Mine(apart, w), Quiet(apart),
           \/ LookupFails(w) \/ NotifyFails(w) \/ ReplyLost(w)
           \/ RecordFails(w) \/ TouchFails(w)
    PROVE  Keeps(apart, w)
<1>1. /\ pc[w] \in Handling /\ NextOffer(w)
      /\ UNCHANGED <<rows, history, cancelled, market, moves, cancels>>
  BY DEF LookupFails, NotifyFails, ReplyLost, RecordFails, TouchFails, Handling
<1>2. faults' \in Nat
  BY FaultsCounted
     DEF LookupFails, NotifyFails, ReplyLost, RecordFails, TouchFails, TypeOK
<1> QED  BY <1>1, <1>2, SkipKeeps

\* The watch loop between two ticks.
LEMMA LoopKeeps ==
    ASSUME NEW CONSTANT apart \in BOOLEAN, TypeOK,
           NEW w \in Watchers, Mine(apart, w), Quiet(apart), Tick(w) \/ Stop(w)
    PROVE  Keeps(apart, w)
<1>1. /\ UNCHANGED <<rows, pos, current, stale, heard, cancelled, market, moves,
                     faults, cancels>>
      /\ spared' = [spared EXCEPT ![w] = {}]
      /\ Goto(w, "fetch") \/ Goto(w, "stopped")
  BY DEF Tick, Stop
<1>2. /\ pos' \in [Watchers -> Nat \ {0}]
      /\ \A v \in Watchers : pos'[v] <= Len(Plan[v])
      /\ stale' \in [Watchers -> SUBSET Keys] /\ faults' \in Nat
      /\ spared' \in [Watchers -> SUBSET Keys]
  BY <1>1 DEF TypeOK
<1>3. UNCHANGED <<rows, current, heard, cancelled, market, moves, cancels>>
  BY <1>1
<1>4. CASE Goto(w, "fetch")
  BY <1>2, <1>3, <1>4, GotoKeeps
<1>5. CASE Goto(w, "stopped")
  BY <1>2, <1>3, <1>5, GotoKeeps
<1> QED  BY <1>1, <1>4, <1>5
\* Any step of a watcher.
LEMMA WatcherKeeps ==
    ASSUME NEW CONSTANT apart \in BOOLEAN, TypeOK,
           NEW w \in Watchers, Mine(apart, w), Quiet(apart), Work(w) \/ Stop(w)
    PROVE  Keeps(apart, w)
<1>1. CASE FetchAnswers(w) \/ FetchFails(w)
  BY <1>1, FetchKeeps
<1>2. CASE LoadKeys(w) \/ LoadKeysFails(w)
  BY <1>2, LoadKeysKeeps
<1>3. CASE \E k \in stale[w] : DeleteStale(w, k) \/ DeleteFails(w, k)
  BY <1>3, DeleteKeeps
<1>4. CASE LookupAnswers(w)
  BY <1>4, LookupKeeps
<1>5. CASE NotifyDelivers(w)
  BY <1>5, NotifyKeeps
<1>6. CASE ReplyArrives(w)
  BY <1>6, ReplyKeeps
<1>7. CASE RecordRow(w)
  BY <1>7, RecordKeeps
<1>8. CASE TouchRow(w)
  BY <1>8, TouchKeeps
<1>9. CASE \/ LookupFails(w) \/ NotifyFails(w) \/ ReplyLost(w)
           \/ RecordFails(w) \/ TouchFails(w)
  BY <1>9, FailureKeeps
<1>10. CASE Tick(w) \/ Stop(w)
  BY <1>10, LoopKeeps
<1> QED
  BY <1>1, <1>2, <1>3, <1>4, <1>5, <1>6, <1>7, <1>8, <1>9, <1>10 DEF Work

\* What the others know survives the step of w.
LEMMA OthersKeep ==
    ASSUME NEW CONSTANT apart \in BOOLEAN, TypeOK,
           NEW w \in Watchers, Keeps(apart, w),
           NEW v \in Watchers, v # w, Mine(apart, v),
           apart => KeysOf(v) \cap KeysOf(w) = {}
    PROVE  Mine(apart, v)'
<1>1. pc'[v] = pc[v] /\ current'[v] = current[v]
  BY DEF Keeps
<1>2. CASE apart
  <2>1. KeysOf(v) \subseteq Keys \ KeysOf(w)
    <3>1. Plan[v] \in Seq(Keys)
      BY MonitorAssumption
    <3>2. KeysOf(v) \subseteq Keys
      BY <3>1, ElementOfSeq, LenProperties DEF KeysOf, Range
    <3> QED  BY <1>2, <3>2
  <2>2. \A k \in KeysOf(v) :
           \/ rows'[k] = rows[k] /\ told'[k] = told[k]
           \/ rows[k] # None /\ rows'[k] = None
    BY <2>1 DEF Keeps
  <2> QED  BY <1>1, <2>2, BystanderKeeps
<1>3. CASE ~apart
  BY <1>1, <1>3 DEF Mine, HasOffer, PollsOffers, KeysOf, Listed
<1> QED  BY <1>2, <1>3

-----------------------------------------------------------------------------
(* The inductive invariant *)

LEMMA IndInvParts ==
    IndInv <=> /\ TypeOK /\ Quiet(KeysDisjoint)
               /\ \A w \in Watchers : Mine(KeysDisjoint, w)
BY DEF IndInv, Mine, Quiet, DecisionStands

LEMMA InitHolds == Init => IndInv
<1> SUFFICES ASSUME Init  PROVE IndInv
  OBVIOUS
<1>1. TypeOK
  <2>1. /\ current \in [Watchers -> Seq(Offer)]
        /\ pc \in [Watchers -> PCs]
        /\ rows \in [Keys -> RowType \cup {None}]
    BY DEF Init, PCs, StoreInit
  <2>2. pos \in [Watchers -> Nat \ {0}] /\ \A w \in Watchers : pos[w] <= Len(Plan[w])
    <3>1. ASSUME NEW w \in Watchers  PROVE Len(Plan[w]) \in Nat \ {0}
      BY MonitorAssumption, EmptySeq
    <3>2. ASSUME NEW w \in Watchers  PROVE pos[w] = 1 /\ 1 <= Len(Plan[w])
      BY <3>1 DEF Init
    <3> QED  BY <3>2 DEF Init
  <2> QED  BY <2>1, <2>2 DEF Init, TypeOK, StoreTypeOK
<1>2. ASSUME NEW w \in Watchers  PROVE HasOffer(w) /\ PollsOffers(w) /\ Decision(w)
  BY DEF Init, HasOffer, PollsOffers, Decision, Listed
<1>3. NoSilentRow
  BY DEF Init, StoreInit, NoSilentRow, Tracked
<1> QED  BY <1>1, <1>2, <1>3 DEF IndInv, DecisionStands

\* A new process starts with nothing in hand.
LEMMA BootKeeps ==
    ASSUME TypeOK, Boot, UNCHANGED <<rows, heard, market, moves, cancels>>,
           faults' \in Nat
    PROVE  /\ TypeOK'
           /\ \A w \in Watchers : HasOffer(w)' /\ PollsOffers(w)' /\ Decision(w)'
           /\ NoSilentRow => NoSilentRow'
<1>1. TypeOK'
  <2>1. /\ current' \in [Watchers -> Seq(Offer)]
        /\ pc' \in [Watchers -> PCs]
        /\ stale' \in [Watchers -> SUBSET Keys]
        /\ spared' \in [Watchers -> SUBSET Keys]
        /\ cancelled' \in BOOLEAN
    <3>1. <<>> \in Seq(Offer)
      OBVIOUS
    <3>2. current' \in [Watchers -> Seq(Offer)]
      BY <3>1 DEF Boot
    <3>3. /\ pc' \in [Watchers -> PCs] /\ stale' \in [Watchers -> SUBSET Keys]
          /\ spared' \in [Watchers -> SUBSET Keys]
      BY DEF Boot, PCs
    <3> QED  BY <3>2, <3>3 DEF Boot
  <2>2. pos' \in [Watchers -> Nat \ {0}] /\ \A w \in Watchers : pos'[w] <= Len(Plan[w])
    <3>1. ASSUME NEW w \in Watchers  PROVE Len(Plan[w]) \in Nat \ {0}
      BY MonitorAssumption, EmptySeq
    <3>2. ASSUME NEW w \in Watchers  PROVE pos'[w] = 1 /\ 1 <= Len(Plan[w])
      BY <3>1 DEF Boot
    <3> QED  BY <3>2 DEF Boot
  <2> QED  BY <2>1, <2>2 DEF TypeOK, StoreTypeOK, history, heard
<1>2. ASSUME NEW w \in Watchers
      PROVE  HasOffer(w)' /\ PollsOffers(w)' /\ Decision(w)'
  BY DEF Boot, HasOffer, PollsOffers, Decision, Listed
<1>3. NoSilentRow => NoSilentRow'
  BY DEF NoSilentRow, Tracked, history, heard
<1> QED  BY <1>1, <1>2, <1>3

\* Neither SIGTERM nor the market touches what the watchers know.
LEMMA OutsideHolds ==
    ASSUME IndInv, UNCHANGED <<rows, local, told>>, TypeOK'
    PROVE  IndInv'
<1>1. ASSUME NEW w \in Watchers  PROVE HasOffer(w)' /\ PollsOffers(w)'
  BY DEF IndInv, HasOffer, PollsOffers, KeysOf, Listed, local
<1>2. ASSUME NEW w \in Watchers, Decision(w)  PROVE Decision(w)'
  BY <1>2 DEF Decision, Now, local
<1>3. NoSilentRow => NoSilentRow'
  BY DEF NoSilentRow, Tracked
<1>4. KeysDisjoint => DecisionStands' /\ NoSilentRow'
  BY <1>2, <1>3 DEF IndInv, DecisionStands
<1> QED  BY <1>1, <1>4 DEF IndInv

LEMMA MarketTypes ==
    ASSUME TypeOK, MarketMoves
    PROVE  TypeOK'
<1> PICK k \in Keys, q \in Quotes \cup {None} :
      /\ market' = [market EXCEPT ![k] = q]
      /\ news' = [news EXCEPT ![k] = news[k] \/ ~Wanted(k)']
  BY DEF MarketMoves
<1> DEFINE b == news[k] \/ ~Wanted(k)'
<1>1. b \in BOOLEAN
  OBVIOUS
<1> HIDE DEF b
<1>2. news' = [news EXCEPT ![k] = b]
  BY DEF b
<1>3. news' \in [Keys -> BOOLEAN] /\ market' \in [Keys -> Quotes \cup {None}]
  BY <1>1, <1>2 DEF TypeOK
<1> QED  BY <1>3 DEF MarketMoves, TypeOK, StoreTypeOK, local

LEMMA StepHolds == IndInv /\ [Next]_vars => IndInv'
<1> SUFFICES ASSUME IndInv, [Next]_vars  PROVE IndInv'
  OBVIOUS
<1>1. CASE \E w \in Watchers : Work(w) \/ Stop(w)
  <2> PICK w \in Watchers : Work(w) \/ Stop(w)
    BY <1>1
  <2>0. KeysDisjoint \in BOOLEAN
    BY DEF KeysDisjoint
  <2>1. Keeps(KeysDisjoint, w)
    BY <2>0, WatcherKeeps, IndInvParts
  <2>2. ASSUME NEW v \in Watchers, v # w  PROVE Mine(KeysDisjoint, v)'
    <3>1. TypeOK /\ Mine(KeysDisjoint, v) /\ pc'[v] = pc[v] /\ current'[v] = current[v]
      BY <2>1, <2>2, IndInvParts DEF Keeps
    <3>2. KeysDisjoint => KeysOf(v) \cap KeysOf(w) = {}
      BY <2>2 DEF KeysDisjoint
    <3> QED  BY <2>0, <2>1, <2>2, <3>1, <3>2, OthersKeep
  <2>3. TypeOK' /\ (\A v \in Watchers : Mine(KeysDisjoint, v)') /\ Quiet(KeysDisjoint)'
    BY <2>1, <2>2 DEF Keeps
  <2> QED  BY <2>3 DEF IndInv, Mine, Quiet, DecisionStands
<1>2. CASE Cancel
  <2>1. TypeOK'
    BY <1>2 DEF Cancel, IndInv, TypeOK, StoreTypeOK, local, history, heard
  <2> QED  BY <1>2, <2>1, OutsideHolds DEF Cancel, history, heard
<1>3. CASE Restart
  BY <1>3, BootKeeps DEF Restart, IndInv, DecisionStands, TypeOK
<1>4. CASE Crash
  <2>1. faults' \in Nat
    BY <1>4, FaultsCounted DEF Crash, IndInv
  <2> QED  BY <1>4, <2>1, BootKeeps DEF Crash, IndInv, DecisionStands
<1>5. CASE MarketMoves
  BY <1>5, MarketTypes, OutsideHolds DEF MarketMoves, IndInv
<1>6. CASE UNCHANGED vars
  <2>1. UNCHANGED <<rows, local, told>>
    BY <1>6 DEF vars, history, heard
  <2>2. TypeOK'
    BY <1>6 DEF vars, local, history, heard, IndInv, TypeOK, StoreTypeOK
  <2> QED  BY <2>1, <2>2, OutsideHolds
<1> QED  BY <1>1, <1>2, <1>3, <1>4, <1>5, <1>6 DEF Next

THEOREM Inductive == Spec => []IndInv
<1> QED  BY InitHolds, StepHolds, PTL DEF Spec
-----------------------------------------------------------------------------
(* The theorems *)

\* Every variable keeps its type and no watcher runs off its plan.
THEOREM TypeCorrect == Spec => []TypeOK
<1>1. IndInv => TypeOK
  BY DEF IndInv
<1> QED  BY <1>1, Inductive, PTL

\* If no two products poll the same page, a row is never there without an
\* announcement since the item was last forgotten: no crash, lost reply, failed
\* statement or shutdown silences an item nobody was told about.
THEOREM AlertBeforeRow ==
    ASSUME KeysDisjoint
    PROVE  Spec => []NoSilentRow
<1>1. IndInv => NoSilentRow
  BY DEF IndInv
<1> QED  BY <1>1, Inductive, PTL

\* Under the same condition what a watcher decided at Lookup is still right at
\* every later call it makes for that offer.
THEOREM DecisionsStand ==
    ASSUME KeysDisjoint
    PROVE  Spec => []DecisionStands
<1>1. IndInv => DecisionStands
  BY DEF IndInv
<1> QED  BY <1>1, Inductive, PTL

\* A shutdown never removes a row, whatever it interrupts and however the
\* products are configured.
THEOREM ShutdownKeeps == Spec => ShutdownKeepsRows
<1> DEFINE Kept == cancelled => \A k \in Keys : Tracked(k) => Tracked(k)'
<1>1. IndInv /\ [Next]_vars => [Kept]_vars
  <2> SUFFICES ASSUME IndInv, Next, cancelled,
                      NEW k \in Keys, Tracked(k)
               PROVE  Tracked(k)'
    OBVIOUS
  <2>1. CASE rows' = rows
    BY <2>1 DEF Tracked
  <2>2. CASE \E w \in Watchers : Work(w) \/ Stop(w)
    <3> PICK w \in Watchers : Work(w) \/ Stop(w)
      BY <2>2
    <3>1. ~Succeeds
      BY DEF Succeeds
    <3> QED
      BY <2>1, <3>1
      DEF Work, FetchAnswers, FetchFails, NextPage, LoadKeys, LoadKeysFails,
          DeleteStale, DeleteFails, LookupAnswers, LookupFails, NotifyDelivers,
          NotifyFails, ReplyArrives, ReplyLost, RecordRow, RecordFails, TouchRow,
          TouchFails, Tick, Stop
  <2>3. CASE Cancel \/ Restart \/ Crash \/ MarketMoves
    BY <2>1, <2>3 DEF Cancel, Restart, Crash, MarketMoves
  <2> QED  BY <2>2, <2>3 DEF Next
<1>2. [][Kept]_vars => ShutdownKeepsRows
  BY PTL DEF ShutdownKeepsRows
<1> QED  BY <1>1, <1>2, Inductive, PTL DEF Spec

\* An alert for an item that has a row announces a price below the row's.
THEOREM AlertsAreDrops ==
    ASSUME KeysDisjoint
    PROVE  Spec => TrackedAlertsAreDrops
<1> DEFINE Fair(w) == LET a == Now(w)
                      IN  Alerting(w) /\ Tracked(a.key) =>
                            /\ a.price # NoPrice
                            /\ rows[a.key].price # NoPrice
                            /\ a.price < rows[a.key].price
<1>1. IndInv => [\A w \in Watchers : Fair(w)]_vars
  <2> SUFFICES ASSUME IndInv, NEW w \in Watchers, Alerting(w), Tracked(Now(w).key)
               PROVE  IsDrop(Now(w).price, rows[Now(w).key].price)
    BY DEF IsDrop
  <2>1. Decision(w) /\ pc[w] \in {"alert", "drop"}
    BY DEF IndInv, DecisionStands, Alerting
  <2> QED  BY <2>1 DEF Decision, Tracked
<1> QED  BY <1>1, Inductive, PTL DEF TrackedAlertsAreDrops
-----------------------------------------------------------------------------
(* Refinement of the ledger *)

Stored == [k \in Keys |-> IF Tracked(k) THEN rows[k].price ELSE None]

\* A tracked key has a price in the ledger, an untracked one has None.
LEMMA StoredIsPrice ==
    ASSUME TypeOK, NEW k \in Keys
    PROVE  /\ Tracked(k) => Stored[k] = rows[k].price /\ Stored[k] \in Quotes
           /\ Tracked(k) <=> Stored[k] # None
BY QuotesAssumption, NoPriceAssumption DEF TypeOK, StoreTypeOK, RowType, Stored, Tracked

\* A delivered alert is an announcement of the ledger.
LEMMA NotifyAnnounces ==
    ASSUME TypeOK, NEW w \in Watchers, Mine(TRUE, w), NotifyDelivers(w)
    PROVE  \E k \in Keys, q \in Quotes : Ledger!Announce(k, q)
<1> DEFINE a == Now(w)
<1>1. TypeOK /\ HasOffer(w) /\ PollsOffers(w) /\ Decision(w)
  BY DEF Mine
<1>2. /\ rows' = rows /\ pc[w] \in {"alert", "drop"}
      /\ told' = [told EXCEPT ![a.key] = a.price]
  BY DEF NotifyDelivers
<1>3. a.key \in Keys /\ a.price \in Quotes
  BY <1>1, <1>2, NowIsOwn DEF Handling
<1>4. Stored' = Stored
  BY <1>2 DEF Stored, Tracked
<1>5. Stored[a.key] # None => Ledger!Below(a.price, Stored[a.key])
  <2> SUFFICES ASSUME Stored[a.key] # None
               PROVE  Ledger!Below(a.price, Stored[a.key])
    OBVIOUS
  <2>1. Tracked(a.key) /\ Stored[a.key] = rows[a.key].price
    BY <1>1, <1>3, StoredIsPrice
  <2>2. IsDrop(a.price, rows[a.key].price)
    BY <1>1, <1>2, <2>1 DEF Decision, Tracked
  <2> QED  BY <2>1, <2>2 DEF Ledger!Below, IsDrop
<1>6. Ledger!Announce(a.key, a.price)
  BY <1>2, <1>4, <1>5 DEF Ledger!Announce, Stored
<1> QED  BY <1>3, <1>6

\* A committed INSERT starts to track what was announced, at that price.
LEMMA RecordTracks ==
    ASSUME TypeOK, NEW w \in Watchers, Mine(TRUE, w), RecordRow(w)
    PROVE  \E k \in Keys : Ledger!Track(k)
<1> DEFINE a == Now(w)
<1>1. TypeOK /\ HasOffer(w) /\ PollsOffers(w) /\ Decision(w)
  BY DEF Mine
<1>2. /\ told' = told /\ pc[w] = "record" /\ rows[a.key] = None
      /\ rows' = [rows EXCEPT ![a.key] = [product |-> Name[w], price |-> a.price]]
  BY DEF RecordRow, Record, Tracked, history, heard
<1>3. a.key \in Keys /\ a.price \in Quotes /\ a.price # None
  BY <1>1, <1>2, NowIsOwn, QuotesAssumption, NoPriceAssumption DEF Handling
<1>4. told[a.key] = a.price
  BY <1>1, <1>2 DEF Decision
<1>5. Name[w] \in Names
  BY MonitorAssumption
<1>6. [product |-> Name[w], price |-> a.price] # None
  <2>1. [product |-> Name[w], price |-> a.price] \in RowType
    BY <1>3, <1>5 DEF RowType
  <2> QED  BY <2>1, StoreAssumption
<1>7. /\ Stored[a.key] = None
      /\ Stored' = [Stored EXCEPT ![a.key] = told[a.key]]
  <2> DEFINE r == [product |-> Name[w], price |-> a.price]
  <2>1. r # None /\ r.price = a.price
    BY <1>6
  <2> HIDE DEF r
  <2>2. rows' = [rows EXCEPT ![a.key] = r] /\ rows \in [Keys -> RowType \cup {None}]
    BY <1>1, <1>2 DEF r, TypeOK, StoreTypeOK
  <2>3. ASSUME NEW k \in Keys
        PROVE  Stored'[k] = IF k = a.key THEN a.price ELSE Stored[k]
    BY <2>1, <2>2 DEF Stored, Tracked
  <2>4. Stored[a.key] = None
    BY <1>2, <1>3 DEF Stored, Tracked
  <2>5. Stored' = [k \in Keys |-> Stored'[k]] /\ Stored = [k \in Keys |-> Stored[k]]
    BY DEF Stored
  <2> HIDE DEF a
  <2> QED  BY <1>3, <1>4, <2>3, <2>4, <2>5
<1>8. PICK k \in Keys : k = a.key
  BY <1>3
<1>9. Ledger!Track(k)
  BY <1>2, <1>3, <1>4, <1>7, <1>8 DEF Ledger!Track, Stored
<1> QED  BY <1>9
\* A committed UPDATE is a sighting that keeps no lower price than announced; of
\* a row another watcher deleted it is nothing.
LEMMA TouchRefreshes ==
    ASSUME TypeOK, NEW w \in Watchers, Mine(TRUE, w), TouchRow(w)
    PROVE  \/ \E k \in Keys, q \in Quotes : Ledger!Refresh(k, q)
           \/ Stored' = Stored /\ told' = told
<1> DEFINE a == Now(w)
<1>1. TypeOK /\ HasOffer(w) /\ PollsOffers(w) /\ Decision(w)
  BY DEF Mine
<1>2. /\ told' = told /\ pc[w] = "touch"
      /\ rows' = IF rows[a.key] # None
                 THEN [rows EXCEPT ![a.key].price = a.price] ELSE rows
  BY DEF TouchRow, Touch, Tracked, history, heard
<1>3. a.key \in Keys /\ a.price \in Quotes
  BY <1>1, <1>2, NowIsOwn DEF Handling
<1>4. CASE rows[a.key] = None
  BY <1>2, <1>4 DEF Stored, Tracked
<1>5. CASE rows[a.key] # None
  <2> DEFINE r == [rows[a.key] EXCEPT !.price = a.price]
  <2>1. r \in RowType /\ r.price = a.price
    <3>1. rows[a.key] \in RowType
      BY <1>1, <1>3, <1>5 DEF TypeOK, StoreTypeOK
    <3> QED  BY <1>3, <3>1 DEF RowType
  <2>2. rows' = [rows EXCEPT ![a.key] = r]
    BY <1>2, <1>5
  <2> HIDE DEF r
  <2>3. ASSUME NEW k \in Keys
        PROVE  Stored'[k] = IF k = a.key THEN a.price ELSE Stored[k]
    BY <1>1, <2>1, <2>2, StoreAssumption DEF Stored, Tracked, TypeOK, StoreTypeOK
  <2>4. Stored' = [k \in Keys |-> Stored'[k]] /\ Stored = [k \in Keys |-> Stored[k]]
    BY DEF Stored
  <2>5. Stored' = [Stored EXCEPT ![a.key] = a.price]
    <3> HIDE DEF a
    <3> QED  BY <1>3, <2>3, <2>4
  <2>6. /\ Stored[a.key] # None
        /\ Ledger!Below(a.price, Stored[a.key]) => a.price = told[a.key]
    BY <1>1, <1>2, <1>3, <1>5, StoredIsPrice DEF Decision, Ledger!Below, IsDrop, Tracked
  <2>7. PICK k \in Keys, q \in Quotes : k = a.key /\ q = a.price
    BY <1>3
  <2>8. Ledger!Refresh(k, q)
    BY <1>2, <2>5, <2>6, <2>7 DEF Ledger!Refresh, Stored
  <2> QED  BY <2>8
<1> QED  BY <1>4, <1>5

\* A committed DELETE forgets a tracked key; of a row that is gone it is nothing.
LEMMA DeleteForgets ==
    ASSUME TypeOK, NEW w \in Watchers, NEW k \in stale[w], DeleteStale(w, k)
    PROVE  Ledger!Forget(k) \/ (Stored' = Stored /\ told' = told)
<1>1. /\ k \in Keys
      /\ rows' = [rows EXCEPT ![k] = None]
      /\ told' = IF Tracked(k) THEN [told EXCEPT ![k] = None] ELSE told
  BY DEF DeleteStale, Delete, TypeOK
<1>2. CASE ~Tracked(k)
  <2>1. rows' = rows
    BY <1>1, <1>2 DEF Tracked, TypeOK, StoreTypeOK
  <2> QED  BY <1>1, <1>2, <2>1 DEF Stored, Tracked
<1>3. CASE Tracked(k)
  <2>1. Stored[k] # None
    BY <1>1, <1>3, StoredIsPrice
  <2>2. ASSUME NEW j \in Keys
        PROVE  Stored'[j] = IF j = k THEN None ELSE Stored[j]
    BY <1>1 DEF Stored, Tracked, TypeOK, StoreTypeOK
  <2>3. Stored' = [j \in Keys |-> Stored'[j]] /\ Stored = [j \in Keys |-> Stored[j]]
    BY DEF Stored
  <2>4. Stored' = [Stored EXCEPT ![k] = None]
    BY <1>1, <2>2, <2>3
  <2> QED  BY <1>1, <1>3, <2>1, <2>4 DEF Ledger!Forget, Stored
<1> QED  BY <1>2, <1>3

\* All other steps leave the ledger alone.
LEMMA RestStutters ==
    ASSUME UNCHANGED <<rows, told>>
    PROVE  Stored' = Stored /\ told' = told
BY DEF Stored, Tracked

LEMMA WatcherRefines ==
    ASSUME TypeOK, NEW w \in Watchers, Mine(TRUE, w), Work(w) \/ Stop(w)
    PROVE  [Ledger!LedgerNext]_Ledger!ledger
<1>1. /\ (\E k \in Keys, q \in Quotes : Ledger!Announce(k, q) \/ Ledger!Refresh(k, q))
            => Ledger!LedgerNext
      /\ (\E k \in Keys : Ledger!Track(k) \/ Ledger!Forget(k)) => Ledger!LedgerNext
      /\ Stored' = Stored /\ told' = told => UNCHANGED Ledger!ledger
  BY DEF Ledger!LedgerNext, Ledger!ledger, Stored
<1>2. CASE NotifyDelivers(w)
  BY <1>1, <1>2, NotifyAnnounces
<1>3. CASE RecordRow(w)
  BY <1>1, <1>3, RecordTracks
<1>4. CASE TouchRow(w)
  BY <1>1, <1>4, TouchRefreshes
<1>5. CASE \E k \in stale[w] : DeleteStale(w, k)
  <2> PICK k \in stale[w] : DeleteStale(w, k)
    BY <1>5
  <2>1. k \in Keys
    BY DEF TypeOK
  <2> QED  BY <1>1, <2>1, DeleteForgets
<1>6. CASE UNCHANGED <<rows, told>>
  BY <1>1, <1>6, RestStutters
<1> QED
  BY <1>2, <1>3, <1>4, <1>5, <1>6
  DEF Work, FetchAnswers, FetchFails, NextPage, LoadKeys, LoadKeysFails,
      DeleteFails, LookupAnswers, LookupFails, NotifyFails, ReplyArrives,
      ReplyLost, RecordFails, TouchFails, Tick, Stop, history, heard

\* Nothing but a watcher moves the rows or the announcements.
LEMMA OutsideRefines ==
    ASSUME UNCHANGED <<rows, told>>
    PROVE  [Ledger!LedgerNext]_Ledger!ledger
BY RestStutters DEF Ledger!ledger, Stored

LEMMA StepRefines ==
    ASSUME IndInv, KeysDisjoint, [Next]_vars
    PROVE  [Ledger!LedgerNext]_Ledger!ledger
<1>1. CASE \E w \in Watchers : Work(w) \/ Stop(w)
  <2> PICK w \in Watchers : Work(w) \/ Stop(w)
    BY <1>1
  <2>1. TypeOK /\ Mine(TRUE, w)
    BY DEF IndInv, DecisionStands, Mine
  <2> QED  BY <2>1, WatcherRefines
<1>2. CASE Cancel \/ Restart \/ Crash \/ MarketMoves \/ UNCHANGED vars
  <2>1. UNCHANGED <<rows, told>>
    BY <1>2 DEF Cancel, Restart, Crash, MarketMoves, vars, history, heard
  <2> QED  BY <2>1, OutsideRefines
<1> QED  BY <1>1, <1>2 DEF Next

\* Seen through its alerts and rows the monitor implements the ledger, for any
\* products that poll different pages.
THEOREM MonitorRefinesLedger ==
    ASSUME KeysDisjoint
    PROVE  Spec => LedgerRefined
<1>1. Init => Ledger!LedgerInit
  BY DEF Init, StoreInit, Ledger!LedgerInit, Tracked
<1>2. IndInv /\ [Next]_vars => [Ledger!LedgerNext]_Ledger!ledger
  BY StepRefines
<1> QED  BY <1>1, <1>2, Inductive, PTL DEF Spec, LedgerRefined, Ledger!LedgerSpec
=============================================================================
