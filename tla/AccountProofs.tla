-------------------------- MODULE AccountProofs ---------------------------
(***************************************************************************)
(* What alerts and rows account for.  First the proof that alerts come at  *)
(* most once, up to faults: for any products with names and keys of their  *)
(* own, no key is announced as new more often than faults happened while   *)
(* it stayed on offer (DuplicatesBounded).  Account(B, w) is what holds of *)
(* the keys of one watcher on the budget B; a step of another watcher      *)
(* leaves it alone, its own steps and the environment keep it.  Then the   *)
(* proof that what a tick sees gone is forgotten (SeenGoneIsForgotten).    *)
(***************************************************************************)
EXTENDS MonitorProofs

\* The proof is about the products A of one process, and a budget B for every
\* key: what it may cost in repeated announcements.  Here A is Watchers and B the
\* faults so far; ReconfiguredProofs takes the configured products, and adds to
\* the budget what a change of the configuration costs.
Apart(A) ==
    /\ A \subseteq Watchers
    /\ \A v, w \in A : v # w => KeysOf(v) \cap KeysOf(w) = {} /\ Name[v] # Name[w]

\* The budget has room for one more announcement of k.
Prepaid(B, k) == dups[k] < B[k]

\* Announcing k as new now would be news, or the budget has room for it.
Paid(B, k) == news[k] \/ Prepaid(B, k)

\* A product of A will drop the row of k because it bears its name, although it
\* does not poll k.
Doomed(A, k) ==
    /\ Tracked(k)
    /\ \E w \in A : Name[w] = rows[k].product /\ k \notin KeysOf(w)

\* w's alert for k was delivered and its row is not yet written.
Underway(w, k) == pc[w] \in {"alertReply", "record"} /\ Now(w).key = k

\* The tick of w has asked the page of k, and still uses what it saw.
Looked(w, k) ==
    \/ pc[w] = "fetch" /\ \E i \in 1 .. pos[w] - 1 : Plan[w][i] = k
    \/ pc[w] \in {"keys", "delete"}

\* The books of one key: an announced key is silenced by its row, or about to be,
\* unless the next alert is paid for; a key the tick looked for and did not see
\* may be announced again.
Settled(B, w, k) ==
    /\ dups[k] <= B[k]
    /\ ~Wanted(k) => news[k]
    /\ Paid(B, k) \/ Tracked(k) \/ Underway(w, k)
    /\ Looked(w, k) /\ ~cancelled => k \in Listed(current[w]) \/ Paid(B, k)

\* What w relies on in the middle of its tick.  The rows it is about to delete are
\* still there and still bear its name.
Stage(B, w) ==
    /\ pc[w] # "fetch" => pos[w] = 1
    /\ pc[w] = "delete" => stale[w] \subseteq ProductKeys(Name[w]) \ Listed(current[w])
    /\ pc[w] = "alert" => Paid(B, Now(w).key)
    /\ pc[w] = "drop" => Tracked(Now(w).key) \/ Prepaid(B, Now(w).key)

Account(B, w) == (\A k \in KeysOf(w) : Settled(B, w, k)) /\ Stage(B, w)

\* A key nobody in A polls keeps its row, or its next alert is paid for.
AtRest(B, k) ==
    /\ dups[k] <= B[k]
    /\ ~Wanted(k) => news[k]
    /\ Paid(B, k) \/ Tracked(k)

Unpolled(A, B) ==
    \A k \in Keys : (\A w \in A : k \notin KeysOf(w)) => AtRest(B, k)

\* What is going to be dropped for its name is paid for in advance.
Reserved(A, B) == \A k \in Keys : Doomed(A, k) => Prepaid(B, k)

Accounts(A, B) == (\A w \in A : Account(B, w)) /\ Unpolled(A, B) /\ Reserved(A, B)

\* Budgets never shrink, and a fault adds to that of every key.
Funds(B, C) ==
    /\ B \in [Keys -> Nat] /\ C \in [Keys -> Nat]
    /\ \A k \in Keys : C[k] >= B[k] /\ (faults' > faults => C[k] > B[k])

-----------------------------------------------------------------------------
(* Keys, faults and demand *)

LEMMA KeysOfAreKeys ==
    ASSUME NEW w \in Watchers
    PROVE  KeysOf(w) \subseteq Keys
<1>1. Plan[w] \in Seq(Keys)
  BY MonitorAssumption
<1> QED  BY <1>1, ElementOfSeq, LenProperties DEF KeysOf, Range

\* A page polled under one cap is wanted by all that poll it or by nobody.
LEMMA WantedByOwner ==
    ASSUME CapsAgree, NEW w \in Watchers, NEW k \in KeysOf(w), Wanted(k)
    PROVE  market[k] # None /\ Passes(w, [key |-> k, price |-> market[k]])
<1> PICK v \in Watchers : k \in KeysOf(v) /\ Passes(v, [key |-> k, price |-> market[k]])
  BY DEF Wanted
<1>1. PriceMax[v] = PriceMax[w]
  BY DEF CapsAgree
<1> QED  BY <1>1 DEF Wanted, Passes

LEMMA DemandStays ==
    ASSUME market' = market, NEW k
    PROVE  Wanted(k)' <=> Wanted(k)
BY DEF Wanted, KeysOf, Passes, IsLocal

LEMMA FaultsGrow ==
    ASSUME TypeOK
    PROVE  /\ Succeeds \/ Fault \/ Fails \/ FailsAfterAlert => faults' >= faults
           /\ Succeeds => ~cancelled /\ faults' = faults
           /\ Fails /\ ~cancelled => faults' > faults
           /\ Fault \/ FailsAfterAlert => faults' > faults
BY DEF TypeOK, Succeeds, Fault, Fails, FailsAfterAlert

-----------------------------------------------------------------------------
(* What a step of w leaves alone *)

\* Rows of another name stay; w writes none but for its own keys under its name.
RowMoves(w, k) ==
    \/ Tracked(k) /\ Tracked(k)' /\ rows'[k].product = rows[k].product
    \/ ~Tracked(k) /\ ~Tracked(k)'
    \/ ~Tracked(k) /\ Tracked(k)' /\ k \in KeysOf(w) /\ rows'[k].product = Name[w]
    \/ Tracked(k) /\ ~Tracked(k)' /\ rows[k].product = Name[w]

Spares(w) ==
    /\ market' = market /\ cancelled' = cancelled
    /\ \A v \in Watchers \ {w} :
          pc'[v] = pc[v] /\ pos'[v] = pos[v] /\ current'[v] = current[v] /\ stale'[v] = stale[v]
    /\ \A k \in Keys \ KeysOf(w) : news'[k] = news[k] /\ dups'[k] = dups[k]
    /\ \A k \in Keys : Tracked(k)' => dups'[k] = dups[k]
    /\ \A k \in Keys : RowMoves(w, k)

\* A key w does not poll loses its row only if that was paid for.
LEMMA SparedKey ==
    ASSUME TypeOK, TypeOK', NEW A, Apart(A), NEW B, NEW C, Funds(B, C), Reserved(A, B),
           NEW w \in A, Spares(w), NEW k \in Keys \ KeysOf(w)
    PROVE  /\ news'[k] = news[k] /\ dups'[k] = dups[k] /\ dups[k] \in Nat
           /\ B[k] \in Nat /\ C[k] \in Nat /\ C[k] >= B[k]
           /\ Prepaid(B, k) => Prepaid(C, k)'
           /\ Paid(B, k) => Paid(C, k)'
           /\ Tracked(k) => Tracked(k)' \/ Prepaid(C, k)'
<1>1. /\ news'[k] = news[k] /\ dups'[k] = dups[k] /\ dups[k] \in Nat
      /\ B[k] \in Nat /\ C[k] \in Nat /\ C[k] >= B[k]
  BY DEF Spares, TypeOK, Funds
<1>2. Prepaid(B, k) => Prepaid(C, k)'
  BY <1>1 DEF Prepaid
<1>3. Paid(B, k) => Paid(C, k)'
  BY <1>1, <1>2 DEF Paid
<1>4. ASSUME Tracked(k), ~Tracked(k)'  PROVE Prepaid(C, k)'
  <2>1. Doomed(A, k)
    BY <1>4 DEF Spares, RowMoves, Doomed
  <2> QED  BY <1>2, <2>1 DEF Reserved
<1> QED  BY <1>1, <1>2, <1>3, <1>4

LEMMA OthersAccount ==
    ASSUME TypeOK, TypeOK', NEW A, Apart(A), NEW B, NEW C, Funds(B, C), Reserved(A, B),
           NEW w \in A, Spares(w),
           NEW v \in A, v # w, HasOffer(v), PollsOffers(v), Account(B, v)
    PROVE  Account(C, v)'
<1>1. /\ v \in Watchers /\ KeysOf(v) \subseteq Keys \ KeysOf(w) /\ Name[v] # Name[w]
  BY KeysOfAreKeys DEF Apart
<1>2. /\ pc'[v] = pc[v] /\ pos'[v] = pos[v] /\ current'[v] = current[v] /\ stale'[v] = stale[v]
      /\ Now(v)' = Now(v) /\ cancelled' = cancelled /\ market' = market
  BY <1>1 DEF Spares, Now
<1>3. ASSUME NEW k \in KeysOf(v)
      PROVE  /\ news'[k] = news[k] /\ dups'[k] = dups[k] /\ dups[k] \in Nat
             /\ B[k] \in Nat /\ C[k] \in Nat /\ C[k] >= B[k]
             /\ Prepaid(B, k) => Prepaid(C, k)'
             /\ Paid(B, k) => Paid(C, k)'
             /\ Tracked(k) => Tracked(k)' \/ Prepaid(C, k)'
  BY <1>1, SparedKey
<1>4. ASSUME NEW k \in KeysOf(v)  PROVE Settled(C, v, k)'
  <2>1. Settled(B, v, k)
    BY DEF Account
  <2>2. dups'[k] <= C[k] /\ (~Wanted(k)' => news'[k])
    BY <1>2, <1>3, <2>1, DemandStays DEF Settled
  <2>3. (Paid(C, k) \/ Tracked(k) \/ Underway(v, k))'
    BY <1>2, <1>3, <2>1 DEF Settled, Underway, Paid
  <2>4. (Looked(v, k) /\ ~cancelled => k \in Listed(current[v]) \/ Paid(C, k))'
    <3>1. Looked(v, k)' <=> Looked(v, k)
      BY <1>2 DEF Looked
    <3>2. k \in Listed(current[v])' <=> k \in Listed(current[v])
      BY <1>2 DEF Listed
    <3> QED  BY <1>2, <1>3, <2>1, <3>1, <3>2 DEF Settled
  <2> QED  BY <2>2, <2>3, <2>4 DEF Settled
<1>5. Stage(C, v)'
  <2>1. pc[v] \in {"alert", "drop"} => Now(v).key \in KeysOf(v)
    BY <1>1, NowIsOwn DEF Handling
  <2>2. (pc[v] = "alert" => Paid(C, Now(v).key))'
    <3>1. pc'[v] = "alert" => Paid(C, Now(v).key)'
      BY <1>2, <1>3, <2>1 DEF Account, Stage, Paid, Prepaid
    <3> QED  BY <3>1
  <2>3. (pc[v] = "drop" => Tracked(Now(v).key) \/ Prepaid(C, Now(v).key))'
    BY <1>2, <1>3, <2>1 DEF Account, Stage, Tracked, Prepaid
  <2>4. (pc[v] = "delete" => stale[v] \subseteq ProductKeys(Name[v]) \ Listed(current[v]))'
    <3>1. ProductKeys(Name[v]) \subseteq ProductKeys(Name[v])'
      BY <1>1 DEF Spares, RowMoves, ProductKeys
    <3>2. Listed(current[v])' = Listed(current[v])
      BY <1>2 DEF Listed
    <3> QED  BY <1>2, <3>1, <3>2 DEF Account, Stage
  <2> QED  BY <1>2, <2>2, <2>3, <2>4 DEF Account, Stage
<1>6. (\A k \in KeysOf(v) : Settled(C, v, k))'
  BY <1>4 DEF KeysOf
<1> QED  BY <1>5, <1>6 DEF Account

\* The books of the keys nobody polls, and what is set aside for the doomed rows.
LEMMA RestAccounts ==
    ASSUME TypeOK, TypeOK', NEW A, Apart(A), NEW B, NEW C, Funds(B, C), Reserved(A, B),
           NEW w \in A, Spares(w), Unpolled(A, B)
    PROVE  Unpolled(A, C)' /\ Reserved(A, C)'
<1>1. ASSUME NEW k \in Keys, \A v \in A : k \notin KeysOf(v)  PROVE AtRest(C, k)'
  <2>1. AtRest(B, k) /\ k \in Keys \ KeysOf(w) /\ market' = market
    BY <1>1 DEF Unpolled, Spares
  <2> QED  BY <2>1, SparedKey, DemandStays DEF AtRest, Paid
<1>2. ASSUME NEW k \in Keys, Doomed(A, k)'  PROVE Prepaid(C, k)'
  <2>1. Tracked(k)' /\ dups'[k] = dups[k] /\ RowMoves(w, k)
    BY <1>2 DEF Doomed, Spares
  <2>2. PICK v \in A : Name[v] = rows'[k].product /\ k \notin KeysOf(v)
    BY <1>2 DEF Doomed, KeysOf
  <2>3. Tracked(k) /\ rows'[k].product = rows[k].product
    BY <2>1, <2>2 DEF RowMoves, Apart
  <2>4. Prepaid(B, k)
    BY <2>2, <2>3 DEF Doomed, Reserved
  <2> QED  BY <2>1, <2>4 DEF Prepaid, Funds, TypeOK
<1>3. Unpolled(A, C)'
  BY <1>1 DEF Unpolled, KeysOf
<1> QED  BY <1>2, <1>3 DEF Reserved

-----------------------------------------------------------------------------
(* The steps of a watcher *)

\* What a step of w must do.
Balances(C, w) == Spares(w) /\ Account(C, w)'

\* What is paid for stays so, and a fault pays for the next alert of every key.
LEMMA StaysPaid ==
    ASSUME TypeOK, TypeOK', NEW B, NEW C, Funds(B, C), NEW k \in Keys,
           news'[k] = news[k], dups'[k] = dups[k]
    PROVE  /\ Prepaid(B, k) => Prepaid(C, k)'
           /\ Paid(B, k) => Paid(C, k)'
           /\ dups[k] <= B[k] => dups'[k] <= C[k]
           /\ dups[k] <= B[k] /\ faults' > faults => Prepaid(C, k)' /\ Paid(C, k)'
<1>1. dups[k] \in Nat /\ B[k] \in Nat /\ C[k] \in Nat
  BY DEF TypeOK, Funds
<1>2. /\ Prepaid(B, k) => Prepaid(C, k)'
      /\ dups[k] <= B[k] => dups'[k] <= C[k]
      /\ dups[k] <= B[k] /\ faults' > faults => Prepaid(C, k)'
  BY <1>1 DEF Prepaid, Funds
<1> QED  BY <1>2 DEF Paid

\* A step that moves no row and announces nothing keeps the books, if it loses no
\* announcement and overlooks no key without a fault.
LEMMA CalmBalances ==
    ASSUME TypeOK, TypeOK', NEW B, NEW C, Funds(B, C), NEW w \in Watchers, Account(B, w),
           UNCHANGED <<rows, news, dups, market, cancelled>>,
           \A v \in Watchers \ {w} :
              pc'[v] = pc[v] /\ pos'[v] = pos[v] /\ current'[v] = current[v] /\ stale'[v] = stale[v],
           \A k \in KeysOf(w) : Underway(w, k) =>
              faults' > faults \/ Tracked(k) \/ Underway(w, k)',
           \A k \in KeysOf(w) : Looked(w, k)' /\ ~cancelled =>
              faults' > faults \/ Paid(B, k) \/ k \in Listed(current[w])',
           Stage(C, w)'
    PROVE  Balances(C, w)
<1>1. Spares(w)
  BY DEF Spares, RowMoves, Tracked
<1>2. ASSUME NEW k \in KeysOf(w)  PROVE Settled(C, w, k)'
  <2>1. Settled(B, w, k) /\ k \in Keys /\ news'[k] = news[k] /\ dups'[k] = dups[k]
    BY KeysOfAreKeys DEF Account
  <2>2. (dups[k] <= C[k])' /\ (~Wanted(k) => news[k])'
    BY <2>1, StaysPaid, DemandStays DEF Settled
  <2>3. Paid(B, k) \/ faults' > faults => Paid(C, k)'
    BY <2>1, StaysPaid DEF Settled
  <2>4. Tracked(k)' <=> Tracked(k)
    BY DEF Tracked
  <2>5. (Paid(C, k) \/ Tracked(k) \/ Underway(w, k))'
    BY <2>1, <2>3, <2>4 DEF Settled
  <2>6. (Looked(w, k) /\ ~cancelled => k \in Listed(current[w]) \/ Paid(C, k))'
    BY <2>3
  <2> QED  BY <2>2, <2>5, <2>6 DEF Settled
<1>3. (\A k \in KeysOf(w) : Settled(C, w, k))'
  BY <1>2 DEF KeysOf
<1> QED  BY <1>1, <1>3 DEF Balances, Account

LEMMA FetchBalances ==
    ASSUME CapsAgree, TypeOK, TypeOK', NEW B, NEW C, Funds(B, C),
           NEW w \in Watchers, Account(B, w),
           FetchAnswers(w) \/ FetchFails(w)
    PROVE  Balances(C, w)
<1> DEFINE here == Plan[w][pos[w]]
           a == [key |-> here, price |-> market[here]]
<1>1. /\ pc[w] = "fetch" /\ NextPage(w) /\ faults' >= faults
      /\ UNCHANGED <<rows, stale, news, dups, market, cancelled>>
  BY FaultsGrow DEF FetchAnswers, FetchFails, NextPage, history, heard
<1>2. /\ Plan[w] \in Seq(Keys) /\ Len(Plan[w]) \in Nat
      /\ pos[w] \in 1 .. Len(Plan[w]) /\ DOMAIN Plan[w] = 1 .. Len(Plan[w])
      /\ here \in KeysOf(w)
  <2>1. Plan[w] \in Seq(Keys)
    BY MonitorAssumption
  <2> QED  BY <2>1, LenProperties DEF TypeOK, KeysOf, Range
<1>3. /\ \/ pos[w] < Len(Plan[w]) /\ pos'[w] = pos[w] + 1 /\ pc'[w] = "fetch"
         \/ pos[w] = Len(Plan[w]) /\ pos'[w] = 1 /\ pc'[w] = "keys"
      /\ \A v \in Watchers \ {w} : pc'[v] = pc[v] /\ pos'[v] = pos[v]
  BY <1>1, <1>2 DEF NextPage, Goto, TypeOK
<1>4. /\ \A v \in Watchers \ {w} : current'[v] = current[v]
      /\ Listed(current[w]) \subseteq Listed(current[w])'
      /\ FetchAnswers(w) /\ ~(here \in Listed(current[w])') =>
            ~(market[here] # None /\ Passes(w, a))
  <2>1. CASE FetchAnswers(w) /\ market[here] # None /\ Passes(w, a)
    <3>1. current' = [current EXCEPT ![w] = Append(current[w], a)]
      BY <2>1 DEF FetchAnswers
    <3>2. a \in Offer /\ current[w] \in Seq(Offer)
      BY <1>2, <2>1, KeysOfAreKeys DEF TypeOK, Offer
    <3>3. Listed(Append(current[w], a)) = Listed(current[w]) \cup {here}
      BY <3>2, OneMoreOffer
    <3>4. current'[w] = Append(current[w], a)
      BY <3>1 DEF TypeOK
    <3>5. Listed(current[w])' = Listed(current[w]) \cup {here}
      BY <3>3, <3>4 DEF Listed
    <3> QED  BY <3>1, <3>5 DEF TypeOK
  <2>2. CASE ~(FetchAnswers(w) /\ market[here] # None /\ Passes(w, a))
    <3>1. current' = current
      BY <1>1, <2>2 DEF FetchAnswers, FetchFails
    <3> QED  BY <2>2, <3>1 DEF Listed
  <2> QED  BY <2>1, <2>2
<1>5. ASSUME NEW k \in KeysOf(w), Looked(w, k)', ~cancelled
      PROVE  faults' > faults \/ Paid(B, k) \/ k \in Listed(current[w])'
  <2>1. Settled(B, w, k)
    BY DEF Account
  <2>2. PICK i \in 1 .. pos[w] : Plan[w][i] = k
    <3>1. CASE pos[w] < Len(Plan[w])
      BY <1>2, <1>3, <1>5, <3>1 DEF Looked
    <3>2. CASE pos[w] = Len(Plan[w])
      BY <1>2, <3>2 DEF KeysOf, Range
    <3> QED  BY <1>2, <3>1, <3>2
  <2>3. CASE i # pos[w]
    <3>1. Looked(w, k)
      BY <1>1, <1>2, <2>2, <2>3 DEF Looked
    <3> QED  BY <1>4, <1>5, <2>1, <3>1 DEF Settled
  <2>4. CASE i = pos[w]
    <3>1. k = here
      BY <2>2, <2>4
    <3>2. CASE FetchFails(w)
      BY <1>5, <3>2, FaultsGrow DEF FetchFails
    <3>3. CASE FetchAnswers(w)
      BY <1>4, <2>1, <3>1, <3>3, WantedByOwner DEF Settled, Paid
    <3> QED  BY <3>2, <3>3
  <2> QED  BY <2>3, <2>4
<1>6. Stage(C, w)'
  BY <1>3 DEF Stage
<1>7. \A k \in KeysOf(w) : ~Underway(w, k)
  BY <1>1 DEF Underway
<1> QED  BY <1>1, <1>3, <1>4, <1>5, <1>6, <1>7, CalmBalances

LEMMA LoadKeysBalances ==
    ASSUME TypeOK, TypeOK', NEW B, NEW C, Funds(B, C),
           NEW w \in Watchers, Account(B, w),
           LoadKeys(w) \/ LoadKeysFails(w)
    PROVE  Balances(C, w)
<1>1. /\ pc[w] = "keys" /\ faults' >= faults
      /\ UNCHANGED <<rows, news, dups, market, cancelled, pos, current>>
  BY FaultsGrow DEF LoadKeys, LoadKeysFails, history, heard
<1>2. /\ \A v \in Watchers \ {w} : pc'[v] = pc[v] /\ stale'[v] = stale[v]
      /\ pc'[w] \in {"delete", "idle", "lookup"}
  BY DEF LoadKeys, LoadKeysFails, Goto, TypeOK, AfterReconcile
<1>3. pc'[w] = "delete" => stale'[w] = ProductKeys(Name[w]) \ Listed(current[w])
  BY DEF LoadKeys, LoadKeysFails, Goto, TypeOK, AfterReconcile
<1>4. Stage(C, w)'
  <2>1. (stale[w] \subseteq ProductKeys(Name[w]) \ Listed(current[w]))' <=>
           stale'[w] \subseteq ProductKeys(Name[w]) \ Listed(current[w])
    BY <1>1 DEF ProductKeys, Tracked, Listed
  <2> QED  BY <1>1, <1>2, <1>3, <2>1 DEF Account, Stage
<1>5. ASSUME NEW k \in KeysOf(w), Looked(w, k)', ~cancelled
      PROVE  Paid(B, k) \/ k \in Listed(current[w])'
  <2>1. Looked(w, k)
    BY <1>1 DEF Looked
  <2> QED  BY <1>1, <1>5, <2>1 DEF Account, Settled, Listed
<1>6. \A k \in KeysOf(w) : ~Underway(w, k)
  BY <1>1 DEF Underway
<1> QED  BY <1>1, <1>2, <1>4, <1>5, <1>6, CalmBalances

\* A row goes only if its key was looked for and not seen, or is not w's to poll.
LEMMA DeleteBalances ==
    ASSUME TypeOK, TypeOK', NEW B, NEW C, Funds(B, C),
           NEW w \in Watchers, Account(B, w), NEW j \in stale[w],
           DeleteStale(w, j) \/ DeleteFails(w, j)
    PROVE  Balances(C, w)
<1>1. /\ pc[w] = "delete" /\ faults' >= faults
      /\ UNCHANGED <<news, dups, market, cancelled, pos, current>>
      /\ stale' = [stale EXCEPT ![w] = stale[w] \ {j}]
      /\ pc' = pc \/ pc' = [pc EXCEPT ![w] = AfterReconcile(w)]
  BY FaultsGrow DEF DeleteStale, DeleteFails, NextStale, Goto
<1>2. /\ \A v \in Watchers \ {w} : pc'[v] = pc[v] /\ stale'[v] = stale[v]
      /\ pc'[w] \in {"delete", "idle", "lookup"}
      /\ stale'[w] = stale[w] \ {j}
  BY <1>1 DEF TypeOK, AfterReconcile
<1>3. /\ j \in Keys /\ Tracked(j) /\ rows[j].product = Name[w]
      /\ j \notin Listed(current[w])
  BY <1>1 DEF Account, Stage, ProductKeys
<1>4. ASSUME \A k \in Keys \ {j} : rows'[k] = rows[k]  PROVE Stage(C, w)'
  <2>1. stale'[w] \subseteq ProductKeys(Name[w])'
    BY <1>1, <1>2, <1>4 DEF Account, Stage, ProductKeys, Tracked
  <2>2. Listed(current[w])' = Listed(current[w])
    BY <1>1 DEF Listed
  <2> QED  BY <1>1, <1>2, <2>1, <2>2 DEF Account, Stage
<1>5. ASSUME NEW k \in KeysOf(w), Looked(w, k)', ~cancelled
      PROVE  Paid(B, k) \/ k \in Listed(current[w])'
  <2>1. Looked(w, k)
    BY <1>1 DEF Looked
  <2> QED  BY <1>1, <1>5, <2>1 DEF Account, Settled, Listed
<1>6. \A k \in KeysOf(w) : ~Underway(w, k)
  BY <1>1 DEF Underway
<1>7. CASE DeleteFails(w, j)
  <2>1. rows' = rows
    BY <1>7 DEF DeleteFails
  <2> QED  BY <1>1, <1>2, <1>4, <1>5, <1>6, <2>1, CalmBalances
<1>8. CASE DeleteStale(w, j)
  <2>1. ~cancelled /\ rows' = [rows EXCEPT ![j] = None]
    BY <1>8, FaultsGrow DEF DeleteStale, Delete
  <2>2. \A k \in Keys : rows'[k] = IF k = j THEN None ELSE rows[k]
    BY <2>1 DEF TypeOK, StoreTypeOK
  <2>3. j \in KeysOf(w) => Paid(B, j)
    BY <1>1, <1>3, <2>1 DEF Account, Settled, Looked
  <2>4. \A k \in KeysOf(w) : Paid(B, k) => Paid(C, k)'
    BY <1>1, StaysPaid, KeysOfAreKeys
  <2>5. ASSUME NEW k \in KeysOf(w)  PROVE Settled(C, w, k)'
    <3>1. Settled(B, w, k) /\ k \in Keys
      BY KeysOfAreKeys DEF Account
    <3>2. (dups[k] <= C[k])' /\ (~Wanted(k) => news[k])'
      BY <1>1, <3>1, StaysPaid, DemandStays DEF Settled
    <3>3. (Paid(C, k) \/ Tracked(k))'
      BY <1>6, <2>2, <2>3, <2>4, <3>1 DEF Settled, Tracked
    <3>4. (Looked(w, k) /\ ~cancelled => k \in Listed(current[w]) \/ Paid(C, k))'
      BY <1>1, <1>5, <2>4
    <3> QED  BY <3>2, <3>3, <3>4 DEF Settled
  <2>6. Spares(w)
    <3>1. \A k \in Keys : RowMoves(w, k)
      BY <1>3, <2>2 DEF RowMoves, Tracked
    <3> QED  BY <1>1, <1>2, <3>1 DEF Spares
  <2>7. (\A k \in KeysOf(w) : Settled(C, w, k))'
    BY <2>5 DEF KeysOf
  <2> QED  BY <1>4, <2>2, <2>6, <2>7 DEF Balances, Account
<1> QED  BY <1>7, <1>8

LEMMA LookupBalances ==
    ASSUME TypeOK, TypeOK', NEW B, NEW C, Funds(B, C),
           NEW w \in Watchers, Account(B, w), HasOffer(w), PollsOffers(w),
           LookupAnswers(w)
    PROVE  Balances(C, w)
<1>1. /\ pc[w] = "lookup" /\ faults' >= faults
      /\ UNCHANGED <<rows, news, dups, market, cancelled, pos, current, stale>>
      /\ pc' = [pc EXCEPT ![w] = Verdict(rows[Now(w).key], Now(w))]
  BY FaultsGrow DEF LookupAnswers, Goto, history, heard
<1>2. /\ Now(w)' = Now(w) /\ Now(w).key \in KeysOf(w)
      /\ pc'[w] \in {"alert", "drop", "touch"}
      /\ pc'[w] = "alert" => ~Tracked(Now(w).key)
      /\ pc'[w] = "drop" => Tracked(Now(w).key)
      /\ \A v \in Watchers \ {w} : pc'[v] = pc[v]
  BY <1>1, NowIsOwn DEF Now, Handling, TypeOK, Verdict, Tracked
<1>3. \A k \in KeysOf(w) : ~Underway(w, k) /\ ~Looked(w, k)'
  BY <1>1, <1>2 DEF Underway, Looked
<1>4. (pc[w] = "alert" => Paid(C, Now(w).key))'
  <2>1. pc'[w] = "alert" => Paid(B, Now(w).key)
    BY <1>2, <1>3 DEF Account, Settled
  <2>2. Now(w).key \in Keys /\ (Paid(B, Now(w).key) => Paid(C, Now(w).key)')
    BY <1>1, <1>2, KeysOfAreKeys, StaysPaid
  <2> QED  BY <1>2, <2>1, <2>2 DEF Paid, Prepaid
<1>5. (pc[w] = "drop" => Tracked(Now(w).key))'
  BY <1>1, <1>2 DEF Tracked
<1>6. Stage(C, w)'
  BY <1>1, <1>2, <1>4, <1>5 DEF Account, Stage
<1> QED  BY <1>1, <1>2, <1>3, <1>6, CalmBalances

\* The alert for a new key is news or already paid for; from then on it is under
\* way.
LEMMA NotifyBalances ==
    ASSUME TypeOK, TypeOK', NEW B, NEW C, Funds(B, C),
           NEW w \in Watchers, Account(B, w), Mine(TRUE, w), NotifyDelivers(w)
    PROVE  Balances(C, w)
<1> DEFINE j == Now(w).key
<1>1. /\ pc[w] \in {"alert", "drop"} /\ faults' = faults
      /\ UNCHANGED <<rows, market, cancelled, pos, current, stale>>
      /\ news' = [news EXCEPT ![j] = ~Wanted(j)]
      /\ dups' = IF pc[w] = "alert" /\ ~news[j]
                 THEN [dups EXCEPT ![j] = dups[j] + 1] ELSE dups
      /\ pc' = [pc EXCEPT ![w] = IF pc[w] = "alert" THEN "alertReply" ELSE "dropReply"]
  BY DEF NotifyDelivers, Succeeds, Goto
<1>2. /\ j \in KeysOf(w) /\ j \in Keys /\ Now(w)' = Now(w)
      /\ pc'[w] = IF pc[w] = "alert" THEN "alertReply" ELSE "dropReply"
      /\ \A v \in Watchers \ {w} : pc'[v] = pc[v]
      /\ B[j] \in Nat /\ C[j] \in Nat /\ C[j] >= B[j]
      /\ pc[w] = "alert" => ~Tracked(j)
  BY <1>1, NowIsOwn DEF Now, Handling, TypeOK, Funds, Mine, Decision, Tracked
<1>3. /\ \A k \in Keys : k # j => news'[k] = news[k] /\ dups'[k] = dups[k]
      /\ dups'[j] = IF pc[w] = "alert" /\ ~news[j] THEN dups[j] + 1 ELSE dups[j]
      /\ ~Wanted(j) => news'[j]
      /\ dups[j] \in Nat
  <2> DEFINE b == ~Wanted(j)
  <2>1. news' = [news EXCEPT ![j] = b]
    BY <1>1
  <2> HIDE DEF b, j
  <2>2. news'[j] = b /\ \A k \in Keys : k # j => news'[k] = news[k]
    BY <1>2, <2>1 DEF TypeOK
  <2>3. ~Wanted(j) => b
    BY DEF b
  <2> QED  BY <1>1, <1>2, <2>2, <2>3 DEF TypeOK
<1>4. dups'[j] <= C[j]
  <2>1. Settled(B, w, j) /\ (pc[w] = "alert" => Paid(B, j))
    BY <1>2 DEF Account, Stage
  <2> QED  BY <1>2, <1>3, <2>1 DEF Settled, Paid, Prepaid
<1>5. Spares(w)
  <2>1. \A k \in Keys : Tracked(k)' => dups'[k] = dups[k]
    BY <1>1, <1>2, <1>3 DEF Tracked
  <2>2. \A k \in Keys : RowMoves(w, k)
    BY <1>1 DEF RowMoves, Tracked
  <2> QED  BY <1>1, <1>2, <1>3, <2>1, <2>2 DEF Spares, TypeOK
<1>6. ASSUME NEW k \in KeysOf(w)  PROVE Settled(C, w, k)'
  <2>1. Settled(B, w, k) /\ k \in Keys
    BY KeysOfAreKeys DEF Account
  <2>2. ~Looked(w, k)'
    BY <1>2 DEF Looked
  <2>3. Wanted(k)' <=> Wanted(k)
    BY <1>1, DemandStays
  <2>4. CASE k # j
    <3>1. (dups[k] <= C[k])' /\ (~Wanted(k) => news[k])'
      BY <1>1, <1>3, <2>1, <2>3, <2>4, StaysPaid DEF Settled
    <3>2. (Paid(C, k) \/ Tracked(k))'
      BY <1>1, <1>3, <2>1, <2>4, StaysPaid DEF Settled, Tracked, Underway
    <3> QED  BY <2>2, <3>1, <3>2 DEF Settled
  <2>5. CASE k = j
    <3>1. (dups[k] <= C[k])'
      BY <1>1, <1>4, <2>5
    <3>2. (~Wanted(k) => news[k])'
      BY <1>3, <2>3, <2>5
    <3>3. (Paid(C, k) \/ Tracked(k) \/ Underway(w, k))'
      <4>1. CASE pc[w] = "alert"
        BY <1>2, <2>5, <4>1 DEF Underway
      <4>2. CASE pc[w] = "drop" /\ Tracked(j)
        BY <1>1, <2>5, <4>2 DEF Tracked
      <4>3. CASE pc[w] = "drop" /\ Prepaid(B, j)
        <5>1. dups'[k] < C[k]
          BY <1>2, <1>3, <2>5, <4>3 DEF Prepaid
        <5> QED  BY <5>1 DEF Paid, Prepaid
      <4>4. pc[w] = "drop" => Tracked(j) \/ Prepaid(B, j)
        BY DEF Account, Stage
      <4> QED  BY <1>1, <4>1, <4>2, <4>3, <4>4
    <3> QED  BY <2>2, <3>1, <3>2, <3>3 DEF Settled
  <2> QED  BY <2>4, <2>5
<1>7. Stage(C, w)'
  BY <1>1, <1>2 DEF Account, Stage
<1>8. (\A k \in KeysOf(w) : Settled(C, w, k))'
  BY <1>6 DEF KeysOf
<1> QED  BY <1>5, <1>7, <1>8 DEF Balances, Account

LEMMA ReplyBalances ==
    ASSUME TypeOK, TypeOK', NEW B, NEW C, Funds(B, C),
           NEW w \in Watchers, Account(B, w), ReplyArrives(w)
    PROVE  Balances(C, w)
<1>1. /\ pc[w] \in {"alertReply", "dropReply"} /\ faults' = faults /\ faults \in Nat
      /\ UNCHANGED <<rows, news, dups, market, cancelled, pos, current, stale>>
      /\ pc' = [pc EXCEPT ![w] = IF pc[w] = "alertReply" THEN "record" ELSE "touch"]
  BY DEF ReplyArrives, Goto, history, heard, TypeOK
<1>2. /\ pc'[w] = IF pc[w] = "alertReply" THEN "record" ELSE "touch"
      /\ \A v \in Watchers \ {w} : pc'[v] = pc[v]
      /\ Now(w)' = Now(w)
  BY <1>1 DEF TypeOK, Now
<1>3. \A k \in KeysOf(w) : (Underway(w, k) => Underway(w, k)') /\ ~Looked(w, k)'
  BY <1>1, <1>2 DEF Underway, Looked
<1>4. Stage(C, w)'
  BY <1>1, <1>2 DEF Account, Stage
<1> QED  BY <1>1, <1>2, <1>3, <1>4, CalmBalances

\* Where NextOffer leaves a watcher.
LEMMA NextOfferStage ==
    ASSUME TypeOK, NEW w \in Watchers, pc[w] \in Handling, NextOffer(w),
           NEW B, NEW C, Account(B, w)
    PROVE  /\ \A v \in Watchers \ {w} :
                 /\ pc'[v] = pc[v] /\ pos'[v] = pos[v]
                 /\ current'[v] = current[v] /\ stale'[v] = stale[v]
           /\ \A k \in KeysOf(w) : ~Looked(w, k)'
           /\ Stage(C, w)'
<1>1. /\ pc' = [pc EXCEPT ![w] = IF Len(current[w]) = 1 THEN "idle" ELSE "lookup"]
      /\ current' = [current EXCEPT ![w] = Tail(current[w])]
      /\ pos' = pos /\ stale' = stale
  BY DEF NextOffer, Goto
<1>2. pc'[w] \in {"idle", "lookup"} /\ pc[w] # "fetch"
  BY <1>1 DEF TypeOK, Handling
<1>3. Stage(C, w)' /\ \A k \in KeysOf(w) : ~Looked(w, k)'
  BY <1>1, <1>2 DEF Account, Stage, Looked
<1> QED  BY <1>1, <1>3 DEF TypeOK

\* An alert whose row is not written is a fault, also in a shutdown.
LEMMA FailureBalances ==
    ASSUME TypeOK, TypeOK', NEW B, NEW C, Funds(B, C),
           NEW w \in Watchers, Account(B, w),
           \/ LookupFails(w) \/ NotifyFails(w) \/ ReplyLost(w)
           \/ RecordFails(w) \/ TouchFails(w)
    PROVE  Balances(C, w)
<1>1. /\ pc[w] \in Handling /\ NextOffer(w) /\ faults' >= faults
      /\ UNCHANGED <<rows, news, dups, market, cancelled>>
  BY FaultsGrow
     DEF LookupFails, NotifyFails, ReplyLost, RecordFails, TouchFails, Handling, history, heard, TypeOK
<1>2. \A k \in KeysOf(w) : Underway(w, k) => faults' > faults \/ Tracked(k)
  BY FaultsGrow
     DEF LookupFails, NotifyFails, ReplyLost, RecordFails, TouchFails, Underway
<1> QED  BY <1>1, <1>2, NextOfferStage, CalmBalances

\* The row takes over from the alert.
LEMMA RecordBalances ==
    ASSUME TypeOK, TypeOK', NEW B, NEW C, Funds(B, C),
           NEW w \in Watchers, Account(B, w),
           HasOffer(w), PollsOffers(w), RecordRow(w)
    PROVE  Balances(C, w)
<1> DEFINE j == Now(w).key
           r == [product |-> Name[w], price |-> Now(w).price]
<1>1. /\ pc[w] = "record" /\ NextOffer(w) /\ faults' = faults /\ faults \in Nat
      /\ UNCHANGED <<news, dups, market, cancelled>>
      /\ rows' = [rows EXCEPT ![j] = r] /\ rows[j] = None
  BY DEF RecordRow, Record, Tracked, Succeeds, history, heard, TypeOK
<1>2. /\ j \in KeysOf(w) /\ j \in Keys /\ Now(w).price \in Quotes
      /\ r # None /\ r.product = Name[w]
  <2>1. j \in KeysOf(w) /\ j \in Keys /\ Now(w).price \in Quotes
    BY <1>1, NowIsOwn DEF Handling
  <2>2. r \in RowType
    BY <2>1, MonitorAssumption DEF RowType
  <2> QED  BY <2>1, <2>2, StoreAssumption
<1> HIDE DEF r
<1>3. \A k \in Keys : rows'[k] = IF k = j THEN r ELSE rows[k]
  BY <1>1 DEF TypeOK, StoreTypeOK
<1>4. /\ \A v \in Watchers \ {w} :
            /\ pc'[v] = pc[v] /\ pos'[v] = pos[v]
            /\ current'[v] = current[v] /\ stale'[v] = stale[v]
      /\ \A k \in KeysOf(w) : ~Looked(w, k)'
      /\ Stage(C, w)'
  BY <1>1, NextOfferStage DEF Handling
<1>5. Spares(w)
  <2>1. \A k \in Keys : RowMoves(w, k)
    BY <1>1, <1>2, <1>3 DEF RowMoves, Tracked
  <2> QED  BY <1>1, <1>4, <2>1 DEF Spares
<1>6. ASSUME NEW k \in KeysOf(w)  PROVE Settled(C, w, k)'
  <2>1. Settled(B, w, k) /\ k \in Keys /\ news'[k] = news[k] /\ dups'[k] = dups[k]
    BY <1>1, KeysOfAreKeys DEF Account
  <2>2. (dups[k] <= C[k])' /\ (~Wanted(k) => news[k])'
    BY <1>1, <2>1, StaysPaid, DemandStays DEF Settled
  <2>3. (Paid(C, k) \/ Tracked(k))'
    BY <1>1, <1>2, <1>3, <2>1, StaysPaid DEF Settled, Tracked, Underway
  <2> QED  BY <1>4, <2>2, <2>3 DEF Settled
<1>7. (\A k \in KeysOf(w) : Settled(C, w, k))'
  BY <1>6 DEF KeysOf
<1> QED  BY <1>4, <1>5, <1>7 DEF Balances, Account

LEMMA TouchBalances ==
    ASSUME TypeOK, TypeOK', NEW B, NEW C, Funds(B, C),
           NEW w \in Watchers, Account(B, w),
           HasOffer(w), PollsOffers(w), TouchRow(w)
    PROVE  Balances(C, w)
<1> DEFINE j == Now(w).key
<1>1. /\ pc[w] = "touch" /\ NextOffer(w) /\ faults' = faults /\ faults \in Nat
      /\ UNCHANGED <<news, dups, market, cancelled>>
      /\ rows' = IF rows[j] # None
                 THEN [rows EXCEPT ![j].price = Now(w).price] ELSE rows
  BY DEF TouchRow, Touch, Tracked, Succeeds, history, heard, TypeOK
<1>2. j \in KeysOf(w) /\ j \in Keys /\ Now(w).price \in Quotes
  BY <1>1, NowIsOwn DEF Handling
<1>3. \A k \in Keys : /\ rows'[k] # None <=> rows[k] # None
                      /\ rows[k] # None => rows'[k].product = rows[k].product
                      /\ k # j => rows'[k] = rows[k]
  <2>1. CASE rows[j] # None
    <3> DEFINE r == [rows[j] EXCEPT !.price = Now(w).price]
    <3>1. rows[j] \in RowType
      BY <1>2, <2>1 DEF TypeOK, StoreTypeOK
    <3>2. r \in RowType /\ r.product = rows[j].product
      BY <1>2, <3>1 DEF RowType
    <3>3. rows' = [rows EXCEPT ![j] = r] /\ r # None
      BY <1>1, <2>1, <3>2, StoreAssumption
    <3> HIDE DEF r
    <3> QED  BY <2>1, <3>2, <3>3 DEF TypeOK, StoreTypeOK
  <2>2. CASE rows[j] = None
    BY <1>1, <2>2
  <2> QED  BY <2>1, <2>2
<1>4. /\ \A v \in Watchers \ {w} :
            /\ pc'[v] = pc[v] /\ pos'[v] = pos[v]
            /\ current'[v] = current[v] /\ stale'[v] = stale[v]
      /\ \A k \in KeysOf(w) : ~Looked(w, k)'
      /\ Stage(C, w)'
  BY <1>1, NextOfferStage DEF Handling
<1>5. Spares(w)
  <2>1. \A k \in Keys : RowMoves(w, k)
    BY <1>3 DEF RowMoves, Tracked
  <2> QED  BY <1>1, <1>4, <2>1 DEF Spares
<1>6. ASSUME NEW k \in KeysOf(w)  PROVE Settled(C, w, k)'
  <2>1. Settled(B, w, k) /\ k \in Keys /\ news'[k] = news[k] /\ dups'[k] = dups[k]
    BY <1>1, KeysOfAreKeys DEF Account
  <2>2. (dups[k] <= C[k])' /\ (~Wanted(k) => news[k])'
    BY <1>1, <2>1, StaysPaid, DemandStays DEF Settled
  <2>3. (Paid(C, k) \/ Tracked(k))'
    BY <1>1, <1>3, <2>1, StaysPaid DEF Settled, Tracked, Underway
  <2> QED  BY <1>4, <2>2, <2>3 DEF Settled
<1>7. (\A k \in KeysOf(w) : Settled(C, w, k))'
  BY <1>6 DEF KeysOf
<1> QED  BY <1>4, <1>5, <1>7 DEF Balances, Account

LEMMA LoopBalances ==
    ASSUME TypeOK, TypeOK', NEW B, NEW C, Funds(B, C),
           NEW w \in Watchers, Account(B, w), Tick(w) \/ Stop(w)
    PROVE  Balances(C, w)
<1>1. /\ pc[w] = "idle" /\ faults' = faults /\ faults \in Nat
      /\ UNCHANGED <<rows, news, dups, market, cancelled, pos, current, stale>>
      /\ \/ pc' = [pc EXCEPT ![w] = "fetch"]
         \/ pc' = [pc EXCEPT ![w] = "stopped"]
  BY DEF Tick, Stop, Goto, history, heard, TypeOK
<1>2. /\ pc'[w] \in {"fetch", "stopped"} /\ pos'[w] = 1
      /\ \A v \in Watchers \ {w} : pc'[v] = pc[v]
  BY <1>1 DEF TypeOK, Account, Stage
<1>3. \A k \in KeysOf(w) : ~Underway(w, k) /\ ~Looked(w, k)'
  BY <1>1, <1>2 DEF Underway, Looked
<1>4. Stage(C, w)'
  BY <1>1, <1>2 DEF Stage
<1> QED  BY <1>1, <1>2, <1>3, <1>4, CalmBalances

LEMMA WatcherBalances ==
    ASSUME CapsAgree, TypeOK, TypeOK', NEW B, NEW C, Funds(B, C),
           NEW w \in Watchers, Account(B, w), Mine(TRUE, w), Work(w) \/ Stop(w)
    PROVE  Balances(C, w)
<1>0. HasOffer(w) /\ PollsOffers(w)
  BY DEF Mine
<1>1. CASE FetchAnswers(w) \/ FetchFails(w)
  BY <1>1, FetchBalances
<1>2. CASE LoadKeys(w) \/ LoadKeysFails(w)
  BY <1>2, LoadKeysBalances
<1>3. CASE \E k \in stale[w] : DeleteStale(w, k) \/ DeleteFails(w, k)
  BY <1>3, DeleteBalances
<1>4. CASE LookupAnswers(w)
  BY <1>0, <1>4, LookupBalances
<1>5. CASE NotifyDelivers(w)
  BY <1>5, NotifyBalances
<1>6. CASE ReplyArrives(w)
  BY <1>6, ReplyBalances
<1>7. CASE RecordRow(w)
  BY <1>0, <1>7, RecordBalances
<1>8. CASE TouchRow(w)
  BY <1>0, <1>8, TouchBalances
<1>9. CASE \/ LookupFails(w) \/ NotifyFails(w) \/ ReplyLost(w)
           \/ RecordFails(w) \/ TouchFails(w)
  BY <1>9, FailureBalances
<1>10. CASE Tick(w) \/ Stop(w)
  BY <1>10, LoopBalances
<1> QED
  BY <1>1, <1>2, <1>3, <1>4, <1>5, <1>6, <1>7, <1>8, <1>9, <1>10 DEF Work

LEMMA WatcherAccounts ==
    ASSUME CapsAgree, TypeOK, TypeOK', NEW A, Apart(A), NEW B, NEW C, Funds(B, C),
           Accounts(A, B), \A v \in A : Mine(TRUE, v), NEW w \in A, Work(w) \/ Stop(w)
    PROVE  Accounts(A, C)'
<1>1. w \in Watchers /\ Account(B, w) /\ Unpolled(A, B) /\ Reserved(A, B)
  BY DEF Apart, Accounts
<1>2. Spares(w) /\ Account(C, w)'
  BY <1>1, WatcherBalances DEF Balances
<1>3. ASSUME NEW v \in A, v # w  PROVE Account(C, v)'
  <2>1. HasOffer(v) /\ PollsOffers(v) /\ Account(B, v)
    BY DEF Mine, Accounts
  <2> QED  BY <1>1, <1>2, <1>3, <2>1, OthersAccount
<1>4. Unpolled(A, C)' /\ Reserved(A, C)'
  BY <1>1, <1>2, RestAccounts
<1> QED  BY <1>2, <1>3, <1>4 DEF Accounts

-----------------------------------------------------------------------------
(* The environment *)

\* What the books say of every key, polled or not.
LEMMA AccountsBound ==
    ASSUME NEW A, NEW B, Accounts(A, B), NEW k \in Keys
    PROVE  /\ dups[k] <= B[k]
           /\ ~Wanted(k) => news[k]
           /\ Paid(B, k) \/ Tracked(k) \/ \E w \in A : Underway(w, k)
<1>1. CASE \E w \in A : k \in KeysOf(w)
  BY <1>1 DEF Accounts, Account, Settled
<1>2. CASE \A w \in A : k \notin KeysOf(w)
  BY <1>2 DEF Accounts, Unpolled, AtRest
<1> QED  BY <1>1, <1>2

\* A start finds every announced key silenced by its row, or paid for by the crash.
\* The products it starts with need not be those before: they are D, and what they
\* will drop for its name is paid for.
LEMMA BootAccounts ==
    ASSUME TypeOK, TypeOK', NEW A, NEW B, NEW C, Funds(B, C), Accounts(A, B),
           Boot, UNCHANGED <<rows, heard, market>>,
           \A w \in A : faults' > faults \/ pc[w] = "stopped",
           NEW D \in SUBSET Watchers, \A k \in Keys : Doomed(D, k) => Prepaid(C, k)'
    PROVE  Accounts(D, C)'
<1>1. UNCHANGED <<news, dups>>
  BY DEF history, heard
<1>2. ASSUME NEW k \in Keys  PROVE AtRest(C, k)'
  <2>1. (dups[k] <= C[k])' /\ (~Wanted(k) => news[k])'
    BY <1>1, AccountsBound, StaysPaid, DemandStays
  <2>2. (Paid(C, k) \/ Tracked(k))'
    BY <1>1, AccountsBound, StaysPaid DEF Tracked, Underway
  <2> QED  BY <2>1, <2>2 DEF AtRest
<1>3. ASSUME NEW w \in D  PROVE Account(C, w)'
  <2>1. pc'[w] = "fetch" /\ pos'[w] = 1
    BY DEF Boot
  <2>2. Stage(C, w)'
    BY <2>1 DEF Stage
  <2>3. ASSUME NEW k \in KeysOf(w)  PROVE Settled(C, w, k)'
    <3>1. ~Looked(w, k)'
      BY <2>1 DEF Looked
    <3> QED  BY <1>2, <3>1, KeysOfAreKeys DEF AtRest, Settled
  <2>4. (\A k \in KeysOf(w) : Settled(C, w, k))'
    BY <2>3 DEF KeysOf
  <2> QED  BY <2>2, <2>4 DEF Account
<1>4. Unpolled(D, C)'
  BY <1>2 DEF Unpolled, KeysOf
<1>5. Reserved(D, C)'
  <2>1. \A k \in Keys : Doomed(D, k)' => Doomed(D, k)
    BY DEF Doomed, Tracked, KeysOf
  <2> QED  BY <2>1 DEF Reserved
<1> QED  BY <1>3, <1>4, <1>5 DEF Accounts

\* SIGTERM and the market: a key that leaves the offer is news again.
LEMMA OutsideAccounts ==
    ASSUME TypeOK, TypeOK', NEW A, A \subseteq Watchers, NEW B, NEW C, Funds(B, C),
           Accounts(A, B), \A w \in A : HasOffer(w) /\ PollsOffers(w),
           UNCHANGED <<rows, local, dups>>, cancelled => cancelled',
           \A k \in Keys : (news[k] => news'[k]) /\ (~Wanted(k)' => news'[k])
    PROVE  Accounts(A, C)'
<1>1. UNCHANGED <<pc, pos, current, stale>>
  BY DEF local
<1>2. ASSUME NEW k \in Keys
      PROVE  /\ Prepaid(B, k) => Prepaid(C, k)'
             /\ Paid(B, k) => Paid(C, k)'
             /\ Tracked(k)' <=> Tracked(k)
             /\ dups[k] <= B[k] => dups'[k] <= C[k]
  <2>1. dups'[k] = dups[k] /\ dups[k] \in Nat /\ B[k] \in Nat /\ C[k] \in Nat /\ C[k] >= B[k]
    BY DEF TypeOK, Funds
  <2>2. Prepaid(B, k) => Prepaid(C, k)'
    BY <2>1 DEF Prepaid
  <2> QED  BY <2>1, <2>2 DEF Paid, Tracked
<1>3. ASSUME NEW w \in A  PROVE Account(C, w)'
  <2>0. w \in Watchers /\ Account(B, w) /\ Now(w)' = Now(w)
    BY <1>1 DEF Accounts, Now
  <2>1. ASSUME NEW k \in KeysOf(w)  PROVE Settled(C, w, k)'
    <3>1. Settled(B, w, k) /\ k \in Keys
      BY <2>0, KeysOfAreKeys DEF Account
    <3>2. (dups[k] <= C[k])' /\ (~Wanted(k) => news[k])'
      BY <1>2, <3>1 DEF Settled
    <3>3. (Paid(C, k) \/ Tracked(k) \/ Underway(w, k))'
      BY <1>1, <1>2, <2>0, <3>1 DEF Settled, Underway
    <3>4. (Looked(w, k) /\ ~cancelled => k \in Listed(current[w]) \/ Paid(C, k))'
      <4>1. Looked(w, k)' <=> Looked(w, k)
        BY <1>1 DEF Looked
      <4>2. k \in Listed(current[w])' <=> k \in Listed(current[w])
        BY <1>1 DEF Listed
      <4> QED  BY <1>2, <3>1, <4>1, <4>2 DEF Settled
    <3> QED  BY <3>2, <3>3, <3>4 DEF Settled
  <2>2. Stage(C, w)'
    <3>1. pc[w] \in {"alert", "drop"} => Now(w).key \in Keys
      BY <2>0, NowIsOwn DEF Handling
    <3>2. (pc[w] = "alert" => Paid(C, Now(w).key))'
      <4>1. pc'[w] = "alert" => Paid(C, Now(w).key)'
        BY <1>1, <1>2, <2>0, <3>1 DEF Account, Stage, Paid, Prepaid
      <4> QED  BY <4>1
    <3>3. (pc[w] = "drop" => Tracked(Now(w).key) \/ Prepaid(C, Now(w).key))'
      BY <1>1, <1>2, <2>0, <3>1 DEF Account, Stage, Tracked, Prepaid
    <3>4. (pc[w] = "delete" => stale[w] \subseteq ProductKeys(Name[w]) \ Listed(current[w]))'
      BY <1>1, <2>0 DEF Account, Stage, ProductKeys, Tracked, Listed
    <3> QED  BY <1>1, <2>0, <3>2, <3>3, <3>4 DEF Account, Stage
  <2>3. (\A k \in KeysOf(w) : Settled(C, w, k))'
    BY <2>1 DEF KeysOf
  <2> QED  BY <2>2, <2>3 DEF Account
<1>4. ASSUME NEW k \in Keys, \A w \in A : k \notin KeysOf(w)  PROVE AtRest(C, k)'
  BY <1>2, <1>4 DEF Accounts, Unpolled, AtRest
<1>5. ASSUME NEW k \in Keys, Doomed(A, k)'  PROVE Prepaid(C, k)'
  <2>1. Doomed(A, k)
    BY <1>5 DEF Doomed, Tracked, KeysOf
  <2> QED  BY <1>2, <2>1 DEF Accounts, Reserved
<1>6. Unpolled(A, C)'
  BY <1>4 DEF Unpolled, KeysOf
<1> QED  BY <1>3, <1>5, <1>6 DEF Accounts, Reserved

LEMMA MarketTells ==
    ASSUME TypeOK, MarketMoves, \A k \in Keys : ~Wanted(k) => news[k]
    PROVE  \A k \in Keys : (news[k] => news'[k]) /\ (~Wanted(k)' => news'[k])
<1> PICK j \in Keys, q \in Quotes \cup {None} :
       /\ market' = [market EXCEPT ![j] = q]
       /\ news' = [news EXCEPT ![j] = news[j] \/ ~Wanted(j)']
  BY DEF MarketMoves
<1> SUFFICES ASSUME NEW k \in Keys
             PROVE  (news[k] => news'[k]) /\ (~Wanted(k)' => news'[k])
  OBVIOUS
<1> DEFINE b == news[j] \/ ~Wanted(j)'
<1>1. news' = [news EXCEPT ![j] = b]
  OBVIOUS
<1>2. (news[j] => b) /\ (~Wanted(j)' => b)
  OBVIOUS
<1> HIDE DEF b
<1>3. /\ news'[j] = b
      /\ k # j => news'[k] = news[k] /\ market'[k] = market[k]
  BY <1>1 DEF TypeOK
<1>4. k # j => (Wanted(k)' <=> Wanted(k))
  BY <1>3 DEF Wanted, KeysOf, Passes, IsLocal
<1> QED  BY <1>2, <1>3, <1>4

-----------------------------------------------------------------------------
(* The theorem *)

\* One process: every key may cost as many alerts as there were faults.
Faults == [k \in Keys |-> faults]

LEMMA InitAccounts ==
    ASSUME Init, NEW A \in SUBSET Watchers, NEW B \in [Keys -> Nat]
    PROVE  Accounts(A, B)
<1>1. \A k \in Keys : B[k] >= 0 /\ dups[k] = 0 /\ news[k] /\ ~Tracked(k)
  BY DEF Init, StoreInit, Tracked
<1>2. ASSUME NEW w \in A  PROVE Account(B, w)
  <2>1. pc[w] = "fetch" /\ pos[w] = 1
    BY DEF Init
  <2>2. \A k \in KeysOf(w) : k \in Keys /\ ~Looked(w, k)
    BY <2>1, KeysOfAreKeys DEF Looked
  <2>3. \A k \in KeysOf(w) : Settled(B, w, k)
    BY <1>1, <2>2 DEF Settled, Paid
  <2> QED  BY <2>1, <2>3 DEF Account, Stage
<1>3. Unpolled(A, B)
  BY <1>1 DEF Unpolled, AtRest, Paid
<1>4. Reserved(A, B)
  BY <1>1 DEF Reserved, Doomed
<1> QED  BY <1>2, <1>3, <1>4 DEF Accounts

LEMMA StepAccounts ==
    ASSUME KeysDisjoint, NamesDistinct, IndInv, IndInv',
           NEW B, B = Faults, NEW C, C = Faults',
           Accounts(Watchers, B), [Next]_vars
    PROVE  Accounts(Watchers, C)'
<1>1. /\ TypeOK /\ TypeOK'
      /\ \A w \in Watchers : Mine(TRUE, w) /\ HasOffer(w) /\ PollsOffers(w)
  BY DEF IndInv, Mine, DecisionStands
<1>2. Apart(Watchers) /\ CapsAgree
  BY DEF Apart, CapsAgree, KeysDisjoint, NamesDistinct
<1>3. faults' >= faults => Funds(B, C)
  BY <1>1 DEF Funds, Faults, TypeOK
<1>4. CASE \E w \in Watchers : Work(w) \/ Stop(w)
  <2> PICK w \in Watchers : Work(w) \/ Stop(w)
    BY <1>4
  <2>1. Funds(B, C)
    BY <1>1, <1>3, FaultsGrow
    DEF Work, FetchAnswers, FetchFails, LoadKeys, LoadKeysFails, DeleteStale,
        DeleteFails, LookupAnswers, LookupFails, NotifyDelivers, NotifyFails,
        ReplyArrives, ReplyLost, RecordRow, RecordFails, TouchRow, TouchFails,
        Tick, Stop, TypeOK
  <2> QED  BY <1>1, <1>2, <2>1, WatcherAccounts
<1>5. CASE Cancel \/ MarketMoves \/ UNCHANGED vars
  <2>1. /\ UNCHANGED <<rows, local, dups>> /\ (cancelled => cancelled')
        /\ faults' = faults
    BY <1>5 DEF Cancel, MarketMoves, vars, history, heard
  <2>2. \A k \in Keys : ~Wanted(k) => news[k]
    BY AccountsBound
  <2>3. \A k \in Keys : (news[k] => news'[k]) /\ (~Wanted(k)' => news'[k])
    <3>1. CASE MarketMoves
      BY <1>1, <2>2, <3>1, MarketTells
    <3>2. CASE Cancel \/ UNCHANGED vars
      <4>1. market' = market /\ news' = news
        BY <3>2 DEF Cancel, vars, history, heard
      <4> QED  BY <2>2, <4>1, DemandStays
    <3> QED  BY <1>5, <3>1, <3>2
  <2>4. Funds(B, C)
    BY <1>1, <1>3, <2>1 DEF TypeOK
  <2> QED  BY <1>1, <2>1, <2>3, <2>4, OutsideAccounts
<1>6. CASE Restart \/ Crash
  <2>1. /\ Boot /\ UNCHANGED <<rows, heard, market>> /\ faults' >= faults
        /\ \A w \in Watchers : faults' > faults \/ pc[w] = "stopped"
    BY <1>1, <1>6, FaultsGrow DEF Restart, Crash, TypeOK
  <2>2. Funds(B, C)
    BY <1>3, <2>1
  <2>3. ASSUME NEW k \in Keys, Doomed(Watchers, k)  PROVE Prepaid(C, k)'
    <3>1. Prepaid(B, k) /\ dups' = dups
      BY <2>1, <2>3 DEF Accounts, Reserved, history, heard
    <3> QED  BY <1>1, <2>2, <3>1 DEF Prepaid, Funds, TypeOK
  <2> QED  BY <1>1, <2>1, <2>2, <2>3, BootAccounts
<1> QED  BY <1>4, <1>5, <1>6 DEF Next

\* No item is announced again while it stays on offer, but once for every fault:
\* for any products with names of their own that poll different pages, whatever
\* fails, crashes or is interrupted (monitor.go:115-164, README.md:6).
THEOREM AlertsBounded ==
    ASSUME KeysDisjoint, NamesDistinct
    PROVE  Spec => []DuplicatesBounded
<1>0. IndInv /\ Init => Accounts(Watchers, Faults)
  <2>1. IndInv => Faults \in [Keys -> Nat]
    BY DEF IndInv, TypeOK, Faults
  <2> QED  BY <2>1, InitAccounts
<1>1. IndInv /\ IndInv' /\ Accounts(Watchers, Faults) /\ [Next]_vars
         => Accounts(Watchers, Faults)'
  <2> SUFFICES ASSUME IndInv, IndInv', Accounts(Watchers, Faults), [Next]_vars
               PROVE  Accounts(Watchers, Faults)'
    OBVIOUS
  <2>1. PICK B, C : B = Faults /\ C = Faults'
    OBVIOUS
  <2>2. Accounts(Watchers, B)
    BY <2>1
  <2>3. Accounts(Watchers, C)'
    BY <2>1, <2>2, StepAccounts
  <2> QED
    BY <2>1, <2>3
    DEF Accounts, Account, Settled, Stage, Unpolled, AtRest, Reserved, Paid, Prepaid
<1>2. IndInv /\ Accounts(Watchers, Faults) => DuplicatesBounded
  BY AccountsBound DEF DuplicatesBounded, Faults
<1>3. Spec => []Accounts(Watchers, Faults)
  BY <1>0, <1>1, Inductive, PTL DEF Spec
<1> QED  BY <1>2, <1>3, Inductive, PTL

-----------------------------------------------------------------------------
(* What is seen gone is forgotten *)

\* The row of a key that one watcher polls carries the name of its product.
Owned(w) == \A k \in KeysOf(w) : rows[k] # None => rows[k].product = Name[w]

\* The row of k bears the name of w.
Named(w, k) == rows[k] # None /\ rows[k].product = Name[w]

\* Half-way through a reconciliation, every row of w's name among K is of a key
\* the tick saw, is still to be deleted, or is one whose deletion failed.
Pending(K, w) ==
    pc[w] = "delete" =>
        \A k \in K : Named(w, k) => k \in Listed(current[w]) \cup stale[w] \cup spared[w]

Clearing == \A w \in Watchers : Owned(w) /\ Pending(KeysOf(w), w)

LEMMA RowsKeepProduct ==
    ASSUME TypeOK, NEW w \in Watchers, HasOffer(w), PollsOffers(w), Work(w) \/ Stop(w),
           NEW k \in Keys, rows'[k] # None
    PROVE  \/ rows'[k].product = Name[w]
           \/ rows[k] # None /\ rows'[k].product = rows[k].product
<1>1. CASE RecordRow(w)
  BY <1>1 DEF RecordRow, Record, TypeOK, StoreTypeOK
<1>2. CASE TouchRow(w)
  <2> DEFINE r == [rows[k] EXCEPT !.price = Now(w).price]
  <2>1. rows'[k] = rows[k] \/ (rows[k] # None /\ rows'[k] = r)
    BY <1>2 DEF TouchRow, Touch, Tracked, TypeOK, StoreTypeOK
  <2>2. rows[k] # None => r.product = rows[k].product
    BY DEF TypeOK, StoreTypeOK, RowType
  <2> HIDE DEF r
  <2> QED  BY <2>1, <2>2
<1>3. CASE \E j \in stale[w] : DeleteStale(w, j)
  BY <1>3 DEF DeleteStale, Delete, TypeOK, StoreTypeOK
<1>4. CASE rows' = rows
  BY <1>4
<1> QED
  BY <1>1, <1>2, <1>3, <1>4
  DEF Work, FetchAnswers, FetchFails, NextPage, LoadKeys, LoadKeysFails,
      DeleteFails, LookupAnswers, LookupFails, NotifyDelivers, NotifyFails,
      ReplyArrives, ReplyLost, RecordFails, TouchFails, Tick, Stop

LEMMA StaleOfOthers ==
    ASSUME TypeOK, NEW w \in Watchers, Work(w) \/ Stop(w)
    PROVE  /\ \A v \in Watchers \ {w} : stale'[v] = stale[v] /\ spared'[v] = spared[v]
           /\ cancelled' = cancelled /\ faults' >= faults
<1>1. \A v \in Watchers \ {w} : stale'[v] = stale[v] /\ spared'[v] = spared[v]
  BY DEF Work, FetchAnswers, FetchFails, NextPage, LoadKeys, LoadKeysFails,
         DeleteStale, DeleteFails, NextStale, LookupAnswers, LookupFails,
         NotifyDelivers, NotifyFails, ReplyArrives, ReplyLost, RecordRow,
         RecordFails, TouchRow, TouchFails, NextOffer, Tick, Stop, TypeOK, history
<1>2. cancelled' = cancelled
  BY DEF Work, FetchAnswers, FetchFails, NextPage, LoadKeys, LoadKeysFails,
         DeleteStale, DeleteFails, NextStale, LookupAnswers, LookupFails,
         NotifyDelivers, NotifyFails, ReplyArrives, ReplyLost, RecordRow,
         RecordFails, TouchRow, TouchFails, Tick, Stop
<1>3. faults' >= faults
  BY FaultsGrow
     DEF Work, FetchAnswers, FetchFails, LoadKeys, LoadKeysFails, DeleteStale,
         DeleteFails, LookupAnswers, LookupFails, NotifyDelivers, NotifyFails,
         ReplyArrives, ReplyLost, RecordRow, RecordFails, TouchRow, TouchFails,
         Tick, Stop, TypeOK
<1> QED  BY <1>1, <1>2, <1>3

\* The rows w has yet to deal with when a call of its reconciliation returns.
LEMMA ReconcileStep ==
    ASSUME TypeOK, NEW w \in Watchers, NEW K \in SUBSET Keys, Pending(K, w),
           pc[w] \in {"keys", "delete"}, Work(w), NEW k \in K, Named(w, k)'
    PROVE  /\ current'[w] = current[w]
           /\ \/ k \in Listed(current[w]) \cup spared'[w]
              \/ pc'[w] = "delete" /\ k \in stale'[w]
<1>1. k \in Keys /\ rows'[k] # None /\ rows'[k].product = Name[w]
  BY DEF TypeOK, Named
<1>2. CASE LoadKeys(w)
  <2>1. k \in ProductKeys(Name[w])
    BY <1>1, <1>2 DEF LoadKeys, ProductKeys, Tracked
  <2> QED  BY <1>2, <2>1 DEF LoadKeys, Goto, TypeOK
<1>3. CASE \E j \in stale[w] : DeleteStale(w, j)
  <2> PICK j \in stale[w] : DeleteStale(w, j)
    BY <1>3
  <2>1. /\ pc[w] = "delete" /\ current' = current /\ spared' = spared
        /\ rows' = [rows EXCEPT ![j] = None]
        /\ stale' = [stale EXCEPT ![w] = stale[w] \ {j}]
        /\ stale[w] # {j} => pc' = pc
    BY DEF DeleteStale, Delete, NextStale
  <2>2. k # j /\ Named(w, k)
    BY <1>1, <2>1 DEF TypeOK, StoreTypeOK, Named
  <2>3. k \in Listed(current[w]) \cup stale[w] \cup spared[w]
    BY <2>1, <2>2 DEF Pending
  <2> QED  BY <2>1, <2>2, <2>3 DEF TypeOK
<1>4. CASE \E j \in stale[w] : DeleteFails(w, j)
  <2> PICK j \in stale[w] : DeleteFails(w, j)
    BY <1>4
  <2>1. /\ pc[w] = "delete" /\ current' = current /\ rows' = rows
        /\ spared' = [spared EXCEPT ![w] = spared[w] \cup {j}]
        /\ stale' = [stale EXCEPT ![w] = stale[w] \ {j}]
        /\ stale[w] # {j} => pc' = pc
    BY DEF DeleteFails, NextStale
  <2>2. k \in Listed(current[w]) \cup stale[w] \cup spared[w]
    BY <2>1 DEF Pending, Named
  <2>3. spared'[w] = spared[w] \cup {j} /\ stale'[w] = stale[w] \ {j}
    BY <2>1 DEF TypeOK
  <2> QED  BY <2>1, <2>2, <2>3
<1>5. CASE LoadKeysFails(w)
  <2>1. k \in ProductKeys(Name[w])
    BY <1>1, <1>5 DEF LoadKeysFails, ProductKeys, Tracked
  <2> QED  BY <1>5, <2>1 DEF LoadKeysFails, TypeOK
<1> QED
  BY <1>2, <1>3, <1>4, <1>5
  DEF Work, FetchAnswers, FetchFails, LookupAnswers, LookupFails, NotifyDelivers,
      NotifyFails, ReplyArrives, ReplyLost, RecordRow, RecordFails, TouchRow,
      TouchFails, Tick

LEMMA PendingStays ==
    ASSUME TypeOK, TypeOK', NEW w \in Watchers, NEW K \in SUBSET Keys, Pending(K, w),
           Work(w) \/ Stop(w)
    PROVE  Pending(K, w)'
<1> SUFFICES ASSUME pc'[w] = "delete", NEW k \in K, Named(w, k)'
             PROVE  k \in Listed(current'[w]) \cup stale'[w] \cup spared'[w]
  BY DEF Pending, Listed, Named
<1>1. pc[w] \in {"keys", "delete"} /\ Work(w)
  BY DEF Work, FetchAnswers, FetchFails, NextPage, LookupAnswers, Verdict, LookupFails,
         NotifyDelivers, NotifyFails, ReplyArrives, ReplyLost, RecordRow, RecordFails,
         TouchRow, TouchFails, NextOffer, Tick, Stop, Goto, TypeOK,
         LoadKeys, LoadKeysFails, DeleteStale, DeleteFails
<1> QED  BY <1>1, ReconcileStep

LEMMA WatcherClears ==
    ASSUME KeysDisjoint, IndInv, Clearing, NEW w \in Watchers, Work(w) \/ Stop(w)
    PROVE  Clearing'
<1>1. /\ TypeOK /\ Mine(TRUE, w) /\ Quiet(TRUE)
      /\ HasOffer(w) /\ PollsOffers(w)
  BY DEF IndInv, DecisionStands, Mine, Quiet
<1>2. Keeps(TRUE, w)
  BY <1>1, WatcherKeeps
<1>3. \A v \in Watchers \ {w} : stale'[v] = stale[v] /\ spared'[v] = spared[v]
  BY <1>1, StaleOfOthers
<1>4. Owned(w)'
  <2>1. \A k \in KeysOf(w) : rows'[k] # None => rows'[k].product = Name[w]
    BY <1>1, RowsKeepProduct, KeysOfAreKeys DEF Clearing, Owned
  <2> QED  BY <2>1 DEF Owned, KeysOf
<1>5. Pending(KeysOf(w), w)'
  <2>1. Pending(KeysOf(w), w) /\ KeysOf(w) \in SUBSET Keys
    BY KeysOfAreKeys DEF Clearing
  <2>2. PICK K \in SUBSET Keys : K = KeysOf(w)
    BY <2>1
  <2>3. Pending(K, w)'
    BY <1>1, <1>2, <2>1, <2>2, PendingStays DEF Keeps
  <2> QED  BY <2>2, <2>3 DEF Pending, KeysOf
<1>6. ASSUME NEW v \in Watchers, v # w  PROVE Owned(v)' /\ Pending(KeysOf(v), v)'
  <2>1. /\ pc'[v] = pc[v] /\ current'[v] = current[v]
        /\ stale'[v] = stale[v] /\ spared'[v] = spared[v]
        /\ \A k \in KeysOf(v) : rows'[k] = rows[k] \/ rows'[k] = None
    <3>1. KeysOf(v) \subseteq Keys \ KeysOf(w)
      BY <1>6, KeysOfAreKeys DEF KeysDisjoint
    <3> QED  BY <1>2, <1>3, <1>6, <3>1 DEF Keeps
  <2>2. Owned(v)'
    BY <2>1 DEF Clearing, Owned, KeysOf
  <2>3. Pending(KeysOf(v), v)'
    <3> SUFFICES ASSUME pc'[v] = "delete", NEW k \in KeysOf(v), Named(v, k)'
                 PROVE  k \in Listed(current'[v]) \cup stale'[v] \cup spared'[v]
      BY DEF Pending, KeysOf, Listed, Named
    <3>1. Named(v, k)
      BY <2>1 DEF Named
    <3> QED  BY <2>1, <3>1 DEF Clearing, Pending
  <2> QED  BY <2>2, <2>3
<1> QED  BY <1>4, <1>5, <1>6 DEF Clearing

LEMMA StepClears ==
    ASSUME KeysDisjoint, IndInv, Clearing, [Next]_vars
    PROVE  Clearing'
<1>1. CASE \E w \in Watchers : Work(w) \/ Stop(w)
  BY <1>1, WatcherClears
<1>2. CASE Cancel \/ Restart \/ Crash \/ MarketMoves \/ UNCHANGED vars
  <2>1. rows' = rows
    BY <1>2 DEF Cancel, Restart, Crash, MarketMoves, vars
  <2>2. \A w \in Watchers :
           \/ pc'[w] # "delete"
           \/ /\ pc'[w] = pc[w] /\ current'[w] = current[w]
              /\ stale'[w] = stale[w] /\ spared'[w] = spared[w]
    BY <1>2 DEF Cancel, Restart, Crash, Boot, MarketMoves, vars, local, history
  <2> QED  BY <2>1, <2>2 DEF Clearing, Owned, Pending, Named, KeysOf, Listed
<1> QED  BY <1>1, <1>2 DEF Next

\* Whatever failed, crashed or was interrupted before, a tick that gets through its
\* reconciliation leaves no row of a key it polls and did not see, but for those
\* whose deletion failed in this very tick: for any products that poll different
\* pages (monitor.go:115-128).
THEOREM GoneIsForgotten ==
    ASSUME KeysDisjoint
    PROVE  Spec => SeenGoneIsForgotten
<1> DEFINE Forgets ==
             \A w \in Watchers :
                Reconciled(w) =>
                   \A k \in KeysOf(w) :
                      Tracked(k)' => k \in Listed(current[w]) \cup spared'[w]
<1>1. Init => Clearing
  BY KeysOfAreKeys DEF Init, StoreInit, Clearing, Owned, Pending
<1>2. IndInv /\ Clearing /\ [Next]_vars => Clearing'
  BY StepClears
<1>3. IndInv /\ Clearing /\ [Next]_vars => [Forgets]_vars
  <2> SUFFICES ASSUME IndInv, Clearing, Next, NEW w \in Watchers, Reconciled(w),
                      NEW k \in KeysOf(w), Tracked(k)'
               PROVE  k \in Listed(current[w]) \cup spared'[w]
    OBVIOUS
  <2>0. pc[w] \in {"keys", "delete"} /\ pc'[w] \in {"lookup", "idle"}
    BY DEF Reconciled
  <2>1. TypeOK /\ Clearing' /\ Pending(KeysOf(w), w) /\ KeysOf(w) \in SUBSET Keys
    BY StepClears, KeysOfAreKeys DEF IndInv, Clearing
  <2>2. ~(Cancel \/ Restart \/ Crash \/ MarketMoves)
    BY <2>0 DEF Cancel, Restart, Crash, Boot, MarketMoves, local
  <2>3. PICK v \in Watchers : Work(v) \/ Stop(v)
    BY <2>2 DEF Next
  <2>4. v = w
    <3>1. Mine(TRUE, v) /\ Quiet(TRUE)
      BY DEF IndInv, DecisionStands, Mine, Quiet
    <3>2. Keeps(TRUE, v)
      BY <2>1, <2>3, <3>1, WatcherKeeps
    <3> QED  BY <2>0, <3>2 DEF Keeps
  <2>5. Work(w)
    BY <2>0, <2>3, <2>4 DEF Stop
  <2>6. Named(w, k)'
    BY <2>1 DEF Clearing, Owned, Named, Tracked, KeysOf
  <2> QED  BY <2>0, <2>1, <2>5, <2>6, ReconcileStep
<1>4. Spec => []Clearing
  BY <1>1, <1>2, Inductive, PTL DEF Spec
<1>5. [][Forgets]_vars => SeenGoneIsForgotten
  BY PTL DEF SeenGoneIsForgotten
<1> QED  BY <1>3, <1>4, <1>5, Inductive, PTL DEF Spec
=============================================================================
