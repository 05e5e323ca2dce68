------------------------- MODULE ReconfiguredProofs -------------------------
(***************************************************************************)
(* Proofs about Reconfigured for any configurations: what holds of one     *)
(* configuration holds across deployments that change it.  The step of a   *)
(* watcher and the start of a process are taken over from MonitorProofs;   *)
(* new is that only the configured watchers have something in hand, so     *)
(* only they have to poll different pages.  The books of AccountProofs are *)
(* kept for the configured products, and every move of a key adds to its   *)
(* budget.                                                                 *)
(***************************************************************************)
EXTENDS Reconfigured, AccountProofs

ReconfiguredInv ==
    /\ ReconfiguredTypeOK
    /\ \A w \in Watchers : Mine(ConfigurationsDisjoint, w)
    /\ \A w \in Watchers \ configured : pc[w] = "fetch" /\ current[w] = <<>>
    /\ Quiet(ConfigurationsDisjoint)

LEMMA AreBooleans == ConfigurationsDisjoint \in BOOLEAN /\ KeysDisjoint \in BOOLEAN
BY DEF ConfigurationsDisjoint, KeysDisjoint

\* Nothing in hand means nothing to be wrong about.
LEMMA EmptyHanded ==
    ASSUME NEW w \in Watchers, (pc[w] = "fetch" /\ current[w] = <<>>)'
    PROVE  Mine(ConfigurationsDisjoint, w)'
BY DEF Mine, HasOffer, PollsOffers, Listed, Decision

LEMMA ReconfiguredInitHolds == ReconfiguredInit => ReconfiguredInv
<1> SUFFICES ASSUME ReconfiguredInit  PROVE ReconfiguredInv
  OBVIOUS
<1>1. IndInv
  BY InitHolds DEF ReconfiguredInit
<1>2. ReconfiguredTypeOK
  BY <1>1 DEF ReconfiguredInit, ReconfiguredTypeOK, IndInv
<1>3. \A w \in Watchers : pc[w] = "fetch" /\ current[w] = <<>>
  BY DEF ReconfiguredInit, Init
<1>4. \A w \in Watchers : Mine(ConfigurationsDisjoint, w)
  BY <1>3 DEF Mine, HasOffer, PollsOffers, Listed, Decision
<1>5. Quiet(ConfigurationsDisjoint)
  BY DEF ReconfiguredInit, Init, StoreInit, Quiet, NoSilentRow, Tracked
<1> QED  BY <1>2, <1>3, <1>4, <1>5 DEF ReconfiguredInv

\* A configured watcher moves: the other configured ones poll other pages, and
\* the rest has nothing in hand.
LEMMA ConfiguredStepHolds ==
    ASSUME ReconfiguredInv, NEW w \in configured, Work(w) \/ Stop(w),
           UNCHANGED <<configured, handed>>
    PROVE  ReconfiguredInv'
<1>1. configured \in Configurations /\ configured \subseteq Watchers /\ w \in Watchers
  BY ConfigurationsAssumption DEF ReconfiguredInv, ReconfiguredTypeOK
<1>2. TypeOK /\ Mine(ConfigurationsDisjoint, w) /\ Quiet(ConfigurationsDisjoint)
  BY <1>1 DEF ReconfiguredInv, ReconfiguredTypeOK
<1>3. Keeps(ConfigurationsDisjoint, w)
  BY <1>1, <1>2, AreBooleans, WatcherKeeps
<1>4. \A v \in Watchers \ {w} : pc'[v] = pc[v] /\ current'[v] = current[v]
  BY <1>3 DEF Keeps
<1>5. ASSUME NEW v \in Watchers \ configured
      PROVE  (pc[v] = "fetch" /\ current[v] = <<>>)'
  BY <1>4, <1>5 DEF ReconfiguredInv
<1>6. ASSUME NEW v \in configured, v # w  PROVE Mine(ConfigurationsDisjoint, v)'
  <2>1. ConfigurationsDisjoint => KeysOf(v) \cap KeysOf(w) = {}
    BY <1>1, <1>6 DEF ConfigurationsDisjoint
  <2>2. v \in Watchers /\ Mine(ConfigurationsDisjoint, v)
    BY <1>1 DEF ReconfiguredInv
  <2> QED  BY <1>1, <1>2, <1>3, <1>6, <2>1, <2>2, AreBooleans, OthersKeep
<1>7. \A v \in Watchers : Mine(ConfigurationsDisjoint, v)'
  BY <1>3, <1>5, <1>6, EmptyHanded DEF Keeps
<1>8. ReconfiguredTypeOK'
  BY <1>3 DEF Keeps, ReconfiguredInv, ReconfiguredTypeOK
<1> QED  BY <1>3, <1>5, <1>7, <1>8 DEF Keeps, ReconfiguredInv

\* A start hands the rows on to whatever products it finds configured.
LEMMA StartHolds ==
    ASSUME ReconfiguredInv, Start, faults' \in Nat
    PROVE  ReconfiguredInv'
<1>1. TypeOK' /\ (NoSilentRow => NoSilentRow')
  BY BootKeeps DEF ReconfiguredInv, ReconfiguredTypeOK, Start
<1>2. \A w \in Watchers : (pc[w] = "fetch" /\ current[w] = <<>>)'
  BY DEF Start, Boot
<1>3. configured' \in Configurations /\ handed' \in [Keys -> Nat]
  BY DEF Start, ReconfiguredInv, ReconfiguredTypeOK
<1>4. \A w \in Watchers : Mine(ConfigurationsDisjoint, w)'
  BY <1>2, EmptyHanded
<1> QED  BY <1>1, <1>2, <1>3, <1>4 DEF ReconfiguredInv, ReconfiguredTypeOK, Quiet

\* SIGTERM, the market and the steps of nobody touch neither rows nor watchers.
LEMMA BystandingHolds ==
    ASSUME ReconfiguredInv, TypeOK', UNCHANGED <<rows, local, told, configured, handed>>
    PROVE  ReconfiguredInv'
<1>1. ASSUME NEW w \in Watchers  PROVE Mine(ConfigurationsDisjoint, w)'
  BY DEF ReconfiguredInv, Mine, HasOffer, PollsOffers, KeysOf, Listed, Decision, Now, local
<1>2. Quiet(ConfigurationsDisjoint)'
  BY DEF ReconfiguredInv, Quiet, NoSilentRow, Tracked
<1>3. ReconfiguredTypeOK'
  BY DEF ReconfiguredInv, ReconfiguredTypeOK
<1>4. \A w \in Watchers \ configured' : (pc[w] = "fetch" /\ current[w] = <<>>)'
  BY DEF ReconfiguredInv, local
<1> QED  BY <1>1, <1>2, <1>3, <1>4 DEF ReconfiguredInv

LEMMA ReconfiguredStepHolds ==
    ReconfiguredInv /\ [ReconfiguredNext]_rvars => ReconfiguredInv'
<1> SUFFICES ASSUME ReconfiguredInv, [ReconfiguredNext]_rvars  PROVE ReconfiguredInv'
  OBVIOUS
<1>0. TypeOK
  BY DEF ReconfiguredInv, ReconfiguredTypeOK
<1>1. CASE \E w \in configured : (Work(w) \/ Stop(w)) /\ UNCHANGED <<configured, handed>>
  BY <1>1, ConfiguredStepHolds
<1>2. CASE Cancel /\ UNCHANGED <<configured, handed>>
  <2>1. TypeOK'
    BY <1>0, <1>2 DEF Cancel, TypeOK, StoreTypeOK, local, history, heard
  <2> QED  BY <1>2, <2>1, BystandingHolds DEF Cancel, history, heard
<1>3. CASE MarketMoves /\ UNCHANGED <<configured, handed>>
  BY <1>0, <1>3, MarketTypes, BystandingHolds DEF MarketMoves
<1>4. CASE Redeploy
  BY <1>0, <1>4, StartHolds DEF Redeploy, TypeOK
<1>5. CASE Die
  <2>1. faults' \in Nat
    BY <1>0, <1>5, FaultsCounted DEF Die
  <2> QED  BY <1>5, <2>1, StartHolds DEF Die
<1>6. CASE UNCHANGED rvars
  <2>1. UNCHANGED <<rows, local, told, configured, handed>>
    BY <1>6 DEF rvars, vars, history, heard
  <2>2. TypeOK'
    BY <1>0, <1>6 DEF rvars, vars, local, history, heard, TypeOK, StoreTypeOK
  <2> QED  BY <2>1, <2>2, BystandingHolds
<1> QED  BY <1>1, <1>2, <1>3, <1>4, <1>5, <1>6 DEF ReconfiguredNext, Running

LEMMA ReconfiguredInductive == ReconfiguredSpec => []ReconfiguredInv
<1> QED  BY ReconfiguredInitHolds, ReconfiguredStepHolds, PTL DEF ReconfiguredSpec

-----------------------------------------------------------------------------
(* The theorems *)

\* Every variable keeps its type, and the products that run are those of a
\* configuration the process has read, through any number of deployments.
THEOREM ReconfiguredTypeCorrect == ReconfiguredSpec => []ReconfiguredTypeOK
<1>1. ReconfiguredInv => ReconfiguredTypeOK
  BY DEF ReconfiguredInv
<1> QED  BY <1>1, ReconfiguredInductive, PTL

\* However the products are renamed, removed or put back between two starts, no
\* row is there for an item nobody was told about since it was last forgotten, as
\* long as in no configuration two products poll the same page.
THEOREM ReconfiguredAlertBeforeRow ==
    ASSUME ConfigurationsDisjoint
    PROVE  ReconfiguredSpec => []NoSilentRow
<1>1. ReconfiguredInv => NoSilentRow
  BY DEF ReconfiguredInv, Quiet
<1> QED  BY <1>1, ReconfiguredInductive, PTL

LEMMA ReconfiguredStepRefines ==
    ASSUME ReconfiguredInv, ConfigurationsDisjoint, [ReconfiguredNext]_rvars
    PROVE  [Ledger!LedgerNext]_Ledger!ledger
<1>1. CASE \E w \in configured : Work(w) \/ Stop(w)
  <2> PICK w \in configured : Work(w) \/ Stop(w)
    BY <1>1
  <2>1. w \in Watchers
    BY ConfigurationsAssumption DEF ReconfiguredInv, ReconfiguredTypeOK
  <2>2. TypeOK /\ Mine(TRUE, w)
    BY <2>1 DEF ReconfiguredInv, ReconfiguredTypeOK, Mine
  <2> QED  BY <2>1, <2>2, WatcherRefines
<1>2. CASE Cancel \/ MarketMoves \/ Redeploy \/ Die \/ UNCHANGED rvars
  <2>1. UNCHANGED <<rows, told>>
    BY <1>2 DEF Cancel, MarketMoves, Redeploy, Die, Start, rvars, vars, history, heard
  <2> QED  BY <2>1, OutsideRefines
<1> QED  BY <1>1, <1>2 DEF ReconfiguredNext, Running

\* Across deployments the monitor still implements the ledger: what was announced
\* and what is kept quiet is one history, whatever products it is seen through.
THEOREM ReconfiguredRefinesLedger ==
    ASSUME ConfigurationsDisjoint
    PROVE  ReconfiguredSpec => LedgerRefined
<1>1. ReconfiguredInit => Ledger!LedgerInit
  BY DEF ReconfiguredInit, Init, StoreInit, Ledger!LedgerInit, Tracked
<1>2. ReconfiguredInv /\ [ReconfiguredNext]_rvars => [Ledger!LedgerNext]_Ledger!ledger
  BY ReconfiguredStepRefines
<1> QED
  BY <1>1, <1>2, ReconfiguredInductive, PTL
  DEF ReconfiguredSpec, LedgerRefined, Ledger!LedgerSpec

-----------------------------------------------------------------------------
(* What the alerts account for, through changes of the configuration *)

\* A key may cost an alert for every fault and for every time it was handed from
\* one product to another.
Budget == [k \in Keys |-> faults + handed[k]]

LEMMA ConfiguredApart ==
    ASSUME ConfigurationsDisjoint, NamesApart, NEW A \in Configurations
    PROVE  Apart(A)
BY ConfigurationsAssumption DEF ConfigurationsDisjoint, NamesApart, Apart

LEMMA ConfiguredInitAccounts ==
    ReconfiguredInv /\ ReconfiguredInit => Accounts(configured, Budget)
<1> SUFFICES ASSUME ReconfiguredInv, ReconfiguredInit  PROVE Accounts(configured, Budget)
  OBVIOUS
<1>1. Init /\ configured \in SUBSET Watchers
  BY ConfigurationsAssumption DEF ReconfiguredInit
<1>2. Budget \in [Keys -> Nat]
  BY DEF ReconfiguredInv, ReconfiguredTypeOK, TypeOK, Budget
<1> QED  BY <1>1, <1>2, InitAccounts

\* What a start hands on is paid for when it happens.
LEMMA StartAccounts ==
    ASSUME ReconfiguredInv, ReconfiguredInv',
           NEW A, A = configured, NEW D, D = configured',
           NEW B, B = Budget, NEW C, C = Budget',
           Accounts(A, B), Start, faults' >= faults,
           \A w \in A : faults' > faults \/ pc[w] = "stopped"
    PROVE  Accounts(D, C)'
<1>1. /\ TypeOK /\ TypeOK' /\ faults \in Nat /\ faults' \in Nat
      /\ handed \in [Keys -> Nat] /\ handed' \in [Keys -> Nat]
      /\ D \in SUBSET Watchers
  BY ConfigurationsAssumption DEF ReconfiguredInv, ReconfiguredTypeOK, TypeOK
<1>2. \A k \in Keys : handed'[k] = handed[k] + (IF TakenFrom(D, k) THEN 1 ELSE 0)
  BY DEF Start
<1>3. \A k \in Keys : B[k] = faults + handed[k] /\ C[k] = faults' + handed'[k]
  BY DEF Budget
<1>4. Funds(B, C)
  BY <1>1, <1>2, <1>3 DEF Funds, Budget
<1>5. ASSUME NEW k \in Keys, Doomed(D, k)  PROVE Prepaid(C, k)'
  <2>1. TakenFrom(D, k)
    BY <1>5 DEF Doomed, TakenFrom
  <2>2. dups[k] <= B[k] /\ dups' = dups /\ dups[k] \in Nat
    BY <1>1, AccountsBound DEF Start, history, heard, TypeOK
  <2> QED  BY <1>1, <1>2, <1>3, <2>1, <2>2 DEF Prepaid
<1> QED  BY <1>1, <1>4, <1>5, BootAccounts DEF Start, history, heard

LEMMA ReconfiguredStepAccounts ==
    ASSUME CapsAgree, ConfigurationsDisjoint, NamesApart,
           ReconfiguredInv, ReconfiguredInv',
           NEW A, A = configured, NEW D, D = configured',
           NEW B, B = Budget, NEW C, C = Budget',
           Accounts(A, B), [ReconfiguredNext]_rvars
    PROVE  Accounts(D, C)'
<1>1. /\ TypeOK /\ TypeOK' /\ faults \in Nat /\ faults' \in Nat
      /\ handed \in [Keys -> Nat]
      /\ A \in Configurations /\ A \subseteq Watchers
      /\ \A w \in A : Mine(TRUE, w) /\ HasOffer(w) /\ PollsOffers(w)
  BY ConfigurationsAssumption
  DEF ReconfiguredInv, ReconfiguredTypeOK, TypeOK, Mine, DecisionStands
<1>2. faults' >= faults /\ handed' = handed => Funds(B, C)
  BY <1>1 DEF Funds, Budget
<1>3. CASE \E w \in configured : (Work(w) \/ Stop(w)) /\ UNCHANGED <<configured, handed>>
  <2> PICK w \in A : (Work(w) \/ Stop(w)) /\ D = A /\ handed' = handed
    BY <1>3
  <2>1. Funds(B, C)
    BY <1>1, <1>2, StaleOfOthers
  <2> QED  BY <1>1, <2>1, ConfiguredApart, WatcherAccounts
<1>4. CASE \/ (Cancel \/ MarketMoves) /\ UNCHANGED <<configured, handed>>
           \/ UNCHANGED rvars
  <2>1. /\ UNCHANGED <<rows, local, dups>> /\ (cancelled => cancelled')
        /\ faults' = faults /\ handed' = handed /\ D = A
    BY <1>4 DEF Cancel, MarketMoves, rvars, vars, history, heard
  <2>2. \A k \in Keys : ~Wanted(k) => news[k]
    BY AccountsBound
  <2>3. \A k \in Keys : (news[k] => news'[k]) /\ (~Wanted(k)' => news'[k])
    <3>1. CASE MarketMoves
      BY <1>1, <2>2, <3>1, MarketTells
    <3>2. CASE Cancel \/ UNCHANGED rvars
      <4>1. market' = market /\ news' = news
        BY <3>2 DEF Cancel, rvars, vars, history, heard
      <4> QED  BY <2>2, <4>1, DemandStays
    <3> QED  BY <1>4, <3>1, <3>2
  <2>4. Funds(B, C)
    BY <1>1, <1>2, <2>1
  <2> QED  BY <1>1, <2>1, <2>3, <2>4, OutsideAccounts
<1>5. CASE Redeploy
  BY <1>1, <1>5, StartAccounts DEF Redeploy
<1>6. CASE Die
  <2>1. faults' > faults
    BY <1>1, <1>6, FaultsGrow DEF Die
  <2> QED  BY <1>1, <1>6, <2>1, StartAccounts DEF Die
<1> QED  BY <1>3, <1>4, <1>5, <1>6 DEF ReconfiguredNext, Running

\* However often the configuration changes, a key is announced again only for a
\* fault or for a move to another product: whatever configurations a start may
\* find, as long as in each of them the products have names and pages of their
\* own, and a page keeps its price cap.
THEOREM ReconfiguredAlertsBounded ==
    ASSUME ConfigurationsDisjoint, NamesApart, CapsAgree
    PROVE  ReconfiguredSpec => []DuplicatesAccounted
<1>1. /\ ReconfiguredInv /\ ReconfiguredInv'
      /\ Accounts(configured, Budget) /\ [ReconfiguredNext]_rvars
      => Accounts(configured, Budget)'
  <2> SUFFICES ASSUME ReconfiguredInv, ReconfiguredInv', Accounts(configured, Budget),
                      [ReconfiguredNext]_rvars
               PROVE  Accounts(configured, Budget)'
    OBVIOUS
  <2>1. PICK A, D, B, C : A = configured /\ D = configured' /\ B = Budget /\ C = Budget'
    OBVIOUS
  <2>2. Accounts(A, B)
    BY <2>1
  <2>3. Accounts(D, C)'
    BY <2>1, <2>2, ReconfiguredStepAccounts
  <2> QED
    BY <2>1, <2>3
    DEF Accounts, Account, Settled, Stage, Unpolled, AtRest, Reserved, Doomed, Paid, Prepaid
<1>2. Accounts(configured, Budget) => DuplicatesAccounted
  BY AccountsBound DEF DuplicatesAccounted, Budget
<1>3. ReconfiguredSpec => []Accounts(configured, Budget)
  BY <1>1, ConfiguredInitAccounts, ReconfiguredInductive, PTL DEF ReconfiguredSpec
<1> QED  BY <1>2, <1>3, PTL

-----------------------------------------------------------------------------
(* What is forgotten, through changes of the configuration *)

\* A configured product has looked at, or is about to delete, every row of its name.
Sweeping == \A w \in configured : Pending(Keys, w)

LEMMA ConfiguredSweeps ==
    ASSUME NamesApart, ReconfiguredInv, ReconfiguredInv', Sweeping,
           NEW w \in configured, Work(w) \/ Stop(w), UNCHANGED configured
    PROVE  Sweeping'
<1>1. /\ configured \in Configurations /\ configured \subseteq Watchers
      /\ TypeOK /\ TypeOK'
      /\ HasOffer(w) /\ PollsOffers(w) /\ Mine(ConfigurationsDisjoint, w)
      /\ Quiet(ConfigurationsDisjoint)
  BY ConfigurationsAssumption
  DEF ReconfiguredInv, ReconfiguredTypeOK, TypeOK, Mine, DecisionStands
<1>2. \A v \in Watchers \ {w} : pc'[v] = pc[v] /\ current'[v] = current[v]
  BY <1>1, AreBooleans, WatcherKeeps DEF Keeps
<1>3. \A v \in Watchers \ {w} : stale'[v] = stale[v] /\ spared'[v] = spared[v]
  BY <1>1, StaleOfOthers
<1>4. Pending(Keys, w)'
  BY <1>1, PendingStays DEF Sweeping
<1>5. ASSUME NEW v \in configured, v # w  PROVE Pending(Keys, v)'
  <2> SUFFICES ASSUME pc'[v] = "delete", NEW k \in Keys, Named(v, k)'
               PROVE  k \in Listed(current'[v]) \cup stale'[v] \cup spared'[v]
    BY DEF Pending, Listed, Named
  <2>1. Name[v] # Name[w]
    BY <1>1, <1>5 DEF NamesApart
  <2>2. Named(v, k)
    BY <1>1, <2>1, RowsKeepProduct DEF Named
  <2>3. pc[v] = "delete"
    BY <1>1, <1>2, <1>5
  <2>4. k \in Listed(current[v]) \cup stale[v] \cup spared[v]
    BY <2>2, <2>3 DEF Sweeping, Pending
  <2> QED  BY <1>1, <1>2, <1>3, <1>5, <2>4
<1> QED  BY <1>4, <1>5 DEF Sweeping

LEMMA ReconfiguredStepSweeps ==
    ASSUME NamesApart, ReconfiguredInv, ReconfiguredInv', Sweeping, [ReconfiguredNext]_rvars
    PROVE  Sweeping'
<1>1. CASE \E w \in configured : (Work(w) \/ Stop(w)) /\ UNCHANGED configured
  BY <1>1, ConfiguredSweeps
<1>2. CASE \/ (Cancel \/ MarketMoves) /\ UNCHANGED configured
           \/ UNCHANGED rvars
  <2>1. /\ rows' = rows /\ pc' = pc /\ current' = current /\ stale' = stale
        /\ spared' = spared /\ configured' = configured
    BY <1>2 DEF Cancel, MarketMoves, rvars, vars, local, history
  <2> QED  BY <2>1 DEF Sweeping, Pending, Named, Listed
<1>3. CASE Redeploy \/ Die
  <2>1. \A w \in Watchers : pc'[w] = "fetch"
    BY <1>3 DEF Redeploy, Die, Start, Boot
  <2>2. configured' \subseteq Watchers
    BY ConfigurationsAssumption DEF ReconfiguredInv, ReconfiguredTypeOK
  <2> QED  BY <2>1, <2>2 DEF Sweeping, Pending
<1> QED  BY <1>1, <1>2, <1>3 DEF ReconfiguredNext, Running

\* Whatever failed or died before and whatever product left the rows there, a tick
\* that gets through its reconciliation leaves no row of its product's name that it
\* did not see, but for those whose deletion failed in this very tick: for any
\* configurations in which no two products share a name (store.go:123-125,
\* monitor.go:115-128).
THEOREM ReconfiguredForgets ==
    ASSUME NamesApart
    PROVE  ReconfiguredSpec => OwnRowsForgotten
<1> DEFINE Forgets ==
             \A w \in configured :
                Reconciled(w) =>
                   \A k \in Keys :
                      Tracked(k)' /\ rows'[k].product = Name[w]
                      => k \in Listed(current[w]) \cup spared'[w]
<1>1. ReconfiguredInv /\ ReconfiguredInit => Sweeping
  BY ConfigurationsAssumption DEF ReconfiguredInit, Init, Sweeping, Pending
<1>2. ReconfiguredInv /\ ReconfiguredInv' /\ Sweeping /\ [ReconfiguredNext]_rvars => Sweeping'
  BY ReconfiguredStepSweeps
<1>3. ReconfiguredInv /\ Sweeping /\ [ReconfiguredNext]_rvars => [Forgets]_rvars
  <2> SUFFICES ASSUME ReconfiguredInv, Sweeping, ReconfiguredNext, NEW w \in configured,
                      Reconciled(w), NEW k \in Keys,
                      Tracked(k)', rows'[k].product = Name[w]
               PROVE  k \in Listed(current[w]) \cup spared'[w]
    OBVIOUS
  <2>0. pc[w] \in {"keys", "delete"} /\ pc'[w] \in {"lookup", "idle"}
    BY DEF Reconciled
  <2>1. /\ TypeOK /\ configured \subseteq Watchers /\ Quiet(ConfigurationsDisjoint)
        /\ Pending(Keys, w) /\ Named(w, k)'
    BY ConfigurationsAssumption
    DEF ReconfiguredInv, ReconfiguredTypeOK, Sweeping, Named, Tracked
  <2>2. ~(Cancel \/ Redeploy \/ Die \/ MarketMoves)
    BY <2>0, <2>1 DEF Cancel, Redeploy, Die, Start, Boot, MarketMoves, local
  <2>3. PICK v \in configured : Work(v) \/ Stop(v)
    BY <2>2 DEF ReconfiguredNext, Running
  <2>4. v = w
    <3>1. Mine(ConfigurationsDisjoint, v)
      BY <2>1 DEF ReconfiguredInv
    <3>2. Keeps(ConfigurationsDisjoint, v)
      BY <2>1, <2>3, <3>1, AreBooleans, WatcherKeeps
    <3> QED  BY <2>0, <2>1, <3>2 DEF Keeps
  <2>5. Work(w)
    BY <2>0, <2>1, <2>3, <2>4 DEF Stop
  <2> QED  BY <2>0, <2>1, <2>5, ReconcileStep
<1>4. ReconfiguredSpec => []Sweeping
  BY <1>1, <1>2, ReconfiguredInductive, PTL DEF ReconfiguredSpec
<1>5. [][Forgets]_rvars => OwnRowsForgotten
  BY PTL DEF OwnRowsForgotten
<1> QED
  BY <1>3, <1>4, <1>5, ReconfiguredInductive, PTL DEF ReconfiguredSpec
=============================================================================
