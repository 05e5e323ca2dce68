--------------------------- MODULE BauhausProofs ----------------------------
(***************************************************************************)
(* Proofs about BauhausSession for any number of products and stores and   *)
(* any number of troubles.                                                 *)
(***************************************************************************)
EXTENDS BauhausSession, TLAPS

\* The session kept will serve the next request unless something happens: it is
\* accepted, young, and no forced refresh is on its way.
Healthy ==
    held = "accepted" /\ ~expired /\ (refresh => pc # "session")

\* A solve is in reserve only while there is no healthy session.
Budget == solves <= troubles + (IF Healthy THEN 1 ELSE 0)

\* A second try that is about to be rejected met trouble already.
Excused ==
    pc = "request" /\ refresh /\ held # "accepted" => pair \in spoilt

\* The inductive invariant: the properties and what they rest on.
SessionInv ==
    /\ TypeOK
    /\ pc = "done" => ~refresh
    /\ HasClient \/ held = "none"
    /\ StaleSessionHeals
    /\ Excused
    /\ Budget

\* A pair is a number, and the next one is a pair too.
LEMMA PairNumbers ==
    /\ Pairs \subseteq Nat /\ 1 \in Pairs
    /\ \A p \in Pairs : p < PairCount => p + 1 \in Pairs
BY BauhausAssumption DEF Pairs

\* The invariant holds at start.
LEMMA SessionInit == Init => SessionInv
<1> SUFFICES ASSUME Init PROVE SessionInv
  OBVIOUS
<1>1. refresh \in BOOLEAN /\ expired \in BOOLEAN /\ (pc = "done" => ~refresh)
  BY Zenon DEF Init
<1>2. TypeOK
  BY <1>1, PairNumbers DEF Init, TypeOK
<1>3. (HasClient \/ held = "none") /\ StaleSessionHeals /\ Excused
  BY DEF Init, StaleSessionHeals, Excused
<1>4. Budget
  BY DEF Init, Budget
<1> QED  BY <1>1, <1>2, <1>3, <1>4 DEF SessionInv

\* Taking the kept session changes nothing but the next step.
LEMMA UseKeeps ==
    ASSUME SessionInv, UseSession  PROVE SessionInv'
BY DEF UseSession, Cached, SessionInv, TypeOK, HasClient, StaleSessionHeals, Excused,
    Budget, Healthy

\* A solve happens only when the budget has one in reserve.
LEMMA HarvestKeeps ==
    ASSUME SessionInv, Harvest  PROVE SessionInv'
<1>1. refresh' \in BOOLEAN /\ expired' \in BOOLEAN
  BY Zenon DEF Harvest, SessionInv, TypeOK
<1>2. TypeOK' /\ (pc' = "done" => ~refresh') /\ (HasClient \/ held = "none")'
  BY <1>1 DEF Harvest, SessionInv, HasClient, TypeOK
<1>3. StaleSessionHeals' /\ Excused'
  BY DEF Harvest, Cached, SessionInv, HasClient, StaleSessionHeals, Excused
<1>4. Budget'
  BY DEF Harvest, Cached, SessionInv, TypeOK, Budget, Healthy
<1> QED  BY <1>2, <1>3, <1>4 DEF SessionInv

LEMMA HarvestEmptyKeeps ==
    ASSUME SessionInv, HarvestEmpty  PROVE SessionInv'
<1>1. refresh' \in BOOLEAN /\ expired' \in BOOLEAN
  BY Zenon DEF HarvestEmpty, SessionInv, TypeOK
<1>2. TypeOK' /\ (pc' = "done" => ~refresh') /\ (HasClient \/ held = "none")'
  BY <1>1 DEF HarvestEmpty, Trouble, SessionInv, HasClient, TypeOK
<1>3. StaleSessionHeals' /\ Excused'
  BY DEF HarvestEmpty, Trouble, Cached, SessionInv, HasClient, StaleSessionHeals, Excused
<1>4. Budget'
  BY DEF HarvestEmpty, Trouble, Cached, SessionInv, TypeOK, Budget, Healthy
<1> QED  BY <1>2, <1>3, <1>4 DEF SessionInv

\* A failed query keeps the types and gives up only the pair of a second try.
LEMMA FailedQuery ==
    ASSUME TypeOK, QueryFails
    PROVE  /\ pc' \in {"session", "done"} /\ pair' \in Pairs
           /\ refresh' \in BOOLEAN /\ (pc' = "done" => ~refresh')
           /\ failed' \subseteq Pairs
           /\ failed' \subseteq failed \cup {p \in {pair} : refresh}
BY PairNumbers DEF QueryFails, NextPair, TypeOK

LEMMA HarvestFailsKeeps ==
    ASSUME SessionInv, HarvestFails  PROVE SessionInv'
<1>1. TypeOK /\ QueryFails
  BY DEF SessionInv, HarvestFails
<1>2. TypeOK' /\ (pc' = "done" => ~refresh') /\ (HasClient \/ held = "none")'
  BY <1>1, FailedQuery DEF HarvestFails, Trouble, HasClient, TypeOK
<1>3. StaleSessionHeals'
  BY <1>1, FailedQuery DEF HarvestFails, Trouble, SessionInv, HasClient, StaleSessionHeals
<1>4. Excused'
  BY <1>1, FailedQuery DEF Excused
<1>5. Budget'
  BY DEF HarvestFails, Trouble, Cached, SessionInv, TypeOK, Budget, Healthy
<1> QED  BY <1>2, <1>3, <1>4, <1>5 DEF SessionInv

\* Nothing but the failed pairs changes without a client, and no session is held.
LEMMA WithoutClientKeeps ==
    ASSUME SessionInv, QueryWithoutClient  PROVE SessionInv'
<1>1. TypeOK /\ QueryFails
  BY DEF SessionInv, QueryWithoutClient
<1>2. TypeOK' /\ (pc' = "done" => ~refresh') /\ (HasClient \/ held = "none")'
  BY <1>1, FailedQuery DEF QueryWithoutClient, SessionInv, HasClient, TypeOK
<1>3. StaleSessionHeals'
  BY DEF QueryWithoutClient, HasClient, StaleSessionHeals
<1>4. Excused'
  BY <1>1, FailedQuery DEF Excused
<1>5. Budget'
  BY DEF QueryWithoutClient, SessionInv, Budget, Healthy
<1> QED  BY <1>2, <1>3, <1>4, <1>5 DEF SessionInv

LEMMA AnswersKeeps ==
    ASSUME SessionInv, RequestAnswers  PROVE SessionInv'
BY PairNumbers
DEF RequestAnswers, NextPair, SessionInv, TypeOK, HasClient, StaleSessionHeals, Excused,
    Budget, Healthy

\* A rejected second try was excused: that is where Excused is needed.
LEMMA RejectedKeeps ==
    ASSUME SessionInv, RequestRejected  PROVE SessionInv'
<1>1. TypeOK /\ QueryFails
  BY DEF SessionInv, RequestRejected
<1>2. TypeOK' /\ (pc' = "done" => ~refresh') /\ (HasClient \/ held = "none")'
  BY <1>1, FailedQuery DEF RequestRejected, SessionInv, HasClient, TypeOK
<1>3. StaleSessionHeals'
  BY <1>1, FailedQuery DEF RequestRejected, SessionInv, Excused, HasClient, StaleSessionHeals
<1>4. Excused'
  BY <1>1, FailedQuery DEF Excused
<1>5. Budget'
  BY DEF RequestRejected, SessionInv, Budget, Healthy
<1> QED  BY <1>2, <1>3, <1>4, <1>5 DEF SessionInv

LEMMA FailsKeeps ==
    ASSUME SessionInv, RequestFails  PROVE SessionInv'
<1>1. TypeOK /\ QueryFails
  BY DEF SessionInv, RequestFails
<1>2. TypeOK' /\ (pc' = "done" => ~refresh') /\ (HasClient \/ held = "none")'
  BY <1>1, FailedQuery DEF RequestFails, Trouble, SessionInv, HasClient, TypeOK
<1>3. StaleSessionHeals'
  BY <1>1, FailedQuery DEF RequestFails, Trouble, SessionInv, HasClient, StaleSessionHeals
<1>4. Excused'
  BY <1>1, FailedQuery DEF Excused
<1>5. Budget'
  BY DEF RequestFails, Trouble, SessionInv, TypeOK, Budget, Healthy
<1> QED  BY <1>2, <1>3, <1>4, <1>5 DEF SessionInv

LEMMA AgainKeeps ==
    ASSUME SessionInv, CheckAgain  PROVE SessionInv'
BY PairNumbers
DEF CheckAgain, SessionInv, TypeOK, HasClient, StaleSessionHeals, Excused, Budget, Healthy

\* What spoils a session gives the budget back the solve it will cost, and
\* excuses a second try that is under way.
LEMMA SpoilingKeeps ==
    ASSUME SessionInv, Invalidate \/ Expire  PROVE SessionInv'
<1>1. refresh' \in BOOLEAN /\ expired' \in BOOLEAN
  BY Zenon DEF Invalidate, Expire, SessionInv, TypeOK
<1>2. pc' = "done" => ~refresh'
  BY Zenon DEF Invalidate, Expire, SessionInv
<1>3. troubles' \in Nat /\ spoilt' \subseteq Pairs
  BY DEF Invalidate, Expire, Trouble, SessionInv, TypeOK
<1>4. pc' \in {"session", "request", "done"} /\ pair' \in Pairs
      /\ held' \in {"none", "accepted", "rejected"}
      /\ failed' \subseteq Pairs /\ solves' \in Nat
      /\ tls' \in {"built", "nil"} /\ (HasClient \/ held = "none")'
  BY DEF Invalidate, Expire, SessionInv, HasClient, TypeOK
<1>5. TypeOK'
  BY <1>1, <1>3, <1>4 DEF TypeOK
<1>6. StaleSessionHeals' /\ Excused'
  BY DEF Invalidate, Expire, Trouble, SessionInv, HasClient, StaleSessionHeals, Excused
<1>7. Budget'
  BY DEF Invalidate, Expire, Trouble, SessionInv, TypeOK, Budget, Healthy
<1> QED  BY <1>2, <1>4, <1>5, <1>6, <1>7 DEF SessionInv

LEMMA StutterKeeps ==
    ASSUME SessionInv, UNCHANGED vars  PROVE SessionInv'
BY DEF vars, SessionInv, TypeOK, HasClient, StaleSessionHeals, Excused, Budget, Healthy

\* The inductive invariant holds in every reachable state.
THEOREM SessionInductive == Spec => []SessionInv
<1>1. SessionInv /\ [Next]_vars => SessionInv'
  BY UseKeeps, HarvestKeeps, HarvestEmptyKeeps, HarvestFailsKeeps,
     WithoutClientKeeps, AnswersKeeps,
     RejectedKeeps, FailsKeeps, AgainKeeps, SpoilingKeeps, StutterKeeps
  DEF Next, Query
<1> QED  BY <1>1, SessionInit, PTL DEF Spec

\* Every variable keeps its type.
THEOREM SessionTypes == Spec => []TypeOK
<1>1. SessionInv => TypeOK
  BY DEF SessionInv
<1> QED  BY <1>1, SessionInductive, PTL

\* A stale session alone never costs a result, however many pairs there are and
\* whatever goes wrong when (bauhausstore.go:79-83).
THEOREM NoResultLostToStaleness == Spec => []StaleSessionHeals
<1>1. SessionInv => StaleSessionHeals
  BY DEF SessionInv
<1> QED  BY <1>1, SessionInductive, PTL

\* FlareSolverr is asked at most once more than something went wrong or ran out
\* (bauhausstore.go:184-191).
THEOREM SolvesBounded == Spec => []SolvesAreCaused
<1>1. SessionInv => SolvesAreCaused
  BY DEF SessionInv, TypeOK, Budget, SolvesAreCaused
<1> QED  BY <1>1, SessionInductive, PTL
=============================================================================
