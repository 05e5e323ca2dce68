---------------------------- MODULE Reconfigured ----------------------------
(***************************************************************************)
(* The monitor across deployments: the database is a volume that outlives  *)
(* the process (deploy/deploy.sh), and every start of the process reads    *)
(* the configuration again (main.go:28,60-195), so the products of the     *)
(* next process may differ from those the rows were recorded for.          *)
(*                                                                         *)
(* A watcher of Monitor is here a product as it may stand in some          *)
(* configuration: a renamed product is a second watcher with the same plan *)
(* and another name, a product with a page more or less one with the same  *)
(* name and another plan.  Only the configured ones run.                   *)
(***************************************************************************)
EXTENDS Monitor

CONSTANT Configurations     \* the sets of products a start may find

ASSUME ConfigurationsAssumption ==
    Configurations \subseteq SUBSET Watchers \ {{}} /\ Configurations # {}

VARIABLES
    configured,     \* the products of the running process
    handed          \* starts that took a tracked key from the product of its row

rvars == <<vars, configured, handed>>

ReconfiguredTypeOK ==
    /\ TypeOK
    /\ configured \in Configurations
    /\ handed \in [Keys -> Nat]

ReconfiguredInit ==
    /\ Init
    /\ configured \in Configurations
    /\ handed = [k \in Keys |-> 0]

\* The row of k belongs to a product that is in the configuration but lists k
\* no more: its next tick drops the row.
TakenFrom(config, k) ==
    /\ Tracked(k)
    /\ \E w \in config : Name[w] = rows[k].product /\ k \notin KeysOf(w)

\* A start: the configuration is read again, the rows are those of the last
\* process.
Start ==
    /\ \E config \in Configurations :
          /\ configured' = config
          /\ handed' = [k \in Keys |->
                          handed[k] + (IF TakenFrom(config, k) THEN 1 ELSE 0)]
    /\ Boot
    /\ UNCHANGED <<rows, heard, market, moves, cancels>>

\* Run has returned, and the process is deployed again.
Redeploy ==
    /\ \A w \in configured : pc[w] = "stopped"
    /\ Start
    /\ UNCHANGED faults

\* The process dies between two calls.
Die ==
    /\ \E w \in configured : pc[w] # "stopped"
    /\ Fault
    /\ Start

Running ==
    /\ \/ \E w \in configured : Work(w) \/ Stop(w)
       \/ Cancel \/ MarketMoves
    /\ UNCHANGED <<configured, handed>>

ReconfiguredNext == Running \/ Redeploy \/ Die

ReconfiguredSpec == ReconfiguredInit /\ [][ReconfiguredNext]_rvars

-----------------------------------------------------------------------------
(* Properties *)

\* In no configuration two products poll the same key.
ConfigurationsDisjoint ==
    \A config \in Configurations : \A v, w \in config :
        v # w => KeysOf(v) \cap KeysOf(w) = {}

\* In no configuration two products share a name, the one their rows go by.
NamesApart ==
    \A config \in Configurations : \A v, w \in config : v # w => Name[v] # Name[w]

\* A new configuration alone announces nothing again: a product that is renamed,
\* removed or put back finds the rows its items left, whatever name they carry
\* (Lookup goes by key, store.go:90-94).  Only a key that moves from a product
\* that stays to another one costs an alert, one per move (monitor.go:116-128).
\* A page keeps its price cap here (CapsAgree): a lowered cap drops the row of an
\* offer that has not moved, and lifting it again announces the offer anew.
DuplicatesAccounted == \A k \in Keys : dups[k] <= faults + handed[k]

\* A reconciliation leaves no row of the product's name that its tick did not
\* see, whichever process recorded it and whatever page it was listed on then,
\* but for the rows whose own Delete failed, or all when the keys could not be
\* loaded (store.go:123-125, monitor.go:115-128).  Earlier faults, crashes and
\* deployments excuse nothing.  The rows of a name that is configured no more stay,
\* and keep their items silent, for as long as it is not.
OwnRowsForgotten ==
    [][\A w \in configured :
          Reconciled(w) =>
             \A k \in Keys :
                Tracked(k)' /\ rows'[k].product = Name[w]
                => k \in Listed(current[w]) \cup spared'[w]]_rvars
=============================================================================
