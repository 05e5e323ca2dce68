------------------------------- MODULE Store --------------------------------
(***************************************************************************)
(* The SQLite deduplication store (internal/store/store.go): one row per   *)
(* active availability, keyed by the deduplication key.  The pool has one  *)
(* connection (SetMaxOpenConns(1)) and every statement commits on its own, *)
(* so each operation is one atomic action on rows.  A statement that       *)
(* returns an error has no effect; the caller decides when that happens.   *)
(***************************************************************************)
EXTENDS Offers

CONSTANT Names      \* product names in the configuration

VARIABLE rows       \* rows[k]: the row of key k, or None

RowType == [product : Names, price : Quotes]

ASSUME StoreAssumption == None \notin RowType

StoreTypeOK == rows \in [Keys -> RowType \cup {None}]

StoreInit == rows = [k \in Keys |-> None]

Tracked(k) == rows[k] # None

\* INSERT: the primary key makes it fail when the row is already there.
Record(k, product, price) ==
    /\ ~Tracked(k)
    /\ rows' = [rows EXCEPT ![k] = [product |-> product, price |-> price]]

\* UPDATE ... WHERE key = ?: without a row it succeeds and changes nothing.
\* The price is overwritten even when the new one is NULL.
Touch(k, price) ==
    rows' = IF Tracked(k) THEN [rows EXCEPT ![k].price = price] ELSE rows

\* Mutant: the WHERE clause is missing.
ProductKeys_AnyProduct(product) == {k \in Keys : Tracked(k)}

\* SELECT key ... WHERE product = ?
ProductKeys(product) == {k \in Keys : Tracked(k) /\ rows[k].product = product}

\* DELETE ... WHERE key = ?, whatever product the row was recorded for.
Delete(k) == rows' = [rows EXCEPT ![k] = None]
=============================================================================
