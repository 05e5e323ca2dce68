------------------------------- MODULE Feeds --------------------------------
(***************************************************************************)
(* What a source makes of one answer of an API or a feed, and the rows it  *)
(* returns for it (internal/source).  A row keeps what decides something:  *)
(* its deduplication key, here a pair of its kind and an id, where it is   *)
(* sold, its price in the unit of Amounts, stock and pre-order flag.  An   *)
(* answer is the sequence of the rows, in the order of the feed.           *)
(***************************************************************************)
EXTENDS Verdicts

Row(key, place, found) ==
    [key |-> key, place |-> place,
     price |-> found.price, stock |-> found.stock, preOrder |-> found.preOrder]

Online == [channel |-> "online", targeted |-> FALSE, plz |-> <<>>]

Branch(plz, targeted) == [channel |-> "instore", targeted |-> targeted, plz |-> plz]

\* "listed implies available": a missing or non-positive count becomes 1.
AtLeastOne(stock) == IF stock < 1 THEN 1 ELSE stock

\* A product page is sold online, under the URL of the page.
PageAnswer(name, url, page) ==
    LET verdict == PageVerdict(name, page)
    IN  [i \in DOMAIN verdict |-> Row(<<"page", url>>, Online, verdict[i])]

-----------------------------------------------------------------------------
(* expert.de: stock, availability and button of one web-code *)

Orderable(p) == p.stock > 0 \/ p.action \in {"ORDER", "ORDER_IN_ADVANCE"}

IsAdvance(p) == p.stock = 0 \/ p.availability # "AVAILABLE"

\* Mutant: the stock of a pre-order is passed on as it is.
ExpertAnswer_RawStock(code, p) ==
    IF ~Orderable(p) THEN <<>>
    ELSE <<Row(<<"expert", code>>, Online, Found(p.price, p.stock, IsAdvance(p)))>>

ExpertAnswer(code, p) ==
    IF ~Orderable(p) THEN <<>>
    ELSE <<Row(<<"expert", code>>, Online,
               Found(p.price, AtLeastOne(p.stock), IsAdvance(p)))>>

-----------------------------------------------------------------------------
(* obi.de: the branches and sellers that have the product; none has a price *)

\* The first field that is there and not empty; "" without one.
PickStr(fields, names) ==
    LET named == {i \in DOMAIN names : names[i] \in DOMAIN fields /\ fields[names[i]] # ""}
    IN  IF named = {} THEN "" ELSE fields[names[Min(named)]]

\* A branch without a PLZ gets the one that was asked for.
ObiPickup(entry, asked) ==
    Row(<<"pickup", PickStr(entry.ids, <<"id", "storeId", "storeNo", "filialId">>)>>,
        Branch(IF entry.plz = <<>> THEN asked ELSE entry.plz, TRUE),
        Found(NoPrice, AtLeastOne(entry.stock), FALSE))

ObiDelivery(entry) ==
    Row(<<"delivery", PickStr(entry.ids, <<"sellerId", "sellerName", "id">>)>>,
        Online, Found(NoPrice, AtLeastOne(entry.stock), FALSE))

ObiAnswer(pickups, deliveries, asked) ==
    [i \in DOMAIN pickups |-> ObiPickup(pickups[i], asked)]
        \o [i \in DOMAIN deliveries |-> ObiDelivery(deliveries[i])]

-----------------------------------------------------------------------------
(* braucheklima.de: stores with the history of one product *)

\* The history is newest first.
BkStock(store) == store.stocks # <<>> /\ store.stocks[1] > 0

\* Online sellers, without a PLZ, have sources of their own.
BkRows(store) ==
    IF store.plz = <<>> \/ ~BkStock(store) THEN <<>>
    ELSE <<Row(<<"article", store.id>>, Branch(store.plz, FALSE),
               Found(IF store.prices = <<>> THEN NoPrice ELSE store.prices[1],
                     store.stocks[1], FALSE))>>

BkAnswer(stores) == FlattenSeq([i \in DOMAIN stores |-> BkRows(stores[i])])

-----------------------------------------------------------------------------
(* Krasser Stoff: the tickets of an event and the resale offers for it *)

ResaleRows(offer) ==
    IF offer.bought THEN <<>>
    ELSE <<Row(<<"resale", offer.id>>, Online, Found(offer.price + offer.fee, 1, FALSE))>>

KrasserAnswer(event) ==
    (IF event.available
     THEN <<Row(<<"event", event.id>>, Online, Found(event.price, 1, FALSE))>>
     ELSE <<>>)
    \o FlattenSeq([i \in DOMAIN event.resale |-> ResaleRows(event.resale[i])])

-----------------------------------------------------------------------------
(* A Shopify collection: the products with a variant that is available *)

\* Mutant: variants that are sold out count as well.
MinAvailablePrice_AnyVariant(variants) ==
    LET read == {ParseAmount(v.price) : v \in variants} \ {NoPrice}
    IN  IF read = {} THEN NoPrice ELSE Min(read)

MinAvailablePrice(variants) ==
    LET read == {ParseAmount(v.price) : v \in {v \in variants : v.available}} \ {NoPrice}
    IN  IF read = {} THEN NoPrice ELSE Min(read)

ProductRows(product) ==
    IF \A v \in product.variants : ~v.available THEN <<>>
    ELSE <<Row(<<"product", product.id>>, Online,
               Found(MinAvailablePrice(product.variants), 1, FALSE))>>

CollectionAnswer(products) ==
    FlattenSeq([i \in DOMAIN products |-> ProductRows(products[i])])

-----------------------------------------------------------------------------
(* bauhaus: the results for one store of the user's choice; no price *)

BauhausRows(store, result) ==
    IF result.kind # "STORE" \/ ~result.purchasable THEN <<>>
    ELSE <<Row(<<"bauhaus-store", store>>, Branch(<<>>, TRUE),
               Found(NoPrice, AtLeastOne(result.amount), FALSE))>>

BauhausAnswer(store, results) ==
    FlattenSeq([i \in DOMAIN results |-> BauhausRows(store, results[i])])
=============================================================================
