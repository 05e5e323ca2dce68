------------------------------ MODULE Verdicts ------------------------------
(***************************************************************************)
(* What a source makes of one answered product page (internal/source).     *)
(* webCheck looks for texts in the page, shop by shop: they are named here *)
(* by the markers they contain, schema.org markers without their prefix.   *)
(* grz, weinmann and bobselektro read a lead time, an id or a badge.       *)
(*                                                                         *)
(* A page is a record:                                                     *)
(*   token   the product's id on it: "shown", "missing", or "none" when    *)
(*           the URL has no id to look for                                 *)
(*   texts   the texts on it, of the product and of recommended ones       *)
(*   prices  its price block                                               *)
(*   lead    delivery lead time in days, or None                           *)
(*   badges  colours of the delivery badges, from the top                  *)
(*   stocks  ids of the availability blobs, from the top                   *)
(* An offer is what the page says of one item.                             *)
(***************************************************************************)
EXTENDS Amounts

Found(price, stock, preOrder) == [price |-> price, stock |-> stock, preOrder |-> preOrder]

-----------------------------------------------------------------------------
(* The markers of the shops *)

SchemaInStock == {"InStock", "LimitedAvailability"}
SchemaOutOfStock == {"OutOfStock", "SoldOut", "Discontinued"}
SchemaPreOrder == {"PreOrder", "BackOrder"}

\* newSchemaCheck, with no more than a name and a URL: mediamarkt, euronics,
\* globus, bauhaus, hagebau, hornbach, toom, galaxus, evolarshop, prosatech,
\* selfio, klimavertrieb, groupsumi, grsolar, tecedo, klimafy, schwabklima.
SchemaShop == [in |-> SchemaInStock, out |-> SchemaOutOfStock, pre |-> SchemaPreOrder,
               priceFn |-> "schema"]

PreOrderTexts == {"vorbestellung -", "vorbestellung moeglich", "pre-order"}

Tado == [SchemaShop EXCEPT !.pre = @ \cup PreOrderTexts, !.priceFn = "shopify"]
TalentKing == [SchemaShop EXCEPT !.pre = @ \cup PreOrderTexts, !.priceFn = "shopify"]
SolarHandel24 == [SchemaShop EXCEPT !.pre = @ \cup PreOrderTexts, !.priceFn = "shopify"]

Entratek == [SchemaShop EXCEPT !.pre = @ \cup {"im zulauf"}]

Solario24 ==
    [SchemaShop EXCEPT !.pre = @ \cup {"vorbestellung", "aktuell nicht lieferbar"}]

HeizungBilliger == [SchemaShop EXCEPT !.out = @ \cup {"aktuell nicht lieferbar"}]

MediaDeal ==
    [SchemaShop EXCEPT !.in = {"InStock"}, !.pre = {},
                       !.out = @ \cup {"LimitedAvailability", "lieferzeit anfragen"}]

SolarProfi == [SchemaShop EXCEPT !.out = @ \cup {"nicht zur verfuegung"}, !.pre = {}]

Amazon == [in |-> {"add-to-cart-button"}, out |-> {"id=outofstock"}, pre |-> {},
           priceFn |-> "box"]

Bueromarkt == [in |-> {"immediatedelivery", "sofort lieferbar"},
               out |-> {"derzeit nicht verf", "notify-product-"}, pre |-> {},
               priceFn |-> "box"]

WebShops ==
    {"schema", "tado", "talentking", "solarhandel24", "entratek", "solario24",
     "heizungbilliger", "mediadeal", "solarprofi", "amazon", "bueromarkt"}

Shop(name) ==
    CASE name = "schema" -> SchemaShop
      [] name = "tado" -> Tado
      [] name = "talentking" -> TalentKing
      [] name = "solarhandel24" -> SolarHandel24
      [] name = "entratek" -> Entratek
      [] name = "solario24" -> Solario24
      [] name = "heizungbilliger" -> HeizungBilliger
      [] name = "mediadeal" -> MediaDeal
      [] name = "solarprofi" -> SolarProfi
      [] name = "amazon" -> Amazon
      [] name = "bueromarkt" -> Bueromarkt

-----------------------------------------------------------------------------
(* Reading a page; each verdict is a sequence of no offer or one *)

Hits(page, markers) == page.texts \cap markers # {}

\* Mutant: a page without the product's id is read all the same.
WebVerdict_AnyPage(shop, page) ==
    IF Hits(page, shop.out) \/ ~Hits(page, shop.in \cup shop.pre) THEN <<>>
    ELSE <<Found(PriceFn(shop.priceFn, page.prices), 1, Hits(page, shop.pre))>>

\* checkOne: the soft-404 guard, then any out-of-stock marker, then in-stock and
\* pre-order markers.
WebVerdict(shop, page) ==
    IF page.token = "missing" \/ Hits(page, shop.out) \/ ~Hits(page, shop.in \cup shop.pre)
    THEN <<>>
    ELSE <<Found(PriceFn(shop.priceFn, page.prices), 1, Hits(page, shop.pre))>>

GrzInStockMaxDays == 10

GrzSoldOut == {"OutOfStock", "SoldOut", "nicht mehr verf", "ausverkauft"}

\* The schema marker is constant; the lead time tells stock from pre-order.
GrzVerdict(page) ==
    IF page.token = "missing" \/ Hits(page, GrzSoldOut) \/ page.lead = None THEN <<>>
    ELSE <<Found(ParsePrice(page.prices), 1, page.lead > GrzInStockMaxDays)>>

\* Only the first blob is the product's, and only id 1 is stock.
WeinmannVerdict(page) ==
    IF page.token = "missing" \/ page.stocks = <<>> THEN <<>>
    ELSE IF page.stocks[1] # 1 THEN <<>> ELSE <<Found(NoPrice, 1, FALSE)>>

\* Only the first badge is the product's.
BobsVerdict(page) ==
    IF page.badges = <<>> THEN <<>>
    ELSE IF page.badges[1] = "red" THEN <<>>
    ELSE <<Found(PriceFn("box", page.prices), 1, FALSE)>>

PageVerdict(name, page) ==
    CASE name \in WebShops -> WebVerdict(Shop(name), page)
      [] name = "grz" -> GrzVerdict(page)
      [] name = "weinmannschanz" -> WeinmannVerdict(page)
      [] name = "bobselektro" -> BobsVerdict(page)
=============================================================================
