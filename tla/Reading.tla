------------------------------ MODULE Reading -------------------------------
(***************************************************************************)
(* What the monitor says, held against what is really on offer: a product  *)
(* with one source, of any kind, whose shop shows two items.  "main" is    *)
(* the one a page is about; "other" is recommended on that page, or is the *)
(* second entry of a feed.  A tick reads the source's answer, filters it,  *)
(* reconciles the rows and announces, without a fault and in one step:     *)
(* Monitor and Checks take it apart.                                       *)
(*                                                                         *)
(* How a shop shows an item is external; it is taken from the comments and *)
(* tests beside the source that reads it (src/internal/source).  An item   *)
(* is "in" stock, to be had "later", "out" of stock, "removed" (404, or in *)
(* no feed), or its page is "replaced" by one that recommends others.      *)
(***************************************************************************)
EXTENDS Feeds, Pushover

CONSTANTS
    Sources,    \* the kinds of sources in this instance
    Cents,      \* the prices in cents
    Caps,       \* the price caps in hundred-thousandths of a euro, 0 for none
    Settings,   \* the Pushover settings
    MaxMoves    \* bound on changes of what is on offer

\* Shopify's cents have three digits at least (webcheck.go): nothing is sold for
\* less than a euro.  A printed price has one thousands mark at most (Amounts).
ASSUME PricesAssumption ==
    /\ Cents \subseteq {c \in Nat : 100 <= c /\ c < 100000000} /\ Cents # {}
    /\ Caps \subseteq Nat

ASSUME SettingsAssumption == Settings \subseteq [priority : Int, retry : Int, expire : Int]

VARIABLES
    source, layout, cap,    \* what is configured, and how the shop prints it
    truth,      \* each item's state and its price in cents
    was,        \* truth at the last tick
    rows,       \* the store: the price of each tracked key
    alerts,     \* what the last tick announced
    moves

vars == <<source, layout, cap, truth, was, rows, alerts, moves>>

Items == {"main", "other"}

TextPages == WebShops \cup {"grz"}
Pages == TextPages \cup {"weinmannschanz", "bobselektro"}

Kinds == Pages \cup {"expert", "obi", "braucheklima", "krasserstoff", "collection", "bauhaus"}

ASSUME SourcesAssumption == Sources \subseteq Kinds

Area == [main |-> <<3, 6>>, other |-> <<9, 9>>]

\* The store of "main" is in the configured area and that of "other" is not.
ASSUME AreaAssumption ==
    /\ Nearby(Branch(Area["main"], FALSE))
    /\ ~Nearby(Branch(Area["other"], FALSE))

-----------------------------------------------------------------------------
(* What a shop can have, and how it prints it *)

HasLater(s) ==
    s \in {"schema", "tado", "talentking", "solarhandel24", "entratek", "solario24",
           "grz", "weinmannschanz", "bobselektro", "expert"}

OnOffer == {"in", "later"}

Is(state, cents) == [state |-> state, cents |-> cents]

\* Only one price of the item beside the page's own is told apart.
CanBe(s, item) ==
    LET states == IF HasLater(s) THEN OnOffer ELSE {"in"}
        prices == IF s \in Pages /\ item = "other" THEN {Min(Cents)} ELSE Cents
    IN  {Is("removed", 0)}
        \cup (IF s = "expert" /\ item = "other" THEN {}
              ELSE {Is("out", 0)} \cup {Is(state, c) : state \in states, c \in prices})
        \cup (IF s \in Pages /\ item = "main" THEN {Is("replaced", 0)} ELSE {})

Printing(blocks, notations, tokens) ==
    [block : blocks, notation : notations, token : tokens]

\* The price block, its notation, and whether the URL has an id to look for; for
\* obi the block is the field that holds the id of a branch.
Layouts(s) ==
    CASE s = "schema" ->
           Printing({"micro"}, {"schema", "germanRound"}, {"shown", "none"})
             \cup Printing({"json"}, {"german", "plain", "schemaRound", "english"}, {"shown"})
      [] s \in {"tado", "talentking", "solarhandel24"} ->
           Printing({"cents", "micro"}, {"schema"}, {"none"})
      [] s \in {"amazon", "bueromarkt"} -> Printing({"box"}, {"german"}, {"shown"})
      [] s = "bobselektro" -> Printing({"box"}, {"german"}, {"none"})
      [] s = "obi" -> Printing({"id", "filialId", "nameless"}, {"schema"}, {"none"})
      [] OTHER -> Printing({"micro"}, {"schema"}, {"shown"})

\* What shops put beside a schema.org marker to call an item a pre-order.
SchemaTexts(s, state) ==
    CASE state = "out" -> {"OutOfStock"}
      [] state = "in" -> {"InStock"}
      [] OTHER ->
           CASE s = "solario24" -> {"InStock", "vorbestellung", "aktuell nicht lieferbar"}
             [] s = "entratek" -> {"InStock", "im zulauf"}
             [] s = "schema" -> {"PreOrder"}
             [] OTHER -> {"InStock", "vorbestellung -"}

\* The texts an item puts on a page.
Texts(s, state) ==
    CASE s = "amazon" ->
           IF state = "in" THEN {"add-to-cart-button"} ELSE {"id=outofstock"}
      [] s = "bueromarkt" ->
           IF state = "in" THEN {"immediatedelivery", "sofort lieferbar"}
           ELSE {"derzeit nicht verf", "notify-product-"}
      [] s \in {"solarprofi", "grz"} ->
           {"LimitedAvailability"}
             \cup (IF state # "out" THEN {}
                   ELSE IF s = "grz" THEN {"nicht mehr verf"} ELSE {"nicht zur verfuegung"})
      [] s = "mediadeal" ->
           IF state = "in" THEN {"InStock"} ELSE {"LimitedAvailability"}
      [] s = "heizungbilliger" ->
           IF state = "in" THEN {"InStock"} ELSE {"aktuell nicht lieferbar"}
      [] OTHER -> SchemaTexts(s, state)

\* Shopify themes ship the bare label on every page.
Theme(s) == IF s \in {"tado", "talentking", "solarhandel24"} THEN {"vorbestellung"} ELSE {}

Lead(state) == IF state = "in" THEN 5 ELSE 63
Badge(state) == CASE state = "in" -> "green" [] state = "later" -> "yellow" [] OTHER -> "red"
StockId(state) == CASE state = "in" -> 1 [] state = "later" -> 3 [] OTHER -> 7

\* Shopify embeds the product with its price in cents before the JSON-LD.
Json(cents) ==
    LET ld == [amount |-> AsPrinted(cents, layout.notation), quoted |-> TRUE]
    IN  CASE layout.block = "json" -> <<ld>>
          [] layout.block = "cents" ->
               <<[amount |-> [digits |-> cents, marks |-> <<>>], quoted |-> FALSE], ld>>
          [] OTHER -> <<>>

State(item) == truth[item].state

\* The items in these states, from the top of the page or of the feed.
Those(states) ==
    (IF State("main") \in states THEN <<"main">> ELSE <<>>)
        \o (IF State("other") \in states THEN <<"other">> ELSE <<>>)

\* The page of the main item, the items on it from the top.
Page ==
    LET items == Those({"in", "later", "out"})
        timed == Those(OnOffer)
        top(block) == IF layout.block = block /\ items # <<>>
                      THEN AsPrinted(truth[items[1]].cents, layout.notation) ELSE None
    IN  [token |-> IF layout.token = "none" THEN "none"
                   ELSE IF State("main") = "replaced" THEN "missing" ELSE "shown",
         texts |-> Theme(source) \cup UNION {Texts(source, State(i)) : i \in Range(items)},
         lead |-> IF timed = <<>> THEN None ELSE Lead(State(timed[1])),
         badges |-> [i \in DOMAIN items |-> Badge(State(items[i]))],
         stocks |-> [i \in DOMAIN items |-> StockId(State(items[i]))],
         prices |-> [micro |-> top("micro"), box |-> top("box"),
                     json |-> FlattenSeq([i \in DOMAIN items |->
                                             Json(truth[items[i]].cents)])]]

\* The answers of the APIs and feeds.
Euros(item) == truth[item].cents * 1000

Fee == 350000

Entries(in, Entry(_)) ==
    LET items == Those(in)
    IN  [i \in DOMAIN items |-> Entry(items[i])]

ExpertSays ==
    CASE State("main") = "in" ->
           [stock |-> 1, availability |-> "AVAILABLE", action |-> "ORDER", price |-> Euros("main")]
      [] State("main") = "later" ->
           [stock |-> 0, availability |-> "PREORDER", action |-> "ORDER_IN_ADVANCE",
            price |-> Euros("main")]
      [] OTHER -> [stock |-> 0, availability |-> "", action |-> "NONE", price |-> NoPrice]

\* The first branch has no PLZ; the second also delivers.
ObiSays(item) ==
    [ids |-> IF layout.block = "nameless" THEN <<>> ELSE [field \in {layout.block} |-> item],
     plz |-> IF item = "main" THEN <<>> ELSE Area[item], stock |-> 0]

ObiSellers ==
    IF State("other") = "in" THEN <<[ids |-> [sellerName |-> "other"], stock |-> 2]>> ELSE <<>>

\* The second store shows no price; an online seller comes first.
BkSays(item) ==
    [id |-> item, plz |-> Area[item],
     stocks |-> IF State(item) = "in" THEN <<3, 0>> ELSE <<0, 3>>,
     prices |-> IF item = "main" THEN <<Euros(item), 1>> ELSE <<>>]

BkOnline == [id |-> "online", plz |-> <<>>, stocks |-> <<3>>, prices |-> <<1>>]

ResaleSays(item) ==
    [id |-> item, price |-> Euros(item) - Fee, fee |-> Fee, bought |-> State(item) = "out"]

KrasserSays ==
    [id |-> "main", available |-> State("main") = "in",
     price |-> IF State("main") = "in" THEN Euros("main") ELSE NoPrice,
     resale |-> IF State("other") = "removed" THEN <<>> ELSE <<ResaleSays("other")>>]

\* Each product has a cheaper variant that is sold out.
ProductSays(item) ==
    [id |-> item,
     variants |-> {[available |-> State(item) = "in", price |-> AsPrinted(truth[item].cents, "schema")],
                   [available |-> FALSE, price |-> AsPrinted(100, "schema")]}]

BauhausSays(item) ==
    <<[kind |-> "ONLINE", purchasable |-> TRUE, amount |-> 5]>>
    \o IF State(item) = "removed" THEN <<>>
       ELSE <<[kind |-> "STORE", purchasable |-> State(item) = "in", amount |-> 0]>>

Answer ==
    CASE source \in Pages ->
           IF State("main") = "removed" THEN <<>> ELSE PageAnswer(source, "main", Page)
      [] source = "expert" -> ExpertAnswer("main", ExpertSays)
      [] source = "obi" -> ObiAnswer(Entries({"in"}, ObiSays), ObiSellers, Area["main"])
      [] source = "braucheklima" ->
           BkAnswer(<<BkOnline>> \o Entries({"in", "out"}, BkSays))
      [] source = "krasserstoff" -> KrasserAnswer(KrasserSays)
      [] source = "collection" -> CollectionAnswer(Entries({"in", "out"}, ProductSays))
      [] source = "bauhaus" ->
           BauhausAnswer("main", BauhausSays("main")) \o BauhausAnswer("other", BauhausSays("other"))

-----------------------------------------------------------------------------
(* The monitor *)

Init ==
    /\ source \in Sources
    /\ layout \in Layouts(source)
    /\ cap \in Caps
    /\ truth \in [Items -> UNION {CanBe(source, i) : i \in Items}]
    /\ \A i \in Items : truth[i] \in CanBe(source, i)
    /\ was = [i \in Items |-> Is("removed", 0)]
    /\ rows = <<>>
    /\ alerts = <<>>
    /\ moves = 0

\* One offer of the tick: announced if it is new or cheaper, and its price kept.
Handle(done, a) ==
    LET new == a.key \notin DOMAIN done.rows
        drop == ~new /\ IsDrop(a.price, done.rows[a.key])
    IN  [rows |-> [k \in DOMAIN done.rows \cup {a.key} |->
                      IF k = a.key THEN a.price ELSE done.rows[k]],
         alerts |-> IF new \/ drop THEN Append(done.alerts, a) ELSE done.alerts]

\* The offers that pass the filters, in turn.
Handled(answer, kept, tracked) ==
    LET done[i \in 0..Len(answer)] ==
            IF i = 0 THEN [rows |-> tracked, alerts |-> <<>>]
            ELSE IF i \in kept THEN Handle(done[i - 1], answer[i]) ELSE done[i - 1]
    IN  done[Len(answer)]

Tick ==
    LET kept == {i \in DOMAIN Answer : WithinBudget(cap, Answer[i].price)
                                         /\ Nearby(Answer[i].place)}
        seen == {Answer[i].key : i \in kept}
        done == Handled(Answer, kept, Restrict(rows, seen \cap DOMAIN rows))
    IN  /\ rows' = done.rows
        /\ alerts' = done.alerts
        /\ was' = truth
        /\ UNCHANGED <<source, layout, cap, truth, moves>>

\* One item changes.
WorldMoves ==
    /\ moves < MaxMoves /\ moves' = moves + 1
    /\ \E i \in Items : \E now \in CanBe(source, i) :
          /\ now # truth[i]
          /\ truth' = [truth EXCEPT ![i] = now]
    /\ alerts' = <<>>
    /\ UNCHANGED <<source, layout, cap, was, rows>>

Next == Tick \/ WorldMoves

Spec == Init /\ [][Next]_vars

-----------------------------------------------------------------------------
(* Properties *)

ReadingTypeOK ==
    /\ source \in Sources /\ layout \in Layouts(source) /\ cap \in Caps
    /\ \A i \in Items : truth[i] \in CanBe(source, i)
    /\ Range(rows) \subseteq Nat \cup {NoPrice}
    /\ \A a \in Range(alerts) :
          a.price \in Nat \cup {NoPrice} /\ a.stock \in Nat \ {0} /\ a.preOrder \in BOOLEAN

\* The keys an item is sold under.
KeysOf(item) ==
    CASE source \in Pages -> IF item = "main" THEN {<<"page", "main">>} ELSE {}
      [] source = "expert" -> IF item = "main" THEN {<<"expert", "main">>} ELSE {}
      [] source = "obi" ->
           {<<"pickup", IF layout.block = "nameless" THEN "" ELSE item>>}
             \cup (IF item = "other" THEN {<<"delivery", "other">>} ELSE {})
      [] source = "braucheklima" -> {<<"article", item>>}
      [] source = "krasserstoff" -> {<<IF item = "main" THEN "event" ELSE "resale", item>>}
      [] source = "collection" -> {<<"product", item>>}
      [] source = "bauhaus" -> {<<"bauhaus-store", item>>}

\* A far store of the feed is out of the configured area; the id of obi's and
\* bauhaus' branches was asked for.
Wanted(item) == ~(source = "braucheklima" /\ item = "other")

\* Some shops have no price, or none for one of the items.
Priced(item) ==
    /\ source \notin {"weinmannschanz", "obi", "bauhaus"}
    /\ ~(source = "braucheklima" /\ item = "other")

\* A price of so many cents that the page prints in a way read as another.
AmbiguousAt(cents) ==
    source \in Pages /\ layout.block # "cents" /\ Misleading(cents, layout.notation)

Ambiguous(item) == AmbiguousAt(truth[item].cents)

\* A page that no longer shows the product and has no id to tell it by.
Unguarded == State("main") = "replaced" /\ layout.token = "none"

InBudget(item) == ~Priced(item) \/ cap = 0 \/ Euros(item) <= cap

\* No false alert: what is announced can be ordered at that moment, is within the
\* area and, unless its price is ambiguous in print (Ambiguous), within the cap,
\* and is called a pre-order only if it or another item of the page is one; pages
\* that recommend other items in stock, theme labels and shops with constant
\* markers do not fool it (webcheck.go:14-15, 165-172, tado.go:5-8, grz.go:18-20).
\* Where a page has dropped the item and there is no id to tell by (Unguarded), all
\* this is true of the item it recommends.  bobselektro does not tell a pre-order.
NoFalseAlert ==
    [][Tick =>
          \A a \in Range(alerts') : \E i \in Items :
              /\ a.key \in KeysOf(i) \/ Unguarded
              /\ State(i) \in OnOffer /\ Wanted(i)
              /\ Ambiguous(i) \/ InBudget(i)
              /\ a.preOrder => \E j \in Items : State(j) = "later"
              /\ State(i) = "later" => a.preOrder \/ source = "bobselektro"
      ]_vars

\* What a page hides: an out-of-stock text of any item on it.
Hidden(item) ==
    \/ source \in TextPages /\ State("other") = "out"
    \/ source = "weinmannschanz" /\ State(item) = "later"

\* No offer is missed: after a tick everything that can be ordered within cap and
\* area has its row, at the real price unless it is ambiguous in print or shown
\* by another row of that key (webcheck.go:63-65, 78-79).  A text page that also
\* shows an item out of stock counts as out of stock itself.
OffersAreFound ==
    [][Tick =>
          \A i \in Items : \A k \in KeysOf(i) :
              State(i) \in OnOffer /\ Wanted(i) /\ InBudget(i) /\ ~Hidden(i) =>
                  /\ k \in DOMAIN rows'
                  /\ Priced(i) /\ ~Ambiguous(i) => rows'[k] = Euros(i)]_vars

\* An item that was tracked and can still be ordered is announced again exactly if
\* its real price fell since the last tick, however the page prints the two prices,
\* unless one of them is ambiguous and the other is not: "1.849" after "1.849,50"
\* (monitor.go:143-144).
DropsAreReal ==
    [][Tick =>
          \A i \in Items : \A k \in KeysOf(i) \cap DOMAIN rows :
              /\ State(i) \in OnOffer /\ was[i].state \in OnOffer
              /\ Priced(i) /\ k \in DOMAIN rows'
              /\ Ambiguous(i) <=> AmbiguousAt(was[i].cents)
              => ((\E a \in Range(alerts') : a.key = k)
                     <=> truth[i].cents < was[i].cents)]_vars

\* Whatever the configured repeats are, the form of an alert is one Pushover takes
\* (notify.go:57-72).
FormsAreLegal ==
    \A a \in Range(alerts), s \in Settings : FormIsLegal(s, Form(s, TitleMax, a))
=============================================================================
