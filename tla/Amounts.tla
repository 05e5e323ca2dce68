------------------------------ MODULE Amounts -------------------------------
(***************************************************************************)
(* The prices on a page and what the parsers of internal/source/webcheck.go*)
(* make of them.  A printed amount is the number its digits form and its   *)
(* separators from left to right, each with the count of digits right of   *)
(* it: "2.949,99" has the digits 294999 and the marks "." before five and  *)
(* "," before two of them.  An amount read is in hundred-thousandths of a  *)
(* euro, which is exact for up to five decimals.                           *)
(***************************************************************************)
EXTENDS Filters

Mark == [sep : {".", ","}, right : Nat \ {0}]

Printed == [digits : Nat, marks : Seq(Mark)]

ASSUME PrintedAssumption == None \notin Printed

\* 10^(5 - n)
Scale == [n \in 0..5 |-> CASE n = 0 -> 100000 [] n = 1 -> 10000 [] n = 2 -> 1000
                          [] n = 3 -> 100 [] n = 4 -> 10 [] n = 5 -> 1]

Has(raw, sep) == \E i \in DOMAIN raw.marks : raw.marks[i].sep = sep

\* Mutant: a thousands dot is not dropped.
Decimals_AllMarks(raw) == {raw.marks[i].right : i \in DOMAIN raw.marks}

\* The separators ParseFloat gets to see as decimal points, by the digits right of
\* them: with both kinds the dots are dropped, else every dot or comma is one.
Decimals(raw) ==
    LET both == Has(raw, ".") /\ Has(raw, ",")
    IN  {raw.marks[i].right :
            i \in {i \in DOMAIN raw.marks : both => raw.marks[i].sep = ","}}

\* parseAmount: no price if the amount is zero or has two decimal points.
ParseAmount(raw) ==
    LET scales == IF Decimals(raw) = {} THEN {0} ELSE Decimals(raw)
    IN  IF raw.digits > 0 /\ \E n \in scales : scales = {n}
        THEN raw.digits * Scale[CHOOSE n \in scales : TRUE]
        ELSE NoPrice

\* A price block of a page: the amount in the first microdata tag, the amounts
\* after "price": in JSON in the order of the page, and the amount in the box the
\* shop itself reads (a-offscreen, data-price-gross, class="price").  An amount
\* is there or None.
Prices == [micro : Printed \cup {None}, box : Printed \cup {None},
           json : Seq([amount : Printed, quoted : BOOLEAN])]

ParseOr(raw, other) == IF raw = None THEN other ELSE ParseAmount(raw)

\* parsePrice: microdata before JSON, and no second try if it is no amount.
ParsePrice(prices) ==
    ParseOr(prices.micro,
            IF prices.json = <<>> THEN NoPrice ELSE ParseAmount(prices.json[1].amount))

\* An unquoted integer of three digits or more: Shopify's cents.
IsCents(j) == ~j.quoted /\ j.amount.marks = <<>> /\ j.amount.digits >= 100

\* shopifyPrice: the first price in cents, else the schema.org price.
ShopifyPrice(prices) ==
    LET cents == {i \in DOMAIN prices.json : IsCents(prices.json[i])}
    IN  IF cents = {} THEN ParsePrice(prices) ELSE prices.json[Min(cents)].amount.digits * 1000

\* The parsers the shops configure as priceFn.
PriceFn(fn, prices) ==
    CASE fn = "schema" -> ParsePrice(prices)
      [] fn = "shopify" -> ShopifyPrice(prices)
      [] fn = "box" -> ParseOr(prices.box, NoPrice)

-----------------------------------------------------------------------------
(* How shops print a price of so many cents *)

Whole(cents) == cents % 100 = 0

Notations == {"german", "germanRound", "plain", "schema", "schemaRound", "english"}

ByDot(n) == [sep |-> ".", right |-> n]
ByComma(n) == [sep |-> ",", right |-> n]

\* From a thousand euros on, the German notations have a dot before the last three
\* digits of the euros and the English one a comma; a second one, from a million
\* on, is left out.
Large(cents) == cents \div 100 >= 1000

\* german 2.949,99 and 2.950,00; germanRound 2.949,99 but 2.950; plain 2949,99;
\* schema 2949.99 and 2950.00; schemaRound 2949.99 but 2950; english 2,949.99.
PrintMarks(cents, notation) ==
    LET round == notation \in {"germanRound", "schemaRound"} /\ Whole(cents)
        dotted == notation \in {"german", "germanRound"} /\ Large(cents)
    IN  IF round THEN IF dotted THEN <<ByDot(3)>> ELSE <<>>
        ELSE IF notation = "english" /\ Large(cents) THEN <<ByComma(5), ByDot(2)>>
        ELSE IF notation \in {"schema", "schemaRound", "english"} THEN <<ByDot(2)>>
        ELSE IF dotted THEN <<ByDot(5), ByComma(2)>> ELSE <<ByComma(2)>>

PrintDigits(cents, notation) ==
    IF notation \in {"germanRound", "schemaRound"} /\ Whole(cents)
    THEN cents \div 100 ELSE cents

AsPrinted(cents, notation) ==
    [digits |-> PrintDigits(cents, notation), marks |-> PrintMarks(cents, notation)]

\* A thousands mark that reads as the decimal point: a dot without a comma, or a
\* comma before a dot.
Misleading(cents, notation) ==
    /\ Large(cents)
    /\ notation \in {"germanRound", "english"}
    /\ notation = "germanRound" => Whole(cents)
=============================================================================
