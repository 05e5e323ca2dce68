--------------------------- MODULE ReadingProofs ----------------------------
(***************************************************************************)
(* What the monitor says is true of what is on offer, for every kind of    *)
(* source, price, layout and budget.  From the bottom up: what the price   *)
(* parsers read, the rows a tick leaves behind, what a shop puts on its    *)
(* page, what a source makes of a page or of a feed, that every answer is  *)
(* right (AnswerHolds), and the three properties of a tick.  Then the form *)
(* of a message, which is within Pushover's limits for every setting.      *)
(***************************************************************************)
EXTENDS Reading, SequenceTheorems, WellFoundedInduction, TLAPS

-----------------------------------------------------------------------------
(* Prices *)

LEMMA ScaleValues ==
    /\ Scale[0] = 100000 /\ Scale[1] = 10000 /\ Scale[2] = 1000
    /\ Scale[3] = 100 /\ Scale[4] = 10 /\ Scale[5] = 1
BY DEF Scale

LEMMA OneScale ==
    ASSUME NEW raw, NEW n \in 0..5, raw.digits \in Nat \ {0},
           Decimals(raw) = {n} \/ (Decimals(raw) = {} /\ n = 0)
    PROVE  ParseAmount(raw) = raw.digits * Scale[n]
BY DEF ParseAmount

\* What Decimals makes of no mark, of one, and of a dot and a comma.
LEMMA NoMark ==
    ASSUME NEW raw, raw.marks = <<>>
    PROVE  Decimals(raw) = {}
BY DEF Decimals, Has

LEMMA OneMark ==
    ASSUME NEW raw, NEW mark, raw.marks = <<mark>>
    PROVE  Decimals(raw) = {mark.right}
<1>1. <<mark>> \in Seq({mark}) /\ Len(<<mark>>) = 1
  OBVIOUS
<1>2. DOMAIN raw.marks = {1} /\ raw.marks[1] = mark
  BY <1>1
<1>3. ~(Has(raw, ".") /\ Has(raw, ","))
  BY <1>2 DEF Has
<1> QED  BY <1>2, <1>3 DEF Decimals

LEMMA TwoMarks ==
    ASSUME NEW raw, NEW m, NEW n, raw.marks = <<ByDot(m), ByComma(n)>>
    PROVE  Decimals(raw) = {n}
<1>1. ByDot(m).sep = "." /\ ByComma(n).sep = "," /\ ByComma(n).right = n
  BY DEF ByDot, ByComma
<1>2. DOMAIN raw.marks = {1, 2} /\ raw.marks[1] = ByDot(m) /\ raw.marks[2] = ByComma(n)
  OBVIOUS
<1>3. Has(raw, ".") /\ Has(raw, ",")
  BY <1>1, <1>2 DEF Has
<1>4. Decimals(raw) = {raw.marks[i].right : i \in {i \in {1, 2} : raw.marks[i].sep = ","}}
  BY <1>2, <1>3 DEF Decimals
<1>5. {i \in {1, 2} : raw.marks[i].sep = ","} = {2}
  BY <1>1, <1>2
<1> QED  BY <1>1, <1>2, <1>4, <1>5

LEMMA CommaFirst ==
    ASSUME NEW raw, NEW m, NEW n, raw.marks = <<ByComma(m), ByDot(n)>>
    PROVE  Decimals(raw) = {m}
<1>1. ByDot(n).sep = "." /\ ByComma(m).sep = "," /\ ByComma(m).right = m
  BY DEF ByDot, ByComma
<1>2. DOMAIN raw.marks = {1, 2} /\ raw.marks[1] = ByComma(m) /\ raw.marks[2] = ByDot(n)
  OBVIOUS
<1>3. Has(raw, ".") /\ Has(raw, ",")
  BY <1>1, <1>2 DEF Has
<1>4. Decimals(raw) = {raw.marks[i].right : i \in {i \in {1, 2} : raw.marks[i].sep = ","}}
  BY <1>2, <1>3 DEF Decimals
<1>5. {i \in {1, 2} : raw.marks[i].sep = ","} = {1}
  BY <1>1, <1>2
<1> QED  BY <1>1, <1>2, <1>4, <1>5

LEMMA PrintFields ==
    ASSUME NEW cents, NEW notation
    PROVE  /\ AsPrinted(cents, notation).digits = PrintDigits(cents, notation)
           /\ AsPrinted(cents, notation).marks = PrintMarks(cents, notation)
BY DEF AsPrinted

LEMMA WholeEuros ==
    ASSUME NEW cents \in Nat \ {0}
    PROVE  /\ cents \div 100 \in Nat /\ (cents \div 100) * 100 <= cents
           /\ Whole(cents) => cents = (cents \div 100) * 100 /\ cents \div 100 > 0
BY DEF Whole

LEMMA MarkFields ==
    ASSUME NEW n
    PROVE  ByDot(n).right = n /\ ByComma(n).right = n
BY DEF ByDot, ByComma

\* A price printed in any notation is read exactly, unless its thousands mark reads
\* as the decimal point (webcheck.go:79 "normalising German formats").
THEOREM ReadExactly ==
    ASSUME NEW cents \in Nat \ {0}, NEW notation \in Notations,
           ~Misleading(cents, notation)
    PROVE  ParseAmount(AsPrinted(cents, notation)) = cents * 1000
<1> DEFINE raw == AsPrinted(cents, notation)
<1>1. raw.digits = PrintDigits(cents, notation) /\ raw.marks = PrintMarks(cents, notation)
  BY PrintFields
<1> HIDE DEF raw
<1>2. CASE ~(notation \in {"germanRound", "schemaRound"} /\ Whole(cents))
  <2>1. raw.digits = cents
    BY <1>1, <1>2 DEF PrintDigits
  <2>2. \/ raw.marks = <<ByDot(2)>> \/ raw.marks = <<ByComma(2)>>
        \/ raw.marks = <<ByDot(5), ByComma(2)>>
    BY <1>1, <1>2 DEF PrintMarks, Misleading
  <2>3. Decimals(raw) = {2}
    BY <2>2, OneMark, TwoMarks, MarkFields
  <2>4. ParseAmount(raw) = raw.digits * Scale[2]
    BY <2>1, <2>3, OneScale
  <2> QED  BY <2>1, <2>4, ScaleValues DEF raw
<1>3. CASE notation \in {"germanRound", "schemaRound"} /\ Whole(cents)
  <2>1. raw.digits = cents \div 100
    BY <1>1, <1>3 DEF PrintDigits
  <2>2. raw.marks = <<>>
    BY <1>1, <1>3 DEF PrintMarks, Misleading
  <2>3. Decimals(raw) = {}
    BY <2>2, NoMark
  <2>4. cents \div 100 \in Nat \ {0} /\ cents = (cents \div 100) * 100
    BY <1>3, WholeEuros
  <2>5. ParseAmount(raw) = raw.digits * Scale[0]
    BY <2>1, <2>3, <2>4, OneScale
  <2> QED  BY <2>1, <2>4, <2>5, ScaleValues DEF raw
<1> QED  BY <1>2, <1>3

\* Otherwise it is read as a thousandth of what it is.
THEOREM ReadAThousandth ==
    ASSUME NEW cents \in Nat \ {0}, NEW notation \in Notations,
           Misleading(cents, notation)
    PROVE  ParseAmount(AsPrinted(cents, notation)) = cents
<1> DEFINE raw == AsPrinted(cents, notation)
<1>1. raw.digits = PrintDigits(cents, notation) /\ raw.marks = PrintMarks(cents, notation)
  BY PrintFields
<1> HIDE DEF raw
<1>2. CASE notation = "germanRound"
  <2>1. raw.digits = cents \div 100 /\ raw.marks = <<ByDot(3)>>
    BY <1>1, <1>2 DEF Misleading, PrintDigits, PrintMarks
  <2>2. Decimals(raw) = {3}
    BY <2>1, OneMark, MarkFields
  <2>3. cents \div 100 \in Nat \ {0} /\ cents = (cents \div 100) * 100
    BY <1>2, WholeEuros DEF Misleading
  <2>4. ParseAmount(raw) = raw.digits * Scale[3]
    BY <2>1, <2>2, <2>3, OneScale
  <2> QED  BY <2>1, <2>3, <2>4, ScaleValues DEF raw
<1>3. CASE notation = "english"
  <2>1. raw.digits = cents /\ raw.marks = <<ByComma(5), ByDot(2)>>
    BY <1>1, <1>3 DEF Misleading, PrintDigits, PrintMarks
  <2>2. Decimals(raw) = {5}
    BY <2>1, CommaFirst
  <2>3. ParseAmount(raw) = raw.digits * Scale[5]
    BY <2>1, <2>2, OneScale
  <2> QED  BY <2>1, <2>3, ScaleValues DEF raw
<1> QED  BY <1>2, <1>3 DEF Misleading

\* However it is printed, a price is read, and never too high: a cap on the price
\* hides no offer that is within it (monitor.go:187-198).
THEOREM NeverTooHigh ==
    ASSUME NEW cents \in Nat \ {0}, NEW notation \in Notations
    PROVE  /\ ParseAmount(AsPrinted(cents, notation)) \in Nat
           /\ ParseAmount(AsPrinted(cents, notation)) <= cents * 1000
BY ReadExactly, ReadAThousandth

-----------------------------------------------------------------------------
(* Sequences *)
\* Induction over data is done by the least counterexample.
LEMMA LeastNat ==
    ASSUME NEW S \in SUBSET Nat, S # {}
    PROVE  \E n \in S : \A m \in S : n <= m
<1>1. \E n \in S : \A m \in S : <<m, n>> \notin OpToRel(<, Nat)
  BY NatLessThanWellFounded, WFMin
<1>2. \A m, n \in S : <<m, n>> \notin OpToRel(<, Nat) => n <= m
  BY DEF OpToRel
<1> QED  BY <1>1, <1>2

\* The recursion of FlattenSeq has a solution.
LEMMA FlattenUnfolds ==
    ASSUME NEW T, NEW n \in Nat \ {0}, NEW parts \in Seq(Seq(T)), Len(parts) = n
    PROVE  \E f : /\ f = [i \in 1..n |-> IF i = 1 THEN parts[i] ELSE f[i - 1] \o parts[i]]
                  /\ FlattenSeq(parts) = f[n]
<1> DEFINE Flat(f, m) == f = [i \in 1..m |-> IF i = 1 THEN parts[i] ELSE f[i - 1] \o parts[i]]
           Short == {m \in 1..n : ~\E f : Flat(f, m)}
<1>0. n \in 1..n
  OBVIOUS
<1>1. \E f : Flat(f, n)
  <2> HIDE DEF Flat
  <2> SUFFICES ASSUME Short # {}  PROVE FALSE
    BY <1>0
  <2>1. PICK m \in Short : \A k \in Short : m <= k
    <3>1. Short \in SUBSET Nat
      OBVIOUS
    <3> HIDE DEF Short
    <3> QED  BY <3>1, LeastNat
  <2>2. m # 1
    <3>1. Flat([i \in 1..1 |-> parts[i]], 1)
      BY DEF Flat
    <3> QED  BY <2>1, <3>1
  <2>3. m \in Nat /\ m <= n /\ m - 1 \in 1..n /\ m - 1 < m
    BY <2>1, <2>2
  <2>4. m - 1 \notin Short
    <3> HIDE DEF Short
    <3> QED  BY <2>1, <2>3
  <2>5. PICK f : Flat(f, m - 1)
    BY <2>3, <2>4
  <2>6. Flat([i \in 1..m |-> IF i = m THEN f[m - 1] \o parts[m] ELSE f[i]], m)
    <3> DEFINE g == [i \in 1..m |-> IF i = m THEN f[m - 1] \o parts[m] ELSE f[i]]
    <3>1. m \in Nat /\ 1 <= m /\ m # 1 /\ m - 1 # m /\ m - 1 \in 1..m
      BY <2>1, <2>2, <2>3
    <3>2. g[m] = g[m - 1] \o parts[m]
      BY <3>1
    <3>3. ASSUME NEW i \in 1..m, i # m, i # 1
          PROVE  g[i] = g[i - 1] \o parts[i]
      <4>1. i \in 1..(m - 1) /\ i - 1 \in 1..m /\ i - 1 # m
        BY <3>1, <3>3
      <4>2. f[i] = f[i - 1] \o parts[i]
        BY <2>5, <3>3, <4>1 DEF Flat
      <4> QED  BY <3>3, <4>1, <4>2
    <3>4. 1 \in 1..m /\ g[1] = parts[1]
      <4>1. 1 \in 1..(m - 1)
        BY <3>1
      <4> QED  BY <2>5, <3>1, <4>1 DEF Flat
    <3>5. \A i \in 1..m : g[i] = IF i = 1 THEN parts[i] ELSE g[i - 1] \o parts[i]
      <4> HIDE DEF g
      <4> QED  BY <3>1, <3>2, <3>3, <3>4
    <3>6. g = [i \in 1..m |-> g[i]]
      OBVIOUS
    <3> HIDE DEF g
    <3>7. Flat(g, m)
      BY <3>5, <3>6 DEF Flat
    <3> QED  BY <3>7 DEF g
  <2> QED  BY <2>1, <2>6
<1> DEFINE g == CHOOSE f : Flat(f, n)
<1>2. Flat(g, n)
  BY <1>1
<1>3. FlattenSeq(parts) = g[n]
  BY DEF FlattenSeq
<1> QED  BY <1>2, <1>3

\* A sequence is a prefix of its concatenations.
Starts(p, s) == \A i \in DOMAIN p : i \in DOMAIN s /\ s[i] = p[i]

LEMMA ConcatStarts ==
    ASSUME NEW T, NEW s \in Seq(T), NEW t \in Seq(T)
    PROVE  Starts(s, s \o t)
<1>1. Len(s) \in Nat /\ Len(t) \in Nat /\ DOMAIN s = 1..Len(s) /\ s \o t \in Seq(T)
  BY LenProperties, ConcatProperties
<1>2. DOMAIN (s \o t) = 1..Len(s) + Len(t)
  BY <1>1, LenProperties, ConcatProperties
<1>3. \A i \in 1..Len(s) : i \in 1..Len(s) + Len(t) /\ i <= Len(s)
  BY <1>1
<1>4. \A i \in 1..Len(s) : (s \o t)[i] = s[i]
  BY <1>3, ConcatProperties
<1> QED  BY <1>1, <1>2, <1>3, <1>4 DEF Starts

\* The elements of the parts in one sequence, which starts with the first part.
LEMMA Flattened ==
    ASSUME NEW T, NEW parts \in Seq(Seq(T))
    PROVE  /\ FlattenSeq(parts) \in Seq(T)
           /\ Range(FlattenSeq(parts)) = UNION {Range(parts[i]) : i \in DOMAIN parts}
           /\ parts # <<>> => Starts(parts[1], FlattenSeq(parts))
<1> DEFINE n == Len(parts)
<1>0. n \in Nat /\ DOMAIN parts = 1..n /\ \A i \in 1..n : parts[i] \in Seq(T)
  BY LenProperties, ElementOfSeq
<1> HIDE DEF n
<1>1. CASE n = 0
  <2>1. parts = <<>> /\ DOMAIN parts = {}
    BY <1>0, <1>1 DEF n
  <2>2. FlattenSeq(parts) = <<>>
    BY <1>1, <2>1 DEF FlattenSeq, n
  <2>3. <<>> \in Seq(T) /\ Range(<<>>) = {}
    BY DEF Range
  <2>4. UNION {Range(parts[i]) : i \in DOMAIN parts} = {}
    BY <2>1
  <2> QED  BY <2>1, <2>2, <2>3, <2>4
<1>2. CASE n # 0
  <2>1. PICK f : /\ f = [i \in 1..n |-> IF i = 1 THEN parts[i] ELSE f[i - 1] \o parts[i]]
                 /\ FlattenSeq(parts) = f[n]
    BY <1>0, <1>2, FlattenUnfolds DEF n
  <2> DEFINE Good(m) == /\ f[m] \in Seq(T)
                        /\ Range(f[m]) = UNION {Range(parts[i]) : i \in 1..m}
                        /\ Starts(parts[1], f[m])
             Bad == {m \in 1..n : ~Good(m)}
  <2> HIDE DEF Good
  <2>2. Bad = {}
    <3> SUFFICES ASSUME Bad # {}  PROVE FALSE
      OBVIOUS
    <3>1. PICK m \in Bad : \A k \in Bad : m <= k
      <4>1. Bad \in SUBSET Nat
        BY <1>0
      <4> HIDE DEF Bad
      <4> QED  BY <4>1, LeastNat
    <3>2. m \in Nat /\ 1 <= m /\ m <= n /\ m \in 1..n /\ ~Good(m)
      BY <1>0, <3>1
    <3> HIDE DEF Bad
    <3>3. CASE m = 1
      <4>1. f[1] = parts[1] /\ parts[1] \in Seq(T)
        BY <1>0, <2>1, <3>2, <3>3
      <4>2. Good(1)
        BY <4>1, LenProperties DEF Good, Starts
      <4> QED  BY <3>2, <3>3, <4>2
    <3>4. CASE m # 1
      <4>1. m - 1 \in 1..n /\ m - 1 < m /\ m - 1 \in Nat
        BY <1>0, <3>2, <3>4
      <4>2. Good(m - 1)
        <5>1. m - 1 \notin Bad
          BY <3>1, <3>2, <4>1
        <5> QED  BY <4>1, <5>1 DEF Bad
      <4>3. f[m] = f[m - 1] \o parts[m] /\ parts[m] \in Seq(T) /\ parts[1] \in Seq(T)
        <5>1. 1 \in 1..n
          BY <1>0, <1>2
        <5>2. f[m] = f[m - 1] \o parts[m]
          BY <2>1, <3>2, <3>4
        <5> QED  BY <1>0, <3>2, <5>1, <5>2
      <4>4. f[m] \in Seq(T) /\ f[m - 1] \in Seq(T)
        BY <4>2, <4>3, ConcatProperties DEF Good
      <4>5. Range(f[m]) = Range(f[m - 1]) \cup Range(parts[m])
        <5>1. f[m - 1] \in Seq(T) /\ parts[m] \in Seq(T)
          BY <4>3, <4>4
        <5> QED  BY <4>3, <5>1, RangeConcatenation
      <4>6. 1..m = 1..(m - 1) \cup {m}
        BY <3>2
      <4>7. Starts(f[m - 1], f[m])
        <5>1. f[m - 1] \in Seq(T) /\ parts[m] \in Seq(T)
          BY <4>3, <4>4
        <5> QED  BY <4>3, <5>1, ConcatStarts
      <4>9. Starts(parts[1], f[m])
        BY <4>2, <4>7 DEF Good, Starts
      <4>10. Range(f[m]) = UNION {Range(parts[i]) : i \in 1..m}
        <5>1. Range(f[m - 1]) = UNION {Range(parts[i]) : i \in 1..(m - 1)}
          BY <4>2 DEF Good
        <5> QED  BY <4>5, <4>6, <5>1
      <4>11. Good(m)
        BY <4>4, <4>9, <4>10 DEF Good
      <4> QED  BY <3>2, <4>11
    <3> QED  BY <3>3, <3>4
  <2>3. Good(n)
    <3>1. n \in 1..n /\ n \notin Bad
      BY <1>0, <1>2, <2>2
    <3> QED  BY <3>1
  <2>6. f[n] \in Seq(T) /\ Range(f[n]) = UNION {Range(parts[i]) : i \in DOMAIN parts}
    BY <1>0, <2>3 DEF Good
  <2> QED  BY <2>1, <2>3, <2>6 DEF Good
<1> QED  BY <1>1, <1>2

-----------------------------------------------------------------------------
(* The rows a tick leaves behind *)

\* An offer is announced if it is new or cheaper.
Told(done, a) ==
    {b \in {a} : b.key \notin DOMAIN done.rows \/ IsDrop(b.price, done.rows[b.key])}

\* One offer of a tick leaves its price in the row of its key and no other row.
LEMMA HandleDoes ==
    ASSUME NEW X, NEW done, done.alerts \in Seq(X), NEW a \in X
    PROVE  /\ DOMAIN Handle(done, a).rows = DOMAIN done.rows \cup {a.key}
           /\ Handle(done, a).rows[a.key] = a.price
           /\ \A k \in DOMAIN done.rows \ {a.key} : Handle(done, a).rows[k] = done.rows[k]
           /\ Handle(done, a).alerts \in Seq(X)
           /\ Range(Handle(done, a).alerts) = Range(done.alerts) \cup Told(done, a)
<1> DEFINE told == a.key \notin DOMAIN done.rows \/ IsDrop(a.price, done.rows[a.key])
           next == Handle(done, a)
<1>1. next.rows = [k \in DOMAIN done.rows \cup {a.key} |->
                      IF k = a.key THEN a.price ELSE done.rows[k]]
  BY DEF Handle
<1>2. next.alerts = IF told THEN Append(done.alerts, a) ELSE done.alerts
  <2>1. (a.key \notin DOMAIN done.rows
           \/ (~(a.key \notin DOMAIN done.rows) /\ IsDrop(a.price, done.rows[a.key])))
         <=> told
    OBVIOUS
  <2> QED  BY <2>1, Zenon DEF Handle
<1> HIDE DEF told, next
<1>3. /\ next.alerts \in Seq(X)
      /\ IF told THEN Range(next.alerts) = Range(done.alerts) \cup {a}
         ELSE Range(next.alerts) = Range(done.alerts)
  <2>1. CASE told
    <3>1. Len(done.alerts) \in Nat /\ DOMAIN done.alerts = 1..Len(done.alerts)
          /\ next.alerts = Append(done.alerts, a)
      BY <1>2, <2>1, LenProperties
    <3>2. next.alerts \in Seq(X) /\ Len(next.alerts) = Len(done.alerts) + 1
          /\ next.alerts[Len(done.alerts) + 1] = a
          /\ \A i \in 1..Len(done.alerts) : next.alerts[i] = done.alerts[i]
      BY <3>1, AppendProperties
    <3>3. DOMAIN next.alerts = DOMAIN done.alerts \cup {Len(done.alerts) + 1}
      BY <3>1, <3>2, LenProperties
    <3> QED  BY <2>1, <3>1, <3>2, <3>3 DEF Range
  <2>2. CASE ~told
    BY <1>2, <2>2
  <2> QED  BY <2>1, <2>2
<1>4. Told(done, a) = IF told THEN {a} ELSE {}
  BY DEF told, Told
<1>5. Range(next.alerts) = Range(done.alerts) \cup Told(done, a)
  BY <1>3, <1>4
<1> QED  BY <1>1, <1>3, <1>5 DEF next

\* The recursion of Handled has a solution.
LEMMA HandledUnfolds ==
    ASSUME NEW T, NEW answer \in Seq(T), NEW kept, NEW tracked
    PROVE  \E f : /\ f[0] = [rows |-> tracked, alerts |-> <<>>]
                  /\ \A i \in 1..Len(answer) :
                         f[i] = IF i \in kept THEN Handle(f[i - 1], answer[i]) ELSE f[i - 1]
                  /\ Handled(answer, kept, tracked) = f[Len(answer)]
<1> DEFINE n == Len(answer)
           Value(f, i) == IF i = 0 THEN [rows |-> tracked, alerts |-> <<>>]
                          ELSE IF i \in kept THEN Handle(f[i - 1], answer[i]) ELSE f[i - 1]
           Loop(f, m) == f = [i \in 0..m |-> Value(f, i)]
           Short == {m \in 0..n : ~\E f : Loop(f, m)}
<1>0. n \in Nat /\ n \in 0..n
  BY LenProperties
<1>1. \E f : Loop(f, n)
  <2> HIDE DEF Loop, n
  <2> SUFFICES ASSUME Short # {}  PROVE FALSE
    BY <1>0
  <2>1. PICK m \in Short : \A k \in Short : m <= k
    <3>1. Short \in SUBSET Nat
      BY <1>0
    <3> HIDE DEF Short
    <3> QED  BY <3>1, LeastNat
  <2>2. m # 0
    <3>1. Loop([i \in 0..0 |-> [rows |-> tracked, alerts |-> <<>>]], 0)
      BY DEF Loop
    <3> QED  BY <2>1, <3>1
  <2>3. m \in Nat /\ m <= n /\ m - 1 \in 0..n /\ m - 1 < m
    BY <1>0, <2>1, <2>2
  <2>4. m - 1 \notin Short
    <3> HIDE DEF Short
    <3> QED  BY <2>1, <2>3
  <2>5. PICK f : Loop(f, m - 1)
    BY <2>3, <2>4
  <2> DEFINE g == [i \in 0..m |-> IF i = m THEN Value(f, m) ELSE f[i]]
  <2>6. \A i \in 0..m : g[i] = Value(g, i)
    <3>1. m \in 0..m /\ m - 1 \in 0..m /\ m - 1 # m /\ \A i \in 0..m : i # m => i \in 0..(m - 1)
      BY <2>2, <2>3
    <3>2. \A i \in 0..m : i # 0 => i - 1 \in 0..m /\ i - 1 # m
      BY <2>3
    <3>3. \A i \in 0..m : i # 0 => g[i - 1] = f[i - 1]
      BY <3>2
    <3>4. \A i \in 0..m : Value(g, i) = Value(f, i)
      <4> HIDE DEF g
      <4> QED  BY <3>3
    <3>5. \A i \in 0..(m - 1) : f[i] = Value(f, i)
      BY <2>5 DEF Loop
    <3>6. \A i \in 0..m : g[i] = IF i = m THEN Value(f, m) ELSE f[i]
      OBVIOUS
    <3> HIDE DEF g, Value
    <3> QED  BY <3>1, <3>4, <3>5, <3>6
  <2>7. Loop(g, m)
    <3>1. g = [i \in 0..m |-> g[i]]
      OBVIOUS
    <3> HIDE DEF g, Value
    <3> QED  BY <2>6, <3>1 DEF Loop
  <2> QED  BY <2>1, <2>7
<1> DEFINE f == CHOOSE f : Loop(f, n)
<1>2. Loop(f, n)
  <2> HIDE DEF Loop, n
  <2> QED  BY <1>1
<1>3. Handled(answer, kept, tracked) = f[n]
  BY DEF Handled
<1> HIDE DEF f
<1>4. \A i \in 0..n : f[i] = Value(f, i)
  BY <1>2
<1>5. \A i \in 1..n : i \in 0..n /\ i # 0
  BY <1>0
<1> QED  BY <1>0, <1>3, <1>4, <1>5

\* What a tick makes of the offers that pass: only they are announced, their keys
\* are tracked, each at the price of one of its offers.
Settled(answer, kept, tracked, done) ==
    /\ Range(done.alerts) \subseteq {answer[i] : i \in kept}
    /\ DOMAIN done.rows = DOMAIN tracked \cup {answer[i].key : i \in kept}
    /\ \A i \in kept : \E j \in kept :
          answer[j].key = answer[i].key /\ done.rows[answer[i].key] = answer[j].price

LEMMA Reconciled ==
    ASSUME NEW T, NEW answer \in Seq(T), NEW kept \in SUBSET DOMAIN answer, NEW tracked
    PROVE  Settled(answer, kept, tracked, Handled(answer, kept, tracked))
<1> DEFINE X == {answer[i] : i \in kept}
           n == Len(answer)
           upto(m) == {i \in kept : i <= m}
<1>0. n \in Nat /\ DOMAIN answer = 1..n
  BY LenProperties
<1> HIDE DEF n
<1>1. PICK f : /\ f[0] = [rows |-> tracked, alerts |-> <<>>]
               /\ \A i \in 1..n :
                      f[i] = IF i \in kept THEN Handle(f[i - 1], answer[i]) ELSE f[i - 1]
               /\ Handled(answer, kept, tracked) = f[n]
  <2>1. \E f : /\ f[0] = [rows |-> tracked, alerts |-> <<>>]
               /\ \A i \in 1..Len(answer) :
                      f[i] = IF i \in kept THEN Handle(f[i - 1], answer[i]) ELSE f[i - 1]
               /\ Handled(answer, kept, tracked) = f[Len(answer)]
    BY HandledUnfolds
  <2> QED  BY <2>1 DEF n
<1> DEFINE AtPrice(rws, k) == \E j \in kept : answer[j].key = k /\ rws[k] = answer[j].price
           Good(m) == /\ f[m].alerts \in Seq(X)
                      /\ DOMAIN f[m].rows = DOMAIN tracked \cup {answer[i].key : i \in upto(m)}
                      /\ \A i \in upto(m) : AtPrice(f[m].rows, answer[i].key)
           Bad == {m \in 0..n : ~Good(m)}
<1> HIDE DEF Good
<1>2. Bad = {}
  <2> SUFFICES ASSUME Bad # {}  PROVE FALSE
    OBVIOUS
  <2>1. PICK m \in Bad : \A l \in Bad : m <= l
    <3>1. Bad \in SUBSET Nat
      BY <1>0
    <3> HIDE DEF Bad
    <3> QED  BY <3>1, LeastNat
  <2>2. m \in Nat /\ m <= n /\ m \in 0..n /\ ~Good(m)
    BY <1>0, <2>1
  <2>3. CASE m = 0
    <3>1. upto(0) = {}
      BY <1>0
    <3>2. f[0].rows = tracked /\ f[0].alerts = <<>> /\ <<>> \in Seq(X)
      BY <1>1
    <3> HIDE DEF X
    <3> QED  BY <2>2, <2>3, <3>1, <3>2 DEF Good
  <2>4. CASE m # 0
    <3>1. m - 1 \in 0..n /\ m - 1 < m /\ m - 1 \in Nat /\ m \in 1..n
      BY <1>0, <2>2, <2>4
    <3>2. Good(m - 1)
      <4>1. m - 1 \notin Bad
        BY <2>1, <2>2, <3>1
      <4> QED  BY <3>1, <4>1
    <3>3. \A i \in kept : i \in Nat
      BY <1>0
    <3>4. CASE m \in kept
      <4>1. f[m] = Handle(f[m - 1], answer[m]) /\ answer[m] \in X
        BY <1>1, <3>1, <3>4
      <4>2. upto(m) = upto(m - 1) \cup {m}
        BY <2>2, <3>1, <3>3, <3>4
      <4>3. /\ f[m - 1].alerts \in Seq(X)
            /\ DOMAIN f[m - 1].rows = DOMAIN tracked \cup {answer[i].key : i \in upto(m - 1)}
            /\ \A i \in upto(m - 1) : AtPrice(f[m - 1].rows, answer[i].key)
        BY <3>2 DEF Good
      <4> HIDE DEF X, upto, AtPrice
      <4>4. /\ DOMAIN f[m].rows = DOMAIN f[m - 1].rows \cup {answer[m].key}
            /\ f[m].rows[answer[m].key] = answer[m].price
            /\ \A k \in DOMAIN f[m - 1].rows \ {answer[m].key} : f[m].rows[k] = f[m - 1].rows[k]
            /\ f[m].alerts \in Seq(X)
        <5>1. \A done, a : done.alerts \in Seq(X) /\ a \in X =>
                  /\ DOMAIN Handle(done, a).rows = DOMAIN done.rows \cup {a.key}
                  /\ Handle(done, a).rows[a.key] = a.price
                  /\ \A k \in DOMAIN done.rows \ {a.key} : Handle(done, a).rows[k] = done.rows[k]
                  /\ Handle(done, a).alerts \in Seq(X)
          BY HandleDoes
        <5> QED  BY <4>1, <4>3, <5>1
      <4>5. DOMAIN f[m].rows = DOMAIN tracked \cup {answer[i].key : i \in upto(m)}
        BY <4>2, <4>3, <4>4
      <4>6. ASSUME NEW i \in upto(m)  PROVE AtPrice(f[m].rows, answer[i].key)
        <5>1. CASE answer[i].key = answer[m].key
          BY <3>4, <4>4, <5>1 DEF AtPrice
        <5>2. CASE answer[i].key # answer[m].key
          <6>1. i \in upto(m - 1)
            BY <4>2, <5>2
          <6>2. answer[i].key \in DOMAIN f[m - 1].rows \ {answer[m].key}
            BY <4>3, <5>2, <6>1
          <6> QED  BY <4>3, <4>4, <6>1, <6>2 DEF AtPrice
        <5> QED  BY <5>1, <5>2
      <4> QED  BY <2>2, <4>4, <4>5, <4>6 DEF Good
    <3>5. CASE m \notin kept
      <4>1. f[m] = f[m - 1]
        BY <1>1, <3>1, <3>5
      <4>2. upto(m) = upto(m - 1)
        BY <2>2, <3>1, <3>3, <3>5
      <4> HIDE DEF X, upto
      <4> QED  BY <2>2, <3>2, <4>1, <4>2 DEF Good
    <3> QED  BY <3>4, <3>5
  <2> QED  BY <2>3, <2>4
<1>3. Good(n)
  BY <1>0, <1>2
<1>4. upto(n) = kept
  BY <1>0
<1>5. Range(f[n].alerts) \subseteq X
  <2>1. f[n].alerts \in Seq(X)
    BY <1>3 DEF Good
  <2> HIDE DEF X
  <2>2. DOMAIN f[n].alerts = 1..Len(f[n].alerts)
    BY <2>1, LenProperties
  <2> QED  BY <2>1, <2>2, ElementOfSeq DEF Range
<1> QED  BY <1>1, <1>3, <1>4, <1>5, Zenon DEF Good, Settled

\* An offer that is already tracked is announced exactly if its price fell, if all
\* offers of its key have one price.
LEMMA AnnouncedIfDropped ==
    ASSUME NEW T, NEW answer \in Seq(T), NEW kept \in SUBSET DOMAIN answer, NEW tracked,
           NEW k \in DOMAIN tracked, k \in {answer[i].key : i \in kept},
           NEW p \in Nat \cup {NoPrice},
           \A i \in kept : answer[i].key = k => answer[i].price = p
    PROVE  (\E a \in Range(Handled(answer, kept, tracked).alerts) : a.key = k)
             <=> IsDrop(p, tracked[k])
<1> DEFINE X == {answer[i] : i \in kept}
           n == Len(answer)
           met(m) == \E i \in kept : i <= m /\ answer[i].key = k
<1>0. n \in Nat /\ DOMAIN answer = 1..n
  BY LenProperties
<1> HIDE DEF n
<1>1. PICK f : /\ f[0] = [rows |-> tracked, alerts |-> <<>>]
               /\ \A i \in 1..n :
                      f[i] = IF i \in kept THEN Handle(f[i - 1], answer[i]) ELSE f[i - 1]
               /\ Handled(answer, kept, tracked) = f[n]
  <2>1. \E f : /\ f[0] = [rows |-> tracked, alerts |-> <<>>]
               /\ \A i \in 1..Len(answer) :
                      f[i] = IF i \in kept THEN Handle(f[i - 1], answer[i]) ELSE f[i - 1]
               /\ Handled(answer, kept, tracked) = f[Len(answer)]
    BY HandledUnfolds
  <2> QED  BY <2>1 DEF n
<1> DEFINE told(m) == \E a \in Range(f[m].alerts) : a.key = k
           Good(m) == /\ f[m].alerts \in Seq(X)
                      /\ k \in DOMAIN f[m].rows
                      /\ met(m) => f[m].rows[k] = p /\ (told(m) <=> IsDrop(p, tracked[k]))
                      /\ ~met(m) => f[m].rows[k] = tracked[k] /\ ~told(m)
           Bad == {m \in 0..n : ~Good(m)}
<1> HIDE DEF Good
<1>2. ~IsDrop(p, p)
  BY NoPriceAssumption DEF IsDrop
<1>3. Bad = {}
  <2> SUFFICES ASSUME Bad # {}  PROVE FALSE
    OBVIOUS
  <2>1. PICK m \in Bad : \A l \in Bad : m <= l
    <3>1. Bad \in SUBSET Nat
      BY <1>0
    <3> HIDE DEF Bad
    <3> QED  BY <3>1, LeastNat
  <2>2. m \in Nat /\ m <= n /\ m \in 0..n /\ ~Good(m)
    BY <1>0, <2>1
  <2>3. CASE m = 0
    <3>1. ~met(0)
      BY <1>0
    <3>2. f[0].rows = tracked /\ f[0].alerts = <<>> /\ <<>> \in Seq(X) /\ Range(<<>>) = {}
      BY <1>1 DEF Range
    <3>3. f[0].alerts \in Seq(X) /\ ~told(0)
      BY <3>2
    <3> HIDE DEF X, met, told
    <3> QED  BY <2>2, <2>3, <3>1, <3>2, <3>3 DEF Good
  <2>4. CASE m # 0
    <3>1. m - 1 \in 0..n /\ m - 1 < m /\ m - 1 \in Nat /\ m \in 1..n
      BY <1>0, <2>2, <2>4
    <3>2. Good(m - 1)
      <4>1. m - 1 \notin Bad
        BY <2>1, <2>2, <3>1
      <4> QED  BY <3>1, <4>1
    <3>3. \A i \in kept : i \in Nat
      BY <1>0
    <3>4. \A i \in kept : i <= m <=> (i <= m - 1 \/ i = m)
      BY <2>2, <3>3
    <3>5. CASE m \in kept
      <4>1. f[m] = Handle(f[m - 1], answer[m]) /\ answer[m] \in X /\ f[m - 1].alerts \in Seq(X)
        BY <1>1, <3>1, <3>2, <3>5 DEF Good
      <4> DEFINE new == answer[m] \in Told(f[m - 1], answer[m])
      <4>2. /\ DOMAIN f[m].rows = DOMAIN f[m - 1].rows \cup {answer[m].key}
            /\ f[m].rows[answer[m].key] = answer[m].price
            /\ \A l \in DOMAIN f[m - 1].rows \ {answer[m].key} : f[m].rows[l] = f[m - 1].rows[l]
            /\ f[m].alerts \in Seq(X)
            /\ new => Range(f[m].alerts) = Range(f[m - 1].alerts) \cup {answer[m]}
            /\ ~new => Range(f[m].alerts) = Range(f[m - 1].alerts)
        <5> HIDE DEF X
        <5>1. \A done, a : done.alerts \in Seq(X) /\ a \in X =>
                  /\ DOMAIN Handle(done, a).rows = DOMAIN done.rows \cup {a.key}
                  /\ Handle(done, a).rows[a.key] = a.price
                  /\ \A l \in DOMAIN done.rows \ {a.key} : Handle(done, a).rows[l] = done.rows[l]
                  /\ Handle(done, a).alerts \in Seq(X)
          BY HandleDoes
        <5>2. \A done, a : done.alerts \in Seq(X) /\ a \in X =>
                  Range(Handle(done, a).alerts) = Range(done.alerts) \cup Told(done, a)
          BY HandleDoes
        <5>3. /\ DOMAIN f[m].rows = DOMAIN f[m - 1].rows \cup {answer[m].key}
              /\ f[m].rows[answer[m].key] = answer[m].price
              /\ \A l \in DOMAIN f[m - 1].rows \ {answer[m].key} : f[m].rows[l] = f[m - 1].rows[l]
              /\ f[m].alerts \in Seq(X)
          BY <4>1, <5>1
        <5>4. Range(f[m].alerts) = Range(f[m - 1].alerts) \cup Told(f[m - 1], answer[m])
          BY <4>1, <5>2
        <5>5. \A done, a : Told(done, a) \subseteq {a}
          BY DEF Told
        <5> QED  BY <5>3, <5>4, <5>5
      <4>3. met(m) <=> met(m - 1) \/ answer[m].key = k
        BY <3>4, <3>5
      <4>4. told(m) <=> told(m - 1) \/ (answer[m].key = k /\ new)
        <5> HIDE DEF new
        <5> QED  BY <4>2
      <4>5. k \in DOMAIN f[m - 1].rows
        BY <3>2 DEF Good
      <4>6. CASE answer[m].key = k
        <5>1. answer[m].price = p /\ f[m].rows[k] = p /\ (new <=> IsDrop(p, f[m - 1].rows[k]))
          BY <3>5, <4>2, <4>5, <4>6 DEF Told
        <5>2. told(m) <=> told(m - 1) \/ IsDrop(p, f[m - 1].rows[k])
          BY <4>4, <4>6, <5>1
        <5> HIDE DEF X, met, told, new
        <5>3. told(m) <=> IsDrop(p, tracked[k])
          BY <1>2, <3>2, <5>2 DEF Good
        <5> QED  BY <2>2, <4>2, <4>3, <4>5, <4>6, <5>1, <5>3 DEF Good
      <4>7. CASE answer[m].key # k
        <5>1. f[m].rows[k] = f[m - 1].rows[k] /\ k \in DOMAIN f[m].rows
          BY <4>2, <4>5, <4>7
        <5>2. (met(m) <=> met(m - 1)) /\ (told(m) <=> told(m - 1))
          BY <4>3, <4>4, <4>7
        <5> HIDE DEF X, met, told, new
        <5> QED  BY <2>2, <3>2, <4>2, <5>1, <5>2 DEF Good
      <4> QED  BY <4>6, <4>7
    <3>6. CASE m \notin kept
      <4>1. f[m] = f[m - 1]
        BY <1>1, <3>1, <3>6
      <4>2. (met(m) <=> met(m - 1)) /\ (told(m) <=> told(m - 1))
        BY <3>4, <3>6, <4>1
      <4> HIDE DEF X, met, told
      <4> QED  BY <2>2, <3>2, <4>1, <4>2 DEF Good
    <3> QED  BY <3>5, <3>6
  <2> QED  BY <2>3, <2>4
<1>4. Good(n) /\ met(n)
  BY <1>0, <1>3
<1> HIDE DEF met
<1> QED  BY <1>1, <1>4 DEF Good

-----------------------------------------------------------------------------
(* The shop *)

\* What is configured, and what the shop can have.
WorldOK ==
    /\ source \in Sources /\ layout \in Layouts(source) /\ cap \in Caps
    /\ DOMAIN truth = Items /\ \A i \in Items : truth[i] \in CanBe(source, i)

\* The prices of a shop, and the least of them.
LEMMA CentsAre == \A c \in Cents : c \in Nat /\ c >= 100
BY PricesAssumption

LEMMA LeastCents == Min(Cents) \in Cents
<1>1. \E c \in Cents : \A d \in Cents : c <= d
  <2>1. Cents \in SUBSET Nat /\ Cents # {}
    BY PricesAssumption
  <2> QED  BY <2>1, LeastNat
<1> QED  BY <1>1 DEF Min

LEMMA MinOne ==
    ASSUME NEW n \in Nat
    PROVE  Min({n}) = n
<1>1. n <= n
  OBVIOUS
<1>2. \A m : m = n <=> m \in {n} /\ \A y \in {n} : m <= y
  BY <1>1
<1> QED  BY <1>2, Zenon DEF Min
\* The states of an item, and which of them its shop can have.
LEMMA TruthIs ==
    ASSUME WorldOK, NEW i \in Items
    PROVE  /\ State(i) \in {"in", "later", "out", "removed", "replaced"}
           /\ truth[i].cents \in Nat
           /\ State(i) = "later" => HasLater(source)
           /\ State(i) = "replaced" => source \in Pages /\ i = "main"
           /\ State(i) \in OnOffer => truth[i].cents \in Cents
           /\ source = "expert" /\ i = "other" => State(i) = "removed"
<1> DEFINE states == IF HasLater(source) THEN OnOffer ELSE {"in"}
           prices == IF source \in Pages /\ i = "other" THEN {Min(Cents)} ELSE Cents
<1>1. truth[i] \in CanBe(source, i)
  BY DEF WorldOK
<1>2. prices \subseteq Cents
  BY LeastCents
<1>3. truth[i] \in {Is("removed", 0)}
        \cup (IF source = "expert" /\ i = "other" THEN {}
              ELSE {Is("out", 0)} \cup {Is(state, c) : state \in states, c \in prices})
        \cup (IF source \in Pages /\ i = "main" THEN {Is("replaced", 0)} ELSE {})
  BY <1>1 DEF CanBe
<1>4. CASE truth[i] = Is("removed", 0)
  BY <1>4 DEF Is, State, OnOffer
<1>5. CASE truth[i] = Is("out", 0) /\ ~(source = "expert" /\ i = "other")
  BY <1>5 DEF Is, State, OnOffer
<1>6. CASE truth[i] = Is("replaced", 0) /\ source \in Pages /\ i = "main"
  BY <1>6 DEF Is, State, OnOffer, Pages, TextPages, WebShops
<1>7. CASE /\ truth[i] \in {Is(state, c) : state \in states, c \in prices}
           /\ ~(source = "expert" /\ i = "other")
  <2>1. PICK state \in states, c \in prices : truth[i] = Is(state, c)
    BY <1>7
  <2>2. state \in OnOffer /\ (state = "later" => HasLater(source)) /\ c \in Cents /\ c \in Nat
    BY <1>2, CentsAre DEF OnOffer
  <2> QED  BY <1>7, <2>1, <2>2 DEF Is, State, OnOffer
<1> QED  BY <1>3, <1>4, <1>5, <1>6, <1>7

\* Two sequences of one element make one of two.
LEMMA Pair ==
    ASSUME NEW a, NEW b
    PROVE  <<a>> \o <<b>> = <<a, b>>
<1>1. <<a>> \in Seq({a, b}) /\ <<b>> \in Seq({a, b}) /\ <<a, b>> \in Seq({a, b})
  OBVIOUS
<1>2. /\ <<a>> \o <<b>> \in Seq({a, b})
      /\ Len(<<a>> \o <<b>>) = Len(<<a>>) + Len(<<b>>)
      /\ \A i \in 1 .. Len(<<a>>) + Len(<<b>>) : (<<a>> \o <<b>>)[i] =
                     IF i <= Len(<<a>>) THEN <<a>>[i] ELSE <<b>>[i - Len(<<a>>)]
  BY <1>1, ConcatProperties
<1>3. Len(<<a>>) = 1 /\ Len(<<b>>) = 1 /\ <<a>>[1] = a /\ <<b>>[1] = b /\ Len(<<a, b>>) = 2
      /\ <<a, b>>[1] = a /\ <<a, b>>[2] = b
  OBVIOUS
<1>4. Len(<<a>> \o <<b>>) = 2 /\ (<<a>> \o <<b>>)[1] = a /\ (<<a>> \o <<b>>)[2] = b
  BY <1>2, <1>3
<1>5. \A i \in 1..2 : (<<a>> \o <<b>>)[i] = <<a, b>>[i]
  BY <1>3, <1>4
<1> QED  BY <1>1, <1>2, <1>3, <1>4, <1>5, SeqEqual

\* The items in some states, the one the page is about first.
LEMMA ThoseAre ==
    ASSUME NEW S
    PROVE  /\ Those(S) \in Seq(Items)
           /\ Range(Those(S)) = {i \in Items : State(i) \in S}
           /\ State("main") \in S => Those(S) # <<>> /\ Those(S)[1] = "main"
<1>1. Items = {"main", "other"}
  BY DEF Items
<1>2. CASE State("main") \in S /\ State("other") \in S
  <2>1. Those(S) = <<"main", "other">>
    BY <1>2, Pair DEF Those
  <2> QED  BY <1>1, <1>2, <2>1 DEF Range
<1>3. CASE State("main") \in S /\ State("other") \notin S
  <2>1. Those(S) = <<"main">>
    BY <1>3 DEF Those
  <2> QED  BY <1>1, <1>3, <2>1 DEF Range
<1>4. CASE State("main") \notin S /\ State("other") \in S
  <2>1. Those(S) = <<"other">>
    BY <1>4 DEF Those
  <2> QED  BY <1>1, <1>4, <2>1 DEF Range
<1>5. CASE State("main") \notin S /\ State("other") \notin S
  <2>1. Those(S) = <<>>
    BY <1>5 DEF Those
  <2> QED  BY <1>1, <1>5, <2>1 DEF Range
<1> QED  BY <1>2, <1>3, <1>4, <1>5

-----------------------------------------------------------------------------
(* The texts of a shop *)

\* What a shop looks for, field by field.
Reads(shop, in, out, pre, fn) ==
    shop.in = in /\ shop.out = out /\ shop.pre = pre /\ shop.priceFn = fn

LEMMA SchemaMarkers ==
    /\ Reads(SchemaShop, SchemaInStock, SchemaOutOfStock, SchemaPreOrder, "schema")
    /\ DOMAIN SchemaShop = {"in", "out", "pre", "priceFn"}
BY DEF SchemaShop, Reads

LEMMA Markers ==
    /\ Reads(Tado, SchemaInStock, SchemaOutOfStock, SchemaPreOrder \cup PreOrderTexts, "shopify")
    /\ TalentKing = Tado /\ SolarHandel24 = Tado
    /\ Reads(Entratek, SchemaInStock, SchemaOutOfStock, SchemaPreOrder \cup {"im zulauf"},
             "schema")
    /\ Reads(Solario24, SchemaInStock, SchemaOutOfStock,
             SchemaPreOrder \cup {"vorbestellung", "aktuell nicht lieferbar"}, "schema")
    /\ Reads(HeizungBilliger, SchemaInStock, SchemaOutOfStock \cup {"aktuell nicht lieferbar"},
             SchemaPreOrder, "schema")
    /\ Reads(MediaDeal, {"InStock"},
             SchemaOutOfStock \cup {"LimitedAvailability", "lieferzeit anfragen"}, {}, "schema")
    /\ Reads(SolarProfi, SchemaInStock, SchemaOutOfStock \cup {"nicht zur verfuegung"}, {},
             "schema")
    /\ Reads(Amazon, {"add-to-cart-button"}, {"id=outofstock"}, {}, "box")
    /\ Reads(Bueromarkt, {"immediatedelivery", "sofort lieferbar"},
             {"derzeit nicht verf", "notify-product-"}, {}, "box")
<1>1. Reads(Tado, SchemaInStock, SchemaOutOfStock, SchemaPreOrder \cup PreOrderTexts, "shopify")
  BY SchemaMarkers DEF Tado, Reads
<1>2. TalentKing = Tado /\ SolarHandel24 = Tado
  BY DEF Tado, TalentKing, SolarHandel24
<1>3. Reads(Entratek, SchemaInStock, SchemaOutOfStock, SchemaPreOrder \cup {"im zulauf"},
            "schema")
  BY SchemaMarkers DEF Entratek, Reads
<1>4. Reads(Solario24, SchemaInStock, SchemaOutOfStock,
            SchemaPreOrder \cup {"vorbestellung", "aktuell nicht lieferbar"}, "schema")
  BY SchemaMarkers DEF Solario24, Reads
<1>5. Reads(HeizungBilliger, SchemaInStock, SchemaOutOfStock \cup {"aktuell nicht lieferbar"},
            SchemaPreOrder, "schema")
  BY SchemaMarkers DEF HeizungBilliger, Reads
<1>6. Reads(MediaDeal, {"InStock"},
            SchemaOutOfStock \cup {"LimitedAvailability", "lieferzeit anfragen"}, {}, "schema")
  BY SchemaMarkers DEF MediaDeal, Reads
<1>7. Reads(SolarProfi, SchemaInStock, SchemaOutOfStock \cup {"nicht zur verfuegung"}, {},
            "schema")
  BY SchemaMarkers DEF SolarProfi, Reads
<1>8. /\ Reads(Amazon, {"add-to-cart-button"}, {"id=outofstock"}, {}, "box")
      /\ Reads(Bueromarkt, {"immediatedelivery", "sofort lieferbar"},
               {"derzeit nicht verf", "notify-product-"}, {}, "box")
  BY DEF Amazon, Bueromarkt, Reads
<1> QED  BY <1>1, <1>2, <1>3, <1>4, <1>5, <1>6, <1>7, <1>8

\* The markers of a shop tell the states of an item apart by its texts, and the
\* labels of its theme do not count.
Tells(s, texts, state) ==
    /\ state = "out" => texts \cap Shop(s).out # {}
    /\ state \in OnOffer => /\ texts \cap Shop(s).out = {}
                            /\ texts \cap (Shop(s).in \cup Shop(s).pre) # {}
    /\ state = "in" => texts \cap Shop(s).pre = {}
    /\ state = "later" => texts \cap Shop(s).pre # {}

\* What an item puts on a page tells its state to the markers of the shop.
LEMMA TextsTell ==
    ASSUME NEW s \in WebShops, NEW state \in {"in", "later", "out"},
           state = "later" => HasLater(s)
    PROVE  Tells(s, Texts(s, state), state)
<1> USE DEF Tells, OnOffer, Reads
<1>1. CASE s = "schema"
  <2>1. Shop(s) = SchemaShop
    BY <1>1 DEF Shop
  <2>2. /\ state = "out" => Texts(s, state) = {"OutOfStock"}
        /\ state = "in" => Texts(s, state) = {"InStock"}
        /\ state = "later" => Texts(s, state) = {"PreOrder"}
    <3>1. Texts(s, state) = SchemaTexts(s, state)
      BY <1>1 DEF Texts
    <3>2. /\ state = "out" => SchemaTexts(s, state) = {"OutOfStock"}
          /\ state = "in" => SchemaTexts(s, state) = {"InStock"}
      BY DEF SchemaTexts
    <3>3. state = "later" => SchemaTexts(s, state) = {"PreOrder"}
      BY <1>1 DEF SchemaTexts
    <3> QED  BY <3>1, <3>2, <3>3
  <2> QED
    BY <2>1, <2>2, SchemaMarkers, Markers DEF SchemaInStock, SchemaOutOfStock, SchemaPreOrder
<1>2. CASE s \in {"tado", "talentking", "solarhandel24"}
  BY <1>2, Markers
  DEF Shop, Texts, SchemaTexts, SchemaInStock, SchemaOutOfStock, SchemaPreOrder, PreOrderTexts
<1>3. CASE s = "entratek"
  <2>1. Shop(s) = Entratek
    BY <1>3 DEF Shop
  <2>2. /\ state = "out" => Texts(s, state) = {"OutOfStock"}
        /\ state = "in" => Texts(s, state) = {"InStock"}
        /\ state = "later" => Texts(s, state) = {"InStock", "im zulauf"}
    <3>1. Texts(s, state) = SchemaTexts(s, state)
      BY <1>3 DEF Texts
    <3>2. /\ state = "out" => SchemaTexts(s, state) = {"OutOfStock"}
          /\ state = "in" => SchemaTexts(s, state) = {"InStock"}
      BY DEF SchemaTexts
    <3>3. state = "later" => SchemaTexts(s, state) = {"InStock", "im zulauf"}
      BY <1>3 DEF SchemaTexts
    <3> QED  BY <3>1, <3>2, <3>3
  <2> QED
    BY <2>1, <2>2, SchemaMarkers, Markers DEF SchemaInStock, SchemaOutOfStock, SchemaPreOrder
<1>4. CASE s = "solario24"
  <2>1. Shop(s) = Solario24
    BY <1>4 DEF Shop
  <2>2. /\ state = "out" => Texts(s, state) = {"OutOfStock"}
        /\ state = "in" => Texts(s, state) = {"InStock"}
        /\ state = "later" => Texts(s, state) = {"InStock", "vorbestellung", "aktuell nicht lieferbar"}
    <3>1. Texts(s, state) = SchemaTexts(s, state)
      BY <1>4 DEF Texts
    <3>2. /\ state = "out" => SchemaTexts(s, state) = {"OutOfStock"}
          /\ state = "in" => SchemaTexts(s, state) = {"InStock"}
      BY DEF SchemaTexts
    <3>3. state = "later" => SchemaTexts(s, state) = {"InStock", "vorbestellung", "aktuell nicht lieferbar"}
      BY <1>4 DEF SchemaTexts
    <3> QED  BY <3>1, <3>2, <3>3
  <2> QED
    BY <2>1, <2>2, SchemaMarkers, Markers DEF SchemaInStock, SchemaOutOfStock, SchemaPreOrder
<1>5. CASE s = "heizungbilliger"
  BY <1>5, Markers
  DEF Shop, Texts, SchemaInStock, SchemaOutOfStock, SchemaPreOrder, HasLater
<1>6. CASE s = "mediadeal"
  BY <1>6, Markers
  DEF Shop, Texts, SchemaInStock, SchemaOutOfStock, SchemaPreOrder, HasLater
<1>7. CASE s = "solarprofi"
  <2>1. state # "later" /\ Shop(s) = SolarProfi
        /\ Texts(s, state) = {"LimitedAvailability"}
             \cup (IF state = "out" THEN {"nicht zur verfuegung"} ELSE {})
    BY <1>7 DEF Shop, Texts, HasLater
  <2> QED  BY <2>1, Markers DEF SchemaInStock, SchemaOutOfStock
<1>8. CASE s = "amazon"
  <2>1. state # "later" /\ Shop(s) = Amazon
        /\ Texts(s, state) =
              IF state = "in" THEN {"add-to-cart-button"} ELSE {"id=outofstock"}
    BY <1>8 DEF Shop, Texts, HasLater
  <2> QED  BY <2>1, Markers
<1>9. CASE s = "bueromarkt"
  <2>1. state # "later" /\ Shop(s) = Bueromarkt
        /\ Texts(s, state) =
              IF state = "in" THEN {"immediatedelivery", "sofort lieferbar"}
              ELSE {"derzeit nicht verf", "notify-product-"}
    BY <1>9 DEF Shop, Texts, HasLater
  <2> QED  BY <2>1, Markers
<1> QED  BY <1>1, <1>2, <1>3, <1>4, <1>5, <1>6, <1>7, <1>8, <1>9 DEF WebShops

\* The labels of a theme are no markers (tado.go:5-8).
LEMMA ThemeTellsNothing ==
    ASSUME NEW s \in WebShops
    PROVE  Theme(s) \cap (Shop(s).out \cup Shop(s).in \cup Shop(s).pre) = {}
BY SchemaMarkers, Markers
DEF Theme, Reads, Shop, WebShops, SchemaInStock, SchemaOutOfStock, SchemaPreOrder, PreOrderTexts

-----------------------------------------------------------------------------
(* A page *)

\* The items a page shows, and those that can be ordered.
Shown == Those({"in", "later", "out"})
Timed == Those(OnOffer)

\* What is printed in a block of the page: the price of the top item.
Top(block) ==
    IF layout.block = block /\ Shown # <<>>
    THEN AsPrinted(truth[Shown[1]].cents, layout.notation) ELSE None

JsonParts == [i \in DOMAIN Shown |-> Json(truth[Shown[i]].cents)]

\* The page, field by field.
LEMMA PageFields ==
    /\ Page.token = IF layout.token = "none" THEN "none"
                    ELSE IF State("main") = "replaced" THEN "missing" ELSE "shown"
    /\ Page.texts = Theme(source) \cup UNION {Texts(source, State(i)) : i \in Range(Shown)}
    /\ Page.lead = IF Timed = <<>> THEN None ELSE Lead(State(Timed[1]))
    /\ Page.badges = [i \in DOMAIN Shown |-> Badge(State(Shown[i]))]
    /\ Page.stocks = [i \in DOMAIN Shown |-> StockId(State(Shown[i]))]
    /\ Page.prices.micro = Top("micro") /\ Page.prices.box = Top("box")
    /\ Page.prices.json = FlattenSeq(JsonParts)
BY DEF Page, Shown, Timed, Top, JsonParts

\* The parser of a page that has a price.
PageFn(s) ==
    IF s \in WebShops THEN Shop(s).priceFn ELSE IF s = "grz" THEN "schema" ELSE "box"

\* A shop prints its prices where its parser looks.
LEMMA LayoutIs ==
    ASSUME WorldOK, source \in Pages
    PROVE  /\ layout.notation \in Notations
           /\ layout.token \in {"none", "shown"}
           /\ source = "bobselektro" => layout.token = "none"
           /\ PageFn(source) = "schema" => layout.block \in {"micro", "json"}
           /\ PageFn(source) = "shopify" =>
                  layout.block \in {"cents", "micro"} /\ layout.notation = "schema"
           /\ PageFn(source) = "box" /\ source # "weinmannschanz" => layout.block = "box"
           /\ PageFn(source) \in {"schema", "shopify", "box"}
<1> USE DEF Printing, Notations
<1>0. layout \in Layouts(source)
  BY DEF WorldOK
<1>1. CASE source = "schema"
  <2>1. PageFn(source) = "schema"
    BY <1>1, SchemaMarkers DEF PageFn, Shop, WebShops, Reads
  <2> QED  BY <1>0, <1>1, <2>1 DEF Layouts
<1>2. CASE source \in {"tado", "talentking", "solarhandel24"}
  <2>1. PageFn(source) = "shopify"
    BY <1>2, Markers DEF PageFn, Shop, WebShops, Reads
  <2> QED  BY <1>0, <1>2, <2>1 DEF Layouts
<1>3. CASE source \in {"amazon", "bueromarkt"}
  <2>1. PageFn(source) = "box"
    BY <1>3, Markers DEF PageFn, Shop, WebShops, Reads
  <2> QED  BY <1>0, <1>3, <2>1 DEF Layouts
<1>4. CASE source = "bobselektro"
  <2>1. PageFn(source) = "box"
    BY <1>4 DEF PageFn, WebShops
  <2> QED  BY <1>0, <1>4, <2>1 DEF Layouts
<1>5. CASE source \in {"entratek", "solario24", "heizungbilliger", "mediadeal", "solarprofi"}
  <2>1. PageFn(source) = "schema"
    BY <1>5, Markers DEF PageFn, Shop, WebShops, Reads
  <2>2. layout \in Printing({"micro"}, {"schema"}, {"shown"})
    BY <1>0, <1>5 DEF Layouts
  <2> QED  BY <1>5, <2>1, <2>2
<1>6. CASE source \in {"grz", "weinmannschanz"}
  <2>1. PageFn(source) = IF source = "grz" THEN "schema" ELSE "box"
    BY <1>6 DEF PageFn, WebShops
  <2>2. layout \in Printing({"micro"}, {"schema"}, {"shown"})
    BY <1>0, <1>6 DEF Layouts
  <2> QED  BY <1>6, <2>1, <2>2
<1> QED  BY <1>1, <1>2, <1>3, <1>4, <1>5, <1>6 DEF Pages, TextPages, WebShops

\* A printed price is an amount.
LEMMA PrintedIs ==
    ASSUME NEW c \in Nat, NEW notation
    PROVE  AsPrinted(c, notation) \in Printed /\ AsPrinted(c, notation) # None
<1>1. PrintDigits(c, notation) \in Nat
  BY DEF PrintDigits
<1>2. \A m \in Nat \ {0} : ByDot(m) \in Mark /\ ByComma(m) \in Mark
  BY DEF ByDot, ByComma, Mark
<1>3. /\ ByDot(3) \in Mark /\ ByDot(2) \in Mark /\ ByDot(5) \in Mark
      /\ ByComma(2) \in Mark /\ ByComma(5) \in Mark
  BY <1>2
<1>4. PrintMarks(c, notation) \in Seq(Mark)
  BY <1>3 DEF PrintMarks
<1>5. AsPrinted(c, notation) \in Printed
  BY <1>1, <1>4 DEF AsPrinted, Printed
<1> QED  BY <1>5, PrintedAssumption

\* What is read where the shop prints the price of an item.
ReadPrice(item) ==
    IF layout.block = "cents" THEN truth[item].cents * 1000
    ELSE ParseAmount(AsPrinted(truth[item].cents, layout.notation))

\* The JSON of a page starts with the prices of the top item.
JsonEntry == [amount : Printed, quoted : BOOLEAN]

LEMMA JsonIs ==
    ASSUME WorldOK
    PROVE  /\ JsonParts \in Seq(Seq(JsonEntry)) /\ DOMAIN JsonParts = DOMAIN Shown
           /\ Shown \in Seq(Items)
           /\ \A i \in DOMAIN Shown : Shown[i] \in Items
<1>1. Shown \in Seq(Items) /\ DOMAIN Shown = 1..Len(Shown) /\ Len(Shown) \in Nat
  BY ThoseAre, LenProperties DEF Shown
<1>2. \A i \in DOMAIN Shown : Shown[i] \in Items
  BY <1>1, ElementOfSeq
<1>3. ASSUME NEW c \in Nat  PROVE Json(c) \in Seq(JsonEntry)
  <2>1. [amount |-> AsPrinted(c, layout.notation), quoted |-> TRUE] \in JsonEntry
    BY PrintedIs DEF JsonEntry
  <2>2. <<>> \in Seq(Mark)
    OBVIOUS
  <2>3. [amount |-> [digits |-> c, marks |-> <<>>], quoted |-> FALSE] \in JsonEntry
    BY <2>2 DEF JsonEntry, Printed
  <2> QED  BY <2>1, <2>3 DEF Json
<1>4. \A i \in 1..Len(Shown) : truth[Shown[i]].cents \in Nat
  BY <1>1, <1>2, TruthIs
<1>5. \A i \in 1..Len(Shown) : Json(truth[Shown[i]].cents) \in Seq(JsonEntry)
  BY <1>3, <1>4
<1>6. JsonParts = [i \in 1..Len(Shown) |-> Json(truth[Shown[i]].cents)]
  BY <1>1 DEF JsonParts
<1>7. JsonParts \in [1..Len(Shown) -> Seq(JsonEntry)]
  BY <1>5, <1>6
<1> QED  BY <1>1, <1>2, <1>7, SeqDef

\* The parser of a shop reads the price of the top item.
LEMMA PriceIsRead ==
    ASSUME WorldOK, source \in Pages, source # "weinmannschanz",
           Shown # <<>>, State(Shown[1]) \in OnOffer
    PROVE  PriceFn(PageFn(source), Page.prices) = ReadPrice(Shown[1])
<1> DEFINE c == truth[Shown[1]].cents
           raw == AsPrinted(c, layout.notation)
           prices == Page.prices
<1>1. 1 \in DOMAIN Shown /\ Shown[1] \in Items
  <2>1. Shown \in Seq(Items)
    BY JsonIs
  <2>2. Len(Shown) \in Nat \ {0}
    BY <2>1, EmptySeq
  <2>3. 1 \in DOMAIN Shown
    BY <2>1, <2>2, LenProperties
  <2> QED  BY <2>3, JsonIs
<1>2. c \in Nat /\ c >= 100 /\ raw # None
  <2>1. c \in Cents
    BY <1>1, TruthIs
  <2> QED  BY <2>1, CentsAre, PrintedIs
<1>3. prices.json = FlattenSeq(JsonParts) /\ JsonParts # <<>> /\ JsonParts[1] = Json(c)
      /\ Range(prices.json) = UNION {Range(JsonParts[i]) : i \in DOMAIN JsonParts}
      /\ Starts(JsonParts[1], prices.json) /\ prices.json \in Seq(JsonEntry)
  <2>1. JsonParts # <<>> /\ JsonParts[1] = Json(c)
    BY <1>1, JsonIs DEF JsonParts
  <2> QED  BY <2>1, PageFields, JsonIs, Flattened
<1>4. /\ layout.block = "micro" => prices.micro = raw
      /\ layout.block # "micro" => prices.micro = None
      /\ layout.block = "box" => prices.box = raw
  BY PageFields DEF Top
<1> HIDE DEF c, raw, prices
<1>5. CASE layout.block = "micro" /\ PageFn(source) = "schema"
  <2>1. PriceFn("schema", prices) = ParseAmount(raw)
    BY <1>2, <1>4, <1>5 DEF PriceFn, ParsePrice, ParseOr
  <2> QED  BY <1>5, <2>1 DEF ReadPrice, prices, raw, c
<1>6. CASE layout.block = "micro" /\ PageFn(source) = "shopify"
  <2>1. \A i \in DOMAIN JsonParts : JsonParts[i] = <<>>
    BY <1>6 DEF JsonParts, Json
  <2>2. Range(prices.json) = {}
    BY <1>3, <2>1 DEF Range
  <2>3. DOMAIN prices.json = {}
    BY <2>2 DEF Range
  <2>4. PriceFn("shopify", prices) = ParsePrice(prices)
    BY <2>3 DEF PriceFn, ShopifyPrice
  <2>5. ParsePrice(prices) = ParseAmount(raw)
    BY <1>2, <1>4, <1>6 DEF ParsePrice, ParseOr
  <2> QED  BY <1>6, <2>4, <2>5 DEF ReadPrice, prices, raw, c
<1>7. CASE layout.block = "json" /\ PageFn(source) = "schema"
  <2>1. JsonParts[1] = <<[amount |-> raw, quoted |-> TRUE]>>
    BY <1>3, <1>7 DEF Json, raw
  <2>2. 1 \in DOMAIN prices.json /\ prices.json[1].amount = raw
    BY <1>3, <2>1 DEF Starts
  <2>3. prices.json # <<>>
    BY <2>2
  <2>4. PriceFn("schema", prices) = ParseAmount(raw)
    BY <1>4, <1>7, <2>2, <2>3 DEF PriceFn, ParsePrice, ParseOr
  <2> QED  BY <1>7, <2>4 DEF ReadPrice, prices, raw, c
<1>8. CASE layout.block = "box" /\ PageFn(source) = "box"
  <2>1. PriceFn("box", prices) = ParseAmount(raw)
    BY <1>2, <1>4, <1>8 DEF PriceFn, ParseOr
  <2> QED  BY <1>8, <2>1 DEF ReadPrice, prices, raw, c
<1>9. CASE layout.block = "cents" /\ PageFn(source) = "shopify"
  <2> DEFINE first == [amount |-> [digits |-> c, marks |-> <<>>], quoted |-> FALSE]
             cents == {i \in DOMAIN prices.json : IsCents(prices.json[i])}
  <2>1. JsonParts[1] = <<first, [amount |-> raw, quoted |-> TRUE]>>
    BY <1>3, <1>9 DEF Json, raw
  <2>2. 1 \in DOMAIN prices.json /\ prices.json[1] = first
    <3> HIDE DEF first
    <3>1. 1 \in DOMAIN JsonParts[1] /\ JsonParts[1][1] = first
      BY <2>1
    <3> QED  BY <1>3, <3>1 DEF Starts
  <2>3. IsCents(first)
    BY <1>2 DEF IsCents
  <2>4. 1 \in cents /\ \A i \in cents : i \in Nat /\ 1 <= i
    <3>1. DOMAIN prices.json = 1..Len(prices.json) /\ Len(prices.json) \in Nat
      BY <1>3, LenProperties
    <3> QED  BY <2>2, <2>3, <3>1
  <2>5. Min(cents) = 1
    <3> HIDE DEF cents
    <3> QED  BY <2>4 DEF Min
  <2>6. PriceFn("shopify", prices) = c * 1000
    <3>1. ShopifyPrice(prices) = prices.json[Min(cents)].amount.digits * 1000
      <4>1. cents # {}
        BY <2>4
      <4> QED  BY <4>1 DEF ShopifyPrice
    <3>2. first.amount.digits = c
      OBVIOUS
    <3> HIDE DEF cents, first
    <3>3. ShopifyPrice(prices) = c * 1000
      BY <2>2, <2>5, <3>1, <3>2
    <3> QED  BY <3>3 DEF PriceFn
  <2> QED  BY <1>9, <2>6 DEF ReadPrice, prices, raw, c
<1> QED  BY <1>5, <1>6, <1>7, <1>8, <1>9, LayoutIs

\* The markers that hit a page are those of the items on it.
LEMMA HitsTell ==
    ASSUME WorldOK, source \in WebShops
    PROVE  LET shop == Shop(source)
           IN  /\ Hits(Page, shop.out) <=> \E i \in Items : State(i) = "out"
               /\ ~Hits(Page, shop.out) =>
                    /\ Hits(Page, shop.in \cup shop.pre) <=> \E i \in Items : State(i) \in OnOffer
                    /\ Hits(Page, shop.pre) <=> \E i \in Items : State(i) = "later"
<1> DEFINE shop == Shop(source)
<1>1. \A t \in Page.texts : t \in Theme(source) \/ \E i \in Range(Shown) : t \in Texts(source, State(i))
  BY PageFields
<1>2. \A i \in Range(Shown) : Texts(source, State(i)) \subseteq Page.texts
  BY PageFields
<1>3. \A i \in Items : i \in Range(Shown) <=> State(i) \in {"in", "later", "out"}
  BY ThoseAre DEF Shown
<1>4. Range(Shown) \subseteq Items
  BY ThoseAre DEF Shown
<1>5. \A i \in Range(Shown) : Tells(source, Texts(source, State(i)), State(i))
  <2>1. \A i \in Range(Shown) : State(i) \in {"in", "later", "out"}
                                 /\ (State(i) = "later" => HasLater(source))
    BY <1>3, <1>4, TruthIs
  <2> QED  BY <2>1, TextsTell
<1>6. Theme(source) \cap (shop.out \cup shop.in \cup shop.pre) = {}
  BY ThemeTellsNothing
<1> HIDE DEF shop
<1>7. ASSUME NEW i \in Range(Shown)
      PROVE  /\ State(i) = "out" => Texts(source, State(i)) \cap shop.out # {}
             /\ State(i) \in OnOffer => Texts(source, State(i)) \cap shop.out = {}
             /\ State(i) \in OnOffer => Texts(source, State(i)) \cap (shop.in \cup shop.pre) # {}
             /\ State(i) = "in" => Texts(source, State(i)) \cap shop.pre = {}
             /\ State(i) = "later" => Texts(source, State(i)) \cap shop.pre # {}
  BY <1>5 DEF Tells, shop
<1>8. \A i \in Range(Shown) : State(i) = "out" \/ State(i) \in OnOffer
  BY <1>3, <1>4 DEF OnOffer
<1>9. ASSUME NEW S, S \subseteq shop.out \cup shop.in \cup shop.pre
      PROVE  Page.texts \cap S # {}
               <=> \E i \in Range(Shown) : Texts(source, State(i)) \cap S # {}
  BY <1>1, <1>2, <1>6, <1>9
<1>10. Hits(Page, shop.out) <=> \E i \in Items : State(i) = "out"
  <2>1. Hits(Page, shop.out)
          <=> \E i \in Range(Shown) : Texts(source, State(i)) \cap shop.out # {}
    BY <1>9 DEF Hits
  <2>2. \A i \in Range(Shown) : Texts(source, State(i)) \cap shop.out # {} <=> State(i) = "out"
    BY <1>7, <1>8
  <2> QED  BY <1>3, <1>4, <2>1, <2>2
<1>11. ASSUME \A i \in Items : State(i) # "out"
       PROVE  /\ Hits(Page, shop.in \cup shop.pre) <=> \E i \in Items : State(i) \in OnOffer
              /\ Hits(Page, shop.pre) <=> \E i \in Items : State(i) = "later"
  <2>1. \A i \in Range(Shown) : State(i) \in OnOffer
    BY <1>4, <1>8, <1>11
  <2>2. \A i \in Items : State(i) \in OnOffer => i \in Range(Shown)
    BY <1>3 DEF OnOffer
  <2>3. Hits(Page, shop.in \cup shop.pre)
          <=> \E i \in Range(Shown) : Texts(source, State(i)) \cap (shop.in \cup shop.pre) # {}
    BY <1>9 DEF Hits
  <2>4. Hits(Page, shop.pre)
          <=> \E i \in Range(Shown) : Texts(source, State(i)) \cap shop.pre # {}
    BY <1>9 DEF Hits
  <2>5. \A i \in Range(Shown) : Texts(source, State(i)) \cap shop.pre # {} <=> State(i) = "later"
    BY <1>7, <2>1 DEF OnOffer
  <2>6. \A i \in Items : State(i) = "later" => State(i) \in OnOffer
    BY DEF OnOffer
  <2>7. Hits(Page, shop.in \cup shop.pre) <=> \E i \in Items : State(i) \in OnOffer
    BY <1>4, <1>7, <2>1, <2>2, <2>3
  <2>8. Hits(Page, shop.pre) <=> \E i \in Items : State(i) = "later"
    BY <1>4, <2>2, <2>4, <2>5, <2>6
  <2> QED  BY <2>7, <2>8
<1> QED  BY <1>10, <1>11 DEF shop

\* What a page that counts as an offer says.
PageOffer(f) ==
    /\ f.stock = 1 /\ f.preOrder \in BOOLEAN
    /\ Shown # <<>> /\ State(Shown[1]) \in OnOffer
    /\ f.price = IF source = "weinmannschanz" THEN NoPrice ELSE ReadPrice(Shown[1])
    /\ State("main") = "replaced" => layout.token = "none"
    /\ f.preOrder => \E j \in Items : State(j) = "later"
    /\ State(Shown[1]) = "later" => f.preOrder \/ source = "bobselektro"

\* A product that can be ordered has a page that says so.
PageComplete(v) == State("main") \in OnOffer /\ ~Hidden("main") => v # <<>>

\* The page is about its top item, which is the main one if that can be ordered.
LEMMA FirstShown ==
    /\ Shown # <<>> => Shown[1] \in Range(Shown) /\ Shown[1] \in Items
                       /\ State(Shown[1]) \in {"in", "later", "out"} /\ 1 \in DOMAIN Shown
    /\ Shown = <<>> => \A i \in Items : State(i) \notin {"in", "later", "out"}
    /\ State("main") \in {"in", "later", "out"} => Shown # <<>> /\ Shown[1] = "main"
<1>1. /\ Shown \in Seq(Items)
      /\ Range(Shown) = {i \in Items : State(i) \in {"in", "later", "out"}}
      /\ State("main") \in {"in", "later", "out"} => Shown # <<>> /\ Shown[1] = "main"
  BY ThoseAre DEF Shown
<1>2. Shown # <<>> => 1 \in DOMAIN Shown
  <2>1. Shown # <<>> => Len(Shown) \in Nat \ {0}
    BY <1>1, EmptySeq
  <2> QED  BY <1>1, <2>1, LenProperties
<1>3. Shown # <<>> => Shown[1] \in Range(Shown)
  BY <1>2 DEF Range
<1>4. Shown = <<>> => Range(Shown) = {}
  BY DEF Range
<1> QED  BY <1>1, <1>2, <1>3, <1>4

\* The configured shops report what the page is about.
LEMMA WebReads ==
    ASSUME WorldOK, source \in WebShops
    PROVE  LET v == PageVerdict(source, Page)
           IN  /\ PageComplete(v)
               /\ v = <<>> \/ \E f : v = <<f>> /\ PageOffer(f)
<1> DEFINE shop == Shop(source)
           v == PageVerdict(source, Page)
           f == Found(PriceFn(shop.priceFn, Page.prices), 1, Hits(Page, shop.pre))
           none == Page.token = "missing" \/ Hits(Page, shop.out)
                     \/ ~Hits(Page, shop.in \cup shop.pre)
<1>1. v = IF none THEN <<>> ELSE <<f>>
  <2>1. v = WebVerdict(shop, Page)
    <3>1. source # "grz" /\ source # "weinmannschanz" /\ source # "bobselektro"
      BY DEF WebShops
    <3> HIDE DEF shop
    <3>2. PageVerdict(source, Page) = WebVerdict(Shop(source), Page)
      BY <3>1, Zenon DEF PageVerdict
    <3> QED  BY <3>2 DEF shop
  <2> QED  BY <2>1, Zenon DEF WebVerdict
<1>2. source \in Pages /\ source # "weinmannschanz" /\ source \in TextPages
      /\ source # "bobselektro" /\ PageFn(source) = shop.priceFn
  BY DEF Pages, TextPages, WebShops, PageFn
<1>3. PageComplete(v)
  <2> SUFFICES ASSUME State("main") \in OnOffer, ~Hidden("main")  PROVE ~none
    BY <1>1 DEF PageComplete
  <2>1. State("main") # "out" /\ State("other") # "out" /\ State("main") # "replaced"
    BY <1>2 DEF Hidden, OnOffer
  <2>2. ~Hits(Page, shop.out)
    BY <2>1, HitsTell DEF Items
  <2>3. Hits(Page, shop.in \cup shop.pre)
    BY <2>2, HitsTell DEF Items
  <2>4. Page.token # "missing"
    BY <2>1, PageFields
  <2> QED  BY <2>2, <2>3, <2>4
<1>4. ASSUME ~none  PROVE PageOffer(f)
  <2>1. ~Hits(Page, shop.out) /\ Hits(Page, shop.in \cup shop.pre) /\ Page.token # "missing"
    BY <1>4
  <2>2. /\ \A i \in Items : State(i) # "out"
        /\ \E i \in Items : State(i) \in OnOffer
        /\ Hits(Page, shop.pre) <=> \E i \in Items : State(i) = "later"
    BY <2>1, HitsTell
  <2>3. Shown # <<>> /\ Shown[1] \in Items /\ State(Shown[1]) \in OnOffer
    BY <2>2, FirstShown DEF OnOffer
  <2>4. State("main") = "replaced" => layout.token = "none"
    BY <2>1, PageFields
  <2>5. f.stock = 1 /\ f.price = ReadPrice(Shown[1])
    BY <1>2, <2>3, PriceIsRead DEF Found
  <2>6. f.preOrder = Hits(Page, shop.pre) /\ Hits(Page, shop.pre) \in BOOLEAN
    BY DEF Found, Hits
  <2> HIDE DEF f, none, v
  <2>7. f.preOrder \in BOOLEAN /\ (f.preOrder <=> \E i \in Items : State(i) = "later")
    BY <2>2, <2>6
  <2> QED  BY <1>2, <2>3, <2>4, <2>5, <2>7 DEF PageOffer
<1> HIDE DEF f, none, v
<1>5. v = <<>> \/ \E g : v = <<g>> /\ PageOffer(g)
  BY <1>1, <1>4
<1> QED  BY <1>3, <1>5 DEF v

\* grz reports it by the lead time, whatever the constant markers say.
LEMMA GrzReads ==
    ASSUME WorldOK, source = "grz"
    PROVE  LET v == PageVerdict(source, Page)
           IN  /\ PageComplete(v)
               /\ v = <<>> \/ \E f : v = <<f>> /\ PageOffer(f)
<1> DEFINE v == PageVerdict(source, Page)
           f == Found(ParsePrice(Page.prices), 1, Page.lead > GrzInStockMaxDays)
           none == Page.token = "missing" \/ Hits(Page, GrzSoldOut) \/ Page.lead = None
<1>1. v = IF none THEN <<>> ELSE <<f>>
  BY DEF PageVerdict, GrzVerdict, WebShops
<1>2. source \in Pages /\ source # "weinmannschanz" /\ source \in TextPages
      /\ source # "bobselektro" /\ PageFn(source) = "schema"
  BY DEF Pages, TextPages, WebShops, PageFn
<1>3. /\ \A i \in Items : i \in Range(Shown) <=> State(i) \in {"in", "later", "out"}
      /\ Range(Shown) \subseteq Items
  BY ThoseAre DEF Shown
<1>4. \A i \in Range(Shown) :
          Texts(source, State(i)) = {"LimitedAvailability"}
            \cup (IF State(i) = "out" THEN {"nicht mehr verf"} ELSE {})
  BY DEF Texts
<1>5. Hits(Page, GrzSoldOut) <=> \E i \in Items : State(i) = "out"
  <2>1. Theme(source) = {}
    BY DEF Theme
  <2>2. \A t \in Page.texts : \E i \in Range(Shown) : t \in Texts(source, State(i))
    BY <2>1, PageFields
  <2>3. \A i \in Range(Shown) : Texts(source, State(i)) \subseteq Page.texts
    BY PageFields
  <2>4. \A i \in Range(Shown) :
            /\ State(i) = "out" => "nicht mehr verf" \in Texts(source, State(i))
            /\ State(i) # "out" => \A t \in Texts(source, State(i)) : t = "LimitedAvailability"
    BY <1>4
  <2>5. "nicht mehr verf" \in GrzSoldOut /\ "LimitedAvailability" \notin GrzSoldOut
    BY DEF GrzSoldOut
  <2>6. Page.texts \cap GrzSoldOut # {} <=> \E i \in Range(Shown) : State(i) = "out"
    BY <2>2, <2>3, <2>4, <2>5
  <2> QED  BY <1>3, <2>6 DEF Hits
<1>6. /\ Timed \in Seq(Items) /\ Range(Timed) = {i \in Items : State(i) \in OnOffer}
      /\ State("main") \in OnOffer => Timed # <<>> /\ Timed[1] = "main"
      /\ Timed # <<>> => Timed[1] \in Items /\ State(Timed[1]) \in OnOffer
  <2>1. /\ Timed \in Seq(Items) /\ Range(Timed) = {i \in Items : State(i) \in OnOffer}
        /\ State("main") \in OnOffer => Timed # <<>> /\ Timed[1] = "main"
    BY ThoseAre DEF Timed
  <2>2. Timed # <<>> => 1 \in DOMAIN Timed
    <3>1. Timed # <<>> => Len(Timed) \in Nat \ {0}
      BY <2>1, EmptySeq
    <3> QED  BY <2>1, <3>1, LenProperties
  <2>3. Timed # <<>> => Timed[1] \in Range(Timed)
    BY <2>2 DEF Range
  <2> QED  BY <2>1, <2>3
<1>7. PageComplete(v)
  <2> SUFFICES ASSUME State("main") \in OnOffer, ~Hidden("main")  PROVE ~none
    BY <1>1 DEF PageComplete
  <2>1. State("main") # "out" /\ State("other") # "out" /\ State("main") # "replaced"
    BY <1>2 DEF Hidden, OnOffer
  <2>2. ~Hits(Page, GrzSoldOut)
    BY <1>5, <2>1 DEF Items
  <2>3. Page.lead = Lead(State("main")) /\ Lead(State("main")) \in Nat
    BY <1>6, PageFields DEF Lead
  <2>4. Page.lead # None
    BY <2>3, NoPriceAssumption
  <2>5. Page.token # "missing"
    BY <2>1, PageFields
  <2> QED  BY <2>2, <2>4, <2>5
<1>8. ASSUME ~none  PROVE PageOffer(f)
  <2>1. ~Hits(Page, GrzSoldOut) /\ Page.lead # None /\ Page.token # "missing"
    BY <1>8
  <2>2. Timed # <<>> /\ Page.lead = Lead(State(Timed[1]))
    BY <2>1, PageFields
  <2>3. \A i \in Items : State(i) # "out"
    BY <1>5, <2>1
  <2>4. Shown # <<>> /\ Shown[1] \in Items /\ State(Shown[1]) \in OnOffer
    BY <1>6, <2>2, <2>3, FirstShown DEF OnOffer
  <2>5. State(Shown[1]) = State(Timed[1])
    <3>1. CASE State("main") \in OnOffer
      BY <1>6, <3>1, FirstShown DEF OnOffer
    <3>2. CASE State("main") \notin OnOffer
      BY <1>6, <2>2, <2>4, <3>2 DEF Items
    <3> QED  BY <3>1, <3>2
  <2>6. State("main") = "replaced" => layout.token = "none"
    BY <2>1, PageFields
  <2>7. f.stock = 1 /\ f.price = ReadPrice(Shown[1])
    <3>1. PriceFn("schema", Page.prices) = ParsePrice(Page.prices)
      BY DEF PriceFn
    <3> QED  BY <1>2, <2>4, <3>1, PriceIsRead DEF Found
  <2>8. f.preOrder = (Page.lead > GrzInStockMaxDays)
    BY DEF Found
  <2>9. (Page.lead > GrzInStockMaxDays) <=> State(Timed[1]) = "later"
    BY <1>6, <2>2 DEF Lead, GrzInStockMaxDays, OnOffer
  <2> HIDE DEF f, none, v
  <2>10. f.preOrder \in BOOLEAN /\ (f.preOrder <=> State(Timed[1]) = "later")
    <3> DEFINE late == Page.lead > GrzInStockMaxDays
    <3>1. late \in BOOLEAN
      OBVIOUS
    <3> HIDE DEF late
    <3> QED  BY <2>8, <2>9, <3>1, Zenon DEF late
  <2> QED  BY <1>2, <1>6, <2>2, <2>4, <2>5, <2>6, <2>7, <2>10 DEF PageOffer
<1> HIDE DEF f, none, v
<1>9. v = <<>> \/ \E g : v = <<g>> /\ PageOffer(g)
  BY <1>1, <1>8
<1> QED  BY <1>7, <1>9 DEF v

\* Weinmannschanz shows the first blob, bobselektro the first badge.
LEMMA WeinmannReads ==
    ASSUME WorldOK, source = "weinmannschanz"
    PROVE  LET v == PageVerdict(source, Page)
           IN  /\ PageComplete(v)
               /\ v = <<>> \/ \E f : v = <<f>> /\ PageOffer(f)
<1> DEFINE v == PageVerdict(source, Page)
           f == Found(NoPrice, 1, FALSE)
<1>1. v = IF Page.token = "missing" \/ Page.stocks = <<>> THEN <<>>
          ELSE IF Page.stocks[1] # 1 THEN <<>> ELSE <<f>>
  <2>1. v = WeinmannVerdict(Page)
    BY DEF PageVerdict, WebShops
  <2> QED  BY <2>1 DEF WeinmannVerdict
<1>2. /\ Shown = <<>> => Page.stocks = <<>>
      /\ Shown # <<>> => Page.stocks # <<>> /\ Page.stocks[1] = StockId(State(Shown[1]))
  BY PageFields, FirstShown
<1>3. PageComplete(v)
  <2> SUFFICES ASSUME State("main") \in OnOffer, ~Hidden("main")  PROVE v = <<f>>
    BY DEF PageComplete
  <2>1. State("main") = "in"
    BY DEF Hidden, OnOffer
  <2>2. Shown # <<>> /\ Shown[1] = "main" /\ Page.stocks # <<>> /\ Page.stocks[1] = 1
    BY <1>2, <2>1, FirstShown DEF StockId
  <2>3. Page.token # "missing"
    BY <2>1, PageFields
  <2> QED  BY <1>1, <2>2, <2>3
<1>4. ASSUME v # <<>>  PROVE v = <<f>> /\ PageOffer(f)
  <2>1. Page.token # "missing" /\ Page.stocks # <<>> /\ Page.stocks[1] = 1 /\ v = <<f>>
    BY <1>1, <1>4
  <2>2. Shown # <<>> /\ StockId(State(Shown[1])) = 1
    BY <1>2, <2>1
  <2>3. State(Shown[1]) = "in"
    BY <2>2 DEF StockId
  <2>4. State("main") = "replaced" => layout.token = "none"
    BY <2>1, PageFields
  <2>5. f.stock = 1 /\ f.price = NoPrice /\ f.preOrder = FALSE
    BY DEF Found
  <2> QED  BY <2>1, <2>2, <2>3, <2>4, <2>5 DEF PageOffer, OnOffer
<1> HIDE DEF f, v
<1> QED  BY <1>3, <1>4 DEF v

LEMMA BobsReads ==
    ASSUME WorldOK, source = "bobselektro"
    PROVE  LET v == PageVerdict(source, Page)
           IN  /\ PageComplete(v)
               /\ v = <<>> \/ \E f : v = <<f>> /\ PageOffer(f)
<1> DEFINE v == PageVerdict(source, Page)
           f == Found(PriceFn("box", Page.prices), 1, FALSE)
<1>1. v = IF Page.badges = <<>> THEN <<>>
          ELSE IF Page.badges[1] = "red" THEN <<>> ELSE <<f>>
  <2>1. v = BobsVerdict(Page)
    BY DEF PageVerdict, WebShops
  <2> QED  BY <2>1 DEF BobsVerdict
<1>2. /\ Shown = <<>> => Page.badges = <<>>
      /\ Shown # <<>> => Page.badges # <<>> /\ Page.badges[1] = Badge(State(Shown[1]))
  BY PageFields, FirstShown
<1>3. PageComplete(v)
  <2> SUFFICES ASSUME State("main") \in OnOffer  PROVE v = <<f>>
    BY DEF PageComplete
  <2>1. Shown # <<>> /\ Shown[1] = "main" /\ Page.badges # <<>> /\ Page.badges[1] # "red"
    BY <1>2, FirstShown DEF Badge, OnOffer
  <2> QED  BY <1>1, <2>1
<1>4. ASSUME v # <<>>  PROVE v = <<f>> /\ PageOffer(f)
  <2>1. Page.badges # <<>> /\ Page.badges[1] # "red" /\ v = <<f>>
    BY <1>1, <1>4
  <2>2. Shown # <<>> /\ State(Shown[1]) \in OnOffer
    BY <1>2, <2>1, FirstShown DEF Badge, OnOffer
  <2>3. source \in Pages /\ PageFn(source) = "box"
    BY DEF Pages, PageFn, WebShops
  <2>4. layout.token = "none"
    BY <2>3, LayoutIs
  <2>5. f.stock = 1 /\ f.price = ReadPrice(Shown[1]) /\ f.preOrder = FALSE
    BY <2>2, <2>3, PriceIsRead DEF Found
  <2> QED  BY <2>1, <2>2, <2>4, <2>5 DEF PageOffer
<1> HIDE DEF f, v
<1> QED  BY <1>3, <1>4 DEF v

\* Each page is read as what it shows.
LEMMA PageReads ==
    ASSUME WorldOK, source \in Pages
    PROVE  LET v == PageVerdict(source, Page)
           IN  /\ PageComplete(v)
               /\ v = <<>> \/ \E f : v = <<f>> /\ PageOffer(f)
<1>1. source \in WebShops \/ source \in {"grz", "weinmannschanz", "bobselektro"}
  BY DEF Pages, TextPages
<1> QED  BY <1>1, WebReads, GrzReads, WeinmannReads, BobsReads

-----------------------------------------------------------------------------
(* What an answer says, row by row *)

\* A row of the right form.
RowTyped(a) ==
    /\ a.price \in Nat \cup {NoPrice} /\ a.stock \in Nat \ {0} /\ a.preOrder \in BOOLEAN

\* It is about an item that can be ordered, at its price.
RowTruthful(a) ==
    \E i \in Items :
        /\ a.key \in KeysOf(i) \/ Unguarded
        /\ State(i) \in OnOffer
        /\ Nearby(a.place) => Wanted(i)
        /\ Priced(i) /\ ~Ambiguous(i) => a.price = Euros(i)
        /\ a.preOrder => \E j \in Items : State(j) = "later"
        /\ State(i) = "later" => a.preOrder \/ source = "bobselektro"

\* What a price of so many cents is read as.
SeenPrice(cents) == IF AmbiguousAt(cents) THEN cents ELSE cents * 1000

LEMMA SeenIs ==
    /\ \A i \in Items : ~Ambiguous(i) => SeenPrice(truth[i].cents) = Euros(i)
    /\ source \notin Pages => \A i \in Items : ~Ambiguous(i)
BY DEF SeenPrice, Ambiguous, AmbiguousAt, Euros

\* The rows of an item that can be ordered have its price.
RowExact(a) ==
    \A i \in Items :
        State(i) \in OnOffer /\ a.key \in KeysOf(i) /\ Priced(i)
            => a.price = SeenPrice(truth[i].cents)

\* A row for each key of an item that can be ordered, near and not too dear.
RowFor(rs, i, k) ==
    \E a \in rs :
        /\ a.key = k /\ Nearby(a.place)
        /\ IF Priced(i) THEN a.price \in Nat /\ a.price <= Euros(i) ELSE a.price = NoPrice

\* What holds of an answer with these rows.
AnswerHolds(rs) ==
    /\ \A a \in rs : RowTyped(a) /\ RowExact(a) /\ RowTruthful(a)
    /\ \A i \in Items : \A k \in KeysOf(i) :
          State(i) \in OnOffer /\ Wanted(i) /\ ~Hidden(i) => RowFor(rs, i, k)

\* The price that is read is never too high, and exact unless it is ambiguous.
LEMMA ReadPriceIs ==
    ASSUME WorldOK, source \in Pages, NEW i \in Items, State(i) \in OnOffer
    PROVE  /\ ReadPrice(i) \in Nat /\ ReadPrice(i) <= Euros(i)
           /\ ReadPrice(i) = SeenPrice(truth[i].cents)
<1>1. truth[i].cents \in Nat \ {0} /\ layout.notation \in Notations
  <2>1. truth[i].cents \in Cents
    BY TruthIs
  <2> QED  BY <2>1, CentsAre, LayoutIs
<1>2. CASE layout.block = "cents"
  BY <1>1, <1>2 DEF ReadPrice, Euros, SeenPrice, AmbiguousAt
<1>3. CASE layout.block # "cents"
  <2>1. ReadPrice(i) = ParseAmount(AsPrinted(truth[i].cents, layout.notation))
    BY <1>3 DEF ReadPrice
  <2> QED  BY <1>1, <1>3, <2>1, ReadExactly, ReadAThousandth, NeverTooHigh
       DEF SeenPrice, AmbiguousAt, Euros
<1> QED  BY <1>2, <1>3

\* The answer of a page is right.
LEMMA PageHolds ==
    ASSUME WorldOK, source \in Pages
    PROVE  \E T : Answer \in Seq(T) /\ AnswerHolds(Range(Answer))
<1> DEFINE v == PageVerdict(source, Page)
<1>1. /\ State("main") = "removed" => Answer = <<>>
      /\ State("main") # "removed" => Answer = PageAnswer(source, "main", Page)
  <2>1. /\ source # "expert" /\ source # "obi" /\ source # "braucheklima"
        /\ source # "krasserstoff" /\ source # "collection" /\ source # "bauhaus"
    BY DEF Pages, TextPages, WebShops
  <2>2. Answer = IF State("main") = "removed" THEN <<>> ELSE PageAnswer(source, "main", Page)
    BY <2>1, Zenon DEF Answer
  <2> QED  BY <2>2
<1>2. PageAnswer(source, "main", Page)
        = [i \in DOMAIN v |-> Row(<<"page", "main">>, Online, v[i])]
  BY DEF PageAnswer
<1>3. PageComplete(v) /\ (v = <<>> \/ \E f : v = <<f>> /\ PageOffer(f))
  BY PageReads
<1> HIDE DEF v
<1>4. /\ KeysOf("main") = {<<"page", "main">>} /\ KeysOf("other") = {}
      /\ Wanted("main") /\ (Priced("main") <=> source # "weinmannschanz")
      /\ Items = {"main", "other"}
  BY DEF KeysOf, Wanted, Priced, Items, Pages, TextPages, WebShops
<1>5. CASE State("main") = "removed" \/ v = <<>>
  <2>1. Answer = <<>>
    BY <1>1, <1>2, <1>5
  <2>2. Range(Answer) = {}
    BY <2>1 DEF Range
  <2>3. State("main") \in OnOffer => Hidden("main")
    BY <1>3, <1>5 DEF PageComplete, OnOffer
  <2>4. AnswerHolds({})
    BY <1>4, <2>3 DEF AnswerHolds
  <2>5. Answer \in Seq({})
    BY <2>1
  <2> QED  BY <2>2, <2>4, <2>5
<1>6. CASE State("main") # "removed" /\ v # <<>>
  <2>1. PICK f : v = <<f>> /\ PageOffer(f)
    BY <1>3, <1>6
  <2> DEFINE a == Row(<<"page", "main">>, Online, f)
  <2>2. Answer = <<a>>
    <3>1. DOMAIN v = 1..1 /\ v[1] = f
      BY <2>1
    <3>2. Answer = [i \in 1..1 |-> Row(<<"page", "main">>, Online, v[i])]
      BY <1>1, <1>2, <1>6, <3>1
    <3> HIDE DEF a
    <3>3. \A i \in 1..1 : Row(<<"page", "main">>, Online, v[i]) = a
      BY <3>1 DEF a
    <3>4. Answer = [i \in 1..1 |-> a]
      BY <3>2, <3>3
    <3> QED  BY <3>4
  <2>3. Answer \in Seq({a}) /\ Range(Answer) = {a}
    <3> HIDE DEF a
    <3> QED  BY <2>2 DEF Range
  <2>4. /\ a.key = <<"page", "main">> /\ a.place = Online /\ a.price = f.price
        /\ a.stock = f.stock /\ a.preOrder = f.preOrder
    BY DEF Row
  <2> HIDE DEF a
  <2>5. Nearby(Online)
    BY DEF Nearby, Online
  <2>6. Shown # <<>> /\ Shown[1] \in Items /\ State(Shown[1]) \in OnOffer
    BY <2>1, FirstShown DEF PageOffer
  <2>7. /\ source # "weinmannschanz" => a.price = ReadPrice(Shown[1])
        /\ source = "weinmannschanz" => a.price = NoPrice
    BY <2>1, <2>4 DEF PageOffer
  <2>8. ReadPrice(Shown[1]) \in Nat
    BY <2>6, ReadPriceIs
  <2>9. RowTyped(a)
    <3>1. a.price \in Nat \cup {NoPrice} /\ a.stock \in Nat \ {0}
      BY <2>1, <2>4, <2>7, <2>8 DEF PageOffer
    <3>2. a.preOrder \in BOOLEAN
      BY <2>1, <2>4 DEF PageOffer
    <3> QED  BY <3>1, <3>2 DEF RowTyped
  <2>10. State("main") \in OnOffer => Shown[1] = "main"
    BY FirstShown DEF OnOffer
  <2>11. State("main") \in OnOffer /\ Priced("main")
           => a.price = SeenPrice(truth["main"].cents)
    BY <1>4, <2>6, <2>7, <2>10, ReadPriceIs
  <2>12. RowExact(a)
    BY <1>4, <2>4, <2>11 DEF RowExact
  <2>13. a.key \in KeysOf(Shown[1]) \/ Unguarded
    <3>1. CASE Shown[1] = "main"
      BY <1>4, <2>4, <3>1
    <3>2. CASE Shown[1] # "main"
      <4>1. State("main") \in {"in", "later", "out", "removed", "replaced"}
        BY <1>4, TruthIs
      <4>2. State("main") = "replaced"
        BY <1>6, <3>2, <4>1, FirstShown
      <4> QED  BY <2>1, <4>2 DEF PageOffer, Unguarded
    <3> QED  BY <3>1, <3>2
  <2>14. RowTruthful(a)
    <3>1. /\ a.preOrder => \E j \in Items : State(j) = "later"
          /\ State(Shown[1]) = "later" => a.preOrder \/ source = "bobselektro"
      BY <2>1, <2>4 DEF PageOffer
    <3>2. Wanted(Shown[1])
      BY DEF Wanted, Pages, TextPages, WebShops
    <3>3. Priced(Shown[1]) /\ ~Ambiguous(Shown[1]) => a.price = Euros(Shown[1])
      <4>1. Priced(Shown[1]) => source # "weinmannschanz"
        BY DEF Priced
      <4> QED  BY <2>6, <2>7, <4>1, ReadPriceIs, SeenIs
    <3> QED  BY <2>6, <2>13, <3>1, <3>2, <3>3, Zenon DEF RowTruthful
  <2>15. State("main") \in OnOffer => RowFor({a}, "main", <<"page", "main">>)
    BY <1>4, <2>4, <2>5, <2>6, <2>7, <2>10, ReadPriceIs DEF RowFor
  <2>16. AnswerHolds({a})
    BY <1>4, <2>9, <2>12, <2>14, <2>15 DEF AnswerHolds
  <2> QED  BY <2>3, <2>16
<1> QED  BY <1>5, <1>6

-----------------------------------------------------------------------------
(* The feeds *)
\* A feed flattened over its items.
LEMMA FlatOver ==
    ASSUME NEW E, NEW T, NEW part, \A e \in E : part[e] \in Seq(T), NEW entries \in Seq(E)
    PROVE  LET flat == FlattenSeq([j \in DOMAIN entries |-> part[entries[j]]])
           IN  flat \in Seq(T) /\ Range(flat) = UNION {Range(part[e]) : e \in Range(entries)}
<1> DEFINE parts == [j \in DOMAIN entries |-> part[entries[j]]]
<1>1. DOMAIN entries = 1..Len(entries) /\ Len(entries) \in Nat
      /\ \A j \in 1..Len(entries) : entries[j] \in E
  BY LenProperties, ElementOfSeq
<1>2. parts \in [1..Len(entries) -> Seq(T)]
  BY <1>1
<1>3. parts \in Seq(Seq(T))
  BY <1>1, <1>2, SeqDef
<1>4. DOMAIN parts = DOMAIN entries /\ \A j \in DOMAIN entries : parts[j] = part[entries[j]]
  OBVIOUS
<1>5. UNION {Range(parts[i]) : i \in DOMAIN parts}
        = UNION {Range(part[e]) : e \in Range(entries)}
  BY <1>4 DEF Range
<1>6. FlattenSeq(parts) \in Seq(T)
      /\ Range(FlattenSeq(parts)) = UNION {Range(parts[i]) : i \in DOMAIN parts}
  <2> HIDE DEF parts
  <2> QED  BY <1>3, Flattened, Zenon
<1> QED  BY <1>5, <1>6

\* A row of an item that is in stock.
RowOf(a, i) ==
    /\ State(i) = "in" /\ a.key \in KeysOf(i)
    /\ Nearby(a.place) => Wanted(i)
    /\ Priced(i) => a.price = Euros(i)

\* A row of that key and price, near enough.
FeedRow(a, k, price) == a.key = k /\ Nearby(a.place) /\ a.price = price

\* The feeds have no pre-orders, and each key of an item that has a price is its own.
LEMMA FeedHolds ==
    ASSUME WorldOK, source \in Kinds \ Pages, ~HasLater(source), NEW rs,
           \A a \in rs : RowTyped(a) /\ a.preOrder = FALSE /\ \E i \in Items : RowOf(a, i),
           \A i \in Items : \A k \in KeysOf(i) :
               State(i) = "in" /\ Wanted(i) =>
                   \E a \in rs : FeedRow(a, k, IF Priced(i) THEN Euros(i) ELSE NoPrice)
    PROVE  AnswerHolds(rs)
<1>1. \A i \in Items : (State(i) \in OnOffer => State(i) = "in")
                        /\ truth[i].cents \in Nat /\ Euros(i) \in Nat
  BY TruthIs DEF OnOffer, Euros
<1>2. \A i, j \in Items : Priced(i) /\ (\E k : k \in KeysOf(i) /\ k \in KeysOf(j)) => i = j
  <2>1. source \in {"expert", "braucheklima", "krasserstoff", "collection"}
        => \A i, j \in Items : (\E k : k \in KeysOf(i) /\ k \in KeysOf(j)) => i = j
    <3>1. source \notin Pages
      OBVIOUS
    <3>2. source = "expert" => KeysOf("main") = {<<"expert", "main">>} /\ KeysOf("other") = {}
      BY <3>1 DEF KeysOf
    <3>3. source = "braucheklima" => \A i \in Items : KeysOf(i) = {<<"article", i>>}
      BY <3>1 DEF KeysOf
    <3>4. source = "krasserstoff"
          => KeysOf("main") = {<<"event", "main">>} /\ KeysOf("other") = {<<"resale", "other">>}
      BY <3>1 DEF KeysOf
    <3>5. source = "collection" => \A i \in Items : KeysOf(i) = {<<"product", i>>}
      BY <3>1 DEF KeysOf
    <3> QED  BY <3>2, <3>3, <3>4, <3>5 DEF Items
  <2>2. \A i \in Items : Priced(i)
           => source \in {"expert", "braucheklima", "krasserstoff", "collection"}
    BY DEF Priced, Kinds
  <2> QED  BY <2>1, <2>2
<1>3. ASSUME NEW a \in rs  PROVE RowExact(a)
  <2>1. PICK j \in Items : RowOf(a, j)
    OBVIOUS
  <2>2. \A i \in Items : a.key \in KeysOf(i) /\ Priced(i) => i = j
    BY <1>2, <2>1 DEF RowOf
  <2>3. SeenPrice(truth[j].cents) = Euros(j)
    BY SeenIs
  <2> QED  BY <2>1, <2>2, <2>3 DEF RowExact, RowOf
<1>4. ASSUME NEW a \in rs  PROVE RowTruthful(a)
  <2>1. PICK i \in Items : RowOf(a, i)
    OBVIOUS
  <2>2. State(i) \in OnOffer /\ State(i) # "later" /\ ~a.preOrder
    BY <2>1 DEF RowOf, OnOffer
  <2> QED  BY <2>1, <2>2, Zenon DEF RowTruthful, RowOf
<1>5. ASSUME NEW i \in Items, NEW k \in KeysOf(i), State(i) \in OnOffer, Wanted(i)
      PROVE  RowFor(rs, i, k)
  <2>1. PICK a \in rs : FeedRow(a, k, IF Priced(i) THEN Euros(i) ELSE NoPrice)
    BY <1>1, <1>5
  <2>2. CASE Priced(i)
    <3>1. a.key = k /\ Nearby(a.place) /\ a.price \in Nat /\ a.price <= Euros(i)
      BY <1>1, <2>1, <2>2 DEF FeedRow
    <3> QED  BY <2>2, <3>1 DEF RowFor
  <2>3. CASE ~Priced(i)
    BY <2>1, <2>3 DEF RowFor, FeedRow
  <2> QED  BY <2>2, <2>3
<1> QED  BY <1>3, <1>4, <1>5 DEF AnswerHolds

\* Each article of the collection that is available, at the price of its variant.
LEMMA ProductIs ==
    ASSUME WorldOK, NEW i \in Items
    PROVE  /\ State(i) = "in" => ProductRows(ProductSays(i)) =
                 <<Row(<<"product", i>>, Online, Found(Euros(i), 1, FALSE))>>
           /\ State(i) # "in" => ProductRows(ProductSays(i)) = <<>>
<1> DEFINE product == ProductSays(i)
           raw == AsPrinted(truth[i].cents, "schema")
           v == [available |-> State(i) = "in", price |-> raw]
           w == [available |-> FALSE, price |-> AsPrinted(100, "schema")]
<1>1. product.variants = {v, w} /\ product.id = i
  BY DEF ProductSays
<1>2. v.available = (State(i) = "in") /\ w.available = FALSE /\ v.price = raw
  OBVIOUS
<1> HIDE DEF product, v, w
<1>3. CASE State(i) # "in"
  <2>1. \A u \in product.variants : ~u.available
    BY <1>1, <1>2, <1>3
  <2> QED  BY <1>3, <2>1 DEF ProductRows, product
<1>4. CASE State(i) = "in"
  <2>1. v.available /\ ~w.available
    BY <1>2, <1>4
  <2>2. {u \in product.variants : u.available} = {v}
    BY <1>1, <2>1
  <2>3. ParseAmount(raw) = Euros(i) /\ Euros(i) \in Nat
    <3>1. truth[i].cents \in Nat /\ truth[i].cents >= 100
      BY <1>4, TruthIs, CentsAre DEF OnOffer
    <3>2. ~Misleading(truth[i].cents, "schema") /\ "schema" \in Notations
      BY DEF Misleading, Notations
    <3> QED  BY <3>1, <3>2, ReadExactly DEF Euros
  <2>4. {ParseAmount(u.price) : u \in {u \in product.variants : u.available}} \ {NoPrice}
          = {Euros(i)}
    BY <1>2, <2>2, <2>3, NoPriceAssumption
  <2>5. Min({Euros(i)}) = Euros(i)
    BY <2>3 DEF Min
  <2>6. MinAvailablePrice(product.variants) = Euros(i)
    BY <2>4, <2>5 DEF MinAvailablePrice
  <2>7. ~\A u \in product.variants : ~u.available
    BY <1>1, <2>1
  <2>8. ProductRows(product) = <<Row(<<"product", i>>, Online, Found(Euros(i), 1, FALSE))>>
    BY <1>1, <2>6, <2>7 DEF ProductRows
  <2> QED  BY <1>4, <2>8 DEF product
<1> QED  BY <1>3, <1>4

\* Each item that is in stock has one row.
OneRow(row, i) ==
    /\ KeysOf(i) = {row[i].key}
    /\ row[i].price = IF Priced(i) THEN Euros(i) ELSE NoPrice
    /\ row[i].stock \in Nat \ {0} /\ row[i].preOrder = FALSE
    /\ Nearby(row[i].place) <=> Wanted(i)

\* An answer of one row for each item that is in stock is right.
LEMMA OneRowEach ==
    ASSUME WorldOK, source \in Kinds \ Pages, ~HasLater(source), NEW rs, NEW row,
           \A a : a \in rs <=> \E i \in Items : State(i) = "in" /\ a = row[i],
           \A i \in Items : State(i) = "in" => OneRow(row, i)
    PROVE  AnswerHolds(rs)
<1>1. ASSUME NEW i \in Items, State(i) = "in"
      PROVE  RowTyped(row[i]) /\ row[i].preOrder = FALSE /\ RowOf(row[i], i)
  <2>1. OneRow(row, i) /\ Euros(i) \in Nat
    BY <1>1, TruthIs DEF Euros
  <2>2. row[i].price \in Nat \cup {NoPrice} /\ row[i].stock \in Nat \ {0}
    BY <2>1 DEF OneRow
  <2>3. row[i].preOrder \in BOOLEAN
    BY <2>1 DEF OneRow
  <2>4. RowTyped(row[i])
    BY <2>2, <2>3, Zenon DEF RowTyped
  <2> QED  BY <1>1, <2>1, <2>4 DEF RowOf, OneRow
<1>2. ASSUME NEW a \in rs
      PROVE  RowTyped(a) /\ a.preOrder = FALSE /\ \E i \in Items : RowOf(a, i)
  <2>1. PICK i \in Items : State(i) = "in" /\ a = row[i]
    OBVIOUS
  <2> QED  BY <1>1, <2>1
<1>3. ASSUME NEW i \in Items, NEW k \in KeysOf(i), State(i) = "in", Wanted(i)
      PROVE  row[i] \in rs /\ FeedRow(row[i], k, IF Priced(i) THEN Euros(i) ELSE NoPrice)
  BY <1>3 DEF OneRow, FeedRow
<1> QED  BY <1>2, <1>3, FeedHolds

\* The entries of a feed are those of the items it lists.
LEMMA EntriesAre ==
    ASSUME NEW S, NEW say
    PROVE  LET entries == [j \in DOMAIN Those(S) |-> say[Those(S)[j]]]
           IN  /\ entries \in Seq({say[i] : i \in Items})
               /\ \A e : e \in Range(entries) <=> \E i \in Items : State(i) \in S /\ e = say[i]
<1> DEFINE items == Those(S)
           entries == [j \in DOMAIN items |-> say[items[j]]]
           E == {say[i] : i \in Items}
<1>1. items \in Seq(Items) /\ Range(items) = {i \in Items : State(i) \in S}
  BY ThoseAre
<1> HIDE DEF items
<1>2. DOMAIN items = 1..Len(items) /\ Len(items) \in Nat
      /\ \A j \in 1..Len(items) : items[j] \in Items
  BY <1>1, LenProperties, ElementOfSeq
<1>3. entries \in [1..Len(items) -> E]
  BY <1>2
<1>4. entries \in Seq(E)
  <2> HIDE DEF E, entries
  <2> QED  BY <1>2, <1>3, SeqDef
<1>5. \A e : e \in Range(entries) <=> \E i \in Range(items) : e = say[i]
  BY <1>2 DEF Range
<1> QED  BY <1>1, <1>4, <1>5 DEF items

\* The rows rs of the entries es: say[i] is the entry of an item in one of the
\* states S, and it has a row while the item is in stock.
Lists(rs, es, part, S, say, row) ==
    /\ \A a : a \in rs <=> \E e \in es : a \in Range(part[e])
    /\ \A e \in es : Range(part[e]) # {} => \E i \in Items : State(i) \in S /\ e = say[i]
    /\ \A i \in Items : State(i) \in S =>
          /\ say[i] \in es
          /\ Range(part[say[i]]) = IF State(i) = "in" THEN {row[i]} ELSE {}

\* They are the rows of the items in stock.
LEMMA ListedRows ==
    ASSUME NEW rs, NEW es, NEW part, NEW S, NEW say, NEW row, "in" \in S,
           Lists(rs, es, part, S, say, row)
    PROVE  \A a : a \in rs <=> \E i \in Items : State(i) = "in" /\ a = row[i]
<1> USE DEF Lists
<1>2. ASSUME NEW a \in rs
      PROVE  \E i \in Items : State(i) = "in" /\ a = row[i]
  <2>1. PICK e \in es : a \in Range(part[e])
    OBVIOUS
  <2>2. PICK i \in Items : State(i) \in S /\ e = say[i]
    BY <2>1
  <2>3. a \in IF State(i) = "in" THEN {row[i]} ELSE {}
    BY <2>1, <2>2
  <2> QED  BY <2>3
<1>3. ASSUME NEW i \in Items, State(i) = "in"  PROVE row[i] \in rs
  <2>1. State(i) \in S
    BY <1>3
  <2>2. Range(part[say[i]]) = {row[i]} /\ say[i] \in es
    BY <1>3, <2>1
  <2> QED  BY <2>2
<1> QED  BY <1>2, <1>3

\* The answer of a Shopify collection is right.
LEMMA CollectionHolds ==
    ASSUME WorldOK, source = "collection"
    PROVE  \E T : Answer \in Seq(T) /\ AnswerHolds(Range(Answer))
<1> DEFINE say == [i \in Items |-> ProductSays(i)]
           row == [i \in Items |-> Row(<<"product", i>>, Online, Found(Euros(i), 1, FALSE))]
           E == {say[i] : i \in Items}
           T == {row[i] : i \in Items}
           part == [e \in E |-> ProductRows(e)]
           entries == [j \in DOMAIN Those({"in", "out"}) |-> say[Those({"in", "out"})[j]]]
           flat == FlattenSeq([j \in DOMAIN entries |-> part[entries[j]]])
<1>1. /\ entries \in Seq(E)
      /\ \A e : e \in Range(entries) <=> \E i \in Items : State(i) \in {"in", "out"} /\ e = say[i]
  <2> HIDE DEF say
  <2> QED  BY EntriesAre
<1>2. Answer = flat
  <2>1. Answer = CollectionAnswer(Entries({"in", "out"}, ProductSays))
    BY DEF Answer, Pages, TextPages, WebShops
  <2>2. Entries({"in", "out"}, ProductSays) = entries
    <3>1. \A j \in DOMAIN Those({"in", "out"}) : Those({"in", "out"})[j] \in Items
      BY ThoseAre, LenProperties, ElementOfSeq
    <3> QED  BY <3>1 DEF Entries
  <2>3. \A j \in DOMAIN entries : entries[j] \in E
    <3> HIDE DEF entries, E
    <3> QED  BY <1>1, LenProperties, ElementOfSeq
  <2> HIDE DEF entries, E
  <2>4. [j \in DOMAIN entries |-> part[entries[j]]]
          = [j \in DOMAIN entries |-> ProductRows(entries[j])]
    BY <2>3
  <2> QED  BY <2>1, <2>2, <2>4 DEF CollectionAnswer
<1>3. ASSUME NEW i \in Items
      PROVE  /\ part[say[i]] \in Seq(T)
             /\ Range(part[say[i]]) = IF State(i) = "in" THEN {row[i]} ELSE {}
  <2>1. say[i] \in E /\ part[say[i]] = ProductRows(ProductSays(i))
    OBVIOUS
  <2>2. part[say[i]] = IF State(i) = "in" THEN <<row[i]>> ELSE <<>>
    BY <2>1, ProductIs
  <2>3. row[i] \in T
    OBVIOUS
  <2> HIDE DEF part, say, row, T
  <2> QED  BY <2>2, <2>3 DEF Range
<1>4. \A e \in E : part[e] \in Seq(T)
  <2> HIDE DEF part, say, T
  <2> QED  BY <1>3
<1> HIDE DEF entries, part, say, E, T, row
<1>5. flat \in Seq(T) /\ Range(flat) = UNION {Range(part[e]) : e \in Range(entries)}
  BY <1>1, <1>4, FlatOver
<1> HIDE DEF flat
<1>9. \A a : a \in Range(flat) <=> \E i \in Items : State(i) = "in" /\ a = row[i]
  <2> DEFINE S == {"in", "out"}
  <2>1. \A i \in Items : State(i) \in S =>
            Range(part[say[i]]) = IF State(i) = "in" THEN {row[i]} ELSE {}
    BY <1>3
  <2>2. "in" \in S
    OBVIOUS
  <2>3. Lists(Range(flat), Range(entries), part, S, say, row)
    BY <1>1, <1>5, <2>1 DEF Lists
  <2> HIDE DEF S
  <2> QED  BY <2>2, <2>3, ListedRows
<1>6. ASSUME NEW i \in Items  PROVE OneRow(row, i)
  <2>1. /\ row[i].key = <<"product", i>> /\ row[i].price = Euros(i) /\ row[i].stock = 1
        /\ row[i].preOrder = FALSE /\ row[i].place = Online
    BY DEF Row, Found, row
  <2>2. Nearby(Online)
    BY DEF Nearby, Online
  <2>3. KeysOf(i) = {<<"product", i>>} /\ Priced(i) /\ Wanted(i)
    BY DEF KeysOf, Priced, Wanted, Pages, TextPages, WebShops
  <2> QED  BY <2>1, <2>2, <2>3 DEF OneRow
<1>7. source \in Kinds \ Pages /\ ~HasLater(source)
  BY DEF Kinds, Pages, TextPages, WebShops, HasLater
<1>8. AnswerHolds(Range(flat))
  BY <1>6, <1>7, <1>9, OneRowEach
<1> QED  BY <1>2, <1>5, <1>8

\* The stores that have the article, but for the online seller.
LEMMA BkIs ==
    ASSUME NEW i \in Items, State(i) \in {"in", "out"}
    PROVE  BkRows(BkSays(i)) =
               IF State(i) = "in"
               THEN <<Row(<<"article", i>>, Branch(Area[i], FALSE),
                          Found(IF i = "main" THEN Euros(i) ELSE NoPrice, 3, FALSE))>>
               ELSE <<>>
<1> DEFINE store == BkSays(i)
<1>1. /\ store.id = i /\ store.plz = Area[i]
      /\ store.stocks = IF State(i) = "in" THEN <<3, 0>> ELSE <<0, 3>>
      /\ store.prices = IF i = "main" THEN <<Euros(i), 1>> ELSE <<>>
  BY DEF BkSays
<1> HIDE DEF store
<1>2. Area[i] # <<>>
  BY DEF Area, Items
<1>3. BkStock(store) <=> State(i) = "in"
  <2>1. CASE State(i) = "in"
    <3>1. store.stocks # <<>> /\ store.stocks[1] = 3
      BY <1>1, <2>1
    <3> QED  BY <2>1, <3>1 DEF BkStock
  <2>2. CASE State(i) # "in"
    <3>1. store.stocks # <<>> /\ store.stocks[1] = 0
      BY <1>1, <2>2
    <3> QED  BY <2>2, <3>1 DEF BkStock
  <2> QED  BY <2>1, <2>2
<1>4. (IF store.prices = <<>> THEN NoPrice ELSE store.prices[1])
         = IF i = "main" THEN Euros(i) ELSE NoPrice
  <2>1. <<Euros(i), 1>> # <<>> /\ <<Euros(i), 1>>[1] = Euros(i)
    OBVIOUS
  <2> QED  BY <1>1, <2>1
<1>5. State(i) = "in" => store.stocks[1] = 3
  BY <1>1
<1>6. BkRows(store) =
          IF State(i) = "in"
          THEN <<Row(<<"article", i>>, Branch(Area[i], FALSE),
                     Found(IF i = "main" THEN Euros(i) ELSE NoPrice, 3, FALSE))>>
          ELSE <<>>
  BY <1>1, <1>2, <1>3, <1>4, <1>5 DEF BkRows
<1> QED  BY <1>6 DEF store

\* The answer of braucheklima.de is right: the online seller and the far store do
\* not count.
LEMMA BraucheKlimaHolds ==
    ASSUME WorldOK, source = "braucheklima"
    PROVE  \E T : Answer \in Seq(T) /\ AnswerHolds(Range(Answer))
<1> DEFINE say == [i \in Items |-> BkSays(i)]
           row == [i \in Items |-> Row(<<"article", i>>, Branch(Area[i], FALSE),
                                       Found(IF i = "main" THEN Euros(i) ELSE NoPrice, 3, FALSE))]
           S == {"in", "out"}
           T == {row[i] : i \in Items}
           some == [j \in DOMAIN Those(S) |-> say[Those(S)[j]]]
           entries == <<BkOnline>> \o some
           E == Range(entries)
           part == [e \in E |-> BkRows(e)]
           flat == FlattenSeq([j \in DOMAIN entries |-> part[entries[j]]])
<1>1. /\ some \in Seq({say[i] : i \in Items})
      /\ \A e : e \in Range(some) <=> \E i \in Items : State(i) \in S /\ e = say[i]
  <2> HIDE DEF say
  <2> QED  BY EntriesAre
<1>2. Entries(S, BkSays) = some
  <2>1. \A j \in DOMAIN Those(S) : Those(S)[j] \in Items
    <3> HIDE DEF S
    <3> QED  BY ThoseAre, LenProperties, ElementOfSeq
  <2> QED  BY <2>1 DEF Entries
<1> HIDE DEF some
<1>3. entries \in Seq(E) /\ \A e : e \in E <=> e = BkOnline \/ e \in Range(some)
  <2> DEFINE U == {BkOnline} \cup {say[i] : i \in Items}
  <2>1. some \in Seq(U) /\ <<BkOnline>> \in Seq(U) /\ Range(<<BkOnline>>) = {BkOnline}
    <3>1. {say[i] : i \in Items} \subseteq U /\ BkOnline \in U
      OBVIOUS
    <3> HIDE DEF U, say
    <3> QED  BY <1>1, <3>1, SeqMonotonic DEF Range
  <2> HIDE DEF U
  <2>2. entries \in Seq(U) /\ Range(entries) = {BkOnline} \cup Range(some)
    <3> DEFINE one == <<BkOnline>>
    <3> HIDE DEF one
    <3>1. one \in Seq(U) /\ Range(one) = {BkOnline}
      BY <2>1 DEF one
    <3>2. one \o some \in Seq(U)
      BY <2>1, <3>1, ConcatProperties
    <3>3. Range(one \o some) = {BkOnline} \cup Range(some)
      BY <2>1, <3>1, RangeConcatenation
    <3> QED  BY <3>2, <3>3 DEF one
  <2>3. DOMAIN entries = 1..Len(entries) /\ Len(entries) \in Nat
    BY <2>2, LenProperties
  <2>4. entries \in Seq(E)
    <3> HIDE DEF entries
    <3> QED  BY <2>3, <2>2, SeqDef DEF Range
  <2> QED  BY <2>2, <2>4
<1>4. Answer = flat
  <2>1. Answer = BkAnswer(<<BkOnline>> \o Entries({"in", "out"}, BkSays))
    BY DEF Answer, Pages, TextPages, WebShops
  <2>2. \A j \in DOMAIN entries : entries[j] \in E
    <3> HIDE DEF entries
    <3> QED  BY DEF Range
  <2> HIDE DEF E, entries
  <2>3. [j \in DOMAIN entries |-> part[entries[j]]] = [j \in DOMAIN entries |-> BkRows(entries[j])]
    BY <2>2
  <2>4. Answer = BkAnswer(entries)
    BY <1>2, <2>1 DEF entries
  <2> HIDE DEF part
  <2> QED  BY <2>3, <2>4 DEF BkAnswer
<1>5. ASSUME NEW i \in Items, State(i) \in S
      PROVE  /\ BkRows(say[i]) \in Seq(T)
             /\ Range(BkRows(say[i])) = IF State(i) = "in" THEN {row[i]} ELSE {}
  <2>1. say[i] = BkSays(i) /\ row[i] \in T
    OBVIOUS
  <2>2. BkRows(say[i]) = IF State(i) = "in" THEN <<row[i]>> ELSE <<>>
    BY <1>5, <2>1, BkIs
  <2> HIDE DEF T, say, row
  <2> QED  BY <2>1, <2>2 DEF Range
<1>6. BkRows(BkOnline) = <<>>
  BY DEF BkRows, BkOnline
<1> HIDE DEF E, entries
<1>7. \A e \in E : part[e] = BkRows(e)
  OBVIOUS
<1> HIDE DEF T, say, part, row
<1>8. \A e \in E : part[e] \in Seq(T)
  <2>1. <<>> \in Seq(T)
    OBVIOUS
  <2> HIDE DEF S
  <2> SUFFICES ASSUME NEW e \in E  PROVE BkRows(e) \in Seq(T)
    BY <1>7
  <2>2. CASE e = BkOnline
    BY <1>6, <2>1, <2>2
  <2>3. CASE e \in Range(some)
    <3>1. PICK i \in Items : State(i) \in S /\ e = say[i]
      BY <1>1, <2>3
    <3> QED  BY <1>5, <3>1
  <2> QED  BY <1>3, <2>2, <2>3
<1>9. flat \in Seq(T) /\ Range(flat) = UNION {Range(part[e]) : e \in Range(entries)}
  BY <1>3, <1>8, FlatOver
<1> HIDE DEF flat
<1>10. \A a : a \in Range(flat) <=> \E i \in Items : State(i) = "in" /\ a = row[i]
  <2>1. "in" \in S
    OBVIOUS
  <2> HIDE DEF S
  <2>2. Range(entries) = E
    BY DEF E
  <2>3. \A i \in Items : State(i) \in S =>
            say[i] \in E /\ Range(part[say[i]]) = IF State(i) = "in" THEN {row[i]} ELSE {}
    BY <1>1, <1>3, <1>5, <1>7
  <2>4. \A e \in E : Range(part[e]) # {} => \E i \in Items : State(i) \in S /\ e = say[i]
    <3>1. Range(<<>>) = {}
      BY DEF Range
    <3> QED  BY <1>1, <1>3, <1>6, <1>7, <3>1
  <2>5. \A a : a \in Range(flat) <=> \E e \in E : a \in Range(part[e])
    BY <1>9, <2>2
  <2>6. Lists(Range(flat), E, part, S, say, row)
    BY <2>3, <2>4, <2>5 DEF Lists
  <2> QED  BY <2>1, <2>6, ListedRows
<1>11. ASSUME NEW i \in Items  PROVE OneRow(row, i)
  <2>1. /\ row[i].key = <<"article", i>> /\ row[i].stock = 3
        /\ row[i].price = IF i = "main" THEN Euros(i) ELSE NoPrice
        /\ row[i].preOrder = FALSE /\ row[i].place = Branch(Area[i], FALSE)
    BY DEF Row, Found, row
  <2>2. Nearby(Branch(Area[i], FALSE)) <=> i = "main"
    BY AreaAssumption DEF Items
  <2>3. KeysOf(i) = {<<"article", i>>} /\ (Priced(i) <=> i = "main") /\ (Wanted(i) <=> i = "main")
    BY DEF KeysOf, Priced, Wanted, Pages, TextPages, WebShops, Items
  <2>4. row[i].price = IF Priced(i) THEN Euros(i) ELSE NoPrice
    BY <2>1, <2>3
  <2>5. row[i].stock \in Nat \ {0} /\ KeysOf(i) = {row[i].key}
    BY <2>1, <2>3
  <2>6. Nearby(row[i].place) <=> Wanted(i)
    BY <2>1, <2>2, <2>3
  <2> QED  BY <2>1, <2>4, <2>5, <2>6 DEF OneRow
<1>12. source \in Kinds \ Pages /\ ~HasLater(source)
  BY DEF Kinds, Pages, TextPages, WebShops, HasLater
<1>13. AnswerHolds(Range(flat))
  BY <1>10, <1>11, <1>12, OneRowEach
<1> QED  BY <1>4, <1>9, <1>13

\* An answer in two parts, one for each item.
LEMMA TwoParts ==
    ASSUME NEW T, NEW x \in Seq(T), NEW y \in Seq(T), NEW row,
           Range(x) = IF State("main") = "in" THEN {row["main"]} ELSE {},
           Range(y) = IF State("other") = "in" THEN {row["other"]} ELSE {}
    PROVE  /\ x \o y \in Seq(T)
           /\ \A a : a \in Range(x \o y) <=> \E i \in Items : State(i) = "in" /\ a = row[i]
<1>1. x \o y \in Seq(T) /\ Range(x \o y) = Range(x) \cup Range(y)
  BY ConcatProperties, RangeConcatenation
<1>2. ASSUME NEW a
      PROVE  a \in Range(x) \cup Range(y) <=> \E i \in Items : State(i) = "in" /\ a = row[i]
  <2>1. (\E i \in Items : State(i) = "in" /\ a = row[i])
          <=> \/ State("main") = "in" /\ a = row["main"]
              \/ State("other") = "in" /\ a = row["other"]
    BY DEF Items
  <2>2. a \in Range(x) <=> State("main") = "in" /\ a = row["main"]
    OBVIOUS
  <2>3. a \in Range(y) <=> State("other") = "in" /\ a = row["other"]
    OBVIOUS
  <2> QED  BY <2>1, <2>2, <2>3
<1> QED  BY <1>1, <1>2

\* The resale offers that nobody bought yet.
LEMMA ResaleIs ==
    ASSUME WorldOK, source = "krasserstoff", NEW row,
           row = Row(<<"resale", "other">>, Online, Found(Euros("other"), 1, FALSE))
    PROVE  LET resale == KrasserSays.resale
               flat == FlattenSeq([i \in DOMAIN resale |-> ResaleRows(resale[i])])
           IN  flat \in Seq({row}) /\ Range(flat) = IF State("other") = "in" THEN {row} ELSE {}
<1> DEFINE offer == ResaleSays("other")
           resale == KrasserSays.resale
           part == [e \in {offer} |-> ResaleRows(e)]
           flat == FlattenSeq([i \in DOMAIN resale |-> part[resale[i]]])
<1>1. resale = IF State("other") = "removed" THEN <<>> ELSE <<offer>>
  BY DEF KrasserSays
<1>2. ResaleRows(offer) = IF State("other") = "out" THEN <<>> ELSE <<row>>
  <2>1. /\ offer.bought <=> State("other") = "out"
        /\ offer.price = Euros("other") - Fee /\ offer.fee = Fee /\ offer.id = "other"
    BY DEF ResaleSays
  <2>2. Euros("other") \in Int /\ Fee \in Int
    BY TruthIs DEF Items, Euros, Fee
  <2> HIDE DEF offer
  <2>3. offer.price + offer.fee = Euros("other")
    BY <2>1, <2>2
  <2> QED  BY <2>1, <2>3 DEF ResaleRows
<1>3. State("other") \in {"in", "out", "removed"}
  <2>1. State("other") \in {"in", "later", "out", "removed", "replaced"}
        /\ State("other") # "later" /\ State("other") # "replaced"
    BY TruthIs DEF Items, HasLater, Pages, TextPages, WebShops
  <2> QED  BY <2>1
<1> HIDE DEF offer
<1>4. part[offer] = ResaleRows(offer) /\ \A e \in {offer} : part[e] \in Seq({row})
  <2>1. part[offer] = ResaleRows(offer)
    OBVIOUS
  <2> HIDE DEF part
  <2>2. part[offer] \in Seq({row})
    <3>1. ResaleRows(offer) \in {<<>>, <<row>>}
      BY <1>2
    <3>2. <<>> \in Seq({row}) /\ <<row>> \in Seq({row})
      OBVIOUS
    <3> QED  BY <2>1, <3>1, <3>2
  <2> QED  BY <2>1, <2>2
<1>5. resale \in Seq({offer}) /\ Range(resale) = IF State("other") = "removed" THEN {} ELSE {offer}
  BY <1>1 DEF Range
<1> HIDE DEF resale, part
<1>6. flat \in Seq({row}) /\ Range(flat) = UNION {Range(part[e]) : e \in Range(resale)}
  <2> DEFINE E == {offer}
             T == {row}
  <2>1. resale \in Seq(E) /\ \A e \in E : part[e] \in Seq(T)
    BY <1>4, <1>5
  <2> HIDE DEF E, T
  <2>2. flat \in Seq(T) /\ Range(flat) = UNION {Range(part[e]) : e \in Range(resale)}
    BY <2>1, FlatOver
  <2> QED  BY <2>2 DEF T
<1>7. [i \in DOMAIN resale |-> part[resale[i]]] = [i \in DOMAIN resale |-> ResaleRows(resale[i])]
  <2>1. \A i \in DOMAIN resale : resale[i] = offer
    BY <1>5, LenProperties, ElementOfSeq
  <2> QED  BY <1>4, <2>1
<1>8. UNION {Range(part[e]) : e \in Range(resale)} = IF State("other") = "in" THEN {row} ELSE {}
  <2>1. Range(<<>>) = {} /\ Range(<<row>>) = {row}
    <3>1. Range(<<>>) = {}
      BY DEF Range
    <3>2. DOMAIN <<row>> = {1} /\ <<row>>[1] = row
      OBVIOUS
    <3>3. Range(<<row>>) = {row}
      BY <3>2 DEF Range
    <3> QED  BY <3>1, <3>3
  <2>2. CASE State("other") = "removed"
    BY <1>5, <2>2
  <2>3. CASE State("other") # "removed"
    <3>1. UNION {Range(part[e]) : e \in Range(resale)} = Range(part[offer])
      BY <1>5, <2>3
    <3> QED  BY <1>2, <1>3, <1>4, <2>1, <2>3, <3>1
  <2> QED  BY <2>2, <2>3
<1> QED  BY <1>6, <1>7, <1>8 DEF resale

\* The answer of Krasser Stoff is right: the tickets, then the resale offers.
LEMMA KrasserHolds ==
    ASSUME WorldOK, source = "krasserstoff"
    PROVE  \E T : Answer \in Seq(T) /\ AnswerHolds(Range(Answer))
<1> DEFINE row == [i \in Items |-> Row(<<IF i = "main" THEN "event" ELSE "resale", i>>, Online,
                                       Found(Euros(i), 1, FALSE))]
           T == {row[i] : i \in Items}
           x == IF State("main") = "in" THEN <<row["main"]>> ELSE <<>>
           resale == KrasserSays.resale
           y == FlattenSeq([i \in DOMAIN resale |-> ResaleRows(resale[i])])
<1>1. Answer = x \o y
  <2>1. Answer = KrasserAnswer(KrasserSays)
    BY DEF Answer, Pages, TextPages, WebShops
  <2>2. /\ KrasserSays.available <=> State("main") = "in"
        /\ KrasserSays.id = "main"
        /\ State("main") = "in" => KrasserSays.price = Euros("main")
    BY DEF KrasserSays
  <2>3. row["main"] = Row(<<"event", "main">>, Online, Found(Euros("main"), 1, FALSE))
    BY DEF Items
  <2> HIDE DEF row
  <2> QED  BY <2>1, <2>2, <2>3 DEF KrasserAnswer
<1>2. row["other"] = Row(<<"resale", "other">>, Online, Found(Euros("other"), 1, FALSE))
  BY DEF Items
<1>3. row["main"] \in T /\ row["other"] \in T
  BY DEF Items
<1>4. ASSUME NEW i \in Items  PROVE OneRow(row, i)
  <2>1. /\ row[i].key = <<IF i = "main" THEN "event" ELSE "resale", i>> /\ row[i].stock = 1
        /\ row[i].price = Euros(i) /\ row[i].preOrder = FALSE /\ row[i].place = Online
    BY DEF Row, Found
  <2>2. Nearby(Online)
    BY DEF Nearby, Online
  <2>3. KeysOf(i) = {<<IF i = "main" THEN "event" ELSE "resale", i>>} /\ Priced(i) /\ Wanted(i)
    BY DEF KeysOf, Priced, Wanted, Pages, TextPages, WebShops
  <2> HIDE DEF row
  <2>4. row[i].price = IF Priced(i) THEN Euros(i) ELSE NoPrice
    BY <2>1, <2>3
  <2>5. row[i].stock \in Nat \ {0} /\ KeysOf(i) = {row[i].key}
    BY <2>1, <2>3
  <2>6. Nearby(row[i].place) <=> Wanted(i)
    BY <2>1, <2>2, <2>3
  <2> QED  BY <2>1, <2>4, <2>5, <2>6 DEF OneRow
<1> HIDE DEF row, T
<1>5. y \in Seq(T) /\ Range(y) = IF State("other") = "in" THEN {row["other"]} ELSE {}
  <2>1. y \in Seq({row["other"]}) /\ Range(y) = IF State("other") = "in" THEN {row["other"]} ELSE {}
    BY <1>2, ResaleIs
  <2> DEFINE U == {row["other"]}
  <2>2. U \subseteq T
    BY <1>3
  <2> HIDE DEF y, U
  <2>3. y \in Seq(T)
    BY <2>1, <2>2, SeqMonotonic DEF U
  <2> QED  BY <2>1, <2>3
<1>6. x \in Seq(T) /\ Range(x) = IF State("main") = "in" THEN {row["main"]} ELSE {}
  BY <1>3 DEF Range
<1> HIDE DEF x, y
<1>7. /\ x \o y \in Seq(T)
      /\ \A a : a \in Range(x \o y) <=> \E i \in Items : State(i) = "in" /\ a = row[i]
  BY <1>5, <1>6, TwoParts
<1>8. source \in Kinds \ Pages /\ ~HasLater(source)
  BY DEF Kinds, Pages, TextPages, WebShops, HasLater
<1>9. AnswerHolds(Range(Answer))
  BY <1>1, <1>4, <1>7, <1>8, OneRowEach
<1> QED  BY <1>1, <1>7, <1>9

\* The results for one store: an online offer, and the store if it has the article.
LEMMA BauhausIs ==
    ASSUME WorldOK, source = "bauhaus", NEW i \in Items, NEW row,
           row = Row(<<"bauhaus-store", i>>, Branch(<<>>, TRUE), Found(NoPrice, 1, FALSE))
    PROVE  LET flat == BauhausAnswer(i, BauhausSays(i))
           IN  flat \in Seq({row}) /\ Range(flat) = IF State(i) = "in" THEN {row} ELSE {}
<1> DEFINE online == [kind |-> "ONLINE", purchasable |-> TRUE, amount |-> 5]
           here == [kind |-> "STORE", purchasable |-> State(i) = "in", amount |-> 0]
           results == BauhausSays(i)
           E == {online, here}
           T == {row}
           part == [e \in E |-> BauhausRows(i, e)]
           flat == FlattenSeq([j \in DOMAIN results |-> part[results[j]]])
<1>1. results = <<online>> \o (IF State(i) = "removed" THEN <<>> ELSE <<here>>)
  BY DEF BauhausSays
<1>2. online.kind # "STORE" /\ here.kind = "STORE" /\ (here.purchasable <=> State(i) = "in")
      /\ here.amount = 0
  OBVIOUS
<1> HIDE DEF online, here, results
<1>3. BauhausRows(i, online) = <<>>
  BY <1>2 DEF BauhausRows
<1>4. BauhausRows(i, here) = IF State(i) = "in" THEN <<row>> ELSE <<>>
  BY <1>2 DEF BauhausRows, AtLeastOne
<1>5. \A e \in E : part[e] = BauhausRows(i, e)
  OBVIOUS
<1>6. results \in Seq(E) /\ DOMAIN results = 1..Len(results)
      /\ Range(results) = IF State(i) = "removed" THEN {online} ELSE {online, here}
  <2> DEFINE first == <<online>>
             second == IF State(i) = "removed" THEN <<>> ELSE <<here>>
  <2>1. first \in Seq({online, here}) /\ Range(first) = {online}
    <3>1. DOMAIN first = {1} /\ first[1] = online
      OBVIOUS
    <3>2. Range(first) = {online}
      BY <3>1 DEF Range
    <3> QED  BY <3>2
  <2>2. /\ second \in Seq({online, here})
        /\ Range(second) = IF State(i) = "removed" THEN {} ELSE {here}
    <3>1. DOMAIN <<here>> = {1} /\ <<here>>[1] = here
      OBVIOUS
    <3>2. Range(<<here>>) = {here} /\ Range(<<>>) = {}
      BY <3>1 DEF Range
    <3>3. <<>> \in Seq({online, here}) /\ <<here>> \in Seq({online, here})
      OBVIOUS
    <3>4. second \in Seq({online, here})
      BY <3>3
    <3> QED  BY <3>2, <3>4
  <2> HIDE DEF E
  <2>3. E = {online, here}
    BY DEF E
  <2> HIDE DEF first, second
  <2>4. first \o second \in Seq(E) /\ Range(first \o second) = Range(first) \cup Range(second)
    BY <2>1, <2>2, <2>3, ConcatProperties, RangeConcatenation
  <2>5. results = first \o second
    BY <1>1 DEF first, second
  <2> QED  BY <2>1, <2>2, <2>4, <2>5
<1>7. Range(results) = IF State(i) = "removed" THEN {online} ELSE {online, here}
  BY <1>6
<1>8. online \in E /\ here \in E /\ \A e \in E : e = online \/ e = here
  OBVIOUS
<1> HIDE DEF E, part
<1>9. \A e \in E : part[e] \in Seq({row})
  <2>1. <<>> \in Seq({row}) /\ <<row>> \in Seq({row})
    OBVIOUS
  <2> QED  BY <1>3, <1>4, <1>5, <1>8, <2>1
<1>10. flat \in Seq(T) /\ Range(flat) = UNION {Range(part[e]) : e \in Range(results)}
  <2>1. \A e \in E : part[e] \in Seq(T)
    BY <1>9
  <2>2. results \in Seq(E)
    BY <1>6
  <2> HIDE DEF T
  <2> QED  BY <2>1, <2>2, FlatOver
<1>11. flat = BauhausAnswer(i, results)
  <2>1. \A j \in DOMAIN results : results[j] \in E
    BY <1>6, ElementOfSeq
  <2>2. [j \in DOMAIN results |-> part[results[j]]]
          = [j \in DOMAIN results |-> BauhausRows(i, results[j])]
    BY <1>5, <2>1
  <2> QED  BY <2>2 DEF BauhausAnswer
<1>12. UNION {Range(part[e]) : e \in Range(results)} = IF State(i) = "in" THEN {row} ELSE {}
  <2>1. Range(<<>>) = {} /\ Range(<<row>>) = {row}
    <3>1. Range(<<>>) = {}
      BY DEF Range
    <3>2. DOMAIN <<row>> = {1} /\ <<row>>[1] = row
      OBVIOUS
    <3>3. Range(<<row>>) = {row}
      BY <3>2 DEF Range
    <3> QED  BY <3>1, <3>3
  <2>2. Range(part[online]) = {} /\ Range(part[here]) = IF State(i) = "in" THEN {row} ELSE {}
    BY <1>3, <1>4, <1>5, <1>8, <2>1
  <2>3. CASE State(i) = "removed"
    BY <1>7, <2>2, <2>3
  <2>4. CASE State(i) # "removed"
    <3>1. UNION {Range(part[e]) : e \in Range(results)} = Range(part[online]) \cup Range(part[here])
      BY <1>7, <2>4
    <3> QED  BY <2>2, <3>1
  <2> QED  BY <2>3, <2>4
<1> QED  BY <1>10, <1>11, <1>12 DEF results

\* The answers for the two stores are right.
LEMMA BauhausHolds ==
    ASSUME WorldOK, source = "bauhaus"
    PROVE  \E T : Answer \in Seq(T) /\ AnswerHolds(Range(Answer))
<1> DEFINE row == [i \in Items |-> Row(<<"bauhaus-store", i>>, Branch(<<>>, TRUE),
                                       Found(NoPrice, 1, FALSE))]
           T == {row[i] : i \in Items}
           x == BauhausAnswer("main", BauhausSays("main"))
           y == BauhausAnswer("other", BauhausSays("other"))
<1>1. Answer = x \o y
  BY DEF Answer, Pages, TextPages, WebShops
<1>2. \A i \in Items :
        row[i] \in T /\ row[i] = Row(<<"bauhaus-store", i>>, Branch(<<>>, TRUE),
                                     Found(NoPrice, 1, FALSE))
  OBVIOUS
<1>3. ASSUME NEW i \in Items  PROVE OneRow(row, i)
  <2>1. /\ row[i].key = <<"bauhaus-store", i>> /\ row[i].stock = 1
        /\ row[i].price = NoPrice /\ row[i].preOrder = FALSE /\ row[i].place = Branch(<<>>, TRUE)
    BY DEF Row, Found
  <2>2. Nearby(Branch(<<>>, TRUE))
    BY DEF Nearby, Branch
  <2>3. KeysOf(i) = {<<"bauhaus-store", i>>} /\ ~Priced(i) /\ Wanted(i)
    BY DEF KeysOf, Priced, Wanted, Pages, TextPages, WebShops
  <2> HIDE DEF row
  <2>4. row[i].price = IF Priced(i) THEN Euros(i) ELSE NoPrice
    BY <2>1, <2>3
  <2>5. row[i].stock \in Nat \ {0} /\ KeysOf(i) = {row[i].key}
    BY <2>1, <2>3
  <2>6. Nearby(row[i].place) <=> Wanted(i)
    BY <2>1, <2>2, <2>3
  <2> QED  BY <2>1, <2>4, <2>5, <2>6 DEF OneRow
<1> HIDE DEF row, T
<1>4. ASSUME NEW i \in Items
      PROVE  /\ BauhausAnswer(i, BauhausSays(i)) \in Seq(T)
             /\ Range(BauhausAnswer(i, BauhausSays(i))) = IF State(i) = "in" THEN {row[i]} ELSE {}
  <2> DEFINE flat == BauhausAnswer(i, BauhausSays(i))
             U == {row[i]}
  <2>1. flat \in Seq({row[i]}) /\ Range(flat) = IF State(i) = "in" THEN {row[i]} ELSE {}
    BY <1>2, BauhausIs
  <2>2. U \subseteq T
    BY <1>2
  <2> HIDE DEF flat, U
  <2>3. flat \in Seq(T)
    BY <2>1, <2>2, SeqMonotonic DEF U
  <2> QED  BY <2>1, <2>3 DEF flat
<1>5. /\ x \in Seq(T) /\ Range(x) = IF State("main") = "in" THEN {row["main"]} ELSE {}
      /\ y \in Seq(T) /\ Range(y) = IF State("other") = "in" THEN {row["other"]} ELSE {}
  BY <1>4 DEF Items
<1> HIDE DEF x, y
<1>6. /\ x \o y \in Seq(T)
      /\ \A a : a \in Range(x \o y) <=> \E i \in Items : State(i) = "in" /\ a = row[i]
  BY <1>5, TwoParts
<1>7. source \in Kinds \ Pages /\ ~HasLater(source)
  BY DEF Kinds, Pages, TextPages, WebShops, HasLater
<1>8. AnswerHolds(Range(Answer))
  BY <1>1, <1>3, <1>6, <1>7, OneRowEach
<1> QED  BY <1>1, <1>6, <1>8

\* A field that is the only one of the names with a value.
LEMMA PickOnly ==
    ASSUME NEW fields, NEW names, NEW n \in Nat,
           n \in DOMAIN names, names[n] \in DOMAIN fields, fields[names[n]] # "",
           \A i \in DOMAIN names : i # n => names[i] \notin DOMAIN fields
    PROVE  PickStr(fields, names) = fields[names[n]]
<1>1. {i \in DOMAIN names : names[i] \in DOMAIN fields /\ fields[names[i]] # ""} = {n}
  OBVIOUS
<1>2. Min({n}) = n
  BY MinOne
<1> QED  BY <1>1, <1>2 DEF PickStr

\* A branch of obi.de is told by its id, whatever field holds it.
LEMMA ObiPickupIs ==
    ASSUME WorldOK, source = "obi", NEW i \in Items
    PROVE  LET a == ObiPickup(ObiSays(i), Area["main"])
           IN  /\ a.key = <<"pickup", IF layout.block = "nameless" THEN "" ELSE i>>
               /\ Nearby(a.place) /\ a.price = NoPrice /\ a.stock = 1 /\ a.preOrder = FALSE
<1> DEFINE fields == ObiSays(i).ids
           names == <<"id", "storeId", "storeNo", "filialId">>
           entry == ObiSays(i)
           place == Branch(IF entry.plz = <<>> THEN Area["main"] ELSE entry.plz, TRUE)
           a == ObiPickup(ObiSays(i), Area["main"])
<1>1. layout.block \in {"id", "filialId", "nameless"}
  <2>1. layout \in Printing({"id", "filialId", "nameless"}, {"schema"}, {"none"})
    BY DEF WorldOK, Layouts
  <2> QED  BY <2>1 DEF Printing
<1>2. DOMAIN names = {1, 2, 3, 4} /\ names[1] = "id" /\ names[2] = "storeId"
      /\ names[3] = "storeNo" /\ names[4] = "filialId"
  OBVIOUS
<1>3. i # ""
  BY DEF Items
<1>4. fields = IF layout.block = "nameless" THEN <<>> ELSE [field \in {layout.block} |-> i]
  BY DEF ObiSays
<1> HIDE DEF fields, names
<1>5. ASSUME NEW n \in {1, 4}, DOMAIN fields = {names[n]}, fields[names[n]] = i
      PROVE  PickStr(fields, names) = i
  <2>1. n \in Nat /\ n \in DOMAIN names
    BY <1>2
  <2>4. names[n] \in DOMAIN fields /\ fields[names[n]] # ""
    BY <1>3, <1>5
  <2>2. \A m \in DOMAIN names : m # n => names[m] \notin DOMAIN fields
    BY <1>2, <1>5
  <2>3. PickStr(fields, names) = fields[names[n]]
    BY <2>1, <2>2, <2>4, PickOnly
  <2> QED  BY <1>5, <2>3
<1>6. layout.block = "nameless" => PickStr(fields, names) = ""
  <2> SUFFICES ASSUME layout.block = "nameless"  PROVE PickStr(fields, names) = ""
    OBVIOUS
  <2>1. DOMAIN fields = {}
    BY <1>4
  <2> QED  BY <2>1 DEF PickStr
<1>7. layout.block \in {"id", "filialId"} => PickStr(fields, names) = i
  <2>1. layout.block = "id" => DOMAIN fields = {names[1]} /\ fields[names[1]] = i
    BY <1>2, <1>4
  <2>2. layout.block = "filialId" => DOMAIN fields = {names[4]} /\ fields[names[4]] = i
    BY <1>2, <1>4
  <2> QED  BY <1>5, <2>1, <2>2
<1>8. PickStr(fields, names) = IF layout.block = "nameless" THEN "" ELSE i
  BY <1>1, <1>6, <1>7
<1>9. a = Row(<<"pickup", PickStr(fields, names)>>, place, Found(NoPrice, AtLeastOne(entry.stock), FALSE))
  BY DEF ObiPickup, fields, names
<1>10. entry.stock = 0 /\ AtLeastOne(entry.stock) = 1
  BY DEF ObiSays, AtLeastOne
<1>11. Nearby(place)
  BY DEF Nearby, Branch
<1> HIDE DEF a, place, entry
<1>12. /\ a.key = <<"pickup", PickStr(fields, names)>> /\ a.place = place
       /\ a.price = NoPrice /\ a.stock = 1 /\ a.preOrder = FALSE
  BY <1>9, <1>10 DEF Row, Found
<1> QED  BY <1>8, <1>11, <1>12 DEF a

\* A seller of obi.de is told by its name.
LEMMA ObiDeliveryIs ==
    ASSUME NEW entry, entry = [ids |-> [sellerName |-> "other"], stock |-> 2]
    PROVE  LET a == ObiDelivery(entry)
           IN  /\ a.key = <<"delivery", "other">>
               /\ Nearby(a.place) /\ a.price = NoPrice /\ a.stock = 2 /\ a.preOrder = FALSE
<1> DEFINE fields == entry.ids
           names == <<"sellerId", "sellerName", "id">>
           a == ObiDelivery(entry)
<1>1. DOMAIN names = {1, 2, 3} /\ names[1] = "sellerId" /\ names[2] = "sellerName"
      /\ names[3] = "id"
  OBVIOUS
<1>2. DOMAIN fields = {"sellerName"} /\ fields["sellerName"] = "other"
  OBVIOUS
<1> HIDE DEF names, fields
<1>3. PickStr(fields, names) = "other"
  <2>1. \A n \in {2} : n \in Nat /\ n \in DOMAIN names /\ names[n] \in DOMAIN fields
                           /\ fields[names[n]] = "other"
    BY <1>1, <1>2
  <2>2. \A n \in {2} : \A m \in DOMAIN names : m # n => names[m] \notin DOMAIN fields
    BY <1>1, <1>2
  <2>3. ASSUME NEW n \in {2}  PROVE PickStr(fields, names) = fields[names[n]]
    BY <2>1, <2>2, PickOnly
  <2> QED  BY <2>1, <2>3
<1>4. AtLeastOne(entry.stock) = 2
  BY DEF AtLeastOne
<1>5. a = Row(<<"delivery", "other">>, Online, Found(NoPrice, 2, FALSE))
  BY <1>3, <1>4 DEF ObiDelivery, fields, names
<1>6. Nearby(Online)
  BY DEF Nearby, Online
<1> HIDE DEF a
<1>7. /\ a.key = <<"delivery", "other">> /\ a.place = Online
      /\ a.price = NoPrice /\ a.stock = 2 /\ a.preOrder = FALSE
  BY <1>5 DEF Row, Found
<1> QED  BY <1>6, <1>7 DEF a

\* The answer of obi.de is right: the branches, then the sellers.
LEMMA ObiHolds ==
    ASSUME WorldOK, source = "obi"
    PROVE  \E T : Answer \in Seq(T) /\ AnswerHolds(Range(Answer))
<1> DEFINE row == [i \in Items |-> ObiPickup(ObiSays(i), Area["main"])]
           seller == [ids |-> [sellerName |-> "other"], stock |-> 2]
           delivery == ObiDelivery(seller)
           T == {row[i] : i \in Items} \cup {delivery}
           S == {"in"}
           x == [j \in DOMAIN Those(S) |-> row[Those(S)[j]]]
           y == IF State("other") = "in" THEN <<delivery>> ELSE <<>>
<1>1. Answer = x \o y
  <2> DEFINE pickups == Entries(S, ObiSays)
  <2>1. Answer = ObiAnswer(pickups, ObiSellers, Area["main"])
    BY DEF Answer, Pages, TextPages, WebShops
  <2>2. \A j \in DOMAIN Those(S) : Those(S)[j] \in Items
    <3> HIDE DEF S
    <3> QED  BY ThoseAre, LenProperties, ElementOfSeq
  <2>3. pickups = [j \in DOMAIN Those(S) |-> ObiSays(Those(S)[j])]
    BY DEF Entries
  <2> HIDE DEF pickups, S
  <2>4. [j \in DOMAIN pickups |-> ObiPickup(pickups[j], Area["main"])] = x
    BY <2>2, <2>3
  <2>5. [j \in DOMAIN ObiSellers |-> ObiDelivery(ObiSellers[j])] = y
    <3>1. CASE State("other") = "in"
      <4>1. ObiSellers = <<seller>>
        BY <3>1 DEF ObiSellers
      <4> HIDE DEF seller
      <4>2. DOMAIN ObiSellers = 1..1 /\ \A j \in 1..1 : ObiSellers[j] = seller
        BY <4>1
      <4>3. [j \in DOMAIN ObiSellers |-> ObiDelivery(ObiSellers[j])] = [j \in 1..1 |-> delivery]
        BY <4>2
      <4> HIDE DEF delivery
      <4>4. [j \in 1..1 |-> delivery] = <<delivery>>
        OBVIOUS
      <4> QED  BY <3>1, <4>3, <4>4
    <3>2. CASE State("other") # "in"
      BY <3>2 DEF ObiSellers
    <3> QED  BY <3>1, <3>2
  <2> HIDE DEF x, y
  <2> QED  BY <2>1, <2>4, <2>5 DEF ObiAnswer
<1>2. x \in Seq({row[i] : i \in Items}) /\ \A a : a \in Range(x) <=> \E i \in Items : State(i) \in S /\ a = row[i]
  <2> HIDE DEF row
  <2> QED  BY EntriesAre
<1>3. {row[i] : i \in Items} \subseteq T /\ delivery \in T
  OBVIOUS
<1>4. \A i \in Items :
        /\ row[i].key = <<"pickup", IF layout.block = "nameless" THEN "" ELSE i>>
        /\ Nearby(row[i].place) /\ row[i].price = NoPrice /\ row[i].stock = 1
        /\ row[i].preOrder = FALSE
  BY ObiPickupIs
<1>5. /\ delivery.key = <<"delivery", "other">>
      /\ Nearby(delivery.place) /\ delivery.price = NoPrice /\ delivery.stock = 2
      /\ delivery.preOrder = FALSE
  BY ObiDeliveryIs
<1> HIDE DEF row, T, delivery, x
<1>6. x \in Seq(T)
  <2> DEFINE U == {row[i] : i \in Items}
  <2>1. x \in Seq(U) /\ U \subseteq T
    BY <1>2, <1>3
  <2> HIDE DEF U
  <2> QED  BY <2>1, SeqMonotonic
<1>7. y \in Seq(T) /\ Range(y) = IF State("other") = "in" THEN {delivery} ELSE {}
  <2>1. DOMAIN <<delivery>> = {1} /\ <<delivery>>[1] = delivery
    OBVIOUS
  <2>2. Range(<<delivery>>) = {delivery} /\ Range(<<>>) = {}
    BY <2>1 DEF Range
  <2>3. <<>> \in Seq(T) /\ <<delivery>> \in Seq(T)
    BY <1>3
  <2>4. y \in Seq(T)
    BY <2>3
  <2> QED  BY <2>2, <2>4
<1> HIDE DEF y
<1>8. x \o y \in Seq(T) /\ Range(x \o y) = Range(x) \cup Range(y)
  BY <1>6, <1>7, ConcatProperties, RangeConcatenation
<1> DEFINE rs == Range(x \o y)
<1>9. \A a : a \in rs <=> \/ \E i \in Items : State(i) = "in" /\ a = row[i]
                          \/ State("other") = "in" /\ a = delivery
  <2>1. \A a : a \in Range(x) <=> \E i \in Items : State(i) = "in" /\ a = row[i]
    BY <1>2
  <2>2. \A a : a \in Range(y) <=> State("other") = "in" /\ a = delivery
    BY <1>7
  <2> HIDE DEF S
  <2> QED  BY <1>8, <2>1, <2>2
<1> HIDE DEF rs
<1>10. /\ source \in Kinds \ Pages /\ ~HasLater(source)
       /\ \A i \in Items : Wanted(i) /\ ~Priced(i)
  BY DEF Kinds, Pages, TextPages, WebShops, HasLater, Wanted, Priced
<1>11. /\ KeysOf("main") = {<<"pickup", IF layout.block = "nameless" THEN "" ELSE "main">>}
       /\ KeysOf("other") = {<<"pickup", IF layout.block = "nameless" THEN "" ELSE "other">>,
                             <<"delivery", "other">>}
       /\ Items = {"main", "other"}
  BY DEF KeysOf, Pages, TextPages, WebShops, Items
<1>12. /\ \A i \in Items : row[i].key \in KeysOf(i)
       /\ \A i \in Items : \A k \in KeysOf(i) :
             k = row[i].key \/ (i = "other" /\ k = delivery.key)
       /\ delivery.key \in KeysOf("other") /\ "other" \in Items
  <2>1. row["main"].key \in KeysOf("main") /\ row["other"].key \in KeysOf("other")
    BY <1>4, <1>11
  <2>2. \A k \in KeysOf("main") : k = row["main"].key
    BY <1>4, <1>11
  <2>3. \A k \in KeysOf("other") : k = row["other"].key \/ k = delivery.key
    BY <1>4, <1>5, <1>11
  <2> QED  BY <1>5, <1>11, <2>1, <2>2, <2>3
<1>13. ASSUME NEW a \in rs
       PROVE  RowTyped(a) /\ a.preOrder = FALSE /\ \E i \in Items : RowOf(a, i)
  <2>1. CASE \E i \in Items : State(i) = "in" /\ a = row[i]
    <3>1. PICK i \in Items : State(i) = "in" /\ a = row[i]
      BY <2>1
    <3>2. a.price \in Nat \cup {NoPrice} /\ a.stock \in Nat \ {0} /\ a.preOrder = FALSE
      <4>1. a.price = NoPrice /\ a.stock = 1 /\ a.preOrder = FALSE
        BY <1>4, <3>1, Zenon
      <4> QED  BY <4>1
    <3>3. a.preOrder \in BOOLEAN
      BY <3>2
    <3>4. RowTyped(a)
      BY <3>2, <3>3, Zenon DEF RowTyped
    <3>5. RowOf(a, i)
      BY <1>10, <1>12, <3>1 DEF RowOf
    <3> QED  BY <3>2, <3>4, <3>5
  <2>2. CASE State("other") = "in" /\ a = delivery
    <3>2. a.price \in Nat \cup {NoPrice} /\ a.stock \in Nat \ {0} /\ a.preOrder = FALSE
      <4>1. a.price = NoPrice /\ a.stock = 2 /\ a.preOrder = FALSE
        BY <1>5, <2>2, Zenon
      <4> QED  BY <4>1
    <3>3. a.preOrder \in BOOLEAN
      BY <3>2
    <3>4. RowTyped(a)
      BY <3>2, <3>3, Zenon DEF RowTyped
    <3>5. RowOf(a, "other")
      BY <1>10, <1>12, <2>2 DEF RowOf
    <3> QED  BY <1>12, <3>2, <3>4, <3>5
  <2> QED  BY <1>9, <2>1, <2>2
<1>14. ASSUME NEW i \in Items, NEW k \in KeysOf(i), State(i) = "in"
       PROVE  \E a \in rs : FeedRow(a, k, IF Priced(i) THEN Euros(i) ELSE NoPrice)
  <2>1. (IF Priced(i) THEN Euros(i) ELSE NoPrice) = NoPrice
    BY <1>10
  <2>2. CASE k = row[i].key
    <3>1. row[i] \in rs /\ FeedRow(row[i], k, NoPrice)
      BY <1>4, <1>9, <1>14, <2>2 DEF FeedRow
    <3> QED  BY <2>1, <3>1
  <2>3. CASE i = "other" /\ k = delivery.key
    <3>1. delivery \in rs /\ FeedRow(delivery, k, NoPrice)
      BY <1>5, <1>9, <1>14, <2>3 DEF FeedRow
    <3> QED  BY <2>1, <3>1
  <2> QED  BY <1>12, <2>2, <2>3
<1>15. AnswerHolds(rs)
  BY <1>10, <1>13, <1>14, FeedHolds
<1> QED  BY <1>1, <1>8, <1>15 DEF rs

\* expert.de answers for one web-code.
LEMMA ExpertHolds ==
    ASSUME WorldOK, source = "expert"
    PROVE  \E T : Answer \in Seq(T) /\ AnswerHolds(Range(Answer))
<1> DEFINE later == State("main") = "later"
           a == Row(<<"expert", "main">>, Online, Found(Euros("main"), 1, later))
<1>1. Answer = ExpertAnswer("main", ExpertSays)
  BY DEF Answer, Pages, TextPages, WebShops
<1>2. /\ Items = {"main", "other"} /\ HasLater(source)
      /\ KeysOf("main") = {<<"expert", "main">>} /\ KeysOf("other") = {}
      /\ Wanted("main") /\ Priced("main") /\ source # "bobselektro"
  BY DEF Items, KeysOf, Wanted, Priced, HasLater, Pages, TextPages, WebShops
<1>3. Answer = IF State("main") \in OnOffer THEN <<a>> ELSE <<>>
  <2>1. CASE State("main") = "in"
    <3>1. ExpertSays = [stock |-> 1, availability |-> "AVAILABLE", action |-> "ORDER",
                        price |-> Euros("main")]
      BY <2>1 DEF ExpertSays
    <3>2. ExpertSays.stock = 1 /\ ExpertSays.availability = "AVAILABLE"
          /\ ExpertSays.action = "ORDER" /\ ExpertSays.price = Euros("main")
      BY <3>1
    <3>3. Orderable(ExpertSays) /\ IsAdvance(ExpertSays) = later /\ AtLeastOne(ExpertSays.stock) = 1
      BY <2>1, <3>2 DEF Orderable, IsAdvance, AtLeastOne
    <3> HIDE DEF later
    <3> QED  BY <1>1, <2>1, <3>2, <3>3 DEF ExpertAnswer, OnOffer
  <2>2. CASE State("main") = "later"
    <3>1. ExpertSays = [stock |-> 0, availability |-> "PREORDER", action |-> "ORDER_IN_ADVANCE",
                        price |-> Euros("main")]
      BY <2>2 DEF ExpertSays
    <3>2. ExpertSays.stock = 0 /\ ExpertSays.availability = "PREORDER"
          /\ ExpertSays.action = "ORDER_IN_ADVANCE" /\ ExpertSays.price = Euros("main")
      BY <3>1
    <3>3. Orderable(ExpertSays) /\ IsAdvance(ExpertSays) = later /\ AtLeastOne(ExpertSays.stock) = 1
      BY <2>2, <3>2 DEF Orderable, IsAdvance, AtLeastOne
    <3> HIDE DEF later
    <3> QED  BY <1>1, <2>2, <3>2, <3>3 DEF ExpertAnswer, OnOffer
  <2>3. CASE State("main") \notin OnOffer
    <3>1. ExpertSays = [stock |-> 0, availability |-> "", action |-> "NONE", price |-> NoPrice]
      BY <2>3 DEF ExpertSays, OnOffer
    <3>2. ExpertSays.stock = 0 /\ ExpertSays.action = "NONE"
      BY <3>1
    <3>3. ~Orderable(ExpertSays)
      BY <3>2 DEF Orderable
    <3> QED  BY <1>1, <2>3, <3>3 DEF ExpertAnswer
  <2> QED  BY <2>1, <2>2, <2>3 DEF OnOffer
<1>4. /\ a.key = <<"expert", "main">> /\ a.place = Online /\ a.price = Euros("main")
      /\ a.stock = 1 /\ a.preOrder = later
  BY DEF Row, Found
<1>5. later \in BOOLEAN /\ Nearby(Online) /\ Euros("main") \in Nat
  BY <1>2, TruthIs DEF Nearby, Online, Euros
<1> HIDE DEF a
<1>6. CASE State("main") \notin OnOffer
  <2>1. Answer = <<>> /\ Range(<<>>) = {} /\ Answer \in Seq({})
    BY <1>3, <1>6 DEF Range
  <2>2. AnswerHolds({})
    BY <1>2, <1>6 DEF AnswerHolds
  <2> QED  BY <2>1, <2>2
<1>7. CASE State("main") \in OnOffer
  <2>1. Answer = <<a>>
    BY <1>3, <1>7
  <2>2. Answer \in Seq({a})
    BY <2>1
  <2>3. Range(Answer) = {a}
    <3>1. DOMAIN <<a>> = {1} /\ <<a>>[1] = a
      OBVIOUS
    <3>2. Range(<<a>>) = {a}
      BY <3>1 DEF Range
    <3> QED  BY <2>1, <3>2
  <2>4. RowTyped(a)
    <3>1. a.price \in Nat \cup {NoPrice} /\ a.stock \in Nat \ {0}
      BY <1>4, <1>5
    <3>2. a.preOrder \in BOOLEAN
      BY <1>4, <1>5, Zenon
    <3> QED  BY <3>1, <3>2, Zenon DEF RowTyped
  <2>5. RowExact(a)
    <3>1. SeenPrice(truth["main"].cents) = Euros("main")
      BY SeenIs DEF Items, Pages, TextPages, WebShops
    <3> QED  BY <1>2, <1>4, <3>1 DEF RowExact
  <2>6. RowTruthful(a)
    <3>1. /\ a.preOrder => \E j \in Items : State(j) = "later"
          /\ State("main") = "later" => a.preOrder
      <4>1. "main" \in Items
        BY <1>2
      <4> QED  BY <1>4, <4>1, Zenon
    <3>2. "main" \in Items /\ a.key \in KeysOf("main") /\ a.price = Euros("main")
      BY <1>2, <1>4
    <3> QED  BY <1>2, <1>7, <3>1, <3>2, Zenon DEF RowTruthful
  <2>7. RowFor({a}, "main", <<"expert", "main">>)
    BY <1>2, <1>4, <1>5 DEF RowFor
  <2>8. AnswerHolds({a})
    BY <1>2, <2>4, <2>5, <2>6, <2>7 DEF AnswerHolds
  <2> QED  BY <2>2, <2>3, <2>8
<1> QED  BY <1>6, <1>7

\* Whatever the source, its answer is right.
LEMMA AnswerIsRight ==
    ASSUME WorldOK
    PROVE  \E T : Answer \in Seq(T) /\ AnswerHolds(Range(Answer))
<1>1. source \in Pages \/ source \in {"expert", "obi", "braucheklima", "krasserstoff",
                                       "collection", "bauhaus"}
  BY SourcesAssumption DEF WorldOK, Kinds
<1> QED  BY <1>1, PageHolds, ExpertHolds, ObiHolds, BraucheKlimaHolds, KrasserHolds,
            CollectionHolds, BauhausHolds

-----------------------------------------------------------------------------
(* A tick *)

\* The offers that pass the filters.
Passing == {a \in Range(Answer) : WithinBudget(cap, a.price) /\ Nearby(a.place)}

\* A tick announces only offers that pass, and its rows are theirs; a key that was
\* tracked before is announced again exactly if its price fell.
LEMMA TickDoes ==
    ASSUME WorldOK, Tick
    PROVE  /\ Range(alerts') \subseteq Passing
           /\ DOMAIN rows' = {a.key : a \in Passing}
           /\ \A k \in DOMAIN rows' : \E a \in Passing : a.key = k /\ rows'[k] = a.price
           /\ \A k \in DOMAIN rows \cap DOMAIN rows', p \in Nat :
                 (\A a \in Passing : a.key = k => a.price = p)
                     => ((\E a \in Range(alerts') : a.key = k) <=> IsDrop(p, rows[k]))
<1> DEFINE answer == Answer
           kept == {i \in DOMAIN answer : WithinBudget(cap, answer[i].price)
                                            /\ Nearby(answer[i].place)}
           seen == {answer[i].key : i \in kept}
           tracked == Restrict(rows, seen \cap DOMAIN rows)
           done == Handled(answer, kept, tracked)
<1>1. PICK T : answer \in Seq(T)
  BY AnswerIsRight
<1>2. rows' = done.rows /\ alerts' = done.alerts
  BY DEF Tick
<1>3. Passing = {answer[i] : i \in kept} /\ seen = {a.key : a \in Passing}
  BY DEF Passing, Range
<1>4. kept \in SUBSET DOMAIN answer
  OBVIOUS
<1>5. DOMAIN tracked = seen \cap DOMAIN rows /\ \A k \in seen \cap DOMAIN rows : tracked[k] = rows[k]
  BY DEF Restrict
<1>6. seen = {answer[i].key : i \in kept}
  OBVIOUS
<1> HIDE DEF answer, kept, tracked, seen
<1>7. /\ Range(done.alerts) \subseteq {answer[i] : i \in kept}
      /\ DOMAIN done.rows = DOMAIN tracked \cup {answer[i].key : i \in kept}
      /\ \A i \in kept : \E j \in kept :
             answer[j].key = answer[i].key
             /\ done.rows[answer[i].key] = answer[j].price
  <2>1. Settled(answer, kept, tracked, Handled(answer, kept, tracked))
    BY <1>1, <1>4, Reconciled
  <2> QED  BY <2>1 DEF Settled
<1>8. ASSUME NEW k \in DOMAIN tracked, k \in {answer[i].key : i \in kept}, NEW p \in Nat \cup {NoPrice},
             \A i \in kept : answer[i].key = k => answer[i].price = p
      PROVE  (\E a \in Range(done.alerts) : a.key = k) <=> IsDrop(p, tracked[k])
  BY <1>1, <1>4, <1>8, AnnouncedIfDropped
<1> HIDE DEF done
<1>9. Range(alerts') \subseteq Passing
  BY <1>2, <1>3, <1>7
<1>10. DOMAIN rows' = seen
  BY <1>2, <1>5, <1>6, <1>7
<1>11. ASSUME NEW k \in DOMAIN rows'
       PROVE  \E a \in Passing : a.key = k /\ rows'[k] = a.price
  <2>1. PICK i \in kept : k = answer[i].key
    BY <1>6, <1>10
  <2>2. PICK j \in kept : answer[j].key = k /\ done.rows[k] = answer[j].price
    BY <1>7, <2>1
  <2>3. answer[j] \in Passing
    BY <1>3
  <2> QED  BY <1>2, <2>2, <2>3
<1>12. ASSUME NEW k \in DOMAIN rows \cap DOMAIN rows', NEW p \in Nat,
              \A a \in Passing : a.key = k => a.price = p
       PROVE  (\E a \in Range(alerts') : a.key = k) <=> IsDrop(p, rows[k])
  <2>1. k \in DOMAIN tracked /\ tracked[k] = rows[k] /\ k \in {answer[i].key : i \in kept}
    BY <1>5, <1>6, <1>10
  <2>2. \A i \in kept : answer[i].key = k => answer[i].price = p
    BY <1>3, <1>12
  <2> QED  BY <1>2, <1>8, <2>1, <2>2
<1> QED  BY <1>3, <1>9, <1>10, <1>11, <1>12

-----------------------------------------------------------------------------
(* The invariant *)

\* What is announced has the right form.
AlertsTyped == \A a \in Range(alerts) : RowTyped(a)

\* A tracked price is the one of the last tick, or a thousandth if that is ambiguous.
RowsFollow ==
    \A i \in Items : \A k \in KeysOf(i) \cap DOMAIN rows :
        was[i].state \in OnOffer /\ Priced(i) => rows[k] = SeenPrice(was[i].cents)

\* The inductive invariant.
IInv ==
    /\ WorldOK
    /\ Range(rows) \subseteq Nat \cup {NoPrice}
    /\ AlertsTyped
    /\ \A i \in Items : was[i].cents \in Nat
    /\ RowsFollow

\* It holds initially, and every step keeps it.
LEMMA InitIInv == Init => IInv
<1> SUFFICES ASSUME Init  PROVE IInv
  OBVIOUS
<1>1. WorldOK
  BY DEF Init, WorldOK
<1>2. Range(rows) = {} /\ Range(alerts) = {} /\ DOMAIN rows = {}
  BY DEF Init, Range
<1>3. \A i \in Items : was[i].cents \in Nat
  BY DEF Init, Is
<1> QED  BY <1>1, <1>2, <1>3 DEF IInv, AlertsTyped, RowsFollow

LEMMA TickIInv ==
    ASSUME IInv, Tick
    PROVE  IInv'
<1>1. WorldOK /\ AnswerHolds(Range(Answer))
  BY AnswerIsRight DEF IInv
<1>2. UNCHANGED <<source, layout, cap, truth>> /\ was' = truth
  BY DEF Tick
<1>3. WorldOK'
  BY <1>1, <1>2 DEF WorldOK
<1>4. /\ Range(alerts') \subseteq Passing
      /\ \A k \in DOMAIN rows' : \E a \in Passing : a.key = k /\ rows'[k] = a.price
  BY <1>1, TickDoes
<1>5. \A a \in Passing : RowTyped(a) /\ RowExact(a)
  BY <1>1 DEF AnswerHolds, Passing
<1>6. Range(rows') \subseteq Nat \cup {NoPrice}
  BY <1>4, <1>5 DEF Range, RowTyped
<1>7. AlertsTyped'
  BY <1>4, <1>5 DEF AlertsTyped, RowTyped
<1>8. \A i \in Items : was[i]'.cents \in Nat
  BY <1>1, <1>2, TruthIs
<1>9. RowsFollow'
  <2> SUFFICES ASSUME NEW i \in Items, NEW k \in KeysOf(i)', k \in DOMAIN rows',
                      was'[i].state \in OnOffer, Priced(i)'
               PROVE  rows'[k] = SeenPrice(truth[i].cents)
    BY <1>2 DEF RowsFollow, SeenPrice, AmbiguousAt
  <2>1. k \in KeysOf(i) /\ Priced(i)
    BY <1>2 DEF KeysOf, Priced
  <2>2. State(i) \in OnOffer
    BY <1>2 DEF State
  <2>3. PICK a \in Passing : a.key = k /\ rows'[k] = a.price
    BY <1>4
  <2> QED  BY <1>5, <2>1, <2>2, <2>3 DEF RowExact
<1> QED  BY <1>3, <1>6, <1>7, <1>8, <1>9 DEF IInv

\* What is tracked does not depend on what is on offer now.
LEMMA RowsKeep ==
    ASSUME RowsFollow, UNCHANGED <<source, layout, was, rows>>
    PROVE  RowsFollow'
<1>1. \A i : KeysOf(i)' = KeysOf(i)
  BY DEF KeysOf
<1>2. \A i : Priced(i)' <=> Priced(i)
  BY DEF Priced
<1>3. \A c : SeenPrice(c)' = SeenPrice(c)
  BY DEF SeenPrice, AmbiguousAt
<1> QED  BY <1>1, <1>2, <1>3 DEF RowsFollow

LEMMA WorldMovesIInv ==
    ASSUME IInv, WorldMoves
    PROVE  IInv'
<1>1. UNCHANGED <<source, layout, cap, was, rows>> /\ alerts' = <<>>
  BY DEF WorldMoves
<1>2. PICK i \in Items : \E now \in CanBe(source, i) : truth' = [truth EXCEPT ![i] = now]
  BY DEF WorldMoves
<1>3. PICK now \in CanBe(source, i) : truth' = [truth EXCEPT ![i] = now]
  BY <1>2
<1>4. WorldOK'
  BY <1>1, <1>3 DEF IInv, WorldOK
<1>5. Range(alerts') = {}
  BY <1>1 DEF Range
<1>6. AlertsTyped'
  BY <1>5 DEF AlertsTyped
<1>7. RowsFollow'
  BY <1>1, RowsKeep DEF IInv
<1> QED  BY <1>1, <1>4, <1>6, <1>7 DEF IInv

LEMMA StutterIInv ==
    ASSUME IInv, UNCHANGED vars
    PROVE  IInv'
BY RowsKeep DEF vars, IInv, WorldOK, AlertsTyped

LEMMA ReadingInvariant == Spec => []IInv
<1>1. IInv /\ [Next]_vars => IInv'
  BY TickIInv, WorldMovesIInv, StutterIInv DEF Next
<1> QED  BY InitIInv, <1>1, PTL DEF Spec

\* What is configured stays so, and the store and the alerts have their form.
THEOREM ReadingTypeCorrect == Spec => []ReadingTypeOK
<1>1. IInv => ReadingTypeOK
  BY DEF IInv, WorldOK, AlertsTyped, RowTyped, ReadingTypeOK
<1> QED  BY <1>1, ReadingInvariant, PTL

\* The first property of a tick: an announced row is truthful, and it passed.
LEMMA NoFalseAlertStep ==
    ASSUME IInv, Tick, NEW a \in Range(alerts')
    PROVE  \E i \in Items :
              /\ a.key \in KeysOf(i) \/ Unguarded
              /\ State(i) \in OnOffer /\ Wanted(i)
              /\ Ambiguous(i) \/ InBudget(i)
              /\ a.preOrder => \E j \in Items : State(j) = "later"
              /\ State(i) = "later" => a.preOrder \/ source = "bobselektro"
<1>1. WorldOK /\ AnswerHolds(Range(Answer))
  BY AnswerIsRight DEF IInv
<1>2. a \in Passing
  BY <1>1, TickDoes
<1>3. a \in Range(Answer) /\ WithinBudget(cap, a.price) /\ Nearby(a.place)
  BY <1>2 DEF Passing
<1>4. RowTruthful(a)
  BY <1>1, <1>3 DEF AnswerHolds
<1>5. PICK i \in Items :
        /\ a.key \in KeysOf(i) \/ Unguarded
        /\ State(i) \in OnOffer
        /\ Nearby(a.place) => Wanted(i)
        /\ Priced(i) /\ ~Ambiguous(i) => a.price = Euros(i)
        /\ a.preOrder => \E j \in Items : State(j) = "later"
        /\ State(i) = "later" => a.preOrder \/ source = "bobselektro"
  BY <1>4, Zenon DEF RowTruthful
<1>6. cap \in Nat /\ Euros(i) \in Nat
  BY <1>1, TruthIs, PricesAssumption DEF WorldOK, Euros
<1>7. Priced(i) /\ ~Ambiguous(i) => cap = 0 \/ Euros(i) <= cap
  BY <1>3, <1>5, <1>6, NoPriceAssumption DEF WithinBudget
<1>8. Ambiguous(i) \/ InBudget(i)
  BY <1>7 DEF InBudget
<1> QED  BY <1>3, <1>5, <1>8, Zenon

\* What is announced can be ordered, within the area and, unless its price is
\* ambiguous, within the cap: the item, or the one an unguarded page recommends.
THEOREM AlertsAreTrue == Spec => NoFalseAlert
<1>1. IInv /\ [Next]_vars =>
        [Tick =>
          \A a \in Range(alerts') : \E i \in Items :
              /\ a.key \in KeysOf(i) \/ Unguarded
              /\ State(i) \in OnOffer /\ Wanted(i)
              /\ Ambiguous(i) \/ InBudget(i)
              /\ a.preOrder => \E j \in Items : State(j) = "later"
              /\ State(i) = "later" => a.preOrder \/ source = "bobselektro"]_vars
  BY NoFalseAlertStep
<1> QED  BY <1>1, ReadingInvariant, PTL DEF Spec, NoFalseAlert

\* The second: the row of an offer that can be ordered passes.
LEMMA OffersAreFoundStep ==
    ASSUME IInv, Tick, NEW i \in Items, NEW k \in KeysOf(i),
           State(i) \in OnOffer /\ Wanted(i) /\ InBudget(i) /\ ~Hidden(i)
    PROVE  /\ k \in DOMAIN rows'
           /\ Priced(i) /\ ~Ambiguous(i) => rows'[k] = Euros(i)
<1>1. WorldOK /\ AnswerHolds(Range(Answer))
  BY AnswerIsRight DEF IInv
<1>2. /\ DOMAIN rows' = {a.key : a \in Passing}
      /\ \A l \in DOMAIN rows' : \E a \in Passing : a.key = l /\ rows'[l] = a.price
  BY <1>1, TickDoes
<1>3. cap \in Nat /\ Euros(i) \in Nat
  BY <1>1, TruthIs, PricesAssumption DEF WorldOK, Euros
<1>4. k \in DOMAIN rows'
  <2>1. RowFor(Range(Answer), i, k)
    BY <1>1 DEF AnswerHolds
  <2>2. PICK a \in Range(Answer) :
          /\ a.key = k /\ Nearby(a.place)
          /\ IF Priced(i) THEN a.price \in Nat /\ a.price <= Euros(i) ELSE a.price = NoPrice
    BY <2>1 DEF RowFor
  <2>3. CASE Priced(i)
    <3>1. a.price \in Nat /\ a.price <= Euros(i) /\ (cap = 0 \/ Euros(i) <= cap)
      BY <2>2, <2>3 DEF InBudget
    <3>2. WithinBudget(cap, a.price)
      BY <1>3, <3>1 DEF WithinBudget
    <3> QED  BY <1>2, <2>2, <3>2 DEF Passing
  <2>4. CASE ~Priced(i)
    <3>1. WithinBudget(cap, a.price)
      BY <2>2, <2>4 DEF WithinBudget
    <3> QED  BY <1>2, <2>2, <3>1 DEF Passing
  <2> QED  BY <2>3, <2>4
<1>5. ASSUME Priced(i), ~Ambiguous(i)  PROVE rows'[k] = Euros(i)
  <2>1. PICK a \in Passing : a.key = k /\ rows'[k] = a.price
    BY <1>2, <1>4
  <2>2. RowExact(a)
    BY <1>1 DEF AnswerHolds, Passing
  <2> QED  BY <1>5, <2>1, <2>2, SeenIs DEF RowExact
<1> QED  BY <1>4, <1>5

\* No offer is missed that the page does not hide.
THEOREM NoOfferIsMissed == Spec => OffersAreFound
<1>1. IInv /\ [Next]_vars =>
        [Tick =>
          \A i \in Items : \A k \in KeysOf(i) :
              State(i) \in OnOffer /\ Wanted(i) /\ InBudget(i) /\ ~Hidden(i) =>
                  /\ k \in DOMAIN rows'
                  /\ Priced(i) /\ ~Ambiguous(i) => rows'[k] = Euros(i)]_vars
  BY OffersAreFoundStep
<1> QED  BY <1>1, ReadingInvariant, PTL DEF Spec, OffersAreFound

\* The third: the old row and the new one both have the real price, or both a
\* thousandth of it.
LEMMA DropsAreRealStep ==
    ASSUME IInv, Tick, NEW i \in Items, NEW k \in KeysOf(i) \cap DOMAIN rows,
           State(i) \in OnOffer /\ was[i].state \in OnOffer,
           Priced(i) /\ k \in DOMAIN rows',
           Ambiguous(i) <=> AmbiguousAt(was[i].cents)
    PROVE  (\E a \in Range(alerts') : a.key = k) <=> truth[i].cents < was[i].cents
<1>1. WorldOK /\ AnswerHolds(Range(Answer))
  BY AnswerIsRight DEF IInv
<1> DEFINE now == SeenPrice(truth[i].cents)
           then == SeenPrice(was[i].cents)
<1>2. \A a \in Passing : a.key = k => a.price = now
  BY <1>1 DEF AnswerHolds, RowExact, Passing
<1>3. truth[i].cents \in Nat /\ was[i].cents \in Nat
  BY <1>1, TruthIs DEF IInv
<1>4. now \in Nat /\ then \in Nat /\ (now < then <=> truth[i].cents < was[i].cents)
  BY <1>3 DEF SeenPrice, Ambiguous
<1> HIDE DEF now, then
<1>5. (\E a \in Range(alerts') : a.key = k) <=> IsDrop(now, rows[k])
  BY <1>1, <1>2, <1>4, TickDoes
<1>6. rows[k] = then
  BY DEF IInv, RowsFollow, then
<1>7. IsDrop(now, rows[k]) <=> truth[i].cents < was[i].cents
  BY <1>4, <1>6, NoPriceAssumption DEF IsDrop
<1> QED  BY <1>5, <1>7

\* A tracked offer is announced again exactly if its real price fell, unless just
\* one of the two prices is ambiguous.
THEOREM DropsAreTrue == Spec => DropsAreReal
<1>1. IInv /\ [Next]_vars =>
        [Tick =>
          \A i \in Items : \A k \in KeysOf(i) \cap DOMAIN rows :
              /\ State(i) \in OnOffer /\ was[i].state \in OnOffer
              /\ Priced(i) /\ k \in DOMAIN rows'
              /\ Ambiguous(i) <=> AmbiguousAt(was[i].cents)
              => ((\E a \in Range(alerts') : a.key = k)
                     <=> truth[i].cents < was[i].cents)]_vars
  BY DropsAreRealStep
<1> QED  BY <1>1, ReadingInvariant, PTL DEF Spec, DropsAreReal

-----------------------------------------------------------------------------
(* The form of a message *)

\* An emergency message repeats within Pushover's limits whatever is configured,
\* as long as retry itself is within the limit of expire (notify.go:57-72).
THEOREM RepeatsAreLegal ==
    ASSUME NEW settings \in [priority : Int, retry : Int, expire : Int], NEW title, NEW a
    PROVE  FormIsLegal(settings, Form(settings, title, a))
<1>1. settings.retry \in Int /\ settings.expire \in Int
  OBVIOUS
<1>2. /\ SentRetry(settings) \in Int /\ MinRetry <= SentRetry(settings)
      /\ settings.retry <= MaxExpire => SentRetry(settings) <= MaxExpire
  BY <1>1 DEF SentRetry, MinRetry, MaxExpire
<1>3. /\ SentRetry(settings) <= SentExpire(settings)
      /\ settings.retry <= MaxExpire => SentExpire(settings) <= MaxExpire
  BY <1>1, <1>2 DEF SentExpire, MinRetry, MaxExpire
<1>4. ASSUME NEW r \in Form(settings, title, a).repeats
      PROVE  r = [retry |-> SentRetry(settings), expire |-> SentExpire(settings)]
  BY <1>4 DEF Form
<1> QED  BY <1>2, <1>3, <1>4 DEF FormIsLegal

\* So no alert of any tick has a form that Pushover rejects, for all settings.
THEOREM FormsLegal == Spec => []FormsAreLegal
<1>1. FormsAreLegal
  BY SettingsAssumption, RepeatsAreLegal DEF FormsAreLegal
<1> QED  BY <1>1, PTL
=============================================================================
