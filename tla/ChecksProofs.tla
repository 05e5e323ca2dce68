---------------------------- MODULE ChecksProofs ----------------------------
(***************************************************************************)
(* Proofs about Checks for any number of URLs, any listings and any bounds *)
(* on changes, failures, entries and pages.                                *)
(***************************************************************************)
EXTENDS Checks, TLAPS

\* Where the loop stands.
LoopOK ==
    /\ url \in Nat /\ url <= UrlCount + 1
    /\ replied \subseteq Urls
    /\ phase = "done" => url > UrlCount

\* Every URL behind the loop was answered for or has failed.
Asked == \A u \in Urls : u < url => u \in replied \cup failed

\* What a response showed was found, is lost with its URL, or belongs to the
\* collection that is being read.
Accounted ==
    \A x \in seen :
        /\ x[1] \in Urls
        /\ \/ x[2] \in out
           \/ kind = "collection" /\ x[1] \in failed
           \/ kind = "collection" /\ x[1] = url /\ x[2] \in got

\* What is in stock all the time still is, and was found when its URL was asked.
SteadyFound ==
    \A x \in steady :
        /\ x[1] \in Urls /\ x[2] \in InStock(x[1])
        /\ x[1] < url /\ kind # "collection" => x[2] \in out \/ x[1] \in failed

\* The answer is made of what the loop has collected.
AnswerMade ==
    phase = "done" =>
        answer = [error |-> IsError, avail |-> IF IsError THEN {} ELSE out]

\* The inductive invariant.
ChecksInv == LoopOK /\ Asked /\ Accounted /\ SteadyFound /\ AnswerMade

-----------------------------------------------------------------------------
\* The URLs are the numbers up to UrlCount.
LEMMA UrlNumbers ==
    /\ UrlCount \in Nat
    /\ \A u : u \in Urls <=> u \in Nat /\ 1 <= u /\ u <= UrlCount
BY ChecksAssumption DEF Urls

\* A pair is available if its item is in stock at its URL.
LEMMA AvailablePairs ==
    \A x \in Available : x[1] \in Urls /\ x[2] \in InStock(x[1])
BY DEF Available

\* The invariant holds at start.
LEMMA ChecksInit == Init => ChecksInv
<1> SUFFICES ASSUME Init PROVE ChecksInv
  OBVIOUS
<1>1. LoopOK /\ Asked
  BY UrlNumbers DEF Init, LoopOK, Asked
<1>2. Accounted /\ AnswerMade
  BY DEF Init, Accounted, AnswerMade
<1>3. SteadyFound
  BY AvailablePairs, UrlNumbers DEF Init, SteadyFound
<1> QED  BY <1>1, <1>2, <1>3 DEF ChecksInv

\* The loop moves on by one URL that was answered for or has failed.
LEMMA ProceedKeeps ==
    ASSUME ChecksInv, Proceed, phase = "polling", url \in Urls,
           UNCHANGED kind,
           \/ Replied /\ UNCHANGED failed
           \/ failed' = failed \cup {url} /\ UNCHANGED replied
    PROVE  LoopOK' /\ Asked' /\ AnswerMade'
<1>1. url' = url + 1 /\ phase' = "polling"
  BY DEF Proceed
<1>2. replied' \subseteq Urls /\ replied \cup failed \cup {url} \subseteq replied' \cup failed'
  BY DEF Replied, ChecksInv, LoopOK
<1>3. LoopOK'
  BY <1>1, <1>2, UrlNumbers DEF ChecksInv, LoopOK
<1>4. Asked'
  <2> SUFFICES ASSUME NEW u \in Urls, u < url'  PROVE u \in replied' \cup failed'
    BY DEF Asked, Urls
  <2>1. u < url \/ u = url
    BY <1>1, UrlNumbers
  <2> QED  BY <1>2, <2>1 DEF ChecksInv, Asked
<1> QED  BY <1>1, <1>3, <1>4 DEF AnswerMade

\* A page or an API is answered for: its entries are found.
LEMMA AnswerKeeps ==
    ASSUME ChecksInv, PageAnswers \/ ApiAnswers  PROVE ChecksInv'
<1>1. /\ phase = "polling" /\ url \in Urls /\ kind # "collection"
      /\ UNCHANGED <<kind, failed, listing, steady>>
      /\ Proceed /\ Shown(InStock(url)) /\ Replied
      /\ out' = out \cup InStock(url)
  BY DEF PageAnswers, ApiAnswers, Asking, world
<1>2. LoopOK' /\ Asked' /\ AnswerMade'
  BY <1>1, ProceedKeeps
<1>3. Accounted'
  BY <1>1 DEF Shown, Urls, ChecksInv, Accounted
<1>4. SteadyFound'
  <2> SUFFICES ASSUME NEW x \in steady
               PROVE  /\ x[1] \in Urls /\ x[2] \in InStock(x[1])
                      /\ x[1] < url + 1 => x[2] \in out' \/ x[1] \in failed
    BY <1>1 DEF SteadyFound, Proceed, InStock, Urls
  <2>1. x[1] \in Urls /\ x[2] \in InStock(x[1])
    BY DEF ChecksInv, SteadyFound
  <2>2. x[1] < url + 1 => x[1] < url \/ x[1] = url
    BY <1>1, <2>1, UrlNumbers
  <2> QED  BY <1>1, <2>1, <2>2 DEF ChecksInv, SteadyFound
<1> QED  BY <1>2, <1>3, <1>4 DEF ChecksInv

\* A collection page is answered for: what it shows joins what was read so far,
\* and all of it is found with the last page.
LEMMA CollectionKeeps ==
    ASSUME ChecksInv, CollectionAnswers  PROVE ChecksInv'
<1> DEFINE found == got \cup Orderable(Entries)
<1>1. /\ phase = "polling" /\ url \in Urls /\ kind = "collection"
      /\ UNCHANGED <<kind, failed, listing, steady>>
      /\ Shown(Orderable(Entries))
  BY DEF CollectionAnswers, Asking, world
<1>2. SteadyFound'
  BY <1>1 DEF ChecksInv, SteadyFound, InStock, Urls
<1>3. CASE LastPage(Entries)
  <2>1. out' = out \cup found /\ Proceed /\ Replied
    BY <1>3 DEF CollectionAnswers
  <2>2. LoopOK' /\ Asked' /\ AnswerMade'
    BY <1>1, <2>1, ProceedKeeps
  <2>3. Accounted'
    BY <1>1, <2>1 DEF Shown, Urls, ChecksInv, Accounted
  <2> QED  BY <1>2, <2>2, <2>3 DEF ChecksInv
<1>4. CASE ~LastPage(Entries)
  <2>1. got' = found /\ UNCHANGED <<out, url, phase, answer, replied>>
    BY <1>4 DEF CollectionAnswers
  <2>2. LoopOK' /\ Asked' /\ AnswerMade'
    BY <1>1, <2>1 DEF ChecksInv, LoopOK, Asked, AnswerMade, Urls
  <2>3. Accounted'
    BY <1>1, <2>1 DEF Shown, Urls, ChecksInv, Accounted
  <2> QED  BY <1>2, <2>2, <2>3 DEF ChecksInv
<1> QED  BY <1>3, <1>4

\* A request fails: its URL is remembered with what was read of it.
LEMMA FailureKeeps ==
    ASSUME ChecksInv, ApiRefuses \/ RequestFails  PROVE ChecksInv'
<1>1. /\ phase = "polling" /\ url \in Urls
      /\ UNCHANGED <<kind, out, listing, seen, replied, steady>>
      /\ Proceed /\ failed' = failed \cup {url}
  BY DEF ApiRefuses, RequestFails, Asking, world, ghosts
<1>2. LoopOK' /\ Asked' /\ AnswerMade'
  BY <1>1, ProceedKeeps
<1>3. Accounted'
  BY <1>1 DEF ChecksInv, Accounted, Urls
<1>4. SteadyFound'
  <2> SUFFICES ASSUME NEW x \in steady
               PROVE  /\ x[1] \in Urls /\ x[2] \in InStock(x[1])
                      /\ x[1] < url + 1 /\ kind # "collection"
                            => x[2] \in out \/ x[1] \in failed'
    BY <1>1 DEF SteadyFound, Proceed, InStock, Urls
  <2>1. x[1] \in Urls /\ x[2] \in InStock(x[1])
    BY DEF ChecksInv, SteadyFound
  <2>2. x[1] < url + 1 => x[1] < url \/ x[1] = url
    BY <1>1, <2>1, UrlNumbers
  <2> QED  BY <1>1, <2>1, <2>2 DEF ChecksInv, SteadyFound
<1> QED  BY <1>2, <1>3, <1>4 DEF ChecksInv

\* The answer is given once all URLs are behind the loop.
LEMMA ReturnKeeps ==
    ASSUME ChecksInv, Return  PROVE ChecksInv'
<1>1. LoopOK' /\ Asked' /\ SteadyFound' /\ Accounted'
  BY DEF Return, world, ghosts, ChecksInv, LoopOK, Asked, SteadyFound, Accounted,
         InStock, Urls
<1>2. AnswerMade'
  BY DEF Return, AnswerMade, IsError
<1> QED  BY <1>1, <1>2 DEF ChecksInv

\* A new check starts from nothing.
LEMMA AgainKeeps ==
    ASSUME ChecksInv, Again  PROVE ChecksInv'
<1>1. LoopOK' /\ Asked'
  BY UrlNumbers DEF Again, LoopOK, Asked, Urls
<1>2. Accounted' /\ AnswerMade'
  BY DEF Again, Accounted, AnswerMade
<1>3. SteadyFound'
  BY AvailablePairs, UrlNumbers DEF Again, SteadyFound, InStock, Urls
<1> QED  BY <1>1, <1>2, <1>3 DEF ChecksInv

\* The listings move: what was in stock all the time still is.
LEMMA MoveKeeps ==
    ASSUME ChecksInv, ListingMoves  PROVE ChecksInv'
<1>1. UNCHANGED <<kind, phase, url, got, out, failed, answer, seen, replied>>
  BY DEF ListingMoves, check
<1>2. LoopOK' /\ Asked' /\ AnswerMade' /\ Accounted'
  BY <1>1 DEF ChecksInv, LoopOK, Asked, AnswerMade, Accounted, IsError, Urls
<1>3. steady' \subseteq steady
      /\ \A x \in steady' : x[1] \in Urls /\ x[2] \in InStock(x[1])'
  BY DEF ListingMoves, Available, InStock, Urls
<1>4. SteadyFound'
  BY <1>1, <1>3 DEF ChecksInv, SteadyFound, Urls
<1> QED  BY <1>2, <1>4 DEF ChecksInv

\* A shutdown by itself, or nothing, changes nothing the invariant speaks of.
LEMMA StillKeeps ==
    ASSUME ChecksInv, Cancel \/ UNCHANGED vars  PROVE ChecksInv'
<1>1. UNCHANGED <<kind, phase, url, got, out, failed, answer, listing>>
      /\ UNCHANGED <<seen, replied, steady>>
  BY DEF Cancel, vars, check, world, ghosts
<1> QED
  BY <1>1 DEF ChecksInv, LoopOK, Asked, Accounted, SteadyFound, AnswerMade,
              IsError, InStock, Urls

\* The inductive invariant holds in every reachable state.
THEOREM ChecksInductive == Spec => []ChecksInv
<1>1. ChecksInv /\ [Next]_vars => ChecksInv'
  BY AnswerKeeps, CollectionKeeps, FailureKeeps, ReturnKeeps, AgainKeeps,
     MoveKeeps, StillKeeps
  DEF Next
<1> QED  BY <1>1, ChecksInit, PTL DEF Spec

\* An empty answer means that the shop answered for every URL and showed nothing
\* in stock (model.go:34-36), however many URLs there are.
THEOREM EmptyIsReliable == Spec => []EmptyMeansAsked
<1>1. ChecksInv => EmptyMeansAsked
  <2> SUFFICES ASSUME ChecksInv, Answered, answer.avail = {}
               PROVE  replied = Urls /\ seen = {}
    BY DEF EmptyMeansAsked
  <2>1. out = {} /\ failed = {}
    <3>1. answer = [error |-> IsError, avail |-> IF IsError THEN {} ELSE out]
      BY Zenon DEF Answered, ChecksInv, AnswerMade
    <3>2. answer.error = IsError /\ ~answer.error
      BY <3>1, Zenon DEF Answered
    <3>3. ~IsError
      BY <3>2, Zenon
    <3>4. out = {}
      BY <3>1, <3>3
    <3> QED  BY <3>3, <3>4 DEF IsError
  <2>2. url > UrlCount /\ url \in Nat
    BY DEF Answered, ChecksInv, LoopOK
  <2>3. \A u \in Urls : u < url
    BY <2>2, UrlNumbers
  <2>4. replied = Urls
    BY <2>1, <2>3 DEF ChecksInv, Asked, LoopOK
  <2>5. seen = {}
    <3> SUFFICES ASSUME NEW x \in seen PROVE FALSE
      OBVIOUS
    <3>1. x[1] \in Urls /\ (x[2] \in out \/ x[1] \in failed \/ x[1] = url)
      BY DEF ChecksInv, Accounted
    <3> QED  BY <2>1, <2>2, <3>1, UrlNumbers
  <2> QED  BY <2>4, <2>5
<1> QED  BY <1>1, ChecksInductive, PTL

\* What one URL showed is reported whatever the others did
\* (webcheck.go:145-146), except the first pages of a failed collection.
THEOREM FoundReported == Spec => []FoundIsReported
<1>1. ChecksInv => FoundIsReported
  <2> SUFFICES ASSUME ChecksInv, phase = "done", NEW x \in seen
               PROVE  \/ x[2] \in answer.avail
                      \/ kind = "collection" /\ x[1] \in failed
    BY DEF FoundIsReported
  <2>1. x[1] # url
    BY UrlNumbers DEF ChecksInv, Accounted, LoopOK
  <2>2. x[2] \in out \/ (kind = "collection" /\ x[1] \in failed)
    BY <2>1 DEF ChecksInv, Accounted
  <2>3. x[2] \in out => x[2] \in answer.avail
    BY DEF ChecksInv, AnswerMade, IsError
  <2> QED  BY <2>2, <2>3
<1> QED  BY <1>1, ChecksInductive, PTL

-----------------------------------------------------------------------------
(* Collections *)

\* What a URL lists, as a sequence.
Listed(u) == IF listing[u] = Delisted THEN <<>> ELSE listing[u]

\* The pages fit together: the entries before the current page are read, unless
\* the listings have moved.
PagesRead ==
    kind = "collection" /\ moved = 0 /\ phase = "polling" /\ url \in Urls =>
        \A i \in DOMAIN Listed(url) :
            i <= (page - 1) * Limit /\ Listed(url)[i].orderable
                => Listed(url)[i].item \in got

\* A collection behind the loop was read to its end, if it fits and kept still.
CollectionsRead ==
    kind = "collection" /\ moved = 0 =>
        \A x \in steady : x[1] < url /\ Len(Listed(x[1])) <= Limit * MaxPages
                            => x[2] \in out \/ x[1] \in failed

\* Listings are sequences, and a page has a number.
ListingsOK ==
    /\ listing \in [Urls -> Listings \cup {Delisted}]
    /\ page \in 1..MaxPages /\ moved \in Nat

\* The inductive invariant, on top of ChecksInv.
ReadInv == ListingsOK /\ PagesRead /\ CollectionsRead

\* Where the pages begin and end.
LEMMA PageBounds ==
    ASSUME NEW p \in Nat \ {0}
    PROVE  /\ (p - 1) * Limit \in Nat /\ p * Limit \in Nat
           /\ (p - 1) * Limit = p * Limit - Limit
           /\ (1 - 1) * Limit = 0
           /\ MaxPages * Limit = Limit * MaxPages
           /\ (p + 1 - 1) * Limit = p * Limit
BY ChecksAssumption

\* A URL lists a sequence, and what is in stock is orderable somewhere in it.
LEMMA ListedIsSeq ==
    ASSUME ListingsOK, NEW u \in Urls
    PROVE  /\ Listed(u) \in Seq(Range(Listed(u))) /\ Len(Listed(u)) \in Nat
           /\ DOMAIN Listed(u) = 1..Len(Listed(u))
           /\ \A y \in InStock(u) : \E i \in DOMAIN Listed(u) :
                 Listed(u)[i].orderable /\ Listed(u)[i].item = y
<1>1. Listed(u) \in Seq(Range(Listed(u)))
  <2>1. CASE listing[u] = Delisted
    BY <2>1 DEF Listed
  <2>2. CASE listing[u] # Delisted
    BY <2>2, ChecksAssumption DEF Listed, ListingsOK
  <2> QED  BY <2>1, <2>2
<1>2. \A y \in InStock(u) : \E i \in DOMAIN Listed(u) :
         Listed(u)[i].orderable /\ Listed(u)[i].item = y
  BY DEF InStock, Listed, Orderable, Range
<1> QED  BY <1>1, <1>2

\* The lesser of two numbers.
LEMMA MinOfTwo ==
    ASSUME NEW a \in Int, NEW b \in Int
    PROVE  Min({a, b}) = IF a <= b THEN a ELSE b
BY DEF Min

\* A slice of a sequence holds what is between its bounds.
LEMMA SliceHas ==
    ASSUME NEW S, NEW l \in Seq(S), NEW a \in Nat, NEW b \in Nat,
           NEW i \in DOMAIN l, a < i, i <= b
    PROVE  l[i] \in Range(SubSeq(l, a + 1, Min({b, Len(l)})))
<1>1. Len(l) \in Nat /\ DOMAIN l = 1..Len(l)
  OBVIOUS
<1>2. PICK hi \in Nat : hi = Min({b, Len(l)}) /\ i <= hi /\ hi <= Len(l)
  <2>1. CASE b <= Len(l)
    BY <1>1, <2>1, MinOfTwo
  <2>2. CASE ~(b <= Len(l))
    BY <1>1, <2>2, MinOfTwo
  <2> QED  BY <2>1, <2>2
<1>3. PICK lo \in Nat : lo = a + 1 /\ 1 <= lo /\ lo <= i
  BY <1>1
<1>4. /\ i - lo + 1 \in DOMAIN SubSeq(l, lo, hi)
      /\ SubSeq(l, lo, hi)[i - lo + 1] = l[i]
  BY <1>1, <1>2, <1>3
<1> QED  BY <1>2, <1>3, <1>4 DEF Range

\* The current page shows the entries between its bounds.
LEMMA PageShows ==
    ASSUME ListingsOK, url \in Urls, NEW i \in DOMAIN Listed(url),
           (page - 1) * Limit < i, i <= page * Limit, Listed(url)[i].orderable
    PROVE  Listed(url)[i].item \in Orderable(Entries)
<1>1. PICK S : Listed(url) \in Seq(S)
  BY ListedIsSeq
<1>2. PICK a \in Nat : a = (page - 1) * Limit
  BY PageBounds DEF ListingsOK
<1>3. PICK b \in Nat : b = page * Limit
  BY PageBounds DEF ListingsOK
<1>4. Entries = SubSeq(Listed(url), a + 1, Min({b, Len(Listed(url))}))
  BY <1>2, <1>3 DEF Entries, Listed
<1>5. Listed(url)[i] \in Range(Entries)
  BY <1>1, <1>2, <1>3, <1>4, SliceHas
<1> QED  BY <1>5 DEF Orderable

\* The last page ends a collection that fits under the cap.
LEMMA LastPageEnds ==
    ASSUME ListingsOK, url \in Urls, LastPage(Entries),
           Len(Listed(url)) <= Limit * MaxPages
    PROVE  Len(Listed(url)) <= page * Limit
<1> DEFINE l == Listed(url)
           lo == (page - 1) * Limit + 1
           hi == Min({page * Limit, Len(l)})
<1>1. l \in Seq(Range(l)) /\ Len(l) \in Nat
  BY ListedIsSeq
<1>2. /\ page \in Nat \ {0} /\ (page - 1) * Limit = page * Limit - Limit
      /\ page * Limit \in Nat /\ MaxPages * Limit = Limit * MaxPages
      /\ lo = page * Limit - Limit + 1 /\ lo \in Nat /\ Limit \in Nat
  BY PageBounds, ChecksAssumption DEF ListingsOK
<1>3. hi = IF page * Limit <= Len(l) THEN page * Limit ELSE Len(l)
  BY <1>1, <1>2, MinOfTwo
<1>4. Entries = SubSeq(l, lo, hi)
  BY DEF Entries, Listed
<1>5. CASE page = MaxPages
  BY <1>2, <1>5
<1>6. CASE Len(Entries) < Limit
  <2> HIDE DEF l, lo, hi
  <2>1. ASSUME page * Limit < Len(l)  PROVE FALSE
    <3>1. hi = page * Limit /\ hi <= Len(l)
      BY <1>1, <1>2, <1>3, <2>1
    <3>2. Len(SubSeq(l, lo, hi)) = hi - lo + 1
      BY <1>1, <1>2, <3>1
    <3> QED  BY <1>2, <1>4, <1>6, <3>1, <3>2
  <2> QED  BY <1>1, <1>2, <2>1 DEF l
<1> QED  BY <1>5, <1>6 DEF LastPage

-----------------------------------------------------------------------------
LEMMA ReadInit == Init => ReadInv
<1> SUFFICES ASSUME Init PROVE ReadInv
  OBVIOUS
<1>1. ListingsOK
  BY ChecksAssumption DEF Init, ListingsOK, Possible
<1>2. PagesRead
  <2> SUFFICES ASSUME url \in Urls, NEW i \in DOMAIN Listed(url), i <= (page - 1) * Limit
               PROVE  FALSE
    BY DEF PagesRead
  <2>1. DOMAIN Listed(url) = 1..Len(Listed(url)) /\ Len(Listed(url)) \in Nat
    BY <1>1, ListedIsSeq
  <2>2. (page - 1) * Limit = 0
    BY ChecksAssumption, PageBounds DEF Init
  <2> QED  BY <2>1, <2>2
<1>3. CollectionsRead
  <2>1. \A x \in steady : x[1] \in Urls /\ url = 1
    BY AvailablePairs DEF Init
  <2> QED  BY <2>1, UrlNumbers DEF CollectionsRead
<1> QED  BY <1>1, <1>2, <1>3 DEF ReadInv

\* The loop takes the next URL: nothing of it is read yet.
LEMMA FreshPages ==
    ASSUME ListingsOK', page' = 1  PROVE PagesRead'
<1> SUFFICES ASSUME url' \in Urls', NEW i \in DOMAIN Listed(url)',
                    i <= (page' - 1) * Limit
             PROVE  FALSE
  BY DEF PagesRead
<1>1. DOMAIN Listed(url)' = 1..Len(Listed(url)') /\ Len(Listed(url)') \in Nat
  <2>1. url' \in Urls /\ listing' \in [Urls -> Listings \cup {Delisted}]
    BY DEF ListingsOK, Urls
  <2>2. CASE listing'[url'] = Delisted
    BY <2>2 DEF Listed
  <2>3. CASE listing'[url'] # Delisted
    BY <2>1, <2>3, ChecksAssumption DEF Listed
  <2> QED  BY <2>2, <2>3
<1>2. (page' - 1) * Limit = 0
  BY ChecksAssumption, PageBounds
<1> QED  BY <1>1, <1>2

\* A URL is done with; for a collection that kept still, all of it was found or
\* it has failed.
LEMMA ProceedReads ==
    ASSUME ChecksInv, ReadInv, url \in Urls, Proceed,
           UNCHANGED <<kind, listing, moved, steady>>,
           out \subseteq out', failed \subseteq failed',
           kind = "collection" /\ moved = 0 =>
               \A x \in steady : x[1] = url /\ Len(Listed(url)) <= Limit * MaxPages
                   => x[2] \in out' \/ x[1] \in failed'
    PROVE  ReadInv'
<1>1. ListingsOK' /\ page' = 1 /\ url' = url + 1
  BY ChecksAssumption DEF ReadInv, ListingsOK, Proceed, Urls
<1>2. PagesRead'
  BY <1>1, FreshPages
<1>3. CollectionsRead'
  <2> SUFFICES ASSUME kind = "collection", moved = 0, NEW x \in steady, x[1] < url + 1,
                      Len(Listed(x[1])) <= Limit * MaxPages
               PROVE  x[2] \in out' \/ x[1] \in failed'
    BY <1>1 DEF CollectionsRead, Listed
  <2>1. x[1] \in Urls
    BY DEF ChecksInv, SteadyFound
  <2>2. x[1] < url \/ x[1] = url
    BY <2>1, UrlNumbers
  <2>3. CASE x[1] < url
    BY <2>3 DEF ReadInv, CollectionsRead
  <2>4. CASE x[1] = url
    BY <2>4
  <2> QED  BY <2>2, <2>3, <2>4
<1> QED  BY <1>1, <1>2, <1>3 DEF ReadInv

LEMMA AnswerReads ==
    ASSUME ChecksInv, ReadInv, PageAnswers \/ ApiAnswers  PROVE ReadInv'
<1>1. /\ url \in Urls /\ kind # "collection" /\ Proceed
      /\ UNCHANGED <<kind, listing, moved, steady, failed>>
      /\ out \subseteq out'
  BY DEF PageAnswers, ApiAnswers, Asking, world
<1> QED  BY <1>1, ProceedReads

LEMMA FailureReads ==
    ASSUME ChecksInv, ReadInv, ApiRefuses \/ RequestFails  PROVE ReadInv'
<1>1. /\ url \in Urls /\ Proceed /\ failed' = failed \cup {url}
      /\ UNCHANGED <<kind, listing, moved, steady, out>>
  BY DEF ApiRefuses, RequestFails, Asking, world, ghosts
<1> QED  BY <1>1, ProceedReads

\* A page joins the pages before it, and the last one completes the collection.
LEMMA CollectionReads ==
    ASSUME ChecksInv, ReadInv, CollectionAnswers  PROVE ReadInv'
<1> DEFINE found == got \cup Orderable(Entries)
<1>1. /\ phase = "polling" /\ url \in Urls /\ kind = "collection"
      /\ UNCHANGED <<kind, failed, listing, moved, steady>>
  BY DEF CollectionAnswers, Asking, world
<1>2. page \in Nat \ {0}
  BY ChecksAssumption DEF ReadInv, ListingsOK
<1>3. ASSUME moved = 0, NEW i \in DOMAIN Listed(url), i <= page * Limit,
             Listed(url)[i].orderable
      PROVE  Listed(url)[i].item \in found
  <2>1. i \in Nat /\ (page - 1) * Limit \in Nat
    BY <1>1, <1>2, <1>3, ListedIsSeq, PageBounds DEF ReadInv
  <2>2. CASE i <= (page - 1) * Limit
    BY <1>1, <1>3, <2>2 DEF ReadInv, PagesRead
  <2>3. CASE (page - 1) * Limit < i
    BY <1>1, <1>3, <2>3, PageShows DEF ReadInv
  <2> QED  BY <2>1, <2>2, <2>3
<1>4. CASE LastPage(Entries)
  <2>1. out' = out \cup found /\ Proceed
    BY <1>4 DEF CollectionAnswers
  <2>2. ASSUME moved = 0, NEW x \in steady, x[1] = url,
               Len(Listed(url)) <= Limit * MaxPages
        PROVE  x[2] \in out'
    <3>1. x[2] \in InStock(url)
      BY <2>2 DEF ChecksInv, SteadyFound
    <3>2. PICK i \in DOMAIN Listed(url) :
             Listed(url)[i].orderable /\ Listed(url)[i].item = x[2]
      BY <1>1, <3>1, ListedIsSeq DEF ReadInv
    <3>3. Len(Listed(url)) <= page * Limit
      BY <1>1, <1>4, <2>2, LastPageEnds DEF ReadInv
    <3>4. i <= page * Limit
      <4>1. i \in Nat /\ i <= Len(Listed(url)) /\ Len(Listed(url)) \in Nat
        BY <1>1, <3>2, ListedIsSeq DEF ReadInv
      <4>2. page * Limit \in Nat
        BY <1>2, PageBounds
      <4> QED  BY <3>3, <4>1, <4>2
    <3> QED  BY <1>3, <2>1, <2>2, <3>2, <3>4
  <2> QED  BY <1>1, <2>1, <2>2, ProceedReads
<1>5. CASE ~LastPage(Entries)
  <2>1. /\ got' = found /\ page' = page + 1 /\ page # MaxPages
        /\ UNCHANGED <<out, url, phase>>
    BY <1>5 DEF CollectionAnswers, LastPage
  <2>2. ListingsOK'
    BY <1>1, <2>1, ChecksAssumption DEF ReadInv, ListingsOK, Urls
  <2>3. (page' - 1) * Limit = page * Limit
    BY <1>2, <2>1, PageBounds
  <2>4. PagesRead'
    BY <1>1, <1>3, <2>1, <2>3 DEF PagesRead, Listed
  <2>5. CollectionsRead'
    BY <1>1, <2>1 DEF ReadInv, CollectionsRead, Listed
  <2> QED  BY <2>2, <2>4, <2>5 DEF ReadInv
<1> QED  BY <1>4, <1>5

LEMMA ReturnReads ==
    ASSUME ReadInv, Return  PROVE ReadInv'
<1>1. phase' = "done" /\ UNCHANGED <<kind, url, page, out, failed, listing, moved, steady>>
  BY DEF Return, world, ghosts
<1> QED
  BY <1>1 DEF ReadInv, ListingsOK, PagesRead, CollectionsRead, Listed, Urls

\* A new check has read nothing and left nothing behind.
LEMMA AgainReads ==
    ASSUME ReadInv, Again  PROVE ReadInv'
<1>1. /\ page' = 1 /\ url' = 1 /\ moved' = 0 /\ steady' = Available
      /\ UNCHANGED <<kind, listing>>
  BY DEF Again
<1>2. ListingsOK'
  BY <1>1, ChecksAssumption DEF ReadInv, ListingsOK, Urls
<1>3. PagesRead'
  BY <1>1, <1>2, FreshPages
<1>4. CollectionsRead'
  <2>1. \A x \in steady' : x[1] \in Urls
    BY <1>1, AvailablePairs
  <2> QED  BY <1>1, <2>1, UrlNumbers DEF CollectionsRead
<1> QED  BY <1>2, <1>3, <1>4 DEF ReadInv

\* Once the listings have moved nothing is claimed of collections.
LEMMA MoveReads ==
    ASSUME ReadInv, ListingMoves  PROVE ReadInv'
<1>1. moved' = moved + 1 /\ moved \in Nat /\ page' = page
  BY DEF ReadInv, ListingsOK, ListingMoves, check
<1>2. listing' \in [Urls -> Listings \cup {Delisted}]
  BY DEF ReadInv, ListingsOK, ListingMoves, Possible
<1> QED
  BY <1>1, <1>2 DEF ReadInv, ListingsOK, PagesRead, CollectionsRead, Urls

LEMMA StillReads ==
    ASSUME ReadInv, Cancel \/ UNCHANGED vars  PROVE ReadInv'
<1>1. UNCHANGED <<kind, phase, url, page, got, out, failed, listing, moved, steady>>
  BY DEF Cancel, vars, check, world, ghosts
<1> QED
  BY <1>1 DEF ReadInv, ListingsOK, PagesRead, CollectionsRead, Listed, Urls

\* The inductive invariant holds in every reachable state.
THEOREM ReadInductive == Spec => []ReadInv
<1>1. ChecksInv /\ ReadInv /\ [Next]_vars => ReadInv'
  BY AnswerReads, FailureReads, CollectionReads, ReturnReads, AgainReads,
     MoveReads, StillReads
  DEF Next
<1> QED  BY <1>1, ReadInit, ChecksInductive, PTL DEF Spec

\* Whatever stays in stock during the whole check is reported, unless its URL
\* fails: by pages and APIs however the listings move meanwhile
\* (webcheck.go:132-151), by a collection that keeps still and fits under the cap
\* however many pages it has (shopifycollection.go:78-110).
THEOREM SteadyReported == Spec => []SteadyIsReported
<1>1. ChecksInv /\ ReadInv => SteadyIsReported
  <2> SUFFICES ASSUME ChecksInv, ReadInv, Answered, NEW x \in steady
               PROVE  \/ x[2] \in answer.avail
                      \/ x[1] \in failed
                      \/ /\ kind = "collection"
                         /\ moved > 0 \/ Len(listing[x[1]]) > Limit * MaxPages
    BY DEF SteadyIsReported
  <2>1. url > UrlCount /\ url \in Nat /\ x[1] \in Urls /\ x[2] \in InStock(x[1])
    BY DEF Answered, ChecksInv, LoopOK, SteadyFound
  <2>2. x[1] < url
    BY <2>1, UrlNumbers
  <2>3. answer.avail = out
    BY DEF Answered, ChecksInv, AnswerMade
  <2>4. CASE kind # "collection"
    BY <2>2, <2>3, <2>4 DEF ChecksInv, SteadyFound
  <2>5. CASE kind = "collection" /\ moved = 0
    <3>1. Listed(x[1]) = listing[x[1]]
      BY <2>1 DEF Listed, InStock
    <3>2. /\ Len(Listed(x[1])) \in Nat
          /\ Limit * MaxPages \in Nat
      BY <2>1, ListedIsSeq, ChecksAssumption DEF ReadInv
    <3>3. Len(Listed(x[1])) <= Limit * MaxPages => x[2] \in out \/ x[1] \in failed
      BY <2>2, <2>5 DEF ReadInv, CollectionsRead
    <3> QED  BY <2>3, <2>5, <3>1, <3>2, <3>3
  <2>6. moved = 0 \/ moved > 0
    BY DEF ReadInv, ListingsOK
  <2> QED  BY <2>4, <2>5, <2>6
<1> QED  BY <1>1, ChecksInductive, ReadInductive, PTL

-----------------------------------------------------------------------------
(* Types *)

\* What is collected on the way and what the listings stock are items.
Collected ==
    /\ kind \in Kinds /\ phase \in {"polling", "done"}
    /\ url \in 1..(UrlCount + 1)
    /\ failed \subseteq Urls
    /\ got \subseteq Items /\ out \subseteq Items
    /\ seen \subseteq Urls \X Items
    /\ steady \subseteq Urls \X Items
    /\ faults \in Nat

\* The answer and the state of ctx.
Told == answer \in [error : BOOLEAN, avail : SUBSET Items] /\ cancelled \in BOOLEAN

\* A slice holds nothing but what the sequence holds.
LEMMA SliceWithin ==
    ASSUME NEW S, NEW l \in Seq(S), NEW a \in Nat, NEW b \in Nat
    PROVE  Range(SubSeq(l, a + 1, Min({b, Len(l)}))) \subseteq Range(l)
<1>1. Len(l) \in Nat /\ DOMAIN l = 1..Len(l)
  OBVIOUS
<1>2. PICK hi \in Nat : hi = Min({b, Len(l)}) /\ hi <= Len(l)
  <2>1. CASE b <= Len(l)
    BY <1>1, <2>1, MinOfTwo
  <2>2. CASE ~(b <= Len(l))
    BY <1>1, <2>2, MinOfTwo
  <2> QED  BY <2>1, <2>2
<1>3. ASSUME NEW k \in DOMAIN SubSeq(l, a + 1, hi)
      PROVE  SubSeq(l, a + 1, hi)[k] \in Range(l)
  <2>1. k \in 1..Len(SubSeq(l, a + 1, hi))
    BY <1>1, <1>2, <1>3
  <2>2. k \in 1..(hi - a) /\ a + k \in DOMAIN l
    BY <1>1, <1>2, <2>1
  <2>3. SubSeq(l, a + 1, hi)[k] = l[a + k]
    BY <1>1, <1>2, <2>2
  <2> QED  BY <2>2, <2>3 DEF Range
<1> QED  BY <1>2, <1>3 DEF Range

\* Whatever a URL stocks or a page shows is an item.
LEMMA ItemsShown ==
    ASSUME ListingsOK
    PROVE  /\ \A u \in Urls : InStock(u) \subseteq Items
           /\ url \in Urls => Orderable(Entries) \subseteq Items
           /\ Available \subseteq Urls \X Items
<1>1. ASSUME NEW u \in Urls  PROVE Orderable(Listed(u)) \subseteq Items
  <2>1. CASE listing[u] = Delisted
    BY <2>1 DEF Listed, Orderable, Range
  <2>2. CASE listing[u] # Delisted
    <3>1. listing[u] \in Listings
      BY <2>2 DEF ListingsOK
    <3> QED  BY <2>2, <3>1 DEF Listed, Items
  <2> QED  BY <2>1, <2>2
<1>2. \A u \in Urls : InStock(u) \subseteq Items
  BY <1>1 DEF InStock, Listed
<1>3. ASSUME url \in Urls  PROVE Orderable(Entries) \subseteq Items
  <2>1. PICK S : Listed(url) \in Seq(S)
    BY <1>3, ListedIsSeq
  <2>2. PICK a \in Nat : a = (page - 1) * Limit
    BY PageBounds DEF ListingsOK
  <2>3. PICK b \in Nat : b = page * Limit
    BY PageBounds DEF ListingsOK
  <2>4. Entries = SubSeq(Listed(url), a + 1, Min({b, Len(Listed(url))}))
    BY <2>2, <2>3 DEF Entries, Listed
  <2>5. Range(Entries) \subseteq Range(Listed(url))
    BY <2>1, <2>4, SliceWithin
  <2>6. Orderable(Entries) \subseteq Orderable(Listed(url))
    BY <2>5 DEF Orderable
  <2> QED  BY <1>1, <1>3, <2>6
<1> QED  BY <1>2, <1>3 DEF Available

LEMMA CollectedStep ==
    ASSUME ListingsOK, ListingsOK', Collected, Next  PROVE Collected'
<1>1. CASE PageAnswers \/ ApiAnswers
  <2>1. /\ url \in Urls /\ url' = url + 1 /\ got' = {} /\ out' = out \cup InStock(url)
        /\ seen' = seen \cup {<<url, i>> : i \in InStock(url)}
        /\ UNCHANGED <<kind, phase, failed, steady, faults>>
    BY <1>1 DEF PageAnswers, ApiAnswers, Asking, Shown, Proceed
  <2> QED  BY <2>1, ItemsShown, UrlNumbers DEF Collected, Urls, Items
<1>2. CASE CollectionAnswers
  <2>1. /\ url \in Urls /\ url' \in {url, url + 1}
        /\ got' \subseteq got \cup Orderable(Entries)
        /\ out' \subseteq out \cup got \cup Orderable(Entries)
        /\ seen' = seen \cup {<<url, i>> : i \in Orderable(Entries)}
        /\ UNCHANGED <<kind, phase, failed, steady, faults>>
    BY <1>2 DEF CollectionAnswers, Asking, Shown, Proceed
  <2> QED  BY <2>1, ItemsShown, UrlNumbers DEF Collected, Urls, Items
<1>3. CASE ApiRefuses \/ RequestFails
  <2>1. /\ url \in Urls /\ url' = url + 1 /\ got' = {} /\ failed' = failed \cup {url}
        /\ faults' \in {faults, faults + 1}
        /\ UNCHANGED <<kind, phase, out, seen, steady>>
    BY <1>3 DEF ApiRefuses, RequestFails, Asking, Proceed, Fault, ghosts
  <2> QED  BY <2>1, UrlNumbers DEF Collected, Urls, Items
<1>4. CASE Return
  BY <1>4 DEF Return, ghosts, Collected, Urls, Items
<1>5. CASE Again
  <2>1. url' = 1 /\ phase' = "polling" /\ UNCHANGED <<kind, faults>>
        /\ got' = {} /\ out' = {} /\ failed' = {} /\ seen' = {} /\ steady' = Available
    BY <1>5 DEF Again
  <2> QED  BY <2>1, ItemsShown, UrlNumbers DEF Collected, Urls, Items
<1>6. CASE ListingMoves
  <2>1. steady' \subseteq steady
        /\ UNCHANGED <<kind, phase, url, got, out, failed, seen, faults>>
    BY <1>6 DEF ListingMoves, check
  <2> QED  BY <2>1 DEF Collected, Urls, Items
<1>7. CASE Cancel
  BY <1>7 DEF Cancel, check, ghosts, Collected, Urls, Items
<1> QED  BY <1>1, <1>2, <1>3, <1>4, <1>5, <1>6, <1>7 DEF Next

LEMMA ToldStep ==
    ASSUME Collected, Told, Next  PROVE Told'
<1>1. IsError \in BOOLEAN
  BY DEF IsError
<1>2. (IF IsError THEN {} ELSE out) \in SUBSET Items
  BY DEF Collected
<1>3. Items' = Items
  BY DEF Items
<1>4. \/ answer' = answer
      \/ answer' = [error |-> IsError, avail |-> IF IsError THEN {} ELSE out]
  BY Zenon DEF Next, PageAnswers, ApiAnswers, ApiRefuses, CollectionAnswers,
     RequestFails, Return, Again, ListingMoves, Cancel, Proceed, check
<1>5. answer' \in [error : BOOLEAN, avail : SUBSET Items]
  <2> DEFINE A == IF IsError THEN {} ELSE out
  <2>1. A \in SUBSET Items
    BY <1>2
  <2> HIDE DEF A
  <2>2. [error |-> IsError, avail |-> A] \in [error : BOOLEAN, avail : SUBSET Items]
    BY <1>1, <2>1, Zenon
  <2> QED  BY <1>4, <2>2, Zenon DEF Told, A
<1>6. cancelled' = cancelled \/ cancelled' = TRUE
  BY Zenon DEF Next, PageAnswers, ApiAnswers, ApiRefuses, CollectionAnswers,
     RequestFails, Return, Again, ListingMoves, Cancel
<1> QED  BY <1>3, <1>5, <1>6, Zenon DEF Told

\* Every variable keeps its type; no check goes past the last page of a URL or the
\* last URL of its source.
THEOREM ChecksTypes == Spec => []TypeOK
<1>1. Init => Collected
  <2> SUFFICES ASSUME Init PROVE Collected
    OBVIOUS
  <2>1. ListingsOK
    BY ReadInit DEF ReadInv
  <2> QED  BY <2>1, ItemsShown, UrlNumbers DEF Init, Collected
<1>2. Init => Told
  <2>1. Init => answer \in [error : BOOLEAN, avail : SUBSET Items]
    BY DEF Init
  <2> QED  BY <2>1, Zenon DEF Init, Told
<1>3. ReadInv /\ ReadInv' /\ Collected /\ [Next]_vars => Collected'
  <2>1. UNCHANGED vars /\ Collected => Collected'
    BY DEF vars, check, ghosts, Collected, Urls, Items
  <2> QED  BY <2>1, CollectedStep DEF ReadInv
<1>4. Collected /\ Told /\ [Next]_vars => Told'
  <2>1. UNCHANGED vars /\ Told => Told'
    BY Zenon DEF vars, check, Told, Items
  <2> QED  BY <2>1, ToldStep
<1>5. ChecksInv => replied \subseteq Urls
  BY DEF ChecksInv, LoopOK
<1>6. ReadInv /\ Collected /\ Told /\ replied \subseteq Urls => TypeOK
  BY Zenon DEF ReadInv, ListingsOK, Collected, Told, TypeOK
<1> QED
  BY <1>1, <1>2, <1>3, <1>4, <1>5, <1>6, ChecksInductive, ReadInductive, PTL DEF Spec
=============================================================================
