------------------------------- MODULE Checks -------------------------------
(***************************************************************************)
(* One Check of a source (internal/source): it asks a shop for one URL     *)
(* after the other, while what the shop lists changes and requests fail,   *)
(* and turns what it got into one answer.  Three ways of asking cover the  *)
(* sources:                                                                *)
(*   page        a product page, delisted pages are just out of stock      *)
(*               (webCheck and its shops, grz, weinmann, bobselektro);     *)
(*   api         an API that has to answer 200 (expert, obi, krasserstoff, *)
(*               and the one feed of braucheklima);                        *)
(*   collection  a Shopify collection, page by page (shopifycollection).   *)
(* Whether an entry counts as in stock is its shop's verdict, here a field *)
(* of the entry.  An answer is the set of items found: the same item found *)
(* twice is reported twice by the code, which the monitor treats as known. *)
(***************************************************************************)
EXTENDS Integers, Sequences, FiniteSets, SequencesExt, FiniteSetsExt

CONSTANTS
    Kinds,          \* the ways of asking that are checked
    UrlCount,           \* number of URLs of the source
    Listings,       \* what a URL can list: sequences of [item, orderable]
    Delisted,       \* the shop answers 404 or 410
    Limit,          \* entries per page of a collection: 250
    MaxPages,       \* pages read of a collection: 20
    MaxMoves,       \* bound on changes of the listings during a check
    MaxFaults       \* bound on failing requests before a shutdown

ASSUME ChecksAssumption ==
    /\ Kinds \subseteq {"page", "api", "collection"}
    /\ UrlCount \in Nat \ {0} /\ Limit \in Nat \ {0} /\ MaxPages \in Nat \ {0}
    /\ Delisted \notin Listings
    /\ \A l \in Listings : l \in Seq(Range(l))
    /\ MaxMoves \in Nat /\ MaxFaults \in Nat

VARIABLES
    kind,           \* how this source asks
    listing,        \* what each URL lists now
    phase,          \* "polling", or "done" with an answer
    url, page,      \* the next request
    got,            \* what the collection being read has shown so far
    out,            \* the items found
    failed,         \* the URLs that returned an error
    answer,         \* what Check returned
    seen,           \* every orderable entry a response showed, with its URL
    replied,        \* the URLs the shop has answered for
    steady,         \* the entries in stock ever since the check began
    moved,          \* changes since the check began
    cancelled,      \* ctx is cancelled
    faults

check == <<phase, url, page, got, out, failed, answer>>
world == <<listing, moved>>
ghosts == <<seen, replied, steady>>
vars == <<kind, check, world, ghosts, cancelled, faults>>

Urls == 1..UrlCount

Orderable(entries) == {e.item : e \in {e \in Range(entries) : e.orderable}}

\* The items in stock at a URL; nothing if it is delisted.
InStock(u) == IF listing[u] = Delisted THEN {} ELSE Orderable(listing[u])

\* A product page is about one product.
Possible == {Delisted} \cup {l \in Listings : kind = "page" => Len(l) <= 1}

Items == UNION {Orderable(l) : l \in Listings}

Available == {x \in Urls \X Items : x[2] \in InStock(x[1])}

TypeOK ==
    /\ kind \in Kinds
    /\ listing \in [Urls -> Listings \cup {Delisted}]
    /\ phase \in {"polling", "done"}
    /\ url \in 1..(UrlCount + 1) /\ page \in 1..MaxPages
    /\ failed \subseteq Urls /\ replied \subseteq Urls
    /\ answer \in [error : BOOLEAN, avail : SUBSET Items]
    /\ seen \subseteq Urls \X Items
    /\ steady \subseteq Urls \X Items
    /\ cancelled \in BOOLEAN
    /\ moved \in Nat /\ faults \in Nat

Init ==
    /\ kind \in Kinds
    /\ listing \in [Urls -> Possible]
    /\ phase = "polling" /\ url = 1 /\ page = 1
    /\ got = {} /\ out = {} /\ failed = {}
    /\ answer = [error |-> FALSE, avail |-> {}]
    /\ seen = {} /\ replied = {}
    /\ steady = Available
    /\ moved = 0 /\ cancelled = FALSE /\ faults = 0

-----------------------------------------------------------------------------
(* The requests *)

Asking(how) == phase = "polling" /\ url \in Urls /\ kind = how /\ ~cancelled

Shown(items) == seen' = seen \cup {<<url, i>> : i \in items}

\* The shop has said what url lists, or that there is nothing.
Replied == replied' = replied \cup {url}

\* The loop takes the next URL.
Proceed == url' = url + 1 /\ page' = 1 /\ got' = {} /\ UNCHANGED <<phase, answer>>

Fault == (cancelled /\ UNCHANGED faults) \/ (faults < MaxFaults /\ faults' = faults + 1)

\* A product page answers: a 404 or 410 means that it is not available.
PageAnswers ==
    /\ Asking("page")
    /\ out' = out \cup InStock(url)
    /\ Shown(InStock(url)) /\ Replied
    /\ Proceed
    /\ UNCHANGED <<kind, failed, world, steady, cancelled, faults>>

ApiAnswers ==
    /\ Asking("api") /\ listing[url] # Delisted
    /\ out' = out \cup InStock(url)
    /\ Shown(InStock(url)) /\ Replied
    /\ Proceed
    /\ UNCHANGED <<kind, failed, world, steady, cancelled, faults>>

\* To an API source every status but 200 is an error.
ApiRefuses ==
    /\ Asking("api") /\ listing[url] = Delisted
    /\ failed' = failed \cup {url}
    /\ Proceed
    /\ UNCHANGED <<kind, out, world, ghosts, cancelled, faults>>

\* The entries on the current page of a collection.
Entries == LET l == IF listing[url] = Delisted THEN <<>> ELSE listing[url]
           IN  SubSeq(l, (page - 1) * Limit + 1, Min({page * Limit, Len(l)}))

\* Mutant: no cap on the pages.
LastPage_Uncapped(entries) == Len(entries) < Limit

\* Mutant: a full page is taken for a short one.
LastPage_FullIsShort(entries) == Len(entries) <= Limit \/ page = MaxPages

\* No page follows: not found, empty, short, or the cap.
LastPage(entries) == Len(entries) < Limit \/ page = MaxPages

CollectionAnswers ==
    /\ Asking("collection")
    /\ LET found == got \cup Orderable(Entries)
       IN  IF LastPage(Entries)
           THEN out' = out \cup found /\ Proceed /\ Replied
           ELSE /\ got' = found /\ page' = page + 1
                /\ UNCHANGED <<out, url, phase, answer, replied>>
    /\ Shown(Orderable(Entries))
    /\ UNCHANGED <<kind, failed, world, steady, cancelled, faults>>

\* Mutant: a request that timed out counts as not found.
RequestFails_AsNotFound ==
    /\ phase = "polling" /\ url \in Urls
    /\ Fault
    /\ Proceed
    /\ UNCHANGED <<kind, failed, out, world, ghosts, cancelled>>

\* No connection, a bad status, an undecodable body, an error of FlareSolverr or
\* a cancelled ctx.  What a collection has shown so far is lost with it.
RequestFails ==
    /\ phase = "polling" /\ url \in Urls
    /\ Fault
    /\ failed' = failed \cup {url}
    /\ Proceed
    /\ UNCHANGED <<kind, out, world, ghosts, cancelled>>

\* Mutant: one failing URL fails the check.
IsError_AnyFailed == failed # {}

\* Nothing found and something failed.
IsError == out = {} /\ failed # {}

Return ==
    /\ phase = "polling" /\ url > UrlCount
    /\ answer' = [error |-> IsError, avail |-> IF IsError THEN {} ELSE out]
    /\ phase' = "done"
    /\ UNCHANGED <<kind, url, page, got, out, failed, world, ghosts, cancelled, faults>>

\* The next tick checks again.
Again ==
    /\ phase = "done"
    /\ phase' = "polling" /\ url' = 1 /\ page' = 1
    /\ got' = {} /\ out' = {} /\ failed' = {}
    /\ seen' = {} /\ replied' = {}
    /\ steady' = Available /\ moved' = 0
    /\ UNCHANGED <<kind, listing, answer, cancelled, faults>>

-----------------------------------------------------------------------------
(* The world *)

ListingMoves ==
    /\ phase = "polling" /\ moved < MaxMoves /\ moved' = moved + 1
    /\ \E u \in Urls, l \in Possible :
          l # listing[u] /\ listing' = [listing EXCEPT ![u] = l]
    /\ steady' = steady \cap Available'
    /\ UNCHANGED <<kind, check, seen, replied, cancelled, faults>>

Cancel ==
    /\ ~cancelled
    /\ cancelled' = TRUE
    /\ UNCHANGED <<kind, check, world, ghosts, faults>>

Next ==
    \/ PageAnswers \/ ApiAnswers \/ ApiRefuses \/ CollectionAnswers
    \/ RequestFails \/ Return \/ Again
    \/ ListingMoves \/ Cancel

Spec == Init /\ [][Next]_vars

-----------------------------------------------------------------------------
(* Properties *)

Answered == phase = "done" /\ ~answer.error

\* An empty answer without an error means what the Source interface says: the
\* shop answered for every URL and had nothing (model.go:34-36).  The monitor
\* drops the rows of everything an answer leaves out.
EmptyMeansAsked ==
    Answered /\ answer.avail = {} => replied = Urls /\ seen = {}

\* What one URL showed is reported whatever the others did ("partial success
\* still returns the results it found", webcheck.go:145-146), except the first
\* pages of a collection whose next page failed.
FoundIsReported ==
    phase = "done" => \A x \in seen :
        \/ x[2] \in answer.avail
        \/ kind = "collection" /\ x[1] \in failed

\* An item that stays in stock during the whole check is reported unless its own
\* URL fails, for pages and APIs however the listings move meanwhile and for a
\* collection that keeps still and fits under the page cap.
SteadyIsReported ==
    Answered => \A x \in steady :
        \/ x[2] \in answer.avail
        \/ x[1] \in failed
        \/ kind = "collection" /\ (moved > 0 \/ Len(listing[x[1]]) > Limit * MaxPages)

\* "Check returns all currently available items" (model.go:34): what was in stock
\* all the time is in an answer that no failed request spoiled.
AllAvailableReported ==
    Answered /\ failed = {} => \A x \in steady : x[2] \in answer.avail
=============================================================================
