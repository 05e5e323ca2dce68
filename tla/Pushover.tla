------------------------------ MODULE Pushover ------------------------------
(***************************************************************************)
(* The form of a Pushover message (internal/notify/notify.go).  Settings   *)
(* are the priority and the seconds of retry and expire as configured      *)
(* (internal/config/config.go applies no bounds).  The form keeps them and *)
(* what the message says of the offer; texts are left out but for the      *)
(* length of the title in bytes.                                           *)
(***************************************************************************)
EXTENDS Integers

MinRetry == 30
MaxExpire == 10800
TitleMax == 250

\* Retry and expire are sent with emergency priority only.
IsEmergency(settings) == settings.priority >= 2

SentRetry(settings) ==
    IF settings.retry < MinRetry THEN MinRetry ELSE settings.retry

\* Mutant: expire is raised to retry before it is cut to Pushover's limit.
SentExpire_RaisedFirst(settings) ==
    LET raised == IF settings.expire < SentRetry(settings)
                  THEN SentRetry(settings) ELSE settings.expire
    IN  IF raised > MaxExpire THEN MaxExpire ELSE raised

\* Cut to the limit, then raised to retry.
SentExpire(settings) ==
    LET cut == IF settings.expire > MaxExpire THEN MaxExpire ELSE settings.expire
    IN  IF cut < SentRetry(settings) THEN SentRetry(settings) ELSE cut

\* truncate: max - 1 bytes, and the three bytes of the ellipsis.
Truncated(bytes, max) == IF bytes <= max THEN bytes ELSE max - 1 + 3

\* formatMessage with the fields of the form: pre-order note, price or n/a, stock,
\* and the branch of an in-store offer.
Form(settings, title, a) ==
    [title |-> Truncated(title, TitleMax), preOrder |-> a.preOrder, price |-> a.price,
     stock |-> a.stock, branch |-> a.place.channel = "instore",
     priority |-> settings.priority,
     repeats |-> IF IsEmergency(settings)
                 THEN {[retry |-> SentRetry(settings), expire |-> SentExpire(settings)]}
                 ELSE {}]

-----------------------------------------------------------------------------
\* Pushover's limits as notify.go:26-27 states them; a retry above the limit of
\* expire lifts expire with it.
FormIsLegal(settings, form) ==
    \A r \in form.repeats :
        /\ MinRetry <= r.retry /\ r.retry <= r.expire
        /\ settings.retry <= MaxExpire => r.expire <= MaxExpire
=============================================================================
