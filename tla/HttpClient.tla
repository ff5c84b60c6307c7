----------------------------- MODULE HttpClient -----------------------------
(***************************************************************************)
(* One call of Client.request as a value: the loop over attempts.  Headers,*)
(* bodies and the length of a wait are left out.  The only user of the     *)
(* client is the health check, whose context never ends.                   *)
(***************************************************************************)
EXTENDS Integers

CONSTANT Retries

ASSUME RetriesAssumption == Retries \in Nat

\* How a single exchange can end: an answer by its status, an error by its type.
Outcomes == {"below500", "5xx", "dial", "read", "write", "timeout", "other"}

\* A failed name lookup arrives as a dial error.
IsRetriableError(outcome) == outcome \in {"5xx", "dial", "read", "write", "timeout"}

Request == [pc : {"send", "backoff", "answered", "failed"}, attempt : 0 .. Retries]

NewRequest == [pc |-> "send", attempt |-> 0]

Returned(r) == r.pc \in {"answered", "failed"}

\* Mutant of Again: one attempt too many.
AgainAndAgain(r) ==
    IF r.attempt <= Retries THEN [pc |-> "backoff", attempt |-> r.attempt + 1]
    ELSE [r EXCEPT !.pc = "failed"]

\* Mutant of Again: attempts are not counted.
AgainForever(r) == [r EXCEPT !.pc = "backoff"]

\* The head of the loop.
Again(r) ==
    IF r.attempt < Retries THEN [pc |-> "backoff", attempt |-> r.attempt + 1]
    ELSE [r EXCEPT !.pc = "failed"]

\* An exchange ends.
Do(r, outcome) ==
    IF IsRetriableError(outcome) THEN Again(r)
    ELSE [r EXCEPT !.pc = IF outcome = "below500" THEN "answered" ELSE "failed"]

\* The timer fires.
waitBackoff(r) == [r EXCEPT !.pc = "send"]
=============================================================================
