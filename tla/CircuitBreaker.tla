--------------------------- MODULE CircuitBreaker ---------------------------
(***************************************************************************)
(* The circuit breaker one role of the model pool keeps                    *)
(* (ol_pool/router.py, ModelPool.__init__ and _call_with_breaker), as      *)
(* operators on the breaker's value.                                       *)
(*                                                                         *)
(* pybreaker does the counting.  _call_with_breaker never hands it the LLM *)
(* request itself: it reads current_state before the request, awaits the   *)
(* request, and only then passes pybreaker a function that returns or      *)
(* raises at once.  That call is synchronous, so "half-open" is entered    *)
(* and left inside one report and no other coroutine ever sees it.         *)
(***************************************************************************)
EXTENDS Naturals

CONSTANTS
  FailMax,       \* consecutive failures that open the breaker (5 in the code)
  ResetTimeout   \* clock ticks an open breaker ignores reports (60 s)

ASSUME BreakerAssumption ==
  /\ FailMax \in Nat \ {0}
  /\ ResetTimeout \in Nat \ {0}

(* age: ticks since the breaker opened, 0 while it is closed; it stops at  *)
(* ResetTimeout, beyond which pybreaker tells no two ages apart.  failures *)
(* stops at FailMax: a trial that fails counts beyond it, and nothing      *)
(* reads the counter of an open breaker.                                   *)
BreakerValues ==
  [state : {"closed", "open"}, failures : 0 .. FailMax, age : 0 .. ResetTimeout]

Fresh == [state |-> "closed", failures |-> 0, age |-> 0]

Opened == [state |-> "open", failures |-> FailMax, age |-> 0]

IsOpen(b) == b.state = "open"

(* An open breaker moves on only when a report reaches it this late.       *)
ResetDue(b) == IsOpen(b) /\ b.age = ResetTimeout

(* Mutation of ReportSuccess: any success closes the breaker. *)
ReportSuccess_AnyCloses(b) == Fresh

(* A request came back: the counter restarts, and a report that is late    *)
(* enough is the successful trial of a half-open breaker.                  *)
ReportSuccess(b) == IF IsOpen(b) /\ ~ResetDue(b) THEN b ELSE Fresh

(* A request raised: one failure more, or the failed trial of a half-open  *)
(* breaker, which opens it again from now.                                 *)
ReportFailure(b) ==
  IF IsOpen(b) /\ ~ResetDue(b) THEN b
  ELSE IF ~IsOpen(b) /\ b.failures + 1 < FailMax
       THEN [b EXCEPT !.failures = @ + 1]
       ELSE Opened

(* A tick of the clock.                                                    *)
Aged(b) == [b EXCEPT !.age = @ + 1]
=============================================================================
