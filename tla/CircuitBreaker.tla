--------------------------- MODULE CircuitBreaker ---------------------------
(***************************************************************************)
(* dw_kernel's circuit breaker as operators on its three fields.  One is   *)
(* shared by all calls of an adapter; a call asks before it starts and     *)
(* reports when it ends, and other calls report in between.                *)
(***************************************************************************)
EXTENDS Integers

CONSTANTS failure_threshold, reset_timeout

ASSUME BreakerAssumption == failure_threshold \in Nat \ {0}

CircuitState == {"closed", "open", "half_open"}

\* A new breaker, and what record_success makes of any.
Closed == [state |-> "closed", fails |-> 0, opened |-> 0]

\* Only an open breaker whose timeout has not passed refuses.
Refuses(b, t) == b.state = "open" /\ t - b.opened < reset_timeout

\* before_call, when it does not raise.  A half-open breaker lets others pass.
before_call(b) == IF b.state = "open" THEN [b EXCEPT !.state = "half_open"] ELSE b

_trip(b, t) == [state |-> "open", fails |-> 0, opened |-> t]

\* A variant that counts failures of a trial like others.
record_failureCounts(b, t) ==
    IF b.fails + 1 >= failure_threshold THEN _trip(b, t)
    ELSE [b EXCEPT !.fails = @ + 1, !.state = "closed"]

\* One failure is enough for a half-open breaker.
record_failure(b, t) ==
    IF b.state = "half_open" \/ b.fails + 1 >= failure_threshold THEN _trip(b, t)
    ELSE [b EXCEPT !.fails = @ + 1]
=============================================================================
