--------------------------- MODULE MonotonicTime ----------------------------
(***************************************************************************)
(* Points in time (amqp_time.c): nanoseconds of a monotonic clock in 64    *)
(* bits, UINT64_MAX for "at infinity".  The clock is a parameter of every  *)
(* operator; it is 0 when clock_gettime fails.                             *)
(***************************************************************************)
EXTENDS Integers

CONSTANTS
    UINT64_MAX,
    INT_MAX,
    NS_PER_S, NS_PER_MS, NS_PER_US

ASSUME UnitAssumption ==
    /\ UINT64_MAX \in Nat /\ INT_MAX \in Nat
    /\ NS_PER_US \in Nat \ {0} /\ NS_PER_MS \in Nat \ {0} /\ NS_PER_S \in Nat \ {0}

\* the statuses of these functions
TIME_OK == "AMQP_STATUS_OK"
TIME_INVALID == "AMQP_STATUS_INVALID_PARAMETER"
TIMER_FAILURE == "AMQP_STATUS_TIMER_FAILURE"
TIMEOUT == "AMQP_STATUS_TIMEOUT"

\* the timeout of a caller who passes none
NoTimeout == [tv_sec |-> -1, tv_usec |-> 0, given |-> FALSE]

Timeval(sec, usec) == [tv_sec |-> sec, tv_usec |-> usec, given |-> TRUE]

\* what is left of a sum or product in uint64_t, and of a number in int
Wrapped(n) == n % (UINT64_MAX + 1)

Int32(n) ==
    LET low == n % (2 * (INT_MAX + 1))
    IN  IF low <= INT_MAX THEN low ELSE low - 2 * (INT_MAX + 1)

amqp_time_infinite == UINT64_MAX

\* the time a caller asks to wait
Asked(timeout) == timeout.tv_sec * NS_PER_S + timeout.tv_usec * NS_PER_US

\* the clock and a delta added, unless the sum has passed UINT64_MAX
PointAfter(now, delta) ==
    LET point == Wrapped(now + delta)
    IN  CASE now = 0 -> [status |-> TIMER_FAILURE, time |-> 0]
          [] now # 0 /\ (now > point \/ delta > point) ->
                 [status |-> TIME_INVALID, time |-> point]
          [] OTHER -> [status |-> TIME_OK, time |-> point]

amqp_time_from_now(now, timeout) ==
    CASE ~ timeout.given -> [status |-> TIME_OK, time |-> amqp_time_infinite]
      [] timeout.given /\ (timeout.tv_sec < 0 \/ timeout.tv_usec < 0) ->
             [status |-> TIME_INVALID, time |-> 0]
      [] OTHER -> PointAfter(now, Wrapped(Asked(timeout)))

amqp_time_s_from_now(now, seconds) ==
    IF seconds <= 0 THEN [status |-> TIME_OK, time |-> amqp_time_infinite]
    ELSE PointAfter(now, Wrapped(seconds * NS_PER_S))

(***************************************************************************)
(* How long poll may sleep: -1 for ever, else whole milliseconds.          *)
(***************************************************************************)
amqp_time_ms_until(time, now) ==
    CASE time = UINT64_MAX -> [status |-> TIME_OK, ms |-> -1]
      [] time = 0 -> [status |-> TIME_OK, ms |-> 0]
      [] time \notin {0, UINT64_MAX} /\ now = 0 -> [status |-> TIMER_FAILURE, ms |-> 0]
      [] OTHER -> [status |-> TIME_OK,
                   ms |-> IF now >= time THEN 0 ELSE Int32((time - now) \div NS_PER_MS)]

\* the same as seconds and microseconds, no timeout for infinity
amqp_time_tv_until(time, now) ==
    CASE time = UINT64_MAX -> [status |-> TIME_OK, tv |-> NoTimeout]
      [] time = 0 -> [status |-> TIME_OK, tv |-> Timeval(0, 0)]
      [] time \notin {0, UINT64_MAX} /\ now = 0 ->
             [status |-> TIMER_FAILURE, tv |-> Timeval(0, 0)]
      [] OTHER ->
             LET left == IF now >= time THEN 0 ELSE time - now
             IN  [status |-> TIME_OK,
                  tv |-> Timeval(Int32(left \div NS_PER_S),
                                 Int32((left % NS_PER_S) \div NS_PER_US))]

amqp_time_has_past(time, now) ==
    CASE time = UINT64_MAX -> TIME_OK
      [] time # UINT64_MAX /\ now = 0 -> TIMER_FAILURE
      [] OTHER -> IF now > time THEN TIMEOUT ELSE TIME_OK

amqp_time_first(l, r) == IF l < r THEN l ELSE r
=============================================================================
