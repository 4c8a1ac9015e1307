------------------------------- MODULE Pacing -------------------------------
(***************************************************************************)
(* with_retry_policy with an ExponentialBackoff (async/backoff.hpp), and a *)
(* BasicRateLimiter (async/rate_limiter.hpp) polled as time goes by.       *)
(***************************************************************************)
EXTENDS Integers, Sequences

CONSTANTS
  WordMax,           \* the largest u64
  Policies,          \* the ExponentialBackoffs to try
  Rates,             \* the rates, as operations in so many ticks
  MaxBurst,          \* bound on burst_
  MaxTime            \* bound on the time

VARIABLES
  retry,             \* policy, RetryState, and with_retry_policy: pc, calls, sleeps
  limiter            \* rate_, burst_, count_, the clock, when poll said yes

pacingVars == <<retry, limiter>>

-----------------------------------------------------------------------------
NewRetryState == [should_retry |-> FALSE, n_attempts |-> 0, prev_delay |-> 0, next_delay |-> 0]

NextDelay_Uncapped(s, p) == ((s.next_delay * p.backoff_factor) % (WordMax + 1)) \div p.backoff_divisor
NextDelay(s, p) ==
  LET d == ((s.next_delay * p.backoff_factor) % (WordMax + 1)) \div p.backoff_divisor IN
  IF d < p.max_delay THEN d ELSE p.max_delay

update_retry_state(s, p) ==
  IF s.n_attempts >= p.max_attempts THEN [s EXCEPT !.should_retry = FALSE]
  ELSE [should_retry |-> TRUE, n_attempts |-> s.n_attempts + 1, prev_delay |-> s.next_delay,
        next_delay |-> IF s.n_attempts = 0 THEN p.initial_delay ELSE NextDelay(s, p)]

\* The action is called; it succeeds, or fails in a way that can be retried or
\* in one that cannot.
CallAction(result) ==
  LET s == update_retry_state(retry.state, retry.policy)
      again == result = "retryable" /\ s.should_retry IN
  /\ retry.pc = "call"
  /\ retry' = [retry EXCEPT !.pc = IF again THEN "sleep" ELSE "returned", !.calls = @ + 1,
                            !.state = IF result = "retryable" THEN s ELSE @, !.result = result]
  /\ UNCHANGED limiter
SleepDelay ==
  /\ retry.pc = "sleep"
  /\ retry' = [retry EXCEPT !.pc = "call", !.sleeps = Append(@, retry.state.next_delay)]
  /\ UNCHANGED limiter

-----------------------------------------------------------------------------
get_current_upper_bound(l) == (l.time * l.rate[1]) \div l.rate[2]

\* poll: what has piled up beyond the burst is lost.
Piled_Up(l, upper) == l.count
Piled(l, upper) == IF upper - l.count > l.burst THEN upper - l.burst ELSE l.count
Poll ==
  LET upper == get_current_upper_bound(limiter)
      count == Piled(limiter, upper) IN
  /\ Len(limiter.grants) < MaxTime
  /\ limiter' = IF count = upper THEN [limiter EXCEPT !.count = count, !.refused = limiter.time]
                ELSE [limiter EXCEPT !.count = count + 1, !.grants = Append(@, limiter.time)]
  /\ UNCHANGED retry
available(l) ==
  LET n == get_current_upper_bound(l) - l.count IN
  IF n < 0 THEN 0 ELSE IF n > l.burst THEN l.burst ELSE n
Tick ==
  /\ limiter.time < MaxTime
  /\ limiter' = [limiter EXCEPT !.time = @ + 1]
  /\ UNCHANGED retry

-----------------------------------------------------------------------------
NewRetry(p) == [policy |-> p, state |-> NewRetryState, pc |-> "call", calls |-> 0,
                sleeps |-> <<>>, result |-> "none"]
NewLimiter(r, b) == [rate |-> r, burst |-> b, count |-> 0, time |-> 0, grants |-> <<>>, refused |-> -1]

\* One or the other.
PacingInit ==
  \/ /\ retry \in {NewRetry(p) : p \in Policies}
     /\ limiter = NewLimiter(<<1, 1>>, 1)
  \/ /\ retry = [NewRetry(CHOOSE p \in Policies : TRUE) EXCEPT !.pc = "none"]
     /\ limiter \in {NewLimiter(r, b) : r \in Rates, b \in 1 .. MaxBurst}
PacingStep ==
  \/ \E result \in {"ok", "retryable", "other"} : CallAction(result)
  \/ SleepDelay
  \/ retry.pc = "none" /\ (Poll \/ Tick)

PacingSpec == PacingInit /\ [][PacingStep]_pacingVars

\* The policies whose delays are meant to grow, and whose products stay within
\* a u64.
Fits(p) ==
  /\ p.backoff_factor >= p.backoff_divisor /\ p.initial_delay <= p.max_delay
  /\ p.max_delay * p.backoff_factor <= WordMax

\* with_retry_policy gives up after a result that can be retried only when it
\* has tried once and then once for each of the max_attempts (0, which is
\* documented to mean no maximum, left aside), and sleeps exactly once between
\* two calls of the action.  The first delay is initial_delay, and no later one is above
\* max_delay, though the product that it is the minimum with may have wrapped.
\* Where no product can wrap, the delays never shrink, and with a divisor of 1
\* they are the powers of the factor times the first, up to the maximum.
RetriesAsTold ==
  LET s == retry.sleeps
      p == retry.policy IN
  /\ p.max_attempts > 0 =>
       /\ retry.calls <= p.max_attempts + 1
       /\ retry.pc = "returned" /\ retry.result = "retryable" => retry.calls = p.max_attempts + 1
  /\ retry.pc = "returned" => retry.calls = Len(s) + 1
  /\ \A i \in DOMAIN s : IF i = 1 THEN s[i] = p.initial_delay ELSE s[i] <= p.max_delay
  /\ Fits(p) => \A i \in DOMAIN s :
       /\ i > 1 => s[i] >= s[i - 1]
       /\ p.backoff_divisor = 1 =>
            LET d == p.initial_delay * p.backoff_factor ^ (i - 1) IN
            s[i] = IF d < p.max_delay THEN d ELSE p.max_delay

\* No more than burst operations go at once, and in any stretch of time no more
\* than the rate allows and a burst; and an operation is refused only when the
\* limiter has none available.
RateIsKept ==
  LET g == limiter.grants
      upper(t) == get_current_upper_bound([limiter EXCEPT !.time = t]) IN
  /\ \A i, j \in DOMAIN g : i <= j => j - i + 1 <= limiter.burst + upper(g[j]) - upper(g[i])
  /\ limiter.refused = limiter.time => available(limiter) = 0
  /\ limiter.count <= get_current_upper_bound(limiter)

\* "0 means no maximum": such a policy retries as often as it takes.
NoMaximum == retry.policy.max_attempts = 0 /\ retry.pc = "returned" => retry.result # "retryable"
=============================================================================
