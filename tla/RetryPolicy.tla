---------------------------- MODULE RetryPolicy ----------------------------
(***************************************************************************)
(* RetryPolicy.Delay: the saturating base-2 delay before the next attempt. *)
(* A time.Duration is a signed integer of WordBits bits, 64 in Go, counting *)
(* nanoseconds; Microsecond of them are the database's resolution, in which *)
(* Jobs counts (MaxRetryDelay too).                                        *)
(***************************************************************************)
EXTENDS Jobs

CONSTANTS
  WordBits,          \* 64 in Go
  Microsecond        \* 1000 in Go

\* MaxRetryDelay is itself a time.Duration.
ASSUME DurationAssumption ==
  /\ WordBits \in Nat \ {0} /\ Microsecond \in Nat \ {0}
  /\ MaxRetryDelay * Microsecond < 2 ^ (WordBits - 1)

\* Multiplication that wraps at the width of a word.
Doubled(d) ==
  LET half == 2 ^ (WordBits - 1) IN ((2 * d + half) % (2 * half)) - half

\* A validation that lets a delay grow past the library's maximum.
policyValidUnbounded(policy, attempt) ==
  /\ attempt >= 1 /\ policy.initial >= 0 /\ policy.maximum >= 0
  /\ policy.initial <= policy.maximum

\* Delay returns no error.
policyValid(policy, attempt) ==
  /\ attempt >= 1 /\ policy.initial >= 0
  /\ policy.maximum >= 0 /\ policy.maximum <= MaxRetryDelay * Microsecond
  /\ policy.initial <= policy.maximum

\* Saturation one step too early: half of an odd maximum is rounded down.
NextDelayEarly(policy, delay) ==
  CASE delay >= policy.maximum -> delay
    [] delay < policy.maximum /\ delay >= policy.maximum \div 2 -> policy.maximum
    [] OTHER -> Doubled(delay)

\* One turn of the loop; a delay that has reached the maximum leaves it.
NextDelay(policy, delay) ==
  CASE delay >= policy.maximum -> delay
    [] delay < policy.maximum /\ delay > policy.maximum \div 2 -> policy.maximum
    [] OTHER -> Doubled(delay)

\* The delay; zero beside an error.
Delay(policy, attempt) ==
  LET delay[current \in Nat] ==
        IF current <= 1 THEN policy.initial
        ELSE NextDelay(policy, delay[current - 1])
  IN IF ~policyValid(policy, attempt) \/ policy.initial = 0 THEN 0
     ELSE IF delay[attempt] < policy.maximum THEN delay[attempt]
     ELSE policy.maximum
=============================================================================
