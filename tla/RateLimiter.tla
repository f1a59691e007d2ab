---------------------------- MODULE RateLimiter ----------------------------
(***************************************************************************)
(* The token bucket of content/40-correctness-and-risk.md: capacity_ is    *)
(* both the burst and the number of messages per second, refill_ns_ the    *)
(* time one token takes.  The clock does not run backwards.  MaxTime       *)
(* bounds it.                                                              *)
(***************************************************************************)
EXTENDS Integers, Sequences, FiniteSets

CONSTANTS per_sec, Second, MaxTime

ASSUME RateAssumption == Second \in Nat /\ per_sec \in 1 .. Second /\ MaxTime \in Nat

VARIABLES tokens, last_ns,
          now,       \* the time of the last call
          allowed,      \* the times of the messages allowed
          refused    \* whether the last call was refused

limiter == <<tokens, last_ns, now, allowed, refused>>

refill_ns == Second \div per_sec

LimiterInit == tokens = per_sec /\ last_ns = 0 /\ now = 0 /\ allowed = << >> /\ refused = FALSE
------------------------------------------------------------------------------
Elapsed(t) == (t - last_ns) \div refill_ns       \* tokens that have come in since last_ns

Refilled(t) == IF tokens + Elapsed(t) > per_sec THEN per_sec ELSE tokens + Elapsed(t)

LastForgetsRemainder(t) == IF Elapsed(t) > 0 THEN t ELSE last_ns
LastRefill(t) == last_ns + Elapsed(t) * refill_ns

Allow(t) ==
  /\ now' = t
  /\ last_ns' = LastRefill(t)
  /\ refused' = (Refilled(t) = 0)
  /\ IF refused' THEN tokens' = 0 /\ UNCHANGED allowed
     ELSE /\ tokens' = Refilled(t) - 1
          /\ allowed' = Append(allowed, t)

LimiterNext == \E t \in now .. MaxTime : Allow(t)

LimiterSpec == LimiterInit /\ [][LimiterNext]_limiter
------------------------------------------------------------------------------
(* Properties *)

Allowed(from, to) == Cardinality({n \in DOMAIN allowed : from <= allowed[n] /\ allowed[n] <= to})

\* Over any stretch of time, wherever it starts: no more than one burst and what the rate
\* has brought in meanwhile.
WindowBounded ==
  \A from \in 0 .. now : Allowed(from, now) <= per_sec + (now - from) \div refill_ns + 1

\* The limit is no stricter than it says: a message is refused only when, over some stretch
\* that ends now, a whole burst and all that the rate has brought in have been used.  No
\* part of a token is lost to the rounding of the calls in between.
RefusedOnlyAtLimit ==
  refused => \E from \in 0 .. now : Allowed(from, now) >= per_sec + (now - from) \div refill_ns

\* The bucket is exact on both sides: no stretch of time admits more than it says, and no
\* message is refused that it would still admit.
LimitExact == WindowBounded /\ RefusedOnlyAtLimit
==============================================================================
