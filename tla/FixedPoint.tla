----------------------------- MODULE FixedPoint -----------------------------
(***************************************************************************)
(* The integer arithmetic of content/40-correctness-and-risk.md: division  *)
(* by a precomputed reciprocal, and rounding to a multiple, ties to even.  *)
(* A state is one call with its arguments.  Two32 is 2^32 in the code;     *)
(* the arguments of divide and of are the numbers below it, and CallNext goes  *)
(* through them.                                                           *)
(***************************************************************************)
EXTENDS Integers

CONSTANTS Two32, MaxNum, MaxStep

ASSUME FixedPointAssumption == Two32 \in Nat \ {0} /\ MaxNum \in Nat /\ MaxStep \in Nat \ {0}

VARIABLES call, x, y

calls == <<call, x, y>>

\* What C++ does with a negative dividend: the quotient is cut off towards zero.
AbsOf(n) == IF n < 0 THEN -n ELSE n
Quotient(n, d) == IF n < 0 THEN -((-n) \div d) ELSE n \div d
Remainder(n, d) == n - d * Quotient(n, d)

CallInit ==
  \/ call = "divide" /\ x = 0 /\ y \in 1 .. Two32 - 1
  \/ call = "round" /\ x = -MaxNum /\ y \in 1 .. MaxStep
------------------------------------------------------------------------------
Mul(d) == Two32 \div d + 1                    \* m
Excess(d) == Mul(d) * d - Two32               \* e
MaxXLoose(d) == Two32 \div Excess(d) + 1
MaxX(d) == Two32 \div Excess(d) - 1           \* max_x
Divide(d, n) == (n * Mul(d)) \div Two32

RoundHalfEven(num, step) ==
  LET q == Quotient(num, step)
      r == Remainder(num, step)
  IN IF AbsOf(r) * 2 > step \/ (AbsOf(r) * 2 = step /\ Remainder(q, 2) # 0)
     THEN IF r < 0 THEN q - 1 ELSE q + 1
     ELSE q

\* The next argument.
CallNext ==
  /\ x' = x + 1 /\ UNCHANGED <<call, y>>
  /\ x' <= (IF call = "divide" THEN Two32 - 1 ELSE MaxNum)

CallSpec == CallInit /\ [][CallNext]_calls
------------------------------------------------------------------------------
(* Properties *)

\* "the bound within which divide(x) provably equals x / d; past it the result can be one
\* too high", and never more, nor ever too low.
ReciprocalExact ==
  call = "divide" =>
    /\ x <= MaxX(y) => Divide(y, x) = x \div y
    /\ Divide(y, x) - x \div y \in {0, 1}

\* "ties go to the nearest even multiple", on both sides of zero: no other multiple of the
\* step is nearer, and of two as near the even one is taken.
RoundsToNearestEven ==
  call = "round" =>
    LET n == RoundHalfEven(x, y)
        Off(m) == AbsOf(x - m * y)
    IN \A m \in {n - 1, n + 1} : \/ Off(n) < Off(m)
                                 \/ Off(n) = Off(m) /\ n % 2 = 0

\* Both short cuts of the lesson give what exact arithmetic gives, as far as they promise.
ArithmeticExact == ReciprocalExact /\ RoundsToNearestEven
==============================================================================
