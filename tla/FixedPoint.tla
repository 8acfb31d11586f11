----------------------------- MODULE FixedPoint -----------------------------
(***************************************************************************)
(* Checked fixed-point arithmetic (src/math/fixed.rs).  mul_div is the      *)
(* function as it is written, in integers of Width bits with a path twice   *)
(* as wide; mul_floor and its like are what it computes when the result     *)
(* fits, and what the other modules of the arithmetic use: an overflow is   *)
(* an error that every caller passes on, for values no pool holds.          *)
(***************************************************************************)
EXTENDS Integers

CONSTANTS
    Width,     \* 128: bits of an integer
    Scalar7,   \* SCALAR_7, and
    Scalar12   \* SCALAR_12: one, in factors and in rates

ASSUME FixedPointAssumption ==
    /\ Width \in Nat \ {0} /\ 2^(Width - 1) \in Nat \ {0}
    /\ Scalar7 \in Nat \ {0}
    /\ Scalar12 \in Nat \ {0}

MaxInt == 2^(Width - 1) - 1
MinInt == -(2^(Width - 1))
Fits(n) == MinInt <= n /\ n <= MaxInt

\* Result<i128, MathError>: a sequence of at most one value.
Ok(n) == <<n>>
Err == << >>
Checked(n) == IF Fits(n) THEN Ok(n) ELSE Err

\* Euclidean division by a positive z, and one more when rounding up.
Quotient(r, z, up) == r \div z + (IF up /\ r % z # 0 THEN 1 ELSE 0)

Negated(n, z) == IF z < 0 THEN -n ELSE n

\* The 256-bit path: only the quotient may not fit.
divide_wide(r, z, up) == Checked(Quotient(Negated(r, z), Negated(z, z), up))

\* Faulty variant: without the way out for MIN.
divide_narrow_NoMin(r, z, up) ==
    IF ~Fits(Negated(r, z)) \/ ~Fits(Negated(z, z)) THEN Err
    ELSE Checked(Quotient(Negated(r, z), Negated(z, z), up))

\* MIN has no negation, so it takes the wide path.
divide_narrow(r, z, up) ==
    IF r = MinInt \/ z = MinInt THEN divide_wide(r, z, up)
    ELSE Checked(Quotient(Negated(r, z), Negated(z, z), up))

mul_div(x, y, z, up) ==
    IF z = 0 THEN Err
    ELSE IF Fits(x * y) THEN divide_narrow(x * y, z, up)
    ELSE divide_wide(x * y, z, up)

\* For a positive denominator.
mul_floor(x, y, denominator) == (x * y) \div denominator
mul_ceil(x, y, denominator) == -((-(x * y)) \div denominator)
div_floor(x, y, denominator) == mul_floor(x, denominator, y)
div_ceil(x, y, denominator) == mul_ceil(x, denominator, y)

\* The one integer q with q <= x * y / z < q + 1, or q - 1 < x * y / z <= q
\* when rounding up: an error exactly where it does not exist or not fit.
IsQuotient(x, y, z, up, q) ==
    LET p == IF z < 0 THEN -(x * y) ELSE x * y
        d == IF z < 0 THEN -z ELSE z
    IN  IF up THEN (q - 1) * d < p /\ p <= q * d
              ELSE q * d <= p /\ p < (q + 1) * d

\* mul_div is exact at every edge: it answers with the true quotient
\* whenever there is one in range, a product that overflows, a negative
\* divisor and MIN included, and with an error otherwise (fixed.rs).
MulDivExactAt(x, y, z, up) ==
    LET answer == mul_div(x, y, z, up)
    IN  IF answer = Err
          THEN z = 0 \/ ~\E q \in MinInt..MaxInt : IsQuotient(x, y, z, up, q)
          ELSE Fits(answer[1]) /\ IsQuotient(x, y, z, up, answer[1])

=============================================================================
