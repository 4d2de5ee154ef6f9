------------------------------- MODULE Float -------------------------------
(***************************************************************************)
(* What the float of C++ makes of numbers: std::stof() of a decimal number *)
(* and the two operations of to_degrees_(), each rounded to the nearest    *)
(* number of 24 bits, and to the even one of two that are equally near.    *)
(*                                                                         *)
(* A float is bits * 2^-exponent.  Its bits have exactly 24 digits, unless *)
(* it is zero, so that equal numbers are equal records.  A number is given *)
(* to be rounded as a fraction n/d, which is divided bit by bit: no        *)
(* intermediate value is larger than the float's own bits or twice d.      *)
(***************************************************************************)
EXTENDS Integers

Hidden == 8388608            \* 2^23, the least number of 24 digits
Zero == [bits |-> 0, exponent |-> 0]
SevenDigits == 9999999       \* up to here 24 digits tell tenths apart

Power(base, n) ==
    LET upto[i \in 0..n] == IF i = 0 THEN 1 ELSE base * upto[i - 1] IN upto[n]

\* n/d to so many binary places: the quotient and the remainder.
NextBit(division, d) ==
    <<2 * division[1] + (2 * division[2]) \div d, (2 * division[2]) % d>>
Division(n, d, places) ==
    LET upto[i \in 0..places] ==
            IF i = 0 THEN <<n \div d, n % d>> ELSE NextBit(upto[i - 1], d)
    IN  upto[places]

\* quotient + remainder/d, rounded to an integer.
Rounded(division, d) ==
    IF 2 * division[2] > d \/ (2 * division[2] = d /\ division[1] % 2 = 1)
    THEN division[1] + 1 ELSE division[1]

\* Rounding may give one digit more.
Float(bits, exponent) ==
    IF bits = 2 * Hidden THEN [bits |-> Hidden, exponent |-> exponent - 1]
    ELSE [bits |-> bits, exponent |-> exponent]

\* The float nearest to n/d, which is less than 2^24.
Nearest(n, d) ==
    LET place == CHOOSE i \in 0..(23 + d) : Division(n, d, i)[1] \in Hidden..(2 * Hidden - 1)
    IN  IF n = 0 THEN Zero ELSE Float(Rounded(Division(n, d, place), d), place)

\* A sixtieth of a float.  (One that is below 2^-126 keeps its 24 digits.)
Sixtieth(f) ==
    LET shift == IF 32 * f.bits >= 60 * Hidden THEN 5 ELSE 6
    IN  IF f = Zero THEN Zero
        ELSE Float(Rounded(Division(Power(2, shift) * f.bits, 60, 0), 60), f.exponent + shift)

\* The sum of an integer and a float, one below 2^23 and the other below 2.
\* What lies too far to the right cannot even round the sum.
Plus(n, f) ==
    LET whole == IF f.exponent = 23 THEN n + 1 ELSE n
        place == CHOOSE i \in 0..23 : Power(2, i) * whole \in Hidden..(2 * Hidden - 1)
        shift == f.exponent - place
        right == IF f = Zero \/ shift > 24 THEN 0
                 ELSE Rounded(Division(f.bits, Power(2, shift), 0), Power(2, shift))
    IN  IF n = 0 THEN f ELSE Float(Power(2, place) * n + right, place)

Negative(f) == [f EXCEPT !.bits = -@]

\* Of two floats that are not negative.
AtMost(f, g) ==
    \/ f = Zero
    \/ g # Zero /\ (f.exponent > g.exponent \/ (f.exponent = g.exponent /\ f.bits <= g.bits))
=============================================================================
