--------------------------- MODULE MCEasyNmeaImpl ---------------------------
(***************************************************************************)
(* Small instances of EasyNmeaImpl for TLC: the applications are two       *)
(* interchangeable threads, the queue keeps two samples instead of ten,    *)
(* and a mask has two bits instead of 32.                                  *)
(***************************************************************************)
EXTENDS EasyNmeaImpl, Integers, TLC

CONSTANTS c1, c2

TwoClients == {c1, c2}
Symmetry == Permutations(Clients)

\* The bit of GPGGA and one that no kind of data has.
TwoBits == {GPGGA, "unused"}
INVALID == {}

\* The masks an application can build: each has every bit, none, only that of
\* GPGGA, or all but that.
AllMasks ==
    {Mask!None, Mask!All, INVALID, {GPGGA}, Mask!Not({GPGGA})}
    \cup {Mask!Or({GPGGA}, INVALID), Mask!And({GPGGA}, INVALID), Mask!Xor({GPGGA}, Mask!All)}
DataMask == {{GPGGA}}

-----------------------------------------------------------------------------
\* The operators on masks are those on the integers of two's complement that
\* stand for them (Bitmask.hpp:79-211), here with a sign bit and two others.
Width == 3
Small == INSTANCE Bitmask WITH Bits <- 0..(Width - 1)
Words == SUBSET (0..(Width - 1))

Value(word) ==
    (IF 0 \in word THEN 1 ELSE 0) + (IF 1 \in word THEN 2 ELSE 0) - (IF 2 \in word THEN 4 ELSE 0)

ASSUME OperatorsAreArithmetic ==
    /\ Value(Small!None) = 0 /\ Value(Small!All) = -1
    /\ \A a, b \in Words :
          /\ Value(Small!Not(a)) = -Value(a) - 1
          /\ Value(Small!Or(a, b)) + Value(Small!And(a, b)) = Value(a) + Value(b)
          /\ Value(Small!Xor(a, b)) = Value(Small!Or(a, b)) - Value(Small!And(a, b))
          /\ Small!Set(a, b) = Small!Or(a, b)
          /\ Small!Clear(a, b) = Small!And(a, Small!Not(b))
          /\ Small!IsSet(a, b) <=> Small!And(a, b) = b
          /\ Small!IsNone(a) <=> Value(a) = 0
=============================================================================
