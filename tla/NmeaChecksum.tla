---------------------------- MODULE NmeaChecksum ----------------------------
(***************************************************************************)
(* validate_checksum_() and the form it relies on: a line $body*hh whose   *)
(* two hexadecimal digits are the exclusive or of the characters of body.  *)
(* The loop over the body is modelled one character at a time.             *)
(*                                                                         *)
(* A character is coded by the set of positions of its bits, so that ^ is  *)
(* the symmetric difference, and so is the value of a digit.  All the      *)
(* characters of a body are ASCII: none has a sign bit.                    *)
(***************************************************************************)
EXTENDS Naturals, Sequences

CONSTANTS
    Dollar, Star,
    IdChars,      \* [A-Z0-9], what a body starts with
    BodyChars,    \* [0-9a-zA-Z,.\-]
    Code,         \* the bits of each character of a body
    Digit,        \* the bits of the value of each digit, [0-9a-fA-F]
    DigitBits     \* how many bits a digit has: 4 for hexadecimal ones

ASSUME AlphabetAssumption ==
    /\ IdChars \cup DOMAIN Digit \subseteq BodyChars
    /\ {Dollar, Star} \cap BodyChars = {} /\ Dollar # Star

\* What ASCII guarantees: no two characters have the same code, and NUL is not
\* one that a sentence may hold.
ASSUME CodeAssumption ==
    /\ Code \in [BodyChars -> SUBSET Nat]
    /\ \A c, d \in BodyChars : Code[c] = Code[d] => c = d
    /\ \A c \in BodyChars : Code[c] # {}

VARIABLES
    next,    \* the position in the body of the next character of the loop
    check    \* the checksum computed so far

sum_vars == <<next, check>>

\* NMEA0183_BASIC_REGEX: an identifier and data, closed by the one * of the
\* line and two digits.
BasicMatches(line) ==
    LET n == Len(line)
    IN  /\ n >= 5
        /\ line[1] = Dollar /\ line[2] \in IdChars /\ line[n - 2] = Star
        /\ \A k \in 3..(n - 3) : line[k] \in BodyChars
        /\ line[n - 1] \in DOMAIN Digit /\ line[n] \in DOMAIN Digit

\* What is between $ and *, and the number after *, of a line that matches.
Body(line) == SubSeq(line, 2, Len(line) - 3)
NumberOf(high, low) == {b + DigitBits : b \in Digit[high]} \cup Digit[low]
Checksum(line) == NumberOf(line[Len(line) - 1], line[Len(line)])

StartSumKeeps == next' = 1 /\ UNCHANGED check

StartSum == next' = 1 /\ check' = {}

Xor(a, b) == (a \ b) \cup (b \ a)

XorNextOrs(body) ==
    /\ next <= Len(body)
    /\ check' = check \cup Code[body[next]] /\ next' = next + 1

\* check ^= character
XorNext(body) ==
    /\ next <= Len(body)
    /\ check' = Xor(check, Code[body[next]]) /\ next' = next + 1

Summed(body) == next = Len(body) + 1
=============================================================================
