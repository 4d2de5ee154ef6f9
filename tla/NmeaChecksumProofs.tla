------------------------- MODULE NmeaChecksumProofs -------------------------
(***************************************************************************)
(* What the checksum is worth, for bodies of any length over any alphabet: *)
(* it refuses every body of which one character was replaced or lost.      *)
(* TLC checks the consequence for the accepted sentences of whole lines in *)
(* NmeaLink, with two bodies.                                              *)
(*                                                                         *)
(* The sum that the device appended and the one that validate_checksum_()  *)
(* computes are run side by side.                                          *)
(***************************************************************************)
EXTENDS NmeaChecksum, TLAPS

VARIABLES
    said,    \* the body of the sentence that was sent
    heard,   \* the body of the line that was read
    hit,     \* the position in said of the character that was damaged
    lost,    \* whether it was lost, and not replaced
    turn,    \* the position in said of the next character of the device's sum
    sum      \* what the device computed so far

damage_vars == <<next, check, said, heard, hit, lost, turn, sum>>

DamageInit ==
    /\ said \in Seq(BodyChars) /\ hit \in 1..Len(said) /\ lost \in BOOLEAN
    /\ ~lost => \E c \in BodyChars : heard = [said EXCEPT ![hit] = c]
    /\ lost => heard = [k \in 1..(Len(said) - 1) |-> IF k < hit THEN said[k] ELSE said[k + 1]]
    /\ next = 1 /\ check = {} /\ turn = 1 /\ sum = {}

\* The loop has no step for a character that was lost.
DamageNext ==
    /\ turn <= Len(said)
    /\ turn' = turn + 1 /\ sum' = Xor(sum, Code[said[turn]])
    /\ IF lost /\ turn = hit THEN UNCHANGED <<next, check>> ELSE XorNext(heard)
    /\ UNCHANGED <<said, heard, hit, lost>>

DamageSpec == DamageInit /\ [][DamageNext]_damage_vars

\* The loop ends with the checksum of the sentence only if nothing changed:
\* one damaged character is always noticed (EasyNmeaCoder.hpp:151-159).
DamageIsNoticed == turn > Len(said) => Summed(heard) /\ (check = sum <=> heard = said)

\* What tells the two sums apart.
Difference ==
    IF turn <= hit THEN {}
    ELSE IF lost THEN Code[said[hit]]
    ELSE Xor(Code[said[hit]], Code[heard[hit]])

DamageInv ==
    /\ said \in Seq(BodyChars) /\ hit \in 1..Len(said) /\ lost \in BOOLEAN
    /\ turn \in 1..(Len(said) + 1)
    /\ heard \in Seq(BodyChars)
    /\ Len(heard) = IF lost THEN Len(said) - 1 ELSE Len(said)
    /\ \A k \in 1..Len(heard) :
          k # hit \/ lost => heard[k] = said[IF lost /\ k >= hit THEN k + 1 ELSE k]
    /\ next = IF lost /\ turn > hit THEN turn - 1 ELSE turn
    /\ Xor(check, sum) = Difference

-----------------------------------------------------------------------------
\* Sums are equal when nothing is between them.
LEMMA XorEmpty == ASSUME NEW a, NEW b PROVE Xor(a, b) = {} <=> a = b
BY DEF Xor

\* Adding the same character to both sums changes nothing between them.
LEMMA XorShared == ASSUME NEW a, NEW b, NEW c PROVE Xor(Xor(a, c), Xor(b, c)) = Xor(a, b)
BY DEF Xor

\* Between equal sums there is what is added to either.
LEMMA XorApart ==
    ASSUME NEW a, NEW c, NEW d
    PROVE  Xor(Xor(a, c), Xor(a, d)) = Xor(d, c) /\ Xor(a, Xor(a, c)) = c
<1>1. Xor(Xor(a, c), Xor(a, d)) = Xor(d, c)
  BY DEF Xor
<1>2. Xor(a, Xor(a, c)) = c
  BY DEF Xor
<1>3. QED
  BY <1>1, <1>2

\* The invariant holds when the two sums start.
LEMMA DamageStarts == DamageInit => DamageInv
<1> SUFFICES ASSUME DamageInit PROVE DamageInv
  OBVIOUS
<1>1. Xor(check, sum) = Difference
  BY DEF DamageInit, Difference, Xor
<1>2. CASE lost
  BY <1>1, <1>2 DEF DamageInit, DamageInv
<1>3. CASE ~lost
  <2>1. PICK c \in BodyChars : heard = [said EXCEPT ![hit] = c]
    BY <1>3 DEF DamageInit
  <2>2. heard \in Seq(BodyChars) /\ Len(heard) = Len(said)
    BY <2>1 DEF DamageInit
  <2>3. QED
    BY <1>1, <1>3, <2>1, <2>2 DEF DamageInit, DamageInv
<1>4. QED
  BY <1>2, <1>3 DEF DamageInit

\* A character that is in both bodies is added to both sums; one that was lost
\* or replaced makes the only difference.
LEMMA DamageGoesOn == DamageInv /\ [DamageNext]_damage_vars => DamageInv'
<1> SUFFICES ASSUME DamageInv, [DamageNext]_damage_vars PROVE DamageInv'
  OBVIOUS
<1>1. CASE DamageNext
  <2>1. CASE lost /\ turn = hit
    <3>1. check = sum
      <4>1. Xor(check, sum) = {}
        BY <2>1 DEF DamageInv, Difference
      <4>2. QED
        BY <4>1, XorEmpty
    <3>2. Xor(check', sum') = Code[said[hit]]
      <4>1. check' = check /\ sum' = Xor(check, Code[said[hit]])
        BY <1>1, <2>1, <3>1 DEF DamageNext
      <4>2. QED
        BY <4>1, XorApart
    <3>3. QED
      BY <1>1, <2>1, <3>2 DEF DamageNext, DamageInv, Difference
  <2>2. CASE ~lost /\ turn = hit
    <3>1. check = sum
      <4>1. Xor(check, sum) = {}
        BY <2>2 DEF DamageInv, Difference
      <4>2. QED
        BY <4>1, XorEmpty
    <3>2. next = hit
      BY <2>2 DEF DamageInv
    <3>3. Xor(check', sum') = Xor(Code[said[hit]], Code[heard[hit]])
      <4>1. check' = Xor(check, Code[heard[hit]]) /\ sum' = Xor(check, Code[said[hit]])
        BY <1>1, <2>2, <3>1, <3>2 DEF DamageNext, XorNext
      <4>2. QED
        BY <4>1, XorApart
    <3>4. QED
      BY <1>1, <2>2, <3>3 DEF DamageNext, XorNext, DamageInv, Difference
  <2>3. CASE turn # hit
    <3>1. next \in 1..Len(heard) /\ heard[next] = said[turn]
      <4>1. turn \in 1..Len(said)
        BY <1>1 DEF DamageInv, DamageNext
      <4>2. CASE lost
        BY <2>3, <4>1, <4>2, SMTT(30) DEF DamageInv
      <4>3. CASE ~lost
        BY <2>3, <4>1, <4>3, SMTT(30) DEF DamageInv
      <4>4. QED
        BY <4>2, <4>3
    <3>2. Xor(check', sum') = Xor(check, sum)
      <4>1. check' = Xor(check, Code[said[turn]]) /\ sum' = Xor(sum, Code[said[turn]])
        BY <1>1, <2>3, <3>1 DEF DamageNext, XorNext
      <4>2. QED
        BY <4>1, XorShared
    <3>3. Difference' = Difference
      BY <1>1, <2>3 DEF DamageInv, DamageNext, Difference
    <3>4. QED
      BY <1>1, <2>3, <3>2, <3>3 DEF DamageNext, XorNext, DamageInv
  <2>4. QED
    BY <2>1, <2>2, <2>3
<1>2. CASE UNCHANGED damage_vars
  BY <1>2 DEF damage_vars, DamageInv, Difference
<1>3. QED
  BY <1>1, <1>2

\* When both sums are done, their difference is the code of the character that
\* was lost, which is not NUL's, or the exclusive or of two codes, which are
\* equal only when the characters are.
LEMMA DifferenceTells == DamageInv => DamageIsNoticed
<1> SUFFICES ASSUME DamageInv, turn > Len(said)
             PROVE  Summed(heard) /\ (check = sum <=> heard = said)
  BY DEF DamageIsNoticed
<1>1. turn = Len(said) + 1 /\ ~(turn <= hit)
  BY DEF DamageInv
<1>2. Summed(heard)
  BY <1>1 DEF DamageInv, Summed
<1>3. check = sum <=> Difference = {}
  BY XorEmpty DEF DamageInv
<1>4. said[hit] \in BodyChars
  BY DEF DamageInv
<1>5. CASE lost
  <2>1. Difference # {}
    BY <1>1, <1>4, <1>5, CodeAssumption DEF Difference
  <2>2. heard # said
    BY <1>5 DEF DamageInv
  <2>3. QED
    BY <1>2, <1>3, <2>1, <2>2
<1>6. CASE ~lost
  <2>1. heard[hit] \in BodyChars
    BY <1>6 DEF DamageInv
  <2>2. Difference = {} <=> heard[hit] = said[hit]
    <3>1. Difference = Xor(Code[said[hit]], Code[heard[hit]])
      BY <1>1, <1>6 DEF Difference
    <3>2. Difference = {} <=> Code[said[hit]] = Code[heard[hit]]
      BY <3>1, XorEmpty
    <3>3. QED
      BY <1>4, <2>1, <3>2, CodeAssumption
  <2>3. heard = said <=> heard[hit] = said[hit]
    BY <1>6 DEF DamageInv
  <2>4. QED
    BY <1>2, <1>3, <2>2, <2>3
<1>7. QED
  BY <1>5, <1>6

\* validate_checksum_() never takes a body for the one its checksum was
\* computed from when one of its characters was replaced or lost, and takes it
\* for that when none was: for every alphabet, code and length.
THEOREM ChecksumNoticesDamage == DamageSpec => []DamageIsNoticed
<1>1. DamageInit => DamageInv
  BY DamageStarts
<1>2. DamageInv /\ [DamageNext]_damage_vars => DamageInv'
  BY DamageGoesOn
<1>3. DamageInv => DamageIsNoticed
  BY DifferenceTells
<1>4. QED
  BY <1>1, <1>2, <1>3, PTL DEF DamageSpec
=============================================================================
