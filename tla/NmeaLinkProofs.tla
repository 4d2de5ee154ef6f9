---------------------------- MODULE NmeaLinkProofs ----------------------------
(***************************************************************************)
(* Proofs about NmeaLink, for any alphabet, code, digits and bodies, and   *)
(* any length of session: decode() accepts what the device said and        *)
(* nothing else, and damage to a sentence costs no other one.              *)
(*                                                                         *)
(* The argument is about the line being read, Pending: whatever the wire   *)
(* did, it is on the way to a line that decode() refuses, or to one whose  *)
(* body is that of the sentence being sent, or of the last one sent.       *)
(* StageInv says which, and that what was accepted before it, with the     *)
(* line that waits to be decoded, is accounted for by what was said before *)
(* that sentence: a sentence that is accepted twice, or out of its order,  *)
(* would have to be said twice.                                            *)
(***************************************************************************)
EXTENDS NmeaLink, SerialInterfaceProofs

-----------------------------------------------------------------------------
(* What a line is worth *)

\* decode() does not take it.
Refused(line) == BasicMatches(line) => Checksum(line) # BitsOf(Body(line))

\* If decode() takes it, it takes it for text.
Genuine(line, text) == BasicMatches(line) => Body(line) = text

\* The characters of a sentence but for its terminators.
Starts(line, text, n) == Len(line) = n /\ \A k \in 1..n : line[k] = Sentence(text)[k]
Complete(line, text) == Starts(line, text, Len(text) + 4)

-----------------------------------------------------------------------------
(* What is read so far, when the character number p of text is next *)

\* No line that begins like this has the form of a sentence.
Hopeless(read) ==
    \/ read # <<>> /\ read[1] # Dollar
    \/ \E k \in 2..Len(read) : read[k] = Dollar
    \/ \E k \in 1..(Len(read) - 3) : read[k] = Star
    \/ \E k \in 1..Len(read) : \E l \in 1..(k - 1) : read[k] = Star /\ read[l] = Star

\* All that was sent of text.
Intact(read, text, p) == Starts(read, text, IF p <= Len(text) + 5 THEN p - 1 ELSE Len(text) + 4)

\* It came through up to its star, and the damage came later.
Marked(read, text, p) ==
    /\ p > Len(text) + 2 /\ Len(read) > Len(text) + 1
    /\ \A k \in 1..(Len(text) + 2) : read[k] = Sentence(text)[k]

\* Its body lost a character, or one was replaced.
WrongBody(read, text, p) ==
    /\ p \in 3..(Len(text) + 2) /\ read # <<>> /\ read[1] = Dollar
    /\ \A k \in 2..Len(read) : read[k] \in BodyChars
    /\ BitsOf(Tail(read)) # BitsOf(SubSeq(text, 1, p - 2))

\* That, and the star and digits of text.
WrongText(read, text, p) ==
    LET digits == IF p <= Len(text) + 5 THEN p - Len(text) - 3 ELSE 2
    IN  /\ p > Len(text) + 2
        /\ \E star \in 2..Len(read) :
              /\ Len(read) = star + digits
              /\ read[star] = Star /\ BitsOf(SubSeq(read, 2, star - 1)) # BitsOf(text)
              /\ \A k \in 1..digits : read[star + k] = Sentence(text)[Len(text) + 2 + k]

\* A character of its body became a star.
StarInside(read, text, p) ==
    /\ p \in 3..(Len(text) + 2) /\ \E k \in 1..Len(read) : read[k] = Star

\* Its star was lost or replaced.
NoStar(read, text, p) ==
    /\ p > Len(text) + 2 /\ \A k \in 1..Len(read) : read[k] # Star

\* Its beginning ended the line before, or was lost.
Headless(read, p) == read = <<>> /\ p > 1

Garbled(read, text, p) ==
    \/ WrongBody(read, text, p) \/ WrongText(read, text, p)
    \/ StarInside(read, text, p) \/ NoStar(read, text, p) \/ Headless(read, p)

\* The last sentence lost its line feed, and the next one has not begun.
LeftOver ==
    /\ sent # <<>> /\ Complete(Pending, sent[Len(sent)].body)
    /\ sending \in {1, 2} /\ (damaged <=> sending = 2)

-----------------------------------------------------------------------------
\* What is accepted is among the first count things said.
Among(some, said, count) == \E at \in [DOMAIN some -> 1..count] : Embeds(at, some, said)

\* The line that has not been decoded, if there is one.
Waiting == {lines[k] : k \in (decoded + 1)..Len(lines)}

\* What is accepted now, and when the line that waits has been decoded.
Accounted(waiting, some, said, count) ==
    \/ (\A line \in waiting : Refused(line)) /\ Among(some, said, count)
    \/ \E k \in 1..count :
          (\A line \in waiting : Genuine(line, said[k])) /\ Among(some, said, k - 1)
AccountedTo(count) == Accounted(Waiting, accepted, Said, count)

StageInv ==
    \/ Hopeless(Pending) /\ AccountedTo(IF sending = 1 THEN Len(sent) ELSE Len(sent) + 1)
    \/ ~damaged /\ Intact(Pending, body, sending) /\ AccountedTo(Len(sent))
    \/ damaged /\ Marked(Pending, body, sending) /\ AccountedTo(Len(sent))
    \/ LeftOver /\ AccountedTo(Len(sent) - 1)
    \/ damaged /\ Garbled(Pending, body, sending) /\ AccountedTo(Len(sent) + 1)

\* read_line() and decode() take turns.
TurnInv ==
    /\ Len(lines) \in {decoded, decoded + 1}
    /\ decoded < Len(lines) => step = "call" /\ ~dropped
    /\ summing => decoded < Len(lines)

\* What the loop of validate_checksum_() has summed.
SumInv ==
    summing =>
        /\ BasicMatches(Line) /\ next \in 1..(Len(Body(Line)) + 1)
        /\ check = BitsOf(SubSeq(Body(Line), 1, next - 1))

\* The texts whose numbers are in some were taken, in their order.
Takes(some, texts, taken) == \E at \in [some -> DOMAIN taken] : Embeds(at, texts, taken)
Taken(some) == Takes(some, BodiesOf(sent), accepted)

FreshInv ==
    /\ fresh /\ ~damaged => Intact(Pending, body, sending)
    /\ \/ Taken(Whole)
       \/ /\ decoded < Len(lines) /\ sent # <<>> /\ Complete(Line, sent[Len(sent)].body)
          /\ Taken(Whole \ {Len(sent)})

LinkTypes ==
    /\ decoded \in Nat /\ summing \in BOOLEAN /\ accepted \in Seq(Seq(Chars))
    /\ body \in Bodies /\ sending \in 1..Len(Sentence(body))
    /\ damaged \in BOOLEAN /\ fresh \in BOOLEAN
    /\ sent \in Seq([body : Bodies, whole : BOOLEAN])
    /\ sending = 1 => ~damaged

-----------------------------------------------------------------------------
(* Sums *)

SumSteps(f, text) ==
    f = [k \in 0..Len(text) |-> IF k = 0 THEN {} ELSE Xor(f[k - 1], Code[text[k]])]

AllBits == 0..(2 * DigitBits - 1)

LEMMA BitsIs ==
    ASSUME NEW text \in Seq(BodyChars)
    PROVE  \E f : /\ BitsOf(text) = f[Len(text)] /\ f[0] = {}
                  /\ \A k \in 1..Len(text) : f[k] = Xor(f[k - 1], Code[text[k]])
                  /\ \A k \in 0..Len(text) : f[k] \in SUBSET AllBits
<1>. DEFINE n == Len(text)
            adding == [p \in (1..n) \X (SUBSET AllBits) |-> Xor(p[2], Code[text[p[1]]])]
<1>1. n \in Nat /\ \A k \in 1..n : text[k] \in BodyChars /\ Code[text[k]] \in SUBSET AllBits
  <2>1. Code \in [BodyChars -> SUBSET AllBits]
    BY DigitsAssumption, Zenon DEF AllBits
  <2>. QED
    BY <2>1
<1>2. adding \in [(1..n) \X (SUBSET AllBits) -> SUBSET AllBits]
  <2>1. \A p \in (1..n) \X (SUBSET AllBits) : Xor(p[2], Code[text[p[1]]]) \in SUBSET AllBits
    BY <1>1 DEF Xor
  <2>. QED
    BY <2>1
<1>3. PICK f \in [0..n -> SUBSET AllBits] : Steps(f, {}, n, adding)
  <2>1. {} \in SUBSET AllBits
    OBVIOUS
  <2>. HIDE DEF n, adding
  <2>. QED
    BY <1>1, <1>2, <2>1, RecursionExists, Zenon
<1>4. \A k \in 1..n : f[k] = Xor(f[k - 1], Code[text[k]])
  <2>1. \A k \in 1..n : f[k] = adding[<<k, f[k - 1]>>]
    BY <1>3, Zenon DEF Steps
  <2>2. \A k \in 1..n : f[k - 1] \in SUBSET AllBits
    <3>1. \A k \in 1..n : k - 1 \in 0..n
      BY <1>1
    <3>. QED
      BY <3>1
  <2>. QED
    BY <2>1, <2>2
<1>5. SumSteps(f, text)
  <2>1. f[0] = {}
    BY <1>3 DEF Steps
  <2>2. \A k \in 0..n : f[k] = IF k = 0 THEN {} ELSE Xor(f[k - 1], Code[text[k]])
    BY <1>1, <1>4, <2>1
  <2>. QED
    BY <2>2 DEF SumSteps
<1>. DEFINE g == CHOOSE f1 : SumSteps(f1, text)
<1>6. SumSteps(g, text)
  BY <1>5, Zenon
<1>7. BitsOf(text) = g[n]
  BY DEF BitsOf, SumSteps
<1>8. \A k \in 0..n : g[k] = IF k = 0 THEN {} ELSE Xor(g[k - 1], Code[text[k]])
  <2>. HIDE DEF g
  <2>. QED
    BY <1>6, Zenon DEF SumSteps
<1>9. g[0] = {} /\ \A k \in 1..n : g[k] = Xor(g[k - 1], Code[text[k]])
  <2>. HIDE DEF g
  <2>. QED
    BY <1>1, <1>8
<1>10. \A k \in 0..n : g[k] \in SUBSET AllBits
  <2>. DEFINE Typed == {k \in Nat : k <= n => g[k] \in SUBSET AllBits}
  <2>. HIDE DEF g
  <2>1. 0 \in Typed
    BY <1>9
  <2>2. ASSUME NEW k \in Nat, k \in Typed PROVE k + 1 \in Typed
    <3>. SUFFICES ASSUME k + 1 <= n PROVE g[k + 1] \in SUBSET AllBits
      OBVIOUS
    <3>1. k + 1 \in 1..n /\ (k + 1) - 1 = k /\ g[k] \in SUBSET AllBits
      BY <1>1, <2>2
    <3>. QED
      BY <1>1, <1>9, <3>1 DEF Xor
  <2>3. \A k \in Nat : k \in Typed
    <3>. HIDE DEF Typed
    <3>. QED
      BY <2>1, <2>2, SetInduction
  <2>. QED
    BY <2>3
<1>. QED
  BY <1>7, <1>9, <1>10

\* The sum of the device, one character at a time, and the set it is in.
LEMMA BitsEmpty == BitsOf(<<>>) = {}
<1>1. <<>> \in Seq(BodyChars) /\ Len(<<>>) = 0
  OBVIOUS
<1>. QED
  BY <1>1, BitsIs

LEMMA BitsTyped ==
    ASSUME NEW text \in Seq(BodyChars)
    PROVE  BitsOf(text) \in SUBSET AllBits
<1>1. Len(text) \in 0..Len(text)
  OBVIOUS
<1>. QED
  BY <1>1, BitsIs

LEMMA BitsAppend ==
    ASSUME NEW text \in Seq(BodyChars), NEW c \in BodyChars
    PROVE  BitsOf(Append(text, c)) = Xor(BitsOf(text), Code[c])
<1>. DEFINE n == Len(text)
            longer == Append(text, c)
<1>1. /\ longer \in Seq(BodyChars) /\ Len(longer) = n + 1 /\ n \in Nat
      /\ longer[n + 1] = c /\ \A k \in 1..n : longer[k] = text[k]
  OBVIOUS
<1>. HIDE DEF longer
<1>2. PICK f : /\ BitsOf(text) = f[n] /\ f[0] = {}
               /\ \A k \in 1..n : f[k] = Xor(f[k - 1], Code[text[k]])
  BY BitsIs
<1>3. PICK g : /\ BitsOf(longer) = g[n + 1] /\ g[0] = {}
               /\ \A k \in 1..(n + 1) : g[k] = Xor(g[k - 1], Code[longer[k]])
  BY <1>1, BitsIs
<1>. DEFINE Same == {k \in Nat : k <= n => f[k] = g[k]}
<1>4. 0 \in Same
  BY <1>2, <1>3
<1>5. ASSUME NEW k \in Nat, k \in Same PROVE k + 1 \in Same
  <2>. SUFFICES ASSUME k + 1 <= n PROVE f[k + 1] = g[k + 1]
    OBVIOUS
  <2>1. k + 1 \in 1..n /\ k + 1 \in 1..(n + 1) /\ (k + 1) - 1 = k /\ f[k] = g[k]
    BY <1>5
  <2>. QED
    BY <1>1, <1>2, <1>3, <2>1
<1>6. \A k \in Nat : k \in Same
  <2>. HIDE DEF Same
  <2>. QED
    BY <1>4, <1>5, SetInduction
<1>7. f[n] = g[n]
  BY <1>1, <1>6
<1>8. g[n + 1] = Xor(g[n], Code[c])
  <2>1. n + 1 \in 1..(n + 1) /\ (n + 1) - 1 = n
    BY <1>1
  <2>. QED
    BY <1>1, <1>3, <2>1
<1>. QED
  BY <1>2, <1>3, <1>7, <1>8 DEF longer

\* Codes tell sums apart: adding the same one, other ones, or one to one side.
LEMMA SameAdded ==
    ASSUME NEW a, NEW b, NEW c, a # b
    PROVE  Xor(a, c) # Xor(b, c)
BY DEF Xor

LEMMA OthersAdded ==
    ASSUME NEW a, NEW c, NEW d, c # d
    PROVE  Xor(a, c) # Xor(a, d)
BY DEF Xor

LEMMA OneAdded ==
    ASSUME NEW a, NEW c, c # {}
    PROVE  a # Xor(a, c)
BY DEF Xor

-----------------------------------------------------------------------------
(* Sentences *)

LEMMA BodyIs ==
    ASSUME NEW text \in Bodies
    PROVE  text \in Seq(BodyChars) /\ Len(text) \in Nat \ {0} /\ text[1] \in IdChars
<1>1. text \in Seq(BodyChars) /\ text # <<>> /\ text[1] \in IdChars
  BY DeviceAssumption, Zenon
<1>. QED
  BY <1>1

LEMMA DigitsAre ==
    ASSUME NEW text \in Seq(BodyChars)
    PROVE  /\ Digits(text) \in (DOMAIN Digit) \X (DOMAIN Digit)
           /\ NumberOf(Digits(text)[1], Digits(text)[2]) = BitsOf(text)
<1>1. PICK high \in DOMAIN Digit, low \in DOMAIN Digit : NumberOf(high, low) = BitsOf(text)
  BY BitsTyped, DigitsAssumption, Zenon DEF AllBits
<1>2. /\ <<high, low>> \in (DOMAIN Digit) \X (DOMAIN Digit)
      /\ NumberOf(<<high, low>>[1], <<high, low>>[2]) = BitsOf(text)
  BY <1>1
<1>3. \E pair \in (DOMAIN Digit) \X (DOMAIN Digit) :
          NumberOf(pair[1], pair[2]) = BitsOf(text)
  BY <1>2, Zenon
<1>. QED
  BY <1>3, Zenon DEF Digits

LEMMA TwoAreSeq ==
    ASSUME NEW S, NEW c \in S, NEW d \in S
    PROVE  <<c, d>> \in Seq(S) /\ Len(<<c, d>>) = 2
OBVIOUS

LEMMA JoinSeq ==
    ASSUME NEW S, NEW s \in Seq(S), NEW t \in Seq(S)
    PROVE  s \o t \in Seq(S)
OBVIOUS

LEMMA JoinLen ==
    ASSUME NEW S, NEW s \in Seq(S), NEW t \in Seq(S)
    PROVE  Len(s \o t) = Len(s) + Len(t)
OBVIOUS

LEMMA JoinLeft ==
    ASSUME NEW S, NEW s \in Seq(S), NEW t \in Seq(S)
    PROVE  \A k \in 1..Len(s) : (s \o t)[k] = s[k]
OBVIOUS

LEMMA JoinRight ==
    ASSUME NEW S, NEW s \in Seq(S), NEW t \in Seq(S)
    PROVE  \A k \in 1..Len(t) : (s \o t)[Len(s) + k] = t[k]
OBVIOUS

\* What a device sends, character by character.
LEMMA SentenceIs ==
    ASSUME NEW text \in Bodies
    PROVE  /\ Sentence(text) \in Seq(Chars \cup {CR, LF})
           /\ Len(Sentence(text)) = Len(text) + 6
           /\ Sentence(text)[1] = Dollar
           /\ \A k \in 1..Len(text) : Sentence(text)[k + 1] = text[k]
           /\ Sentence(text)[Len(text) + 2] = Star
           /\ Sentence(text)[Len(text) + 3] = Digits(text)[1]
           /\ Sentence(text)[Len(text) + 4] = Digits(text)[2]
           /\ Sentence(text)[Len(text) + 5] = CR
           /\ Sentence(text)[Len(text) + 6] = LF
<1>. DEFINE n == Len(text)
            S == Chars \cup {CR, LF}
            dollar == <<Dollar>>
            star == <<Star>>
            digits == Digits(text)
            ends == <<CR, LF>>
<1>1. /\ text \in Seq(S) /\ n \in Nat
  <2>1. BodyChars \subseteq S
    BY DeviceAssumption, Zenon
  <2>. QED
    BY <2>1, BodyIs, SeqMonotonic
<1>2. /\ dollar \in Seq(S) /\ Len(dollar) = 1 /\ dollar[1] = Dollar
      /\ star \in Seq(S) /\ Len(star) = 1 /\ star[1] = Star
      /\ ends \in Seq(S) /\ Len(ends) = 2 /\ ends[1] = CR /\ ends[2] = LF
  <2>1. Dollar \in S /\ Star \in S /\ CR \in S /\ LF \in S
    BY DeviceAssumption, Zenon
  <2>. QED
    BY <2>1
<1>3. digits \in Seq(S) /\ Len(digits) = 2
  <2>1. digits \in (DOMAIN Digit) \X (DOMAIN Digit)
    BY BodyIs, DigitsAre
  <2>2. DOMAIN Digit \subseteq S
    BY DeviceAssumption, AlphabetAssumption, Zenon
  <2>3. digits = <<digits[1], digits[2]>> /\ digits[1] \in S /\ digits[2] \in S
    <3>. HIDE DEF digits, S
    <3>. QED
      BY <2>1, <2>2
  <2>. HIDE DEF digits, S
  <2>. QED
    BY <2>3, TwoAreSeq
<1>4. Sentence(text) = (((dollar \o text) \o star) \o digits) \o ends
  BY DEF Sentence
<1>. HIDE DEF S, dollar, star, digits, ends
<1>. DEFINE a == dollar \o text
            b == a \o star
            c == b \o digits
            d == c \o ends
<1>5. /\ a \in Seq(S) /\ Len(a) = n + 1 /\ a[1] = Dollar
      /\ \A k \in 1..n : a[k + 1] = text[k]
  <2>1. /\ a \in Seq(S) /\ Len(a) = Len(dollar) + Len(text)
        /\ \A k \in 1..Len(dollar) : a[k] = dollar[k]
        /\ \A k \in 1..Len(text) : a[Len(dollar) + k] = text[k]
    <3>1. dollar \in Seq(S) /\ text \in Seq(S)
      BY <1>1, <1>2
    <3>2. a \in Seq(S)
      BY <3>1, JoinSeq
    <3>3. Len(a) = Len(dollar) + Len(text)
      BY <3>1, JoinLen
    <3>4. \A k \in 1..Len(dollar) : a[k] = dollar[k]
      BY <3>1, JoinLeft
    <3>5. \A k \in 1..Len(text) : a[Len(dollar) + k] = text[k]
      BY <3>1, JoinRight
    <3>. QED
      BY <3>2, <3>3, <3>4, <3>5
  <2>. HIDE DEF a
  <2>. QED
    BY <1>1, <1>2, <2>1
<1>. HIDE DEF a
<1>6. /\ b \in Seq(S) /\ Len(b) = n + 2 /\ b[n + 2] = Star
      /\ \A k \in 1..(n + 1) : b[k] = a[k]
  <2>1. /\ b \in Seq(S) /\ Len(b) = Len(a) + Len(star)
        /\ \A k \in 1..Len(a) : b[k] = a[k]
        /\ \A k \in 1..Len(star) : b[Len(a) + k] = star[k]
    <3>1. a \in Seq(S) /\ star \in Seq(S)
      BY <1>2, <1>5
    <3>2. b \in Seq(S)
      BY <3>1, JoinSeq
    <3>3. Len(b) = Len(a) + Len(star)
      BY <3>1, JoinLen
    <3>4. \A k \in 1..Len(a) : b[k] = a[k]
      BY <3>1, JoinLeft
    <3>5. \A k \in 1..Len(star) : b[Len(a) + k] = star[k]
      BY <3>1, JoinRight
    <3>. QED
      BY <3>2, <3>3, <3>4, <3>5
  <2>. HIDE DEF b
  <2>. QED
    BY <1>1, <1>2, <1>5, <1>2, <2>1
<1>. HIDE DEF b
<1>7. /\ c \in Seq(S) /\ Len(c) = n + 4 /\ c[n + 3] = digits[1] /\ c[n + 4] = digits[2]
      /\ \A k \in 1..(n + 2) : c[k] = b[k]
  <2>1. /\ c \in Seq(S) /\ Len(c) = Len(b) + Len(digits)
        /\ \A k \in 1..Len(b) : c[k] = b[k]
        /\ \A k \in 1..Len(digits) : c[Len(b) + k] = digits[k]
    <3>1. b \in Seq(S) /\ digits \in Seq(S)
      BY <1>3, <1>6
    <3>2. c \in Seq(S)
      BY <3>1, JoinSeq
    <3>3. Len(c) = Len(b) + Len(digits)
      BY <3>1, JoinLen
    <3>4. \A k \in 1..Len(b) : c[k] = b[k]
      BY <3>1, JoinLeft
    <3>5. \A k \in 1..Len(digits) : c[Len(b) + k] = digits[k]
      BY <3>1, JoinRight
    <3>. QED
      BY <3>2, <3>3, <3>4, <3>5
  <2>. HIDE DEF c
  <2>. QED
    BY <1>1, <1>3, <1>6, <2>1
<1>. HIDE DEF c
<1>8. /\ d \in Seq(S) /\ Len(d) = n + 6 /\ d[n + 5] = CR /\ d[n + 6] = LF
      /\ \A k \in 1..(n + 4) : d[k] = c[k]
  <2>1. /\ d \in Seq(S) /\ Len(d) = Len(c) + Len(ends)
        /\ \A k \in 1..Len(c) : d[k] = c[k]
        /\ \A k \in 1..Len(ends) : d[Len(c) + k] = ends[k]
    <3>1. c \in Seq(S) /\ ends \in Seq(S)
      BY <1>2, <1>7
    <3>2. d \in Seq(S)
      BY <3>1, JoinSeq
    <3>3. Len(d) = Len(c) + Len(ends)
      BY <3>1, JoinLen
    <3>4. \A k \in 1..Len(c) : d[k] = c[k]
      BY <3>1, JoinLeft
    <3>5. \A k \in 1..Len(ends) : d[Len(c) + k] = ends[k]
      BY <3>1, JoinRight
    <3>. QED
      BY <3>2, <3>3, <3>4, <3>5
  <2>. HIDE DEF d
  <2>. QED
    BY <1>1, <1>2, <1>7, <1>2, <2>1
<1>9. Sentence(text) = d
  BY <1>4 DEF a, b, c
<1>. HIDE DEF d
<1>10. d \in Seq(Chars \cup {CR, LF})
  BY <1>8 DEF S
<1>11. d[1] = Dollar /\ d[n + 2] = Star
  <2>1. 1 \in 1..(n + 4) /\ 1 \in 1..(n + 2) /\ 1 \in 1..(n + 1)
        /\ n + 2 \in 1..(n + 4) /\ n + 2 \in 1..(n + 2)
    BY <1>1
  <2>. QED
    BY <1>5, <1>6, <1>7, <1>8, <2>1
<1>12. \A k \in 1..n : d[k + 1] = text[k]
  <2>1. \A k \in 1..n : k + 1 \in 1..(n + 4) /\ k + 1 \in 1..(n + 2) /\ k + 1 \in 1..(n + 1)
    BY <1>1
  <2>. QED
    BY <1>5, <1>6, <1>7, <1>8, <2>1
<1>13. d[n + 3] = Digits(text)[1] /\ d[n + 4] = Digits(text)[2]
  <2>1. n + 3 \in 1..(n + 4) /\ n + 4 \in 1..(n + 4)
    BY <1>1
  <2>. QED
    BY <1>7, <1>8, <2>1 DEF digits
<1>. QED
  BY <1>8, <1>9, <1>10, <1>11, <1>12, <1>13

-----------------------------------------------------------------------------
(* Lines *)

LEMMA CharsAre ==
    /\ Chars = BodyChars \cup {Dollar, Star}
    /\ Dollar \notin BodyChars /\ Star \notin BodyChars /\ Dollar # Star
    /\ IdChars \subseteq BodyChars /\ DOMAIN Digit \subseteq BodyChars
    /\ CR \notin Chars /\ LF \notin Chars /\ CR # LF
BY DeviceAssumption, AlphabetAssumption, CharsAssumption

\* A sentence in terms of its characters.
LEMMA SentenceChars ==
    ASSUME NEW text \in Bodies
    PROVE  /\ \A k \in 2..(Len(text) + 1) :
                 Sentence(text)[k] = text[k - 1] /\ Sentence(text)[k] \in BodyChars
           /\ Sentence(text)[2] \in IdChars
           /\ Sentence(text)[Len(text) + 3] \in DOMAIN Digit
           /\ Sentence(text)[Len(text) + 4] \in DOMAIN Digit
           /\ \A k \in 1..(Len(text) + 4) : Sentence(text)[k] \in Chars
           /\ \A k \in 2..(Len(text) + 4) : Sentence(text)[k] # Dollar
           /\ \A k \in 1..(Len(text) + 4) : Sentence(text)[k] = Star <=> k = Len(text) + 2
           /\ NumberOf(Sentence(text)[Len(text) + 3], Sentence(text)[Len(text) + 4]) = BitsOf(text)
<1>. DEFINE n == Len(text)
            s == Sentence(text)
<1>1. text \in Seq(BodyChars) /\ n \in Nat /\ n > 0 /\ text[1] \in IdChars
  BY BodyIs
<1>2. /\ s[1] = Dollar /\ \A k \in 1..n : s[k + 1] = text[k]
      /\ s[n + 2] = Star /\ s[n + 3] = Digits(text)[1] /\ s[n + 4] = Digits(text)[2]
  BY SentenceIs, Zenon
<1>3. /\ Digits(text)[1] \in DOMAIN Digit /\ Digits(text)[2] \in DOMAIN Digit
      /\ NumberOf(Digits(text)[1], Digits(text)[2]) = BitsOf(text)
  BY <1>1, DigitsAre
<1>. HIDE DEF s
<1>4. \A k \in 2..(n + 1) : s[k] = text[k - 1] /\ s[k] \in BodyChars
  <2>. SUFFICES ASSUME NEW k \in 2..(n + 1) PROVE s[k] = text[k - 1] /\ s[k] \in BodyChars
    OBVIOUS
  <2>1. k - 1 \in 1..n /\ (k - 1) + 1 = k
    BY <1>1
  <2>2. s[(k - 1) + 1] = text[k - 1]
    BY <1>2, <2>1, Zenon
  <2>3. text[k - 1] \in BodyChars
    BY <1>1, <2>1
  <2>. QED
    BY <2>1, <2>2, <2>3
<1>5. s[2] \in IdChars
  <2>1. 1 \in 1..n /\ 1 + 1 = 2
    BY <1>1
  <2>2. s[1 + 1] = text[1]
    BY <1>2, <2>1, Zenon
  <2>. QED
    BY <1>1, <2>1, <2>2
<1>6. s[n + 3] \in BodyChars /\ s[n + 4] \in BodyChars
  BY <1>2, <1>3, CharsAre
<1>7. \A k \in 1..(n + 4) : k = 1 \/ k \in 2..(n + 1) \/ k = n + 2 \/ k = n + 3 \/ k = n + 4
  BY <1>1
<1>8. /\ \A k \in 1..(n + 4) : s[k] \in Chars
      /\ \A k \in 2..(n + 4) : s[k] # Dollar
      /\ \A k \in 1..(n + 4) : s[k] = Star <=> k = n + 2
  <2>1. \A k \in 2..(n + 4) : k # n + 2 => s[k] \in BodyChars
    <3>1. \A k \in 2..(n + 4) : k # n + 2 => k \in 2..(n + 1) \/ k = n + 3 \/ k = n + 4
      BY <1>1
    <3>. QED
      BY <1>4, <1>6, <3>1
  <2>2. n + 2 \in 2..(n + 4) /\ \A k \in 1..(n + 4) : k = 1 \/ k \in 2..(n + 4)
    BY <1>1
  <2>3. /\ \A k \in 1..(n + 4) : s[k] \in Chars
        /\ \A k \in 2..(n + 4) : s[k] # Dollar
    BY <1>2, <2>1, <2>2, CharsAre
  <2>4. \A k \in 1..(n + 4) : s[k] = Star <=> k = n + 2
    <3>1. 1 # n + 2
      BY <1>1
    <3>. QED
      BY <1>2, <2>1, <2>2, <3>1, CharsAre
  <2>. QED
    BY <2>3, <2>4
<1>. QED
  BY <1>2, <1>3, <1>4, <1>5, <1>8 DEF s

\* A line of the right form has one $, its first character, and one star.
LEMMA OneStar ==
    ASSUME NEW line \in Seq(Chars), BasicMatches(line), NEW k \in 1..Len(line)
    PROVE  (line[k] = Star <=> k = Len(line) - 2) /\ (line[k] = Dollar <=> k = 1)
<1>. DEFINE n == Len(line)
<1>1. /\ n \in Nat /\ n >= 5 /\ line[1] = Dollar /\ line[2] \in IdChars /\ line[n - 2] = Star
      /\ \A i \in 3..(n - 3) : line[i] \in BodyChars
      /\ line[n - 1] \in DOMAIN Digit /\ line[n] \in DOMAIN Digit
  BY DEF BasicMatches
<1>2. k = 1 \/ k = 2 \/ k \in 3..(n - 3) \/ k = n - 2 \/ k = n - 1 \/ k = n
  BY <1>1
<1>3. k = n - 2 => k # 1
  BY <1>1
<1>. QED
  BY <1>1, <1>2, <1>3, CharsAre

LEMMA NoStarRefused ==
    ASSUME NEW line \in Seq(Chars), \A k \in 1..Len(line) : line[k] # Star
    PROVE  Refused(line)
<1>. SUFFICES ASSUME BasicMatches(line) PROVE FALSE
  BY DEF Refused
<1>1. Len(line) - 2 \in 1..Len(line) /\ line[Len(line) - 2] = Star
  BY DEF BasicMatches
<1>. QED
  BY <1>1

LEMMA EmptyRefused == Refused(<<>>)
<1>1. <<>> \in Seq(Chars) /\ \A k \in 1..Len(<<>>) : <<>>[k] # Star
  OBVIOUS
<1>. QED
  BY <1>1, NoStarRefused

LEMMA HopelessRefused ==
    ASSUME NEW line \in Seq(Chars), Hopeless(line)
    PROVE  Refused(line)
<1>. SUFFICES ASSUME BasicMatches(line) PROVE FALSE
  BY DEF Refused
<1>1. Len(line) \in Nat /\ Len(line) >= 5
  BY DEF BasicMatches
<1>2. \A k \in 1..Len(line) : (line[k] = Star <=> k = Len(line) - 2) /\ (line[k] = Dollar <=> k = 1)
  BY OneStar
<1>3. CASE line # <<>> /\ line[1] # Dollar
  <2>1. 1 \in 1..Len(line)
    BY <1>1
  <2>. QED
    BY <1>2, <1>3, <2>1
<1>4. CASE \E k \in 2..Len(line) : line[k] = Dollar
  BY <1>1, <1>2, <1>4
<1>5. CASE \E k \in 1..(Len(line) - 3) : line[k] = Star
  BY <1>1, <1>2, <1>5
<1>6. CASE \E k \in 1..Len(line) : \E l \in 1..(k - 1) : line[k] = Star /\ line[l] = Star
  <2>1. PICK k \in 1..Len(line) : \E l \in 1..(k - 1) : line[k] = Star /\ line[l] = Star
    BY <1>6
  <2>2. PICK l \in 1..(k - 1) : line[k] = Star /\ line[l] = Star
    BY <2>1
  <2>3. l \in 1..Len(line) /\ l # k
    BY <1>1
  <2>4. k = Len(line) - 2 /\ l = Len(line) - 2
    BY <1>2, <2>2, <2>3
  <2>. QED
    BY <2>3, <2>4
<1>. QED
  BY <1>3, <1>4, <1>5, <1>6 DEF Hopeless

LEMMA HopelessGrows ==
    ASSUME NEW read \in Seq(Chars), Hopeless(read), NEW c \in Chars
    PROVE  Hopeless(Append(read, c))
<1>. DEFINE more == Append(read, c)
<1>1. Len(more) = Len(read) + 1 /\ Len(read) \in Nat /\ more # <<>>
  BY AppendProperties
<1>2. \A k \in 1..Len(read) : more[k] = read[k]
  BY AppendProperties
<1>. HIDE DEF more
<1>3. CASE read # <<>> /\ read[1] # Dollar
  <2>1. 1 \in 1..Len(read)
    BY <1>1, <1>3
  <2>. QED
    BY <1>1, <1>2, <1>3, <2>1 DEF Hopeless, more
<1>4. CASE \E k \in 2..Len(read) : read[k] = Dollar
  <2>1. PICK k \in 2..Len(read) : read[k] = Dollar
    BY <1>4
  <2>2. k \in 2..Len(more) /\ more[k] = Dollar
    BY <1>1, <1>2, <2>1
  <2>. QED
    BY <2>2 DEF Hopeless, more
<1>5. CASE \E k \in 1..(Len(read) - 3) : read[k] = Star
  <2>1. PICK k \in 1..(Len(read) - 3) : read[k] = Star
    BY <1>5
  <2>2. k \in 1..(Len(more) - 3) /\ more[k] = Star
    BY <1>1, <1>2, <2>1
  <2>. QED
    BY <2>2 DEF Hopeless, more
<1>6. CASE \E k \in 1..Len(read) : \E l \in 1..(k - 1) : read[k] = Star /\ read[l] = Star
  <2>1. PICK k \in 1..Len(read), l \in 1..Len(read) : l \in 1..(k - 1) /\ read[k] = Star /\ read[l] = Star
    BY <1>1, <1>6
  <2>2. k \in 1..Len(more) /\ l \in 1..(k - 1) /\ more[k] = Star /\ more[l] = Star
    BY <1>1, <1>2, <2>1
  <2>. QED
    BY <2>2 DEF Hopeless, more
<1>. QED
  BY <1>3, <1>4, <1>5, <1>6 DEF Hopeless

\* A sentence that comes through is accepted, for what it says.
LEMMA CompleteIs ==
    ASSUME NEW text \in Bodies, NEW line \in Seq(Chars), Complete(line, text)
    PROVE  BasicMatches(line) /\ Body(line) = text /\ Checksum(line) = BitsOf(text)
<1>. DEFINE n == Len(text)
            s == Sentence(text)
<1>1. text \in Seq(BodyChars) /\ n \in Nat /\ n > 0
  BY BodyIs
<1>2. Len(line) = n + 4 /\ \A k \in 1..(n + 4) : line[k] = s[k]
  BY DEF Complete, Starts
<1>3. /\ s[1] = Dollar /\ s[2] \in IdChars /\ s[n + 2] = Star
      /\ \A k \in 2..(n + 1) : s[k] = text[k - 1] /\ s[k] \in BodyChars
      /\ s[n + 3] \in DOMAIN Digit /\ s[n + 4] \in DOMAIN Digit
      /\ NumberOf(s[n + 3], s[n + 4]) = BitsOf(text)
  BY SentenceIs, SentenceChars, Zenon
<1>. HIDE DEF s
<1>4. line[1] = Dollar /\ line[2] \in IdChars /\ line[n + 2] = Star
      /\ line[n + 3] = s[n + 3] /\ line[n + 4] = s[n + 4]
  BY <1>1, <1>2, <1>3
<1>5. BasicMatches(line)
  <2>1. \A k \in 3..(n + 1) : line[k] \in BodyChars
    BY <1>1, <1>2, <1>3
  <2>. QED
    BY <1>1, <1>2, <1>3, <1>4, <2>1, SMTT(30) DEF BasicMatches
<1>6. Body(line) = text
  <2>1. Body(line) = SubSeq(line, 2, n + 1)
    BY <1>1, <1>2 DEF Body
  <2>2. Body(line) \in Seq(Chars) /\ Len(Body(line)) = n
    BY <1>1, <1>2, <2>1
  <2>3. \A k \in 1..n : Body(line)[k] = text[k]
    <3>1. \A k \in 1..n : Body(line)[k] = line[k + 1]
      BY <1>1, <1>2, <2>1
    <3>2. \A k \in 1..n : k + 1 \in 2..(n + 1) /\ k + 1 \in 1..(n + 4) /\ (k + 1) - 1 = k
      BY <1>1
    <3>. QED
      BY <1>2, <1>3, <3>1, <3>2
  <2>. QED
    BY <1>1, <2>2, <2>3
<1>7. Checksum(line) = BitsOf(text)
  BY <1>1, <1>2, <1>3, <1>4 DEF Checksum
<1>. QED
  BY <1>5, <1>6, <1>7

LEMMA MarkedGenuine ==
    ASSUME NEW text \in Bodies, NEW line \in Seq(Chars), NEW p \in Nat, Marked(line, text, p)
    PROVE  Genuine(line, text)
<1>. DEFINE n == Len(text)
            s == Sentence(text)
<1>. SUFFICES ASSUME BasicMatches(line) PROVE Body(line) = text
  BY DEF Genuine
<1>1. text \in Seq(BodyChars) /\ n \in Nat /\ n > 0 /\ Len(line) \in Nat
  BY BodyIs
<1>2. Len(line) > n + 1 /\ \A k \in 1..(n + 2) : line[k] = s[k]
  BY DEF Marked
<1>3. s[n + 2] = Star /\ \A k \in 1..n : s[k + 1] = text[k]
  BY SentenceIs, Zenon
<1>. HIDE DEF s
<1>4. Len(line) = n + 4
  <2>1. n + 2 \in 1..Len(line) /\ line[n + 2] = Star
    BY <1>1, <1>2, <1>3
  <2>2. n + 2 = Len(line) - 2
    BY <2>1, OneStar
  <2>. QED
    BY <1>1, <2>2
<1>5. Body(line) = SubSeq(line, 2, n + 1)
  BY <1>1, <1>4 DEF Body
<1>6. Body(line) \in Seq(Chars) /\ Len(Body(line)) = n
  BY <1>1, <1>4, <1>5
<1>7. \A k \in 1..n : Body(line)[k] = text[k]
  <2>1. \A k \in 1..n : Body(line)[k] = line[k + 1]
    BY <1>1, <1>4, <1>5
  <2>2. \A k \in 1..n : k + 1 \in 1..(n + 2)
    BY <1>1
  <2>. QED
    BY <1>2, <1>3, <2>1, <2>2
<1>. QED
  BY <1>1, <1>6, <1>7

LEMMA CompleteGenuine ==
    ASSUME NEW text \in Bodies, NEW line \in Seq(Chars), Complete(line, text)
    PROVE  Genuine(line, text)
BY CompleteIs DEF Genuine

\* A line with a whole sentence on it is not one any more.
LEMMA CompleteGrows ==
    ASSUME NEW text \in Bodies, NEW line \in Seq(Chars), Complete(line, text), NEW c \in Chars
    PROVE  Hopeless(Append(line, c))
<1>. DEFINE n == Len(text)
            more == Append(line, c)
<1>1. n \in Nat /\ n > 0
  BY BodyIs
<1>2. Len(line) = n + 4 /\ line[n + 2] = Star
  <2>1. Len(line) = n + 4 /\ \A k \in 1..(n + 4) : line[k] = Sentence(text)[k]
    BY DEF Complete, Starts
  <2>2. Sentence(text)[n + 2] = Star /\ n + 2 \in 1..(n + 4)
    BY <1>1, SentenceIs
  <2>. QED
    BY <2>1, <2>2
<1>3. Len(more) = n + 5 /\ more[n + 2] = Star
  <2>1. Len(more) = Len(line) + 1 /\ \A k \in 1..Len(line) : more[k] = line[k]
    BY AppendProperties
  <2>. HIDE DEF more
  <2>. QED
    BY <1>1, <1>2, <2>1
<1>. HIDE DEF more
<1>4. n + 2 \in 1..(Len(more) - 3)
  BY <1>1, <1>3
<1>. QED
  BY <1>3, <1>4 DEF Hopeless, more

-----------------------------------------------------------------------------
(* One character more *)

LEMMA AppendIs ==
    ASSUME NEW read \in Seq(Chars), NEW c \in Chars
    PROVE  /\ Append(read, c) \in Seq(Chars) /\ Append(read, c) # <<>>
           /\ Len(Append(read, c)) = Len(read) + 1 /\ Append(read, c)[Len(read) + 1] = c
           /\ \A k \in 1..Len(read) : Append(read, c)[k] = read[k]
BY AppendProperties

LEMMA IntactStarts ==
    ASSUME NEW text \in Bodies
    PROVE  Intact(<<>>, text, 1)
<1>1. Len(text) \in Nat /\ 1 <= Len(text) + 5 /\ 1 - 1 = 0 /\ Len(<<>>) = 0
  BY BodyIs
<1>. QED
  BY <1>1 DEF Intact, Starts

LEMMA IntactGrows ==
    ASSUME NEW text \in Bodies, NEW read \in Seq(Chars), NEW p \in 1..(Len(text) + 4),
           Intact(read, text, p)
    PROVE  Intact(Append(read, Sentence(text)[p]), text, p + 1)
<1>. DEFINE n == Len(text)
            s == Sentence(text)
            more == Append(read, s[p])
<1>1. n \in Nat /\ s[p] \in Chars
  BY BodyIs, SentenceChars
<1>2. Len(read) = p - 1 /\ \A k \in 1..(p - 1) : read[k] = s[k]
  BY <1>1 DEF Intact, Starts
<1>3. Len(more) = p /\ more[p] = s[p] /\ \A k \in 1..(p - 1) : more[k] = read[k]
  <2>1. Len(more) = Len(read) + 1 /\ more[Len(read) + 1] = s[p]
        /\ \A k \in 1..Len(read) : more[k] = read[k]
    BY <1>1, AppendIs
  <2>. HIDE DEF more, s
  <2>. QED
    BY <1>2, <2>1
<1>4. \A k \in 1..p : more[k] = s[k]
  <2>. HIDE DEF more, s
  <2>. QED
    BY <1>2, <1>3
<1>5. p + 1 <= n + 5 /\ (p + 1) - 1 = p
  BY <1>1
<1>. HIDE DEF more
<1>. QED
  BY <1>3, <1>4, <1>5 DEF Intact, Starts, more

LEMMA IntactAtCR ==
    ASSUME NEW text \in Bodies, NEW read, Intact(read, text, Len(text) + 5)
    PROVE  Intact(read, text, (Len(text) + 5) + 1)
<1>1. Len(text) \in Nat
  BY BodyIs
<1>. QED
  BY <1>1 DEF Intact, Starts

LEMMA IntactEnds ==
    ASSUME NEW text \in Bodies, NEW read, NEW p, p = Len(text) + 5 \/ p = Len(text) + 6,
           Intact(read, text, p)
    PROVE  Complete(read, text)
<1>1. Len(text) \in Nat
  BY BodyIs
<1>. QED
  BY <1>1 DEF Intact, Complete, Starts

\* What of the body has been read.
LEMMA IntactBody ==
    ASSUME NEW text \in Bodies, NEW read \in Seq(Chars), NEW p \in 2..(Len(text) + 2),
           Intact(read, text, p)
    PROVE  /\ Len(read) = p - 1 /\ read # <<>> /\ read[1] = Dollar
           /\ \A k \in 2..(p - 1) : read[k] \in BodyChars
           /\ Tail(read) \in Seq(BodyChars) /\ Tail(read) = SubSeq(text, 1, p - 2)
<1>. DEFINE n == Len(text)
            s == Sentence(text)
<1>1. text \in Seq(BodyChars) /\ n \in Nat
  BY BodyIs
<1>2. Len(read) = p - 1 /\ \A k \in 1..(p - 1) : read[k] = s[k]
  BY <1>1 DEF Intact, Starts
<1>3. s[1] = Dollar /\ \A k \in 2..(n + 1) : s[k] = text[k - 1] /\ s[k] \in BodyChars
  BY SentenceIs, SentenceChars, Zenon
<1>. HIDE DEF s
<1>4. /\ read # <<>> /\ read[1] = Dollar
      /\ \A k \in 2..(p - 1) : read[k] = text[k - 1]
      /\ \A k \in 2..(p - 1) : read[k] \in BodyChars
  <2>1. 1 \in 1..(p - 1) /\ \A k \in 2..(p - 1) : k \in 1..(p - 1) /\ k \in 2..(n + 1)
    BY <1>1
  <2>2. read[1] = s[1] /\ \A k \in 2..(p - 1) : read[k] = s[k]
    BY <1>2, <2>1
  <2>3. read # <<>>
    BY <1>2
  <2>. QED
    BY <1>3, <2>1, <2>2, <2>3
<1>. DEFINE t == Tail(read)
            b == SubSeq(text, 1, p - 2)
<1>5. t \in Seq(Chars) /\ Len(t) = p - 2 /\ \A k \in 1..(p - 2) : t[k] = read[k + 1]
  BY <1>2, <1>4
<1>6. b \in Seq(BodyChars) /\ Len(b) = p - 2 /\ \A k \in 1..(p - 2) : b[k] = text[k]
  BY <1>1
<1>. HIDE DEF t, b
<1>7. \A k \in 1..(p - 2) : t[k] = b[k]
  <2>1. \A k \in 1..(p - 2) : k + 1 \in 2..(p - 1) /\ (k + 1) - 1 = k
    OBVIOUS
  <2>. QED
    BY <1>4, <1>5, <1>6, <2>1
<1>8. t = b
  BY <1>5, <1>6, <1>7
<1>. QED
  BY <1>2, <1>4, <1>6, <1>8 DEF t, b

LEMMA NextPart ==
    ASSUME NEW text \in Bodies, NEW p \in 2..(Len(text) + 1)
    PROVE  /\ text[p - 1] \in BodyChars /\ SubSeq(text, 1, p - 2) \in Seq(BodyChars)
           /\ SubSeq(text, 1, p - 1) = Append(SubSeq(text, 1, p - 2), text[p - 1])
           /\ BitsOf(SubSeq(text, 1, p - 1)) = Xor(BitsOf(SubSeq(text, 1, p - 2)), Code[text[p - 1]])
<1>1. text \in Seq(BodyChars) /\ Len(text) \in Nat
  BY BodyIs
<1>2. text[p - 1] \in BodyChars /\ SubSeq(text, 1, p - 2) \in Seq(BodyChars)
  BY <1>1
<1>3. SubSeq(text, 1, p - 1) = Append(SubSeq(text, 1, p - 2), text[p - 1])
  BY <1>1
<1>. QED
  BY <1>2, <1>3, BitsAppend

LEMMA CodesDiffer ==
    ASSUME NEW c \in BodyChars, NEW d \in BodyChars
    PROVE  Code[c] # {} /\ (c # d => Code[c] # Code[d])
BY CodeAssumption

\* A character is lost, or a carriage return takes its place.
LEMMA IntactShortened ==
    ASSUME NEW text \in Bodies, NEW read \in Seq(Chars), NEW p \in 1..(Len(text) + 5),
           Intact(read, text, p)
    PROVE  Marked(read, text, p + 1) \/ Garbled(read, text, p + 1)
<1>. DEFINE n == Len(text)
            s == Sentence(text)
<1>1. n \in Nat /\ n > 0
  BY BodyIs
<1>2. Len(read) = p - 1 /\ \A k \in 1..(p - 1) : read[k] = s[k]
  BY <1>1 DEF Intact, Starts
<1>3. CASE p = 1
  BY <1>2, <1>3 DEF Garbled, Headless
<1>4. CASE p \in 2..(n + 1)
  <2>1. /\ Len(read) = p - 1 /\ read # <<>> /\ read[1] = Dollar
        /\ \A k \in 2..(p - 1) : read[k] \in BodyChars
        /\ Tail(read) = SubSeq(text, 1, p - 2)
    BY <1>1, <1>4, IntactBody
  <2>2. BitsOf(SubSeq(text, 1, p - 1)) = Xor(BitsOf(Tail(read)), Code[text[p - 1]])
        /\ text[p - 1] \in BodyChars
    BY <1>4, <2>1, NextPart
  <2>3. BitsOf(Tail(read)) # BitsOf(SubSeq(text, 1, p - 1))
    BY <2>2, CodesDiffer, OneAdded
  <2>4. (p + 1) - 2 = p - 1 /\ p + 1 \in 3..(n + 2)
    BY <1>1, <1>4
  <2>. QED
    BY <2>1, <2>3, <2>4 DEF Garbled, WrongBody
<1>5. CASE p = n + 2
  <2>1. \A k \in 1..(p - 1) : s[k] # Star
    <3>1. \A k \in 1..(n + 4) : s[k] = Star <=> k = n + 2
      BY SentenceChars, Zenon
    <3>. HIDE DEF s
    <3>. QED
      BY <1>1, <1>5, <3>1
  <2>. HIDE DEF s
  <2>2. NoStar(read, text, p + 1)
    BY <1>1, <1>2, <1>5, <2>1 DEF NoStar
  <2>. QED
    BY <2>2 DEF Garbled
<1>6. CASE p > n + 2
  <2>1. Len(read) > n + 1 /\ p + 1 > n + 2 /\ \A k \in 1..(n + 2) : read[k] = s[k]
    <3>. HIDE DEF s
    <3>. QED
      BY <1>1, <1>2, <1>6
  <2>. QED
    BY <2>1 DEF Marked
<1>. QED
  BY <1>1, <1>3, <1>4, <1>5, <1>6

\* A character becomes another one, but no terminator.
LEMMA IntactReplaced ==
    ASSUME NEW text \in Bodies, NEW read \in Seq(Chars), NEW p \in 1..(Len(text) + 5),
           Intact(read, text, p), NEW d \in Chars, d # Sentence(text)[p]
    PROVE  \/ Hopeless(Append(read, d))
           \/ Marked(Append(read, d), text, p + 1)
           \/ Garbled(Append(read, d), text, p + 1)
<1>. DEFINE n == Len(text)
            s == Sentence(text)
            more == Append(read, d)
<1>1. n \in Nat /\ n > 0 /\ text \in Seq(BodyChars)
  BY BodyIs
<1>2. Len(read) = p - 1 /\ \A k \in 1..(p - 1) : read[k] = s[k]
  BY <1>1 DEF Intact, Starts
<1>3. /\ more \in Seq(Chars) /\ more # <<>> /\ Len(more) = p /\ more[p] = d
      /\ \A k \in 1..(p - 1) : more[k] = read[k]
  <2>1. /\ more \in Seq(Chars) /\ more # <<>>
        /\ Len(more) = Len(read) + 1 /\ more[Len(read) + 1] = d
        /\ \A k \in 1..Len(read) : more[k] = read[k]
    BY AppendIs
  <2>. HIDE DEF more, s
  <2>. QED
    BY <1>2, <2>1
<1>. HIDE DEF more
<1>4. CASE p = 1
  <2>1. more[1] # Dollar
    BY <1>3, <1>4, SentenceIs
  <2>. QED
    BY <1>3, <2>1 DEF Hopeless, more
<1>5. CASE d = Dollar /\ p > 1
  <2>1. p \in 2..Len(more)
    BY <1>3, <1>5
  <2>. QED
    BY <1>3, <1>5, <2>1 DEF Hopeless, more
<1>6. CASE p \in 2..(n + 1) /\ d = Star
  <2>1. p + 1 \in 3..(n + 2) /\ p \in 1..Len(more)
    BY <1>1, <1>3, <1>6
  <2>2. StarInside(more, text, p + 1)
    BY <1>3, <1>6, <2>1 DEF StarInside
  <2>. QED
    BY <2>2 DEF Garbled, more
<1>7. CASE p \in 2..(n + 1) /\ d \in BodyChars
  <2>1. /\ read # <<>> /\ read[1] = Dollar
        /\ \A k \in 2..(p - 1) : read[k] \in BodyChars
        /\ Tail(read) = SubSeq(text, 1, p - 2) /\ Tail(read) \in Seq(BodyChars)
    BY <1>1, <1>7, IntactBody
  <2>2. /\ BitsOf(SubSeq(text, 1, p - 1)) = Xor(BitsOf(Tail(read)), Code[text[p - 1]])
        /\ text[p - 1] \in BodyChars
    BY <1>7, <2>1, NextPart
  <2>3. Code[d] # Code[text[p - 1]]
    <3>1. s[p] = text[p - 1]
      BY <1>7, SentenceChars, Zenon
    <3>. QED
      BY <1>7, <2>2, <3>1, CodesDiffer
  <2>4. Tail(more) = Append(Tail(read), d)
    BY <2>1 DEF more
  <2>5. BitsOf(Tail(more)) # BitsOf(SubSeq(text, 1, p - 1))
    <3>1. BitsOf(Tail(more)) = Xor(BitsOf(Tail(read)), Code[d])
      BY <1>7, <2>1, <2>4, BitsAppend
    <3>. QED
      BY <2>2, <2>3, <3>1, OthersAdded
  <2>6. more[1] = Dollar /\ \A k \in 2..Len(more) : more[k] \in BodyChars
    <3>1. 1 \in 1..(p - 1) /\ \A k \in 2..p : k = p \/ (k \in 2..(p - 1) /\ k \in 1..(p - 1))
      BY <1>7
    <3>. QED
      BY <1>3, <1>7, <2>1, <3>1
  <2>7. (p + 1) - 2 = p - 1 /\ p + 1 \in 3..(n + 2)
    BY <1>1, <1>7
  <2>8. WrongBody(more, text, p + 1)
    BY <1>3, <2>5, <2>6, <2>7 DEF WrongBody
  <2>. QED
    BY <2>8 DEF Garbled, more
<1>8. CASE p = n + 2 /\ d \in BodyChars
  <2>1. \A k \in 1..(p - 1) : s[k] # Star
    <3>1. \A k \in 1..(n + 4) : s[k] = Star <=> k = n + 2
      BY SentenceChars, Zenon
    <3>. HIDE DEF s
    <3>. QED
      BY <1>1, <1>8, <3>1
  <2>. HIDE DEF s
  <2>2. \A k \in 1..Len(more) : more[k] # Star
    BY <1>1, <1>2, <1>3, <1>8, <2>1, CharsAre
  <2>3. NoStar(more, text, p + 1)
    BY <1>1, <1>8, <2>2 DEF NoStar
  <2>. QED
    BY <2>3 DEF Garbled, more
<1>9. CASE p = n + 2 /\ d = Star
  BY <1>9, SentenceIs
<1>10. CASE p > n + 2
  <2>1. Len(more) > n + 1 /\ p + 1 > n + 2 /\ \A k \in 1..(n + 2) : more[k] = s[k]
    <3>. HIDE DEF s
    <3>. QED
      BY <1>1, <1>2, <1>3, <1>10
  <2>. QED
    BY <2>1 DEF Marked, more
<1>11. d = Dollar \/ d = Star \/ d \in BodyChars
  BY CharsAre
<1>12. p = 1 \/ p \in 2..(n + 1) \/ p = n + 2 \/ p > n + 2
  BY <1>1
<1>. QED
  BY <1>1, <1>4, <1>5, <1>6, <1>7, <1>8, <1>9, <1>10, <1>11, <1>12

\* A line feed takes its place.
LEMMA IntactCut ==
    ASSUME NEW text \in Bodies, NEW read \in Seq(Chars), NEW p \in 1..(Len(text) + 5),
           Intact(read, text, p)
    PROVE  Refused(read) \/ Genuine(read, text)
<1>. DEFINE n == Len(text)
            s == Sentence(text)
<1>1. n \in Nat /\ n > 0
  BY BodyIs
<1>2. Len(read) = p - 1 /\ \A k \in 1..(p - 1) : read[k] = s[k]
  BY <1>1 DEF Intact, Starts
<1>3. CASE p <= n + 2
  <2>1. \A k \in 1..(n + 4) : s[k] = Star <=> k = n + 2
    BY SentenceChars, Zenon
  <2>. HIDE DEF s
  <2>2. \A k \in 1..Len(read) : read[k] # Star
    BY <1>1, <1>2, <1>3, <2>1
  <2>. QED
    BY <2>2, NoStarRefused
<1>4. CASE p > n + 2
  <2>1. Len(read) > n + 1 /\ \A k \in 1..(n + 2) : read[k] = s[k]
    <3>. HIDE DEF s
    <3>. QED
      BY <1>1, <1>2, <1>4
  <2>2. Marked(read, text, p)
    BY <1>4, <2>1 DEF Marked
  <2>. QED
    BY <2>2, MarkedGenuine
<1>. QED
  BY <1>1, <1>3, <1>4

LEMMA MarkedGrows ==
    ASSUME NEW text \in Bodies, NEW read \in Seq(Chars), NEW p \in Nat,
           Marked(read, text, p), NEW c \in Chars
    PROVE  Marked(read, text, p + 1) /\ Marked(Append(read, c), text, p + 1)
<1>. DEFINE n == Len(text)
            more == Append(read, c)
<1>1. n \in Nat
  BY BodyIs
<1>2. /\ p + 1 > n + 2 /\ Len(read) > n + 1
      /\ \A k \in 1..(n + 2) : read[k] = Sentence(text)[k]
  BY <1>1 DEF Marked
<1>3. Len(more) = Len(read) + 1 /\ \A k \in 1..Len(read) : more[k] = read[k]
  BY AppendIs
<1>. HIDE DEF more
<1>4. Len(more) > n + 1 /\ \A k \in 1..(n + 2) : more[k] = Sentence(text)[k]
  BY <1>1, <1>2, <1>3
<1>. QED
  BY <1>2, <1>4 DEF Marked, more

-----------------------------------------------------------------------------
(* The rest of a damaged sentence *)

LEMMA WrongBodyGrows ==
    ASSUME NEW text \in Bodies, NEW read \in Seq(Chars), NEW p \in 2..(Len(text) + 4),
           WrongBody(read, text, p)
    PROVE  Garbled(Append(read, Sentence(text)[p]), text, p + 1)
<1>. DEFINE n == Len(text)
            c == Sentence(text)[p]
            more == Append(read, c)
<1>1. n \in Nat /\ n > 0 /\ text \in Seq(BodyChars)
  BY BodyIs
<1>2. /\ p \in 3..(n + 2) /\ read # <<>> /\ read[1] = Dollar
      /\ \A k \in 2..Len(read) : read[k] \in BodyChars
      /\ BitsOf(Tail(read)) # BitsOf(SubSeq(text, 1, p - 2))
  BY DEF WrongBody
<1>3. c \in Chars
  BY SentenceChars
<1>4. /\ more # <<>> /\ Len(more) = Len(read) + 1 /\ more[Len(read) + 1] = c
      /\ \A k \in 1..Len(read) : more[k] = read[k]
  BY <1>3, AppendIs
<1>5. Len(read) \in Nat /\ Len(read) > 0
  BY <1>2
<1>6. Tail(read) \in Seq(BodyChars)
  <2>1. /\ Tail(read) \in Seq(Chars) /\ Len(Tail(read)) = Len(read) - 1
        /\ \A k \in 1..(Len(read) - 1) : Tail(read)[k] = read[k + 1]
    BY <1>2
  <2>2. \A k \in 1..(Len(read) - 1) : k + 1 \in 2..Len(read)
    BY <1>5
  <2>3. \A k \in 1..(Len(read) - 1) : Tail(read)[k] \in BodyChars
    BY <1>2, <2>1, <2>2
  <2>. DEFINE t == Tail(read)
  <2>4. t \in Seq(Chars) /\ \A k \in 1..Len(t) : t[k] \in BodyChars
    BY <2>1, <2>3
  <2>. HIDE DEF t
  <2>5. t \in Seq(BodyChars)
    BY <2>4
  <2>. QED
    BY <2>5 DEF t
<1>7. CASE p \in 3..(n + 1)
  <2>1. /\ c = text[p - 1] /\ c \in BodyChars
        /\ BitsOf(SubSeq(text, 1, p - 1)) = Xor(BitsOf(SubSeq(text, 1, p - 2)), Code[text[p - 1]])
    <3>1. p \in 2..(n + 1)
      BY <1>7
    <3>2. c = text[p - 1] /\ c \in BodyChars
      BY <3>1, SentenceChars, Zenon
    <3>. QED
      BY <3>1, <3>2, NextPart
  <2>2. BitsOf(Tail(more)) = Xor(BitsOf(Tail(read)), Code[c])
    <3>1. Tail(more) = Append(Tail(read), c)
      <4>. HIDE DEF c
      <4>. QED
        BY <1>2, <1>3
    <3>. QED
      BY <1>6, <2>1, <3>1, BitsAppend
  <2>3. BitsOf(Tail(more)) # BitsOf(SubSeq(text, 1, p - 1))
    BY <1>2, <2>1, <2>2, SameAdded
  <2>. HIDE DEF more, c
  <2>4. more[1] = Dollar /\ \A k \in 2..Len(more) : more[k] \in BodyChars
    <3>1. 1 \in 1..Len(read)
      BY <1>5
    <3>2. \A k \in 2..Len(more) : k = Len(read) + 1 \/ (k \in 2..Len(read) /\ k \in 1..Len(read))
      BY <1>4, <1>5
    <3>. QED
      BY <1>2, <1>4, <2>1, <3>1, <3>2
  <2>5. (p + 1) - 2 = p - 1 /\ p + 1 \in 3..(n + 2)
    BY <1>1, <1>7
  <2>6. WrongBody(more, text, p + 1)
    BY <1>4, <2>3, <2>4, <2>5 DEF WrongBody
  <2>. QED
    BY <2>6 DEF Garbled, more, c
<1>8. CASE p = n + 2
  <2>1. c = Star
    BY <1>8, SentenceIs
  <2>2. SubSeq(text, 1, p - 2) = text
    BY <1>1, <1>8
  <2>3. SubSeq(more, 2, Len(read)) = Tail(read)
    <3>. HIDE DEF c
    <3>. QED
      BY <1>2, <1>3, <1>5, SMTT(30)
  <2>. DEFINE star == Len(read) + 1
  <2>4. star - 1 = Len(read) /\ star \in 2..Len(more) /\ Len(more) = star + 0
    BY <1>4, <1>5
  <2>5. BitsOf(SubSeq(more, 2, star - 1)) # BitsOf(text)
    BY <1>2, <2>2, <2>3, <2>4
  <2>6. /\ p + 1 > n + 2
        /\ (IF p + 1 <= n + 5 THEN (p + 1) - n - 3 ELSE 2) = 0
    BY <1>1, <1>8
  <2>7. more[star] = Star
    BY <1>4, <2>1
  <2>. HIDE DEF more, c, star
  <2>8. WrongText(more, text, p + 1)
    <3>1. /\ Len(more) = star + 0 /\ more[star] = Star
          /\ BitsOf(SubSeq(more, 2, star - 1)) # BitsOf(text)
          /\ \A k \in 1..0 : more[star + k] = Sentence(text)[Len(text) + 2 + k]
      BY <2>4, <2>5, <2>7
    <3>. QED
      BY <2>4, <2>6, <3>1 DEF WrongText, n
  <2>. QED
    BY <2>8 DEF Garbled, more, c
<1>. QED
  BY <1>1, <1>2, <1>7, <1>8

LEMMA WrongTextGrows ==
    ASSUME NEW text \in Bodies, NEW read \in Seq(Chars), NEW p \in 2..(Len(text) + 4),
           WrongText(read, text, p)
    PROVE  WrongText(Append(read, Sentence(text)[p]), text, p + 1)
<1>. DEFINE n == Len(text)
            s == Sentence(text)
            c == s[p]
            more == Append(read, c)
            digits == p - n - 3
<1>1. n \in Nat /\ n > 0
  BY BodyIs
<1>2. PICK star \in 2..Len(read) :
              /\ Len(read) = star + digits
              /\ read[star] = Star /\ BitsOf(SubSeq(read, 2, star - 1)) # BitsOf(text)
              /\ \A k \in 1..digits : read[star + k] = s[n + 2 + k]
  <2>1. (IF p <= n + 5 THEN p - n - 3 ELSE 2) = digits
    BY <1>1
  <2>. HIDE DEF digits
  <2>. QED
    BY <2>1 DEF WrongText
<1>3. c \in Chars
  BY SentenceChars
<1>4. /\ more # <<>> /\ Len(more) = Len(read) + 1 /\ more[Len(read) + 1] = c
      /\ \A k \in 1..Len(read) : more[k] = read[k]
  BY <1>3, AppendIs
<1>5. p > n + 2 /\ Len(read) \in Nat
  BY DEF WrongText
<1>6. SubSeq(more, 2, star - 1) = SubSeq(read, 2, star - 1)
  <2>. HIDE DEF c
  <2>. QED
    BY <1>2, <1>3, <1>5, SMTT(30)
<1>. HIDE DEF more
<1>7. /\ star \in 2..Len(more) /\ Len(more) = star + (digits + 1) /\ more[star] = Star
  BY <1>1, <1>2, <1>4, <1>5
<1>8. \A k \in 1..(digits + 1) : more[star + k] = s[n + 2 + k]
  <2>. SUFFICES ASSUME NEW k \in 1..(digits + 1) PROVE more[star + k] = s[n + 2 + k]
    OBVIOUS
  <2>. HIDE DEF s
  <2>1. CASE k \in 1..digits
    <3>1. star + k \in 1..Len(read)
      BY <1>1, <1>2, <1>5, <2>1
    <3>. QED
      BY <1>2, <1>4, <2>1, <3>1
  <2>2. CASE k = digits + 1
    <3>1. star + k = Len(read) + 1 /\ n + 2 + k = p
      BY <1>1, <1>2, <1>5, <2>2
    <3>. QED
      BY <1>4, <3>1
  <2>. QED
    BY <1>1, <1>5, <2>1, <2>2
<1>9. /\ p + 1 > n + 2
      /\ (IF p + 1 <= n + 5 THEN (p + 1) - n - 3 ELSE 2) = digits + 1
  BY <1>1, <1>5
<1>. HIDE DEF s, c
<1>10. WrongText(more, text, p + 1)
  <2>1. BitsOf(SubSeq(more, 2, star - 1)) # BitsOf(text)
    BY <1>2, <1>6
  <2>. HIDE DEF digits
  <2>. QED
    BY <1>7, <1>8, <1>9, <2>1 DEF WrongText, s
<1>. QED
  BY <1>10 DEF more, c, s

LEMMA GarbledGrows ==
    ASSUME NEW text \in Bodies, NEW read \in Seq(Chars), NEW p \in 2..(Len(text) + 4),
           Garbled(read, text, p)
    PROVE  \/ Hopeless(Append(read, Sentence(text)[p]))
           \/ Garbled(Append(read, Sentence(text)[p]), text, p + 1)
<1>. DEFINE n == Len(text)
            c == Sentence(text)[p]
            more == Append(read, c)
<1>1. n \in Nat /\ n > 0
  BY BodyIs
<1>2. c \in Chars /\ c # Dollar /\ (c = Star <=> p = n + 2)
  <2>1. p \in 1..(n + 4)
    BY <1>1
  <2>. QED
    BY <2>1, SentenceChars, Zenon
<1>3. /\ more # <<>> /\ Len(more) = Len(read) + 1 /\ more[Len(read) + 1] = c
      /\ \A k \in 1..Len(read) : more[k] = read[k]
  BY <1>2, AppendIs
<1>. HIDE DEF c, more
<1>4. CASE WrongBody(read, text, p)
  BY <1>4, WrongBodyGrows
<1>5. CASE WrongText(read, text, p)
  BY <1>5, WrongTextGrows DEF Garbled
<1>6. CASE StarInside(read, text, p)
  <2>1. PICK k \in 1..Len(read) : read[k] = Star
    BY <1>6 DEF StarInside
  <2>2. p \in 3..(n + 2)
    BY <1>6 DEF StarInside
  <2>3. k \in 1..Len(more) /\ more[k] = Star
    BY <1>3, <2>1
  <2>4. CASE p <= n + 1
    <3>1. StarInside(more, text, p + 1)
      BY <1>1, <2>2, <2>3, <2>4 DEF StarInside
    <3>. QED
      BY <3>1 DEF Garbled, more, c
  <2>5. CASE p = n + 2
    <3>1. c = Star
      BY <1>2, <2>5
    <3>2. Len(more) \in 1..Len(more) /\ k \in 1..(Len(more) - 1) /\ more[Len(more)] = Star
      BY <1>3, <2>1, <3>1
    <3>3. Hopeless(more)
      BY <2>3, <3>2 DEF Hopeless
    <3>. QED
      BY <3>3 DEF more, c
  <2>. QED
    BY <1>1, <2>2, <2>4, <2>5
<1>7. CASE NoStar(read, text, p)
  <2>1. p > n + 2 /\ \A k \in 1..Len(read) : read[k] # Star
    BY <1>7 DEF NoStar
  <2>2. \A k \in 1..Len(more) : k \in 1..Len(read) \/ k = Len(read) + 1
    BY <1>3
  <2>3. \A k \in 1..Len(more) : more[k] # Star
    BY <1>1, <1>2, <1>3, <2>1, <2>2
  <2>4. NoStar(more, text, p + 1)
    BY <1>1, <2>1, <2>3 DEF NoStar
  <2>. QED
    BY <2>4 DEF Garbled, more, c
<1>8. CASE Headless(read, p)
  <2>1. more[1] = c
    BY <1>3, <1>8 DEF Headless
  <2>2. Hopeless(more)
    BY <1>2, <1>3, <2>1 DEF Hopeless
  <2>. QED
    BY <2>2 DEF more, c
<1>. QED
  BY <1>4, <1>5, <1>6, <1>7, <1>8 DEF Garbled

LEMMA GarbledAtCR ==
    ASSUME NEW text \in Bodies, NEW read, Garbled(read, text, Len(text) + 5)
    PROVE  Garbled(read, text, (Len(text) + 5) + 1)
<1>. DEFINE n == Len(text)
            p == n + 5
<1>1. n \in Nat
  BY BodyIs
<1>2. ~WrongBody(read, text, p) /\ ~StarInside(read, text, p)
  BY <1>1 DEF WrongBody, StarInside
<1>3. WrongText(read, text, p) => WrongText(read, text, p + 1)
  <2>1. /\ (IF p <= n + 5 THEN p - n - 3 ELSE 2) = 2 /\ p > n + 2
        /\ (IF p + 1 <= n + 5 THEN (p + 1) - n - 3 ELSE 2) = 2 /\ p + 1 > n + 2
    BY <1>1
  <2>. HIDE DEF p
  <2>. QED
    BY <2>1 DEF WrongText
<1>4. NoStar(read, text, p) => NoStar(read, text, p + 1)
  BY <1>1 DEF NoStar
<1>5. Headless(read, p) => Headless(read, p + 1)
  BY <1>1 DEF Headless
<1>. QED
  BY <1>2, <1>3, <1>4, <1>5 DEF Garbled

\* A damaged sentence whose body did not survive is refused.
LEMMA GarbledRefused ==
    ASSUME NEW text \in Bodies, NEW line \in Seq(Chars), Garbled(line, text, Len(text) + 6)
    PROVE  Refused(line)
<1>. DEFINE n == Len(text)
            s == Sentence(text)
            p == n + 6
<1>1. n \in Nat /\ n > 0
  BY BodyIs
<1>2. ~WrongBody(line, text, p) /\ ~StarInside(line, text, p)
  BY <1>1 DEF WrongBody, StarInside
<1>3. CASE WrongText(line, text, p)
  <2>. SUFFICES ASSUME BasicMatches(line) PROVE Checksum(line) # BitsOf(Body(line))
    BY DEF Refused
  <2>1. (IF p <= n + 5 THEN p - n - 3 ELSE 2) = 2
    BY <1>1
  <2>2. PICK star \in 2..Len(line) :
              /\ Len(line) = star + 2
              /\ BitsOf(SubSeq(line, 2, star - 1)) # BitsOf(text)
              /\ \A k \in 1..2 : line[star + k] = s[n + 2 + k]
    <3>. HIDE DEF p
    <3>. QED
      BY <1>3, <2>1 DEF WrongText
  <2>3. BitsOf(Body(line)) # BitsOf(text)
    <3>1. Len(line) - 3 = star - 1
      BY <2>2
    <3>. QED
      BY <2>2, <3>1 DEF Body
  <2>4. /\ line[Len(line) - 1] = s[n + 3] /\ line[Len(line)] = s[n + 4]
    <3>1. /\ Len(line) - 1 = star + 1 /\ Len(line) = star + 2
          /\ n + 2 + 1 = n + 3 /\ n + 2 + 2 = n + 4 /\ 1 \in 1..2 /\ 2 \in 1..2
      BY <1>1, <2>2
    <3>. HIDE DEF s
    <3>. QED
      BY <2>2, <3>1
  <2>5. NumberOf(s[n + 3], s[n + 4]) = BitsOf(text)
    BY SentenceChars, Zenon
  <2>6. Checksum(line) = BitsOf(text)
    BY <2>4, <2>5, Zenon DEF Checksum
  <2>. QED
    BY <2>3, <2>6
<1>4. CASE NoStar(line, text, p)
  BY <1>4, NoStarRefused DEF NoStar
<1>5. CASE Headless(line, p)
  BY <1>5, EmptyRefused DEF Headless
<1>. QED
  BY <1>2, <1>3, <1>4, <1>5 DEF Garbled

-----------------------------------------------------------------------------
(* What is accepted, among what was said *)

LEMMA AmongMore ==
    ASSUME NEW some, NEW said, NEW told, NEW m \in Nat, NEW n \in Nat, m <= n,
           \A k \in 1..m : said[k] = told[k], Among(some, said, m)
    PROVE  Among(some, told, n)
<1>1. PICK at \in [DOMAIN some -> 1..m] : Embeds(at, some, said)
  BY DEF Among
<1>2. at \in [DOMAIN some -> 1..n]
  BY <1>1
<1>3. Embeds(at, some, told)
  BY <1>1 DEF Embeds
<1>. QED
  BY <1>2, <1>3 DEF Among

LEMMA AmongAppend ==
    ASSUME NEW S, NEW some \in Seq(S), NEW said, NEW k \in Nat, k > 0, said[k] \in S,
           Among(some, said, k - 1)
    PROVE  Among(Append(some, said[k]), said, k)
<1>. DEFINE n == Len(some)
            more == Append(some, said[k])
<1>1. PICK at \in [DOMAIN some -> 1..(k - 1)] : Embeds(at, some, said)
  BY DEF Among
<1>2. DOMAIN some = 1..n /\ n \in Nat
  BY LenProperties
<1>3. /\ DOMAIN more = 1..(n + 1) /\ more[n + 1] = said[k]
      /\ \A i \in 1..n : more[i] = some[i]
  <2>1. more \in Seq(S) /\ Len(more) = n + 1
    BY AppendProperties
  <2>. QED
    BY <2>1, AppendProperties, LenProperties
<1>. DEFINE to == [i \in 1..(n + 1) |-> IF i <= n THEN at[i] ELSE k]
<1>4. \A i \in 1..n : at[i] \in 1..(k - 1)
  BY <1>1, <1>2
<1>5. to \in [1..(n + 1) -> 1..k]
  BY <1>2, <1>4
<1>6. to[n + 1] = k /\ \A i \in 1..n : to[i] = at[i]
  BY <1>2
<1>. HIDE DEF to, more
<1>7. \A i \in 1..n : some[i] = said[at[i]] /\ \A j \in 1..n : j < i => at[j] < at[i]
  BY <1>1, <1>2 DEF Embeds
<1>8. \A i \in 1..(n + 1) : i \in 1..n \/ i = n + 1
  BY <1>2
<1>9. \A i \in 1..(n + 1) : more[i] = said[to[i]]
  BY <1>3, <1>6, <1>7, <1>8
<1>10. \A i \in 1..(n + 1), j \in 1..(n + 1) : j < i => to[j] < to[i]
  <2>. SUFFICES ASSUME NEW i \in 1..(n + 1), NEW j \in 1..(n + 1), j < i
                PROVE  to[j] < to[i]
    OBVIOUS
  <2>1. j \in 1..n /\ to[j] = at[j]
    BY <1>2, <1>6
  <2>2. CASE i \in 1..n
    BY <1>6, <1>7, <2>1, <2>2
  <2>3. CASE i = n + 1
    <3>1. to[i] = k /\ at[j] \in 1..(k - 1)
      BY <1>4, <1>6, <2>1, <2>3
    <3>. QED
      BY <2>1, <3>1
  <2>. QED
    BY <1>8, <2>2, <2>3
<1>11. DOMAIN to = 1..(n + 1)
  BY <1>5
<1>12. Embeds(to, more, said)
  BY <1>9, <1>10, <1>11 DEF Embeds
<1>. QED
  BY <1>3, <1>5, <1>12 DEF Among, more

LEMMA AccountedMore ==
    ASSUME NEW waiting, NEW some, NEW said, NEW told, NEW m \in Nat, NEW n \in Nat, m <= n,
           \A k \in 1..m : said[k] = told[k], Accounted(waiting, some, said, m)
    PROVE  Accounted(waiting, some, told, n)
<1>1. CASE (\A line \in waiting : Refused(line)) /\ Among(some, said, m)
  BY <1>1, AmongMore DEF Accounted
<1>2. CASE \E k \in 1..m :
              (\A line \in waiting : Genuine(line, said[k])) /\ Among(some, said, k - 1)
  <2>1. PICK k \in 1..m :
              (\A line \in waiting : Genuine(line, said[k])) /\ Among(some, said, k - 1)
    BY <1>2
  <2>2. k \in 1..n /\ said[k] = told[k] /\ k - 1 \in Nat /\ \A i \in 1..(k - 1) : said[i] = told[i]
    <3>1. k \in 1..n /\ k - 1 \in Nat /\ \A i \in 1..(k - 1) : i \in 1..m
      OBVIOUS
    <3>. QED
      BY <3>1
  <2>3. Among(some, told, k - 1)
    <3>. DEFINE l == k - 1
    <3>1. l \in Nat /\ l <= l /\ (\A i \in 1..l : said[i] = told[i]) /\ Among(some, said, l)
      BY <2>1, <2>2
    <3>. HIDE DEF l
    <3>2. Among(some, told, l)
      BY <3>1, AmongMore
    <3>. QED
      BY <3>2 DEF l
  <2>. QED
    BY <2>1, <2>2, <2>3 DEF Accounted
<1>. QED
  BY <1>1, <1>2 DEF Accounted

\* Nothing waits: something is accounted for if it is among what was said.
LEMMA NothingWaits ==
    ASSUME NEW some, NEW said, NEW n \in Nat
    PROVE  Accounted({}, some, said, n) <=> Among(some, said, n)
<1>1. ASSUME NEW k \in 1..n, Among(some, said, k - 1) PROVE Among(some, said, n)
  <2>. DEFINE l == k - 1
  <2>1. l \in Nat /\ l <= n /\ (\A i \in 1..l : said[i] = said[i]) /\ Among(some, said, l)
    BY <1>1
  <2>. HIDE DEF l
  <2>. QED
    BY <2>1, AmongMore
<1>. QED
  BY <1>1 DEF Accounted

LEMMA AccountedRefused ==
    ASSUME NEW some, NEW said, NEW n \in Nat, Accounted({}, some, said, n),
           NEW line, Refused(line)
    PROVE  Accounted({line}, some, said, n)
BY NothingWaits DEF Accounted

LEMMA AccountedGenuine ==
    ASSUME NEW some, NEW said, NEW n \in Nat, Accounted({}, some, said, n),
           NEW line, Genuine(line, said[n + 1])
    PROVE  Accounted({line}, some, said, n + 1)
<1>1. Among(some, said, n)
  BY NothingWaits
<1>2. n + 1 \in 1..(n + 1) /\ (n + 1) - 1 = n
  OBVIOUS
<1>. QED
  BY <1>1, <1>2 DEF Accounted

LEMMA AccountedDropped ==
    ASSUME NEW some, NEW said, NEW n \in Nat, NEW line, Accounted({line}, some, said, n)
    PROVE  Accounted({}, some, said, n)
BY DEF Accounted

LEMMA AccountedTaken ==
    ASSUME NEW S, NEW some \in Seq(S), NEW said, NEW n \in Nat, \A k \in 1..n : said[k] \in S,
           NEW line, Accounted({line}, some, said, n),
           BasicMatches(line), Checksum(line) = BitsOf(Body(line))
    PROVE  Accounted({}, Append(some, Body(line)), said, n)
<1>1. ~Refused(line)
  BY DEF Refused
<1>2. PICK k \in 1..n : Genuine(line, said[k]) /\ Among(some, said, k - 1)
  BY <1>1 DEF Accounted
<1>3. Body(line) = said[k]
  BY <1>2 DEF Genuine
<1>4. Among(Append(some, said[k]), said, k)
  BY <1>2, AmongAppend
<1>5. Among(Append(some, said[k]), said, n)
  BY <1>4, AmongMore
<1>. QED
  BY <1>3, <1>5, NothingWaits

-----------------------------------------------------------------------------
(* What the reader hears, and what the device does *)

\* Whatever the device, the wire and decode() do, the port is used as
\* SerialInterface says (EasyNmeaImpl.cpp:205-216), so that its theorems hold
\* of a link: every line is one that arrived.
THEOREM LinkReadsLines == LinkSpec => Spec
<1>1. LinkInit => Init
  BY DEF LinkInit
<1>2. [LinkNext]_link_vars => [Next]_vars
  <2>. SUFFICES ASSUME [LinkNext]_link_vars PROVE [Next]_vars
    OBVIOUS
  <2>1. CASE OpenLink
    BY <2>1 DEF OpenLink, Next
  <2>2. CASE (Close \/ StartRead \/ ReadFails) /\ UNCHANGED <<decode_vars, device_vars>>
    BY <2>2 DEF Next
  <2>3. CASE ReadNextLine
    BY <2>3 DEF ReadNextLine, Next
  <2>4. CASE MatchLine
    BY <2>4 DEF MatchLine
  <2>5. CASE SumNext
    BY <2>5 DEF SumNext
  <2>6. CASE ValidateLine
    BY <2>6 DEF ValidateLine
  <2>7. ASSUME NEW c \in Chars \cup {CR, LF}, Deliver(c) \/ Replace(c) \/ Lose(c)
        PROVE  [Next]_vars
    BY <2>7 DEF Deliver, Replace, Lose, Next
  <2>8. CASE UNCHANGED link_vars
    BY <2>8 DEF link_vars
  <2>. QED
    BY <2>1, <2>2, <2>3, <2>4, <2>5, <2>6, <2>7, <2>8 DEF LinkNext
<1>. QED
  BY <1>1, <1>2, PTL DEF LinkSpec, Spec

Heard(d) ==
    /\ Waiting = {} /\ ~(decoded < Len(lines)) /\ UNCHANGED <<decode_vars, dropped>>
    /\ d = CR => Pending' = Pending /\ UNCHANGED lines /\ Waiting' = {}
    /\ d = LF => /\ Pending' = <<>> /\ lines' = Append(lines, Pending)
                 /\ Waiting' = {Pending} /\ Line' = Pending
    /\ d \notin {CR, LF} => Pending' = Append(Pending, d) /\ UNCHANGED lines /\ Waiting' = {}

Moves(wire) ==
    \/ /\ sending < Len(Sentence(body)) /\ sending' = sending + 1
       /\ damaged' = (damaged \/ wire = "noisy") /\ UNCHANGED <<body, fresh, sent>>
    \/ /\ sending = Len(Sentence(body)) /\ sending' = 1
       /\ damaged' = FALSE /\ fresh' = (wire = "clear") /\ body' \in Bodies
       /\ sent' = Append(sent, [body |-> body, whole |-> wire = "clear" /\ ~damaged /\ fresh])

\* What the wire did: nothing, or something if it had not yet.
Hears(d, wire) ==
    /\ d \in Chars \cup {CR, LF} /\ wire \in {"clear", "noisy"}
    /\ Heard(d) /\ Moves(wire)
    /\ wire = "clear" => d = Sentence(body)[sending]
    /\ wire = "noisy" => ~damaged /\ (d # Sentence(body)[sending] \/ d = CR)

LEMMA NoneWaits ==
    ASSUME decoded \in Nat, Len(lines) = decoded
    PROVE  Waiting = {}
BY DEF Waiting

LEMMA OneWaits ==
    ASSUME decoded \in Nat, Len(lines) = decoded + 1
    PROVE  Waiting = {Line}
<1>1. (decoded + 1)..Len(lines) = {decoded + 1}
  OBVIOUS
<1>. QED
  BY <1>1 DEF Waiting, Line

LEMMA ReaderHears ==
    ASSUME TypeOK, ReadingInv, LinkTypes, TurnInv, UNCHANGED decode_vars,
           NEW d \in Chars \cup {CR, LF},
           ReadChar(d) \/ (d = CR /\ step = "run" /\ UNCHANGED vars)
    PROVE  Heard(d)
<1>1. step = "run" /\ ~dropped /\ UNCHANGED dropped
  BY DEF ReadChar, ReadingInv, vars
<1>2. decoded \in Nat /\ Len(lines) = decoded /\ lines \in Seq(Seq(Chars)) /\ Waiting = {}
      /\ ~(decoded < Len(lines))
  <2>1. decoded \in Nat /\ lines \in Seq(Seq(Chars)) /\ Len(lines) = decoded
    BY <1>1 DEF LinkTypes, TurnInv, TypeOK
  <2>. QED
    BY <2>1, NoneWaits
<1>3. Pending = result /\ result \in Seq(Chars) /\ UNCHANGED decoded
  BY <1>1 DEF Pending, TypeOK, decode_vars
<1>4. CASE d = CR
  <2>1. UNCHANGED <<result, lines>> /\ step' # "call"
    BY <1>1, <1>4, CharsAre DEF ReadChar, vars
  <2>2. Pending' = Pending /\ Waiting' = {}
    BY <1>2, <1>3, <2>1 DEF Pending, Waiting
  <2>. QED
    BY <1>1, <1>2, <1>4, <2>1, <2>2, CharsAre DEF Heard
<1>5. CASE d = LF
  <2>1. lines' = Append(lines, result) /\ step' = "call"
    BY <1>5, CharsAre DEF ReadChar
  <2>2. Pending' = <<>>
    BY <1>1, <2>1 DEF Pending
  <2>3. Len(lines') = decoded' + 1 /\ lines'[decoded' + 1] = Pending
    BY <1>2, <1>3, <2>1, AppendProperties
  <2>4. (decoded' + 1)..Len(lines') = {decoded' + 1}
    BY <1>2, <1>3, <2>3
  <2>5. Waiting' = {Pending} /\ Line' = Pending
    BY <2>3, <2>4 DEF Waiting, Line
  <2>. QED
    BY <1>1, <1>2, <1>3, <1>5, <2>1, <2>2, <2>5, CharsAre DEF Heard
<1>6. CASE d \notin {CR, LF}
  <2>1. step' = "read_char" /\ result' = Append(result, d) /\ UNCHANGED lines
    BY <1>6 DEF ReadChar
  <2>2. Pending' = Append(Pending, d) /\ Waiting' = {}
    BY <1>2, <1>3, <2>1 DEF Pending, Waiting
  <2>. QED
    BY <1>1, <1>2, <1>6, <2>1, <2>2 DEF Heard
<1>. QED
  BY <1>4, <1>5, <1>6

LEMMA WireIsHeard ==
    ASSUME TypeOK, ReadingInv, LinkTypes, TurnInv, UNCHANGED decode_vars,
           NEW c \in Chars \cup {CR, LF}, Deliver(c) \/ Replace(c) \/ Lose(c)
    PROVE  \E d \in Chars \cup {CR, LF}, wire \in {"clear", "noisy"} : Hears(d, wire)
<1>0. damaged \in BOOLEAN /\ fresh \in BOOLEAN
  BY DEF LinkTypes
<1>1. CASE Deliver(c)
  <2>1. Heard(c) /\ c = Sentence(body)[sending]
    BY <1>1, ReaderHears DEF Deliver, Transmit
  <2>2. Moves("clear")
    BY <1>0, <1>1 DEF Deliver, Proceed, Moves
  <2>3. Hears(c, "clear")
    BY <2>1, <2>2 DEF Hears
  <2>. QED
    BY <2>3
<1>2. CASE Replace(c)
  <2>1. PICK d \in Chars \cup {CR, LF} :
            d # c /\ ~damaged /\ Transmit(c) /\ ReadChar(d) /\ Proceed(FALSE, FALSE)
    BY <1>2 DEF Replace
  <2>2. Heard(d) /\ d # Sentence(body)[sending]
    BY <2>1, ReaderHears DEF Transmit
  <2>3. Moves("noisy")
    BY <1>0, <2>1 DEF Proceed, Moves
  <2>4. Hears(d, "noisy")
    BY <2>1, <2>2, <2>3 DEF Hears
  <2>. QED
    BY <2>4
<1>3. CASE Lose(c)
  <2>1. Heard(CR)
    BY <1>3, ReaderHears DEF Lose
  <2>2. Moves("noisy")
    BY <1>0, <1>3 DEF Lose, Proceed, Moves
  <2>3. Hears(CR, "noisy")
    BY <1>3, <2>1, <2>2 DEF Hears, Lose
  <2>. QED
    BY <2>3
<1>. QED
  BY <1>1, <1>2, <1>3

-----------------------------------------------------------------------------
(* One character more *)

LEMMA PositionIs ==
    ASSUME TypeOK, LinkTypes
    PROVE  /\ body \in Bodies /\ Len(body) \in Nat \ {0}
           /\ Len(Sentence(body)) = Len(body) + 6 /\ sending \in 1..(Len(body) + 6)
           /\ Pending \in Seq(Chars) /\ Len(sent) \in Nat /\ damaged \in BOOLEAN
<1>1. body \in Bodies /\ sending \in 1..Len(Sentence(body)) /\ damaged \in BOOLEAN
  BY DEF LinkTypes
<1>2. Len(body) \in Nat \ {0} /\ Len(Sentence(body)) = Len(body) + 6
  BY <1>1, BodyIs, SentenceIs
<1>3. Pending \in Seq(Chars)
  BY DEF TypeOK, Pending
<1>4. Len(sent) \in Nat
  BY DEF LinkTypes
<1>. QED
  BY <1>1, <1>2, <1>3, <1>4

\* The sentences sent, as a sequence.
Sentences == [body : Bodies, whole : BOOLEAN]

LEMMA SentIs ==
    ASSUME NEW some \in Seq(Sentences)
    PROVE  /\ Len(some) \in Nat /\ DOMAIN some = 1..Len(some) /\ (some = <<>> <=> Len(some) = 0)
           /\ \A k \in 1..Len(some) : some[k] \in Sentences /\ some[k].body \in Bodies
<1>1. \A k \in 1..Len(some) : some[k] \in Sentences
  OBVIOUS
<1>2. \A one \in Sentences : one.body \in Bodies
  BY DEF Sentences
<1>. QED
  BY <1>1, <1>2

LEMMA SaidOf ==
    ASSUME NEW some \in Seq(Sentences), NEW text \in Bodies
    PROVE  /\ \A k \in 1..Len(some) : /\ BodiesOf(some)[k] = some[k].body
                                      /\ Append(BodiesOf(some), text)[k] = some[k].body
           /\ Append(BodiesOf(some), text)[Len(some) + 1] = text
           /\ \A k \in 1..(Len(some) + 1) : Append(BodiesOf(some), text)[k] \in Bodies
           /\ DOMAIN Append(BodiesOf(some), text) = 1..(Len(some) + 1)
<1>. DEFINE said == BodiesOf(some)
            longer == Append(said, text)
<1>1. /\ Len(some) \in Nat /\ DOMAIN some = 1..Len(some)
      /\ \A k \in 1..Len(some) : some[k].body \in Bodies
  BY SentIs
<1>2. said \in [1..Len(some) -> Bodies] /\ \A k \in 1..Len(some) : said[k] = some[k].body
  BY <1>1 DEF BodiesOf
<1>. HIDE DEF said
<1>3. said \in Seq(Bodies) /\ Len(said) = Len(some)
  BY <1>1, <1>2, IsSequence
<1>4. /\ longer[Len(some) + 1] = text /\ DOMAIN longer = 1..(Len(some) + 1)
      /\ \A k \in 1..Len(some) : longer[k] = said[k]
  BY <1>1, <1>3, AppendProperties
<1>. HIDE DEF longer
<1>5. \A k \in 1..(Len(some) + 1) : longer[k] \in Bodies
  BY <1>1, <1>2, <1>4
<1>. QED
  BY <1>1, <1>2, <1>4, <1>5 DEF said, longer

LEMMA SaidIs ==
    ASSUME LinkTypes
    PROVE  /\ \A k \in 1..Len(sent) : Said[k] = sent[k].body /\ sent[k].body \in Bodies
           /\ Said[Len(sent) + 1] = body
           /\ \A k \in 1..(Len(sent) + 1) : Said[k] \in Bodies
           /\ DOMAIN Said = 1..(Len(sent) + 1)
<1>1. sent \in Seq(Sentences) /\ body \in Bodies
  BY DEF LinkTypes, Sentences
<1>2. \A k \in 1..Len(sent) : sent[k].body \in Bodies
  BY <1>1, SentIs
<1>. QED
  BY <1>1, <1>2, SaidOf DEF Said

\* Where the device is after a character, when it has more of the sentence.
LEMMA MovesOn ==
    ASSUME TypeOK, LinkTypes, NEW wire \in {"clear", "noisy"}, Moves(wire),
           sending < Len(body) + 6
    PROVE  /\ sending' = sending + 1 /\ body' = body /\ sent' = sent /\ fresh' = fresh
           /\ damaged' \in BOOLEAN /\ (damaged' <=> damaged \/ wire = "noisy")
<1>1. Len(Sentence(body)) = Len(body) + 6 /\ Len(body) \in Nat \ {0}
      /\ sending \in 1..(Len(body) + 6)
  BY PositionIs
<1>2. sending # Len(Sentence(body))
  BY <1>1
<1>3. sending' = sending + 1 /\ body' = body /\ sent' = sent /\ fresh' = fresh
      /\ damaged' = (damaged \/ wire = "noisy")
  BY <1>2 DEF Moves
<1>. QED
  BY <1>3

\* And when it has no more of it.
LEMMA MovesToNext ==
    ASSUME TypeOK, LinkTypes, NEW wire \in {"clear", "noisy"}, Moves(wire),
           sending = Len(body) + 6
    PROVE  /\ sending' = 1 /\ body' \in Bodies /\ damaged' = FALSE
           /\ fresh' = (wire = "clear")
           /\ sent' \in Seq(Sentences) /\ Len(sent') = Len(sent) + 1
           /\ sent'[Len(sent) + 1].body = body
           /\ sent'[Len(sent) + 1].whole = (wire = "clear" /\ ~damaged /\ fresh)
           /\ \A k \in 1..Len(sent) : sent'[k] = sent[k]
           /\ DOMAIN sent = 1..Len(sent) /\ DOMAIN sent' = 1..(Len(sent) + 1)
<1>. DEFINE last == [body |-> body, whole |-> wire = "clear" /\ ~damaged /\ fresh]
<1>1. /\ Len(Sentence(body)) = Len(body) + 6 /\ Len(body) \in Nat \ {0}
      /\ sending \in 1..(Len(body) + 6) /\ body \in Bodies
  BY PositionIs
<1>2. ~(sending < Len(Sentence(body)))
  BY <1>1
<1>3. /\ sending' = 1 /\ body' \in Bodies /\ damaged' = FALSE
      /\ fresh' = (wire = "clear") /\ sent' = Append(sent, last)
  BY <1>2 DEF Moves
<1>4. last \in Sentences /\ last.body = body
      /\ last.whole = (wire = "clear" /\ ~damaged /\ fresh)
  BY <1>1 DEF Sentences
<1>5. sent \in Seq(Sentences)
  BY DEF LinkTypes, Sentences
<1>. HIDE DEF last
<1>6. /\ sent' \in Seq(Sentences) /\ Len(sent') = Len(sent) + 1
      /\ sent'[Len(sent) + 1] = last /\ \A k \in 1..Len(sent) : sent'[k] = sent[k]
  BY <1>3, <1>4, <1>5, AppendProperties
<1>7. DOMAIN sent = 1..Len(sent) /\ DOMAIN sent' = 1..(Len(sent) + 1)
  BY <1>5, <1>6, SentIs
<1>. QED
  BY <1>3, <1>4, <1>6, <1>7

LEMMA MovesTypes ==
    ASSUME TypeOK, LinkTypes, NEW wire \in {"clear", "noisy"}, Moves(wire), UNCHANGED decode_vars
    PROVE  LinkTypes'
<1>1. /\ decoded' \in Nat /\ summing' \in BOOLEAN /\ accepted' \in Seq(Seq(Chars))
  BY DEF decode_vars, LinkTypes
<1>2. /\ Len(Sentence(body)) = Len(body) + 6 /\ Len(body) \in Nat \ {0} /\ body \in Bodies
      /\ sending \in 1..(Len(body) + 6)
  BY PositionIs
<1>3. fresh \in BOOLEAN /\ sent \in Seq(Sentences)
  BY DEF LinkTypes, Sentences
<1>4. CASE sending < Len(body) + 6
  <2>1. /\ sending' = sending + 1 /\ body' = body /\ sent' = sent /\ fresh' = fresh
        /\ damaged' \in BOOLEAN
    BY <1>4, MovesOn
  <2>2. sending' \in 1..Len(Sentence(body')) /\ sending' # 1
    BY <1>2, <1>4, <2>1
  <2>. QED
    BY <1>1, <1>2, <1>3, <2>1, <2>2 DEF LinkTypes, Sentences
<1>5. CASE sending = Len(body) + 6
  <2>1. /\ sending' = 1 /\ body' \in Bodies /\ damaged' = FALSE /\ fresh' \in BOOLEAN
        /\ sent' \in Seq(Sentences)
    BY <1>5, MovesToNext
  <2>2. sending' \in 1..Len(Sentence(body'))
    BY <2>1, SentenceIs, BodyIs
  <2>. QED
    BY <1>1, <2>1, <2>2 DEF LinkTypes, Sentences
<1>. QED
  BY <1>2, <1>4, <1>5

\* What was said stays said.
LEMMA SaidMoves ==
    ASSUME TypeOK, LinkTypes, NEW wire \in {"clear", "noisy"}, Moves(wire), UNCHANGED decode_vars
    PROVE  \A k \in 1..(Len(sent) + 1) : Said'[k] = Said[k]
<1>1. sending \in 1..(Len(body) + 6) /\ Len(body) \in Nat /\ Len(sent) \in Nat
  BY PositionIs
<1>2. CASE sending < Len(body) + 6
  <2>1. body' = body /\ sent' = sent
    BY <1>2, MovesOn
  <2>. QED
    BY <2>1 DEF Said
<1>3. CASE sending = Len(body) + 6
  <2>1. /\ Len(sent') = Len(sent) + 1 /\ sent'[Len(sent) + 1].body = body
        /\ body' \in Bodies /\ sent' \in Seq(Sentences)
        /\ \A k \in 1..Len(sent) : sent'[k] = sent[k]
    BY <1>3, MovesToNext
  <2>2. \A k \in 1..Len(sent') : Said'[k] = sent'[k].body
    BY <2>1, SaidOf DEF Said
  <2>3. /\ \A k \in 1..Len(sent) : Said[k] = sent[k].body
        /\ Said[Len(sent) + 1] = body
    BY SaidIs
  <2>4. \A k \in 1..(Len(sent) + 1) : k \in 1..Len(sent') /\ (k = Len(sent) + 1 \/ k \in 1..Len(sent))
    BY <1>1, <2>1
  <2>. QED
    BY <2>1, <2>2, <2>3, <2>4
<1>. QED
  BY <1>1, <1>2, <1>3

\* A character that ends no line accounts for no more; a line feed does.
LEMMA HeardAccounted ==
    ASSUME TypeOK, LinkTypes, NEW d, NEW wire \in {"clear", "noisy"}, Hears(d, wire),
           NEW m \in 0..(Len(sent) + 1), AccountedTo(m), NEW n \in Nat, m <= n,
           \/ d # LF
           \/ d = LF /\ Refused(Pending)
           \/ d = LF /\ m < n /\ m <= Len(sent) /\ Genuine(Pending, Said[m + 1])
    PROVE  Accounted(Waiting', accepted', Said', n)
<1>1. Heard(d) /\ Moves(wire) /\ UNCHANGED decode_vars /\ Waiting = {} /\ accepted' = accepted
  BY DEF Hears, Heard, decode_vars
<1>2. m \in Nat /\ Len(sent) \in Nat
  BY PositionIs
<1>3. Accounted({}, accepted, Said, m)
  BY <1>1 DEF AccountedTo
<1>4. \A k \in 1..(Len(sent) + 1) : Said[k] = Said'[k]
  BY <1>1, SaidMoves
<1>5. CASE d # LF
  <2>1. Waiting' = {}
    BY <1>1, <1>5 DEF Heard
  <2>2. \A k \in 1..m : Said[k] = Said'[k]
    BY <1>2, <1>4
  <2>3. Accounted({}, accepted, Said', n)
    BY <1>2, <1>3, <2>2, AccountedMore
  <2>. QED
    BY <1>1, <2>1, <2>3
<1>6. CASE d = LF /\ Refused(Pending)
  <2>1. Waiting' = {Pending}
    BY <1>1, <1>6 DEF Heard
  <2>2. \A k \in 1..m : Said[k] = Said'[k]
    BY <1>2, <1>4
  <2>3. Accounted({Pending}, accepted, Said, m)
    BY <1>2, <1>3, <1>6, AccountedRefused
  <2>4. Accounted({Pending}, accepted, Said', n)
    BY <1>2, <2>2, <2>3, AccountedMore
  <2>. QED
    BY <1>1, <2>1, <2>4
<1>7. CASE d = LF /\ m < n /\ m <= Len(sent) /\ Genuine(Pending, Said[m + 1])
  <2>1. Waiting' = {Pending}
    BY <1>1, <1>7 DEF Heard
  <2>2. \A k \in 1..(m + 1) : Said[k] = Said'[k]
    BY <1>2, <1>4, <1>7
  <2>3. Accounted({Pending}, accepted, Said, m + 1)
    BY <1>2, <1>3, <1>7, AccountedGenuine
  <2>4. m + 1 \in Nat /\ m + 1 <= n
    BY <1>2, <1>7
  <2>. HIDE DEF Said
  <2>5. Accounted({Pending}, accepted, Said', n)
    BY <2>2, <2>3, <2>4, AccountedMore
  <2>. QED
    BY <1>1, <2>1, <2>5
<1>. QED
  BY <1>5, <1>6, <1>7

\* What a clear character is, and what a damaged sentence gets.
LEMMA GoodIs ==
    ASSUME TypeOK, LinkTypes, NEW d, NEW wire \in {"clear", "noisy"}, Hears(d, wire)
    PROVE  /\ wire = "clear" => d = Sentence(body)[sending]
           /\ damaged => wire = "clear"
           /\ d = LF /\ wire = "clear" => sending = Len(body) + 6
           /\ d # LF /\ sending = Len(body) + 6 => wire = "noisy"
           /\ d = CR /\ wire = "clear" => sending = Len(body) + 5
           /\ d \in {CR, LF} \/ d \in Chars
           /\ sending = Len(body) + 5 /\ wire = "clear" => d = CR
<1>1. /\ body \in Bodies /\ Len(body) \in Nat \ {0} /\ sending \in 1..(Len(body) + 6)
  BY PositionIs
<1>2. \A k \in 1..(Len(body) + 4) : Sentence(body)[k] \notin {CR, LF}
  BY <1>1, SentenceChars, CharsAre
<1>3. Sentence(body)[Len(body) + 5] = CR /\ Sentence(body)[Len(body) + 6] = LF
  BY <1>1, SentenceIs
<1>. QED
  BY <1>1, <1>2, <1>3, CharsAre DEF Hears

\* After a line feed the next line is empty.
LEMMA StartsOver ==
    ASSUME TypeOK, LinkTypes, NEW wire \in {"clear", "noisy"}, Hears(LF, wire),
           Accounted(Waiting', accepted', Said', Len(sent) + 1)
    PROVE  StageInv'
<1>1. Pending' = <<>> /\ Moves(wire)
  BY CharsAre DEF Hears, Heard
<1>2. /\ body \in Bodies /\ Len(body) \in Nat \ {0} /\ Len(sent) \in Nat
      /\ Len(Sentence(body)) = Len(body) + 6 /\ sending \in 1..(Len(body) + 6)
  BY PositionIs
<1>3. CASE sending < Len(body) + 6
  <2>. wire = "noisy"
    BY <1>2, <1>3, GoodIs
  <2>1. damaged' /\ sending' > 1 /\ sent' = sent
    BY <1>1, <1>2, <1>3, MovesOn
  <2>2. Garbled(Pending', body', sending')
    BY <1>1, <2>1 DEF Garbled, Headless
  <2>3. AccountedTo(Len(sent) + 1)'
    BY <2>1 DEF AccountedTo
  <2>. QED
    BY <2>1, <2>2, <2>3 DEF StageInv
<1>4. CASE sending = Len(body) + 6
  <2>1. sending' = 1 /\ ~damaged' /\ body' \in Bodies /\ Len(sent') = Len(sent) + 1
    BY <1>1, <1>4, MovesToNext
  <2>3. Intact(Pending', body', sending')
    BY <1>1, <2>1, IntactStarts
  <2>4. AccountedTo(Len(sent))'
    BY <2>1 DEF AccountedTo
  <2>. QED
    BY <2>1, <2>3, <2>4 DEF StageInv
<1>. QED
  BY <1>2, <1>3, <1>4

\* The line feed ends a line that is refused, or that says what was said.
LEMMA StageAtLF ==
    ASSUME TypeOK, LinkTypes, StageInv, NEW wire \in {"clear", "noisy"}, Hears(LF, wire)
    PROVE  StageInv'
<1>. DEFINE m == Len(sent)
<1>1. /\ body \in Bodies /\ Len(body) \in Nat \ {0} /\ m \in Nat
      /\ sending \in 1..(Len(body) + 6) /\ Pending \in Seq(Chars) /\ damaged \in BOOLEAN
  BY PositionIs
<1>2. /\ damaged => wire = "clear"
      /\ wire = "clear" => sending = Len(body) + 6
  BY GoodIs
<1>. HIDE DEF m
<1>3. SUFFICES Accounted(Waiting', accepted', Said', m + 1)
  BY StartsOver DEF m
<1>4. ASSUME NEW n \in 0..(m + 1), AccountedTo(n), Refused(Pending)
      PROVE  Accounted(Waiting', accepted', Said', m + 1)
  <2>1. n <= m + 1 /\ m + 1 \in Nat /\ n \in 0..(Len(sent) + 1)
    BY <1>1 DEF m
  <2>. QED
    BY <1>4, <2>1, HeardAccounted
<1>5. ASSUME NEW n \in 0..m, AccountedTo(n), Genuine(Pending, Said[n + 1])
      PROVE  Accounted(Waiting', accepted', Said', m + 1)
  <2>1. n <= m + 1 /\ n < m + 1 /\ m + 1 \in Nat /\ n \in 0..(Len(sent) + 1) /\ n <= Len(sent)
    BY <1>1 DEF m
  <2>. QED
    BY <1>5, <2>1, HeardAccounted
<1>6. CASE Hopeless(Pending) /\ AccountedTo(IF sending = 1 THEN m ELSE m + 1)
  <2>1. Refused(Pending)
    BY <1>1, <1>6, HopelessRefused
  <2>2. (IF sending = 1 THEN m ELSE m + 1) \in 0..(m + 1)
    BY <1>1
  <2>. QED
    BY <1>4, <1>6, <2>1, <2>2
<1>7. CASE ~damaged /\ Intact(Pending, body, sending) /\ AccountedTo(m)
  <2>1. Said[m + 1] = body
    BY SaidIs DEF m
  <2>2. Refused(Pending) \/ Genuine(Pending, body)
    <3>1. CASE sending \in 1..(Len(body) + 5)
      BY <1>1, <1>7, <3>1, IntactCut
    <3>2. CASE sending = Len(body) + 6
      BY <1>1, <1>7, <3>2, IntactEnds, CompleteGenuine
    <3>. QED
      BY <1>1, <3>1, <3>2
  <2>3. m \in 0..m /\ m \in 0..(m + 1)
    BY <1>1
  <2>. QED
    BY <1>4, <1>5, <1>7, <2>1, <2>2, <2>3
<1>8. CASE damaged /\ Marked(Pending, body, sending) /\ AccountedTo(m)
  <2>1. Said[m + 1] = body
    BY SaidIs DEF m
  <2>2. Genuine(Pending, body)
    BY <1>1, <1>8, MarkedGenuine
  <2>3. m \in 0..m
    BY <1>1
  <2>. QED
    BY <1>5, <1>8, <2>1, <2>2, <2>3
<1>9. CASE LeftOver /\ AccountedTo(m - 1)
  <2>1. m > 0 /\ Complete(Pending, sent[m].body)
    BY <1>1, <1>9 DEF LeftOver, LinkTypes, m
  <2>2. Said[m] = sent[m].body /\ sent[m].body \in Bodies
    BY <1>1, <2>1, SaidIs DEF m
  <2>3. Genuine(Pending, Said[m])
    BY <1>1, <2>1, <2>2, CompleteGenuine
  <2>4. m - 1 \in 0..m /\ (m - 1) + 1 = m
    BY <1>1, <2>1
  <2>. QED
    BY <1>5, <1>9, <2>3, <2>4
<1>10. CASE damaged /\ Garbled(Pending, body, sending) /\ AccountedTo(m + 1)
  <2>1. Refused(Pending)
    BY <1>1, <1>2, <1>10, GarbledRefused
  <2>2. m + 1 \in 0..(m + 1)
    BY <1>1
  <2>. QED
    BY <1>4, <1>10, <2>1, <2>2
<1>. QED
  BY <1>6, <1>7, <1>8, <1>9, <1>10 DEF StageInv, m

LEMMA GoesOn ==
    ASSUME TypeOK, LinkTypes, NEW d, NEW wire \in {"clear", "noisy"}, Hears(d, wire),
           sending < Len(body) + 6
    PROVE  /\ sending' = sending + 1 /\ body' = body /\ sent' = sent /\ fresh' = fresh
           /\ damaged' \in BOOLEAN /\ (damaged' <=> damaged \/ wire = "noisy")
BY MovesOn DEF Hears

\* A character that does not end the line takes it where its class goes.
LEMMA HopelessGoesOn ==
    ASSUME TypeOK, LinkTypes, NEW d, d # LF, NEW wire \in {"clear", "noisy"}, Hears(d, wire),
           NEW m \in 0..(Len(sent) + 1), AccountedTo(m), Hopeless(Pending')
    PROVE  StageInv'
<1>1. /\ Len(body) \in Nat \ {0} /\ Len(sent) \in Nat
      /\ Len(Sentence(body)) = Len(body) + 6 /\ sending \in 1..(Len(body) + 6)
  BY PositionIs
<1>2. Accounted(Waiting', accepted', Said', Len(sent) + 1)
  BY <1>1, HeardAccounted
<1>3. CASE sending < Len(body) + 6
  <2>1. sending' # 1 /\ sent' = sent
    BY <1>1, <1>3, GoesOn
  <2>. QED
    BY <1>2, <2>1 DEF StageInv, AccountedTo
<1>4. CASE sending = Len(body) + 6
  <2>1. sending' = 1 /\ Len(sent') = Len(sent) + 1
    BY <1>4, MovesToNext DEF Hears
  <2>. QED
    BY <1>2, <2>1 DEF StageInv, AccountedTo
<1>. QED
  BY <1>1, <1>3, <1>4

LEMMA StageFromIntact ==
    ASSUME TypeOK, LinkTypes, NEW d, d # LF, NEW wire \in {"clear", "noisy"}, Hears(d, wire),
           ~damaged, Intact(Pending, body, sending), AccountedTo(Len(sent))
    PROVE  StageInv'
<1>. DEFINE m == Len(sent)
<1>1. /\ body \in Bodies /\ Len(body) \in Nat \ {0} /\ m \in Nat
      /\ Len(Sentence(body)) = Len(body) + 6
      /\ sending \in 1..(Len(body) + 6) /\ Pending \in Seq(Chars)
  BY PositionIs
<1>2. Heard(d)
  BY DEF Hears
<1>3. m \in 0..(Len(sent) + 1)
  BY <1>1
<1>4. Accounted(Waiting', accepted', Said', m) /\ Accounted(Waiting', accepted', Said', m + 1)
  BY <1>1, <1>3, HeardAccounted
<1>5. /\ d = CR => Pending' = Pending
      /\ d # CR => Pending' = Append(Pending, d) /\ d \in Chars
  BY <1>2, GoodIs DEF Heard
<1>6. CASE wire = "clear"
  <2>1. d = Sentence(body)[sending] /\ sending \in 1..(Len(body) + 5)
        /\ (d = CR => sending = Len(body) + 5) /\ (sending = Len(body) + 5 => d = CR)
    BY <1>1, <1>6, GoodIs
  <2>2. sending' = sending + 1 /\ body' = body /\ sent' = sent /\ ~damaged'
    BY <1>1, <1>6, <2>1, GoesOn
  <2>3. Intact(Pending', body', sending')
    <3>1. CASE d = CR
      BY <1>1, <1>5, <2>1, <2>2, <3>1, IntactAtCR
    <3>2. CASE d # CR
      <4>1. sending \in 1..(Len(body) + 4)
        BY <1>1, <2>1, <3>2
      <4>. QED
        BY <1>1, <1>5, <2>1, <2>2, <3>2, <4>1, IntactGrows
    <3>. QED
      BY <3>1, <3>2
  <2>. QED
    BY <1>4, <2>2, <2>3 DEF StageInv, AccountedTo
<1>7. CASE wire = "noisy" /\ sending < Len(body) + 6
  <2>1. sending' = sending + 1 /\ body' = body /\ sent' = sent /\ damaged'
    BY <1>7, GoesOn
  <2>2. d # CR => d # Sentence(body)[sending]
    BY <1>7 DEF Hears
  <2>3. sending \in 1..(Len(body) + 5)
    BY <1>1, <1>7
  <2>4. \/ Hopeless(Pending') \/ Marked(Pending', body', sending')
        \/ Garbled(Pending', body', sending')
    <3>1. CASE d = CR
      BY <1>1, <1>5, <2>1, <2>3, <3>1, IntactShortened
    <3>2. CASE d # CR
      BY <1>1, <1>5, <2>1, <2>2, <2>3, <3>2, IntactReplaced
    <3>. QED
      BY <3>1, <3>2
  <2>5. CASE Hopeless(Pending')
    BY <1>3, <2>5, HopelessGoesOn
  <2>6. CASE Marked(Pending', body', sending') \/ Garbled(Pending', body', sending')
    BY <1>4, <2>1, <2>6 DEF StageInv, AccountedTo
  <2>. QED
    BY <2>4, <2>5, <2>6
<1>8. CASE wire = "noisy" /\ sending = Len(body) + 6
  <2>1. Complete(Pending, body)
    BY <1>1, <1>8, IntactEnds
  <2>2. CASE d = CR
    <3>1. /\ sending' = 1 /\ ~damaged' /\ sent' \in Seq(Sentences)
          /\ Len(sent') = m + 1 /\ sent'[m + 1].body = body
      BY <1>8, MovesToNext DEF Hears
    <3>2. sent' # <<>>
      BY <1>1, <3>1, SentIs
    <3>3. LeftOver'
      BY <1>5, <2>1, <2>2, <3>1, <3>2 DEF LeftOver
    <3>4. Len(sent') - 1 = m
      BY <1>1, <3>1
    <3>5. AccountedTo(Len(sent) - 1)'
      BY <1>4, <3>4 DEF AccountedTo
    <3>. QED
      BY <3>3, <3>5 DEF StageInv
  <2>3. CASE d # CR
    <3>1. Hopeless(Pending')
      BY <1>1, <1>5, <2>1, <2>3, CompleteGrows
    <3>. QED
      BY <1>3, <3>1, HopelessGoesOn
  <2>. QED
    BY <2>2, <2>3
<1>. QED
  BY <1>1, <1>6, <1>7, <1>8

LEMMA StageFromDamaged ==
    ASSUME TypeOK, LinkTypes, NEW d, d # LF, NEW wire \in {"clear", "noisy"}, Hears(d, wire), damaged,
           \/ Marked(Pending, body, sending) /\ AccountedTo(Len(sent))
           \/ Garbled(Pending, body, sending) /\ AccountedTo(Len(sent) + 1)
    PROVE  StageInv'
<1>. DEFINE m == Len(sent)
<1>1. /\ body \in Bodies /\ Len(body) \in Nat \ {0} /\ m \in Nat
      /\ sending \in 1..(Len(body) + 6) /\ Pending \in Seq(Chars)
  BY PositionIs
<1>2. /\ wire = "clear" /\ d = Sentence(body)[sending] /\ sending \in 2..(Len(body) + 5)
      /\ d = CR => sending = Len(body) + 5
      /\ sending = Len(body) + 5 => d = CR
  BY <1>1, GoodIs DEF LinkTypes
<1>3. sending' = sending + 1 /\ body' = body /\ sent' = sent /\ damaged'
  BY <1>1, <1>2, GoesOn
<1>4. /\ d = CR => Pending' = Pending
      /\ d # CR => Pending' = Append(Pending, d) /\ d \in Chars
  BY GoodIs DEF Hears, Heard
<1>5. m \in 0..(Len(sent) + 1) /\ m + 1 \in 0..(Len(sent) + 1)
  BY <1>1
<1>6. CASE Marked(Pending, body, sending) /\ AccountedTo(m)
  <2>1. Marked(Pending', body', sending')
    <3>1. sending \in Nat
      BY <1>1
    <3>2. Marked(Pending, body, sending + 1)
      <4>1. Dollar \in Chars
        BY CharsAre
      <4>. QED
        BY <1>1, <1>6, <3>1, <4>1, MarkedGrows
    <3>3. d # CR => Marked(Append(Pending, d), body, sending + 1)
      BY <1>1, <1>4, <1>6, <3>1, MarkedGrows
    <3>. QED
      BY <1>3, <1>4, <3>2, <3>3
  <2>2. Accounted(Waiting', accepted', Said', m)
    BY <1>1, <1>5, <1>6, HeardAccounted
  <2>. QED
    BY <1>3, <2>1, <2>2 DEF StageInv, AccountedTo
<1>7. CASE Garbled(Pending, body, sending) /\ AccountedTo(m + 1)
  <2>1. Accounted(Waiting', accepted', Said', m + 1)
    BY <1>1, <1>5, <1>7, HeardAccounted
  <2>2. Hopeless(Pending') \/ Garbled(Pending', body', sending')
    <3>1. CASE d = CR
      BY <1>1, <1>2, <1>3, <1>4, <1>7, <3>1, GarbledAtCR
    <3>2. CASE d # CR
      <4>1. sending \in 2..(Len(body) + 4)
        BY <1>1, <1>2, <3>2
      <4>. QED
        BY <1>1, <1>2, <1>3, <1>4, <1>7, <3>2, <4>1, GarbledGrows
    <3>. QED
      BY <3>1, <3>2
  <2>3. CASE Hopeless(Pending')
    BY <1>5, <1>7, <2>3, HopelessGoesOn
  <2>4. CASE Garbled(Pending', body', sending')
    BY <1>3, <2>1, <2>4 DEF StageInv, AccountedTo
  <2>. QED
    BY <2>2, <2>3, <2>4
<1>. QED
  BY <1>6, <1>7

LEMMA StageFromLeftOver ==
    ASSUME TypeOK, LinkTypes, NEW d, d # LF, NEW wire \in {"clear", "noisy"}, Hears(d, wire),
           LeftOver, AccountedTo(Len(sent) - 1)
    PROVE  StageInv'
<1>. DEFINE m == Len(sent)
            last == sent[m].body
<1>1. /\ body \in Bodies /\ Len(body) \in Nat \ {0} /\ m \in Nat \ {0}
      /\ Pending \in Seq(Chars) /\ last \in Bodies /\ Complete(Pending, last)
  BY PositionIs, SaidIs DEF LeftOver, LinkTypes
<1>2. sending \in {1, 2} /\ (damaged <=> sending = 2) /\ sending < Len(body) + 5
  BY <1>1 DEF LeftOver
<1>3. sending' = sending + 1 /\ body' = body /\ sent' = sent /\ (damaged' <=> damaged \/ wire = "noisy")
  BY <1>1, <1>2, GoesOn
<1>4. /\ d = CR => Pending' = Pending
      /\ d # CR => Pending' = Append(Pending, d) /\ d \in Chars
      /\ d = CR => wire = "noisy"
  BY <1>1, <1>2, GoodIs DEF Hears, Heard
<1>5. m - 1 \in 0..(Len(sent) + 1) /\ m - 1 \in Nat
  BY <1>1
<1>6. CASE d = CR
  <2>1. LeftOver'
    BY <1>2, <1>3, <1>4, <1>6, GoodIs DEF LeftOver
  <2>2. Accounted(Waiting', accepted', Said', m - 1)
    BY <1>5, HeardAccounted
  <2>. QED
    BY <1>3, <2>1, <2>2 DEF StageInv, AccountedTo
<1>7. CASE d # CR
  <2>1. Hopeless(Pending')
    BY <1>1, <1>4, <1>7, CompleteGrows
  <2>. QED
    BY <1>5, <2>1, HopelessGoesOn
<1>. QED
  BY <1>6, <1>7

LEMMA StageHears ==
    ASSUME TypeOK, LinkTypes, StageInv, NEW d, NEW wire \in {"clear", "noisy"}, Hears(d, wire)
    PROVE  StageInv'
<1>. DEFINE m == IF sending = 1 THEN Len(sent) ELSE Len(sent) + 1
<1>1. Pending \in Seq(Chars) /\ m \in 0..(Len(sent) + 1)
  BY PositionIs
<1>2. CASE d = LF
  BY <1>2, StageAtLF
<1>3. CASE d # LF /\ Hopeless(Pending) /\ AccountedTo(m)
  <2>1. /\ d = CR => Pending' = Pending
        /\ d # CR => Pending' = Append(Pending, d) /\ d \in Chars
    <3>1. d \in {CR, LF} \/ d \in Chars
      BY GoodIs
    <3>. QED
      BY <1>3, <3>1 DEF Hears, Heard
  <2>2. Hopeless(Pending')
    BY <1>1, <1>3, <2>1, HopelessGrows
  <2>. QED
    BY <1>1, <1>3, <2>2, HopelessGoesOn
<1>. QED
  BY <1>2, <1>3, StageFromIntact, StageFromDamaged, StageFromLeftOver DEF StageInv

-----------------------------------------------------------------------------
(* The inductive invariant *)

LinkInv == TypeOK /\ ReadingInv /\ LinkTypes /\ TurnInv /\ SumInv /\ StageInv

\* A line waits when there is one more than was decoded.
LEMMA TurnIs ==
    ASSUME TypeOK, LinkTypes, TurnInv
    PROVE  /\ decoded \in Nat /\ Len(lines) \in Nat /\ lines \in Seq(Seq(Chars))
           /\ decoded = Len(lines) => Waiting = {}
           /\ decoded < Len(lines) => /\ Len(lines) = decoded + 1 /\ Waiting = {Line}
                                      /\ Line \in Seq(Chars)
<1>1. decoded \in Nat /\ lines \in Seq(Seq(Chars)) /\ Len(lines) \in {decoded, decoded + 1}
  BY DEF TypeOK, LinkTypes, TurnInv
<1>. QED
  BY <1>1, NoneWaits, OneWaits DEF Line

LEMMA BodyOfLine ==
    ASSUME NEW line \in Seq(Chars), BasicMatches(line)
    PROVE  /\ Body(line) \in Seq(BodyChars) /\ Body(line) \in Seq(Chars)
           /\ Len(Body(line)) = Len(line) - 4 /\ Len(line) \in Nat /\ Len(line) >= 5
           /\ \A k \in 1..Len(Body(line)) : Body(line)[k] \in BodyChars
<1>1. /\ Len(line) \in Nat /\ Len(line) >= 5 /\ line[2] \in BodyChars
      /\ \A k \in 3..(Len(line) - 3) : line[k] \in BodyChars
  BY CharsAre DEF BasicMatches
<1>2. \A k \in 2..(Len(line) - 3) : line[k] \in BodyChars
  BY <1>1
<1>3. Len(Body(line)) = Len(line) - 4
      /\ \A k \in 1..(Len(line) - 4) : Body(line)[k] = line[k + 1]
  BY <1>1 DEF Body
<1>4. \A k \in 1..(Len(line) - 4) : k + 1 \in 2..(Len(line) - 3)
  BY <1>1
<1>5. Body(line) \in Seq(Chars)
  BY DEF Body
<1>6. \A k \in 1..Len(Body(line)) : Body(line)[k] \in BodyChars
  BY <1>2, <1>3, <1>4
<1>7. Body(line) \in [1..Len(Body(line)) -> BodyChars] /\ Len(Body(line)) \in Nat
  BY <1>5, <1>6
<1>8. Body(line) \in Seq(BodyChars)
  BY <1>7, IsSequence
<1>. QED
  BY <1>1, <1>3, <1>5, <1>6, <1>8

\* What the wire may do leaves the reader with one line at most.
LEMMA HearsTurn ==
    ASSUME LinkInv, UNCHANGED decode_vars, NEW c \in Chars \cup {CR, LF},
           Deliver(c) \/ Replace(c) \/ Lose(c)
    PROVE  TurnInv' /\ SumInv' /\ ~summing
<1>1. step = "run" /\ ~dropped /\ UNCHANGED dropped /\ decoded = Len(lines) /\ ~summing
  <2>1. step = "run" /\ UNCHANGED dropped
    BY DEF Deliver, Replace, Lose, ReadChar, vars
  <2>2. decoded \in Nat /\ Len(lines) \in Nat
    BY TurnIs DEF LinkInv
  <2>. QED
    BY <2>1, <2>2 DEF LinkInv, ReadingInv, TurnInv
<1>2. \/ UNCHANGED lines
      \/ Len(lines') = Len(lines) + 1 /\ step' = "call"
  <2>1. Len(Append(lines, result)) = Len(lines) + 1
    BY AppendProperties DEF LinkInv, TypeOK
  <2>2. ASSUME NEW d, ReadChar(d)
        PROVE  lines' = lines \/ (lines' = Append(lines, result) /\ step' = "call")
    BY <2>2 DEF ReadChar
  <2>. QED
    BY <2>1, <2>2 DEF Deliver, Replace, Lose, vars
<1>3. UNCHANGED <<decoded, summing>> /\ decoded \in Nat
  BY DEF decode_vars, LinkInv, LinkTypes
<1>. QED
  BY <1>1, <1>2, <1>3 DEF TurnInv, SumInv

LEMMA WireKeeps ==
    ASSUME LinkInv, UNCHANGED decode_vars, NEW c \in Chars \cup {CR, LF},
           Deliver(c) \/ Replace(c) \/ Lose(c)
    PROVE  LinkTypes' /\ TurnInv' /\ SumInv' /\ StageInv'
<1>1. PICK d \in Chars \cup {CR, LF}, wire \in {"clear", "noisy"} : Hears(d, wire)
  BY WireIsHeard DEF LinkInv
<1>2. LinkTypes'
  BY <1>1, MovesTypes DEF Hears, LinkInv
<1>3. StageInv'
  BY <1>1, StageHears DEF LinkInv
<1>. QED
  BY <1>2, <1>3, HearsTurn

\* Nor does a step of the read thread between two characters change the stage.
LEMMA StageStays ==
    ASSUME StageInv, UNCHANGED <<Pending, Waiting, accepted, body, sending, damaged, sent>>
    PROVE  StageInv'
<1>1. Said' = Said
  BY DEF Said
<1>2. LeftOver => LeftOver'
  BY DEF LeftOver
<1>. QED
  BY <1>1, <1>2 DEF StageInv, AccountedTo

LEMMA NothingSaid ==
    ASSUME NEW said
    PROVE  Among(<<>>, said, 0)
<1>1. DOMAIN <<>> = {}
  OBVIOUS
<1>2. [i \in DOMAIN <<>> |-> i] \in [DOMAIN <<>> -> 1..0]
  BY <1>1
<1>3. PICK at : at \in [DOMAIN <<>> -> 1..0]
  BY <1>2
<1>4. Embeds(at, <<>>, said)
  BY <1>1, <1>3 DEF Embeds
<1>. QED
  BY <1>3, <1>4 DEF Among

LEMMA OpenKeeps ==
    ASSUME LinkInv, OpenLink
    PROVE  LinkTypes' /\ TurnInv' /\ SumInv' /\ StageInv'
<1>1. /\ decoded' = 0 /\ lines' = <<>> /\ accepted' = <<>> /\ sent' = <<>> /\ ~summing'
      /\ step' = "call" /\ ~dropped'
      /\ body' \in Bodies /\ sending' \in 1..Len(Sentence(body'))
      /\ damaged' = (sending' # 1) /\ fresh' = (sending' = 1)
  BY DEF OpenLink, Open, Idle
<1>2. LinkTypes'
  <2>1. summing' \in BOOLEAN
    BY DEF OpenLink, LinkInv, LinkTypes
  <2>2. accepted' \in Seq(Seq(Chars)) /\ sent' \in Seq(Sentences)
    BY <1>1, EmptySeq
  <2>. QED
    BY <1>1, <2>1, <2>2 DEF LinkTypes, Sentences
<1>3. TurnInv' /\ SumInv'
  BY <1>1 DEF TurnInv, SumInv
<1>4. Pending' = <<>> /\ Waiting' = {} /\ Len(sent') = 0
  BY <1>1 DEF Pending, Waiting
<1>5. Among(<<>>, Said', 0)
  BY NothingSaid
<1>6. Accounted(Waiting', accepted', Said', 0)
  BY <1>1, <1>4, <1>5, NothingWaits
<1>7. CASE sending' = 1
  <2>1. Intact(Pending', body', sending')
    BY <1>1, <1>4, <1>7, IntactStarts
  <2>. QED
    BY <1>1, <1>2, <1>3, <1>4, <1>6, <1>7, <2>1 DEF StageInv, AccountedTo
<1>8. CASE sending' # 1
  <2>1. Garbled(Pending', body', sending')
    BY <1>1, <1>4, <1>8, SentenceIs, BodyIs DEF Garbled, Headless
  <2>2. (\A k \in 1..0 : Said'[k] = Said'[k]) /\ 0 \in Nat /\ 1 \in Nat /\ 0 <= 1
    OBVIOUS
  <2>3. Accounted(Waiting', accepted', Said', 1)
    BY <1>6, <2>2, AccountedMore
  <2>4. Len(sent') + 1 = 1
    BY <1>4
  <2>. QED
    BY <1>1, <1>2, <1>3, <1>8, <2>1, <2>3, <2>4 DEF StageInv, AccountedTo
<1>. QED
  BY <1>7, <1>8

LEMMA PortKeeps ==
    ASSUME LinkInv,
           \/ (Close \/ StartRead \/ ReadFails) /\ UNCHANGED <<decode_vars, device_vars>>
           \/ ReadNextLine
           \/ UNCHANGED link_vars
    PROVE  LinkTypes' /\ TurnInv' /\ SumInv' /\ StageInv'
<1>1. UNCHANGED <<decoded, summing, accepted, next, check, body, sending, damaged, fresh, sent>>
  BY DEF ReadNextLine, link_vars, decode_vars, device_vars, sum_vars
<1>2. /\ UNCHANGED lines
      /\ UNCHANGED <<step, dropped>> \/ decoded = Len(lines)
  <2>0. step # "call" => decoded = Len(lines)
    <3>1. decoded \in Nat /\ Len(lines) \in Nat
      BY TurnIs DEF LinkInv
    <3>. QED
      BY <3>1 DEF LinkInv, TurnInv
  <2>1. CASE Close
    BY <2>1 DEF Close
  <2>2. CASE StartRead
    BY <2>0, <2>2 DEF StartRead, GiveUp
  <2>3. CASE ReadFails
    BY <2>0, <2>3 DEF ReadFails, GiveUp
  <2>4. CASE ReadNextLine
    BY <2>4 DEF ReadNextLine, ReadLine, Idle
  <2>5. CASE UNCHANGED link_vars
    BY <2>5 DEF link_vars, vars
  <2>. QED
    BY <2>1, <2>2, <2>3, <2>4, <2>5
<1>3. UNCHANGED Pending
  <2>1. CASE Close
    BY <2>1 DEF Close, Pending
  <2>2. CASE StartRead
    BY <2>2 DEF StartRead, GiveUp, Pending
  <2>3. CASE ReadFails
    BY <2>3 DEF ReadFails, GiveUp, Pending
  <2>4. CASE ReadNextLine
    BY <2>4 DEF ReadNextLine, ReadLine, Pending
  <2>5. CASE UNCHANGED link_vars
    BY <2>5 DEF link_vars, vars, Pending
  <2>. QED
    BY <2>1, <2>2, <2>3, <2>4, <2>5
<1>4. UNCHANGED <<Waiting, Line>>
  BY <1>1, <1>2 DEF Waiting, Line
<1>5. LinkTypes'
  BY <1>1 DEF LinkInv, LinkTypes
<1>6. TurnInv'
  BY <1>1, <1>2 DEF LinkInv, TurnInv, LinkTypes
<1>7. SumInv'
  BY <1>1, <1>4 DEF LinkInv, SumInv
<1>8. StageInv'
  BY <1>1, <1>3, <1>4, StageStays DEF LinkInv
<1>. QED
  BY <1>5, <1>6, <1>7, <1>8

\* A line less to decode, whether it was taken or not.
LEMMA StageDecoded ==
    ASSUME LinkInv, decoded < Len(lines), decoded' = decoded + 1, UNCHANGED <<vars, device_vars>>,
           \/ UNCHANGED accepted
           \/ /\ BasicMatches(Line) /\ Checksum(Line) = BitsOf(Body(Line))
              /\ accepted' = Append(accepted, Body(Line))
    PROVE  StageInv'
<1>1. /\ Waiting = {Line} /\ Line \in Seq(Chars) /\ accepted \in Seq(Seq(Chars))
      /\ decoded \in Nat /\ Len(lines) = decoded + 1
  BY TurnIs DEF LinkInv, LinkTypes
<1>2. Waiting' = {}
  <2>1. (decoded' + 1)..Len(lines') = {}
    BY <1>1 DEF vars
  <2>. QED
    BY <2>1 DEF Waiting
<1>3. UNCHANGED <<Pending, Said, body, sending, damaged, sent>>
  BY DEF vars, device_vars, Pending, Said
<1>4. \A k \in 1..(Len(sent) + 1) : Said[k] \in Seq(Chars)
  <2>1. \A text \in Bodies : text \in Seq(Chars)
    <3>1. BodyChars \subseteq Chars
      BY CharsAre
    <3>2. \A text \in Bodies : text \in Seq(BodyChars)
      BY BodyIs
    <3>. QED
      BY <3>1, <3>2, SeqMonotonic
  <2>. QED
    BY <2>1, SaidIs DEF LinkInv
<1>5. ASSUME NEW n \in 0..(Len(sent) + 1), AccountedTo(n)
      PROVE  Accounted(Waiting', accepted', Said', n)
  <2>1. Accounted({Line}, accepted, Said, n) /\ n \in Nat /\ Len(sent) \in Nat
    BY <1>1, <1>5, PositionIs DEF AccountedTo, LinkInv
  <2>2. CASE UNCHANGED accepted
    <3>1. Accounted({}, accepted, Said, n)
      BY <2>1, AccountedDropped
    <3>. QED
      BY <1>2, <1>3, <2>2, <3>1
  <2>3. CASE /\ BasicMatches(Line) /\ Checksum(Line) = BitsOf(Body(Line))
             /\ accepted' = Append(accepted, Body(Line))
    <3>1. \A k \in 1..n : Said[k] \in Seq(Chars)
      BY <1>4, <2>1
    <3>2. Accounted({}, Append(accepted, Body(Line)), Said, n)
      BY <1>1, <2>1, <2>3, <3>1, AccountedTaken
    <3>. QED
      BY <1>2, <1>3, <2>3, <3>2
  <2>. QED
    BY <2>2, <2>3
<1>6. Len(sent) \in Nat
  BY PositionIs DEF LinkInv
<1>7. ASSUME LeftOver PROVE LeftOver' /\ Len(sent) - 1 \in 0..(Len(sent) + 1)
  <2>1. sent # <<>>
    BY <1>7 DEF LeftOver
  <2>. QED
    BY <1>3, <1>6, <1>7, <2>1 DEF LeftOver, LinkInv, LinkTypes
<1>8. CASE Hopeless(Pending) /\ AccountedTo(IF sending = 1 THEN Len(sent) ELSE Len(sent) + 1)
  BY <1>3, <1>5, <1>6, <1>8 DEF StageInv, AccountedTo
<1>9. CASE ~damaged /\ Intact(Pending, body, sending) /\ AccountedTo(Len(sent))
  BY <1>3, <1>5, <1>6, <1>9 DEF StageInv, AccountedTo
<1>10. CASE damaged /\ Marked(Pending, body, sending) /\ AccountedTo(Len(sent))
  BY <1>3, <1>5, <1>6, <1>10 DEF StageInv, AccountedTo
<1>11. CASE LeftOver /\ AccountedTo(Len(sent) - 1)
  BY <1>3, <1>5, <1>6, <1>7, <1>11 DEF StageInv, AccountedTo
<1>12. CASE damaged /\ Garbled(Pending, body, sending) /\ AccountedTo(Len(sent) + 1)
  BY <1>3, <1>5, <1>6, <1>12 DEF StageInv, AccountedTo
<1>. QED
  BY <1>8, <1>9, <1>10, <1>11, <1>12 DEF LinkInv, StageInv

LEMMA MatchKeeps ==
    ASSUME LinkInv, MatchLine
    PROVE  LinkTypes' /\ TurnInv' /\ SumInv' /\ StageInv'
<1>1. /\ ~summing /\ decoded < Len(lines) /\ UNCHANGED <<accepted, vars, device_vars>>
      /\ Len(lines) = decoded + 1 /\ decoded \in Nat /\ Line \in Seq(Chars)
  BY TurnIs DEF MatchLine, LinkInv
<1>2. CASE BasicMatches(Line) /\ summing' = TRUE /\ StartSum /\ UNCHANGED decoded
  <2>1. UNCHANGED <<Line, Waiting, Pending>>
    BY <1>1, <1>2 DEF Line, Waiting, Pending, vars
  <2>2. LinkTypes' /\ TurnInv'
    BY <1>1, <1>2 DEF LinkInv, LinkTypes, TurnInv, vars, device_vars
  <2>3. StageInv'
    BY <1>1, <2>1, StageStays DEF LinkInv, device_vars
  <2>4. SubSeq(Body(Line), 1, 0) = <<>> /\ Len(Body(Line)) \in Nat
    BY <1>1, <1>2, BodyOfLine
  <2>5. SumInv'
    <3>1. next' = 1 /\ check' = {}
      BY <1>2 DEF StartSum
    <3>2. check' = BitsOf(SubSeq(Body(Line), 1, next' - 1))
      <4>1. next' - 1 = 0
        BY <3>1
      <4>2. SubSeq(Body(Line), 1, next' - 1) = <<>>
        BY <2>4, <4>1
      <4>. QED
        BY <3>1, <4>2, BitsEmpty
    <3>3. next' \in 1..(Len(Body(Line)) + 1)
      BY <2>4, <3>1
    <3>. QED
      BY <1>2, <2>1, <3>2, <3>3 DEF SumInv
  <2>. QED
    BY <2>2, <2>3, <2>5
<1>3. CASE decoded' = decoded + 1 /\ UNCHANGED <<summing, sum_vars>>
  <2>1. LinkTypes' /\ TurnInv' /\ SumInv'
    BY <1>1, <1>3 DEF LinkInv, LinkTypes, TurnInv, SumInv, vars, device_vars
  <2>2. StageInv'
    BY <1>1, <1>3, StageDecoded
  <2>. QED
    BY <2>1, <2>2
<1>. QED
  BY <1>2, <1>3 DEF MatchLine

LEMMA SumKeeps ==
    ASSUME LinkInv, SumNext
    PROVE  LinkTypes' /\ TurnInv' /\ SumInv' /\ StageInv'
<1>1. /\ summing /\ XorNext(Body(Line))
      /\ UNCHANGED <<decoded, summing, accepted, vars, device_vars>>
  BY DEF SumNext
<1>2. UNCHANGED <<Line, Waiting, Pending>>
  BY <1>1 DEF Line, Waiting, Pending, vars
<1>3. LinkTypes' /\ TurnInv'
  BY <1>1 DEF LinkInv, LinkTypes, TurnInv, vars, device_vars
<1>4. StageInv'
  BY <1>1, <1>2, StageStays DEF LinkInv, device_vars
<1>. DEFINE text == Body(Line)
            part == SubSeq(text, 1, next - 1)
<1>5. /\ BasicMatches(Line) /\ next \in 1..Len(text) /\ check = BitsOf(part)
      /\ next' = next + 1 /\ check' = Xor(check, Code[text[next]])
  BY <1>1 DEF XorNext, LinkInv, SumInv
<1>6. text \in Seq(BodyChars) /\ text[next] \in BodyChars /\ Len(text) \in Nat
  <2>1. Line \in Seq(Chars)
    BY <1>1, TurnIs DEF LinkInv, TurnInv
  <2>. QED
    BY <1>5, <2>1, BodyOfLine
<1>. HIDE DEF text
<1>7. part \in Seq(BodyChars) /\ SubSeq(text, 1, (next + 1) - 1) = Append(part, text[next])
  BY <1>5, <1>6
<1>. HIDE DEF part
<1>8. check' = BitsOf(SubSeq(text, 1, next' - 1))
  BY <1>5, <1>6, <1>7, BitsAppend
<1>9. next' \in 1..(Len(text) + 1)
  BY <1>5, <1>6
<1>10. SumInv'
  BY <1>1, <1>2, <1>5, <1>8, <1>9 DEF SumInv, text
<1>. QED
  BY <1>3, <1>4, <1>10

\* What the loop has summed when it ends.
LEMMA SumIs ==
    ASSUME LinkInv, ValidateLine
    PROVE  /\ BasicMatches(Line) /\ check = BitsOf(Body(Line)) /\ Line \in Seq(Chars)
           /\ decoded < Len(lines) /\ Len(lines) = decoded + 1 /\ decoded \in Nat
<1>. DEFINE text == Body(Line)
<1>1. /\ summing /\ BasicMatches(Line) /\ next = Len(text) + 1
      /\ check = BitsOf(SubSeq(text, 1, next - 1)) /\ decoded < Len(lines)
  BY DEF ValidateLine, Summed, LinkInv, SumInv, TurnInv
<1>2. Line \in Seq(Chars) /\ Len(lines) = decoded + 1 /\ decoded \in Nat
  BY <1>1, TurnIs DEF LinkInv
<1>3. text \in Seq(BodyChars)
  BY <1>1, <1>2, BodyOfLine
<1>. HIDE DEF text
<1>4. SubSeq(text, 1, next - 1) = text
  BY <1>1, <1>3
<1>. QED
  BY <1>1, <1>2, <1>4 DEF text

LEMMA ValidateKeeps ==
    ASSUME LinkInv, ValidateLine
    PROVE  LinkTypes' /\ TurnInv' /\ SumInv' /\ StageInv'
<1>1. /\ accepted' = IF check = Checksum(Line) THEN Append(accepted, Body(Line)) ELSE accepted
      /\ decoded' = decoded + 1 /\ ~summing' /\ UNCHANGED <<vars, device_vars>>
      /\ summing' \in BOOLEAN
  BY DEF ValidateLine
<1>2. StageInv'
  BY <1>1, SumIs, StageDecoded
<1>3. accepted' \in Seq(Seq(Chars))
  <2>1. Body(Line) \in Seq(Chars)
    BY SumIs, BodyOfLine
  <2>. QED
    BY <1>1, <2>1, AppendProperties DEF LinkInv, LinkTypes
<1>4. LinkTypes' /\ TurnInv' /\ SumInv'
  BY <1>1, <1>3, SumIs DEF LinkInv, LinkTypes, TurnInv, SumInv, vars, device_vars
<1>. QED
  BY <1>2, <1>4

LEMMA AccountedAmong ==
    ASSUME NEW waiting, NEW some, NEW said, NEW n \in Nat, Accounted(waiting, some, said, n)
    PROVE  Among(some, said, n)
<1>1. Accounted({}, some, said, n)
  BY DEF Accounted
<1>. QED
  BY <1>1, NothingWaits

\* Every step keeps the inductive invariant, of which the type invariants and
\* the stage of the line being read are parts (EasyNmeaCoder.hpp:92-160,
\* SerialInterface.hpp:138-175).
LEMMA LinkCorrect == LinkSpec => []LinkInv
<1>1. ASSUME LinkInit, TypeOK, ReadingInv PROVE LinkInv
  <2>1. /\ decoded = 0 /\ ~summing /\ summing \in BOOLEAN /\ accepted = <<>> /\ sent = <<>>
        /\ body \in Bodies /\ sending = 1 /\ damaged = FALSE /\ fresh = TRUE
        /\ lines = <<>> /\ Pending = <<>>
    BY <1>1 DEF LinkInit, Init, Pending
  <2>2. sending \in 1..Len(Sentence(body))
    BY <2>1, SentenceIs, BodyIs
  <2>3. LinkTypes /\ TurnInv /\ SumInv
    <3>1. accepted \in Seq(Seq(Chars)) /\ sent \in Seq(Sentences) /\ Len(lines) = 0
      BY <2>1, EmptySeq
    <3>2. LinkTypes
      BY <2>1, <2>2, <3>1 DEF LinkTypes, Sentences
    <3>3. TurnInv /\ SumInv
      BY <2>1, <3>1 DEF TurnInv, SumInv
    <3>. QED
      BY <3>2, <3>3
  <2>4. Intact(Pending, body, sending)
    BY <2>1, IntactStarts
  <2>5. Waiting = {} /\ Len(sent) = 0
    BY <2>1 DEF Waiting
  <2>6. Among(<<>>, Said, 0)
    BY NothingSaid
  <2>7. AccountedTo(Len(sent))
    BY <2>1, <2>5, <2>6, NothingWaits DEF AccountedTo
  <2>. QED
    BY <1>1, <2>1, <2>3, <2>4, <2>7 DEF LinkInv, StageInv
<1>2. ASSUME LinkInv, [LinkNext]_link_vars PROVE LinkTypes' /\ TurnInv' /\ SumInv' /\ StageInv'
  <2>1. ASSUME NEW c \in Chars \cup {CR, LF},
               (Deliver(c) \/ Replace(c) \/ Lose(c)) /\ UNCHANGED decode_vars
        PROVE  LinkTypes' /\ TurnInv' /\ SumInv' /\ StageInv'
    BY <1>2, <2>1, WireKeeps
  <2>. QED
    BY <1>2, <2>1, OpenKeeps, PortKeeps, MatchKeeps, SumKeeps, ValidateKeeps DEF LinkNext
<1>3. TypeOK' /\ ReadingInv' /\ LinkTypes' /\ TurnInv' /\ SumInv' /\ StageInv' => LinkInv'
  BY DEF LinkInv
<1>. QED
  BY <1>1, <1>2, <1>3, LinkReadsLines, SerialTypeCorrect, ReadingCorrect, PTL DEF LinkSpec

\* What decode() accepts is what the device said, in its order and without
\* repetition, for any alphabet and code that tell characters apart, any
\* bodies, and any number of sentences with one character of each replaced or
\* lost: a damaged sentence, or a part of one, is never a sample
\* (EasyNmeaCoder.hpp:92-103 and 134-160, SerialInterface.hpp:138-175).
THEOREM AcceptedCorrect == LinkSpec => []AcceptedWasSent
<1>1. ASSUME LinkInv PROVE AcceptedWasSent
  <2>. DEFINE count == Len(sent) + 1
  <2>1. Len(sent) \in Nat
    BY <1>1, PositionIs DEF LinkInv
  <2>2. PICK n \in 0..count : AccountedTo(n)
    <3>1. LeftOver => Len(sent) - 1 \in 0..count
      BY <1>1, <2>1 DEF LeftOver, LinkInv, LinkTypes
    <3>. QED
      BY <1>1, <2>1, <3>1 DEF LinkInv, StageInv
  <2>3. Among(accepted, Said, n)
    BY <2>1, <2>2, AccountedAmong DEF AccountedTo
  <2>4. Among(accepted, Said, count)
    <3>. HIDE DEF Said
    <3>. QED
      BY <2>1, <2>2, <2>3, AmongMore
  <2>5. DOMAIN Said = 1..count
    BY <1>1, SaidIs DEF LinkInv
  <2>. HIDE DEF count
  <2>. QED
    BY <2>4, <2>5 DEF Among, AcceptedWasSent
<1>. QED
  BY <1>1, LinkCorrect, PTL

-----------------------------------------------------------------------------
(* No sentence that came through is missed *)

LEMMA TakesSame ==
    ASSUME NEW some, NEW texts, NEW told, NEW taken, \A i \in some : texts[i] = told[i],
           Takes(some, texts, taken)
    PROVE  Takes(some, told, taken)
<1>1. PICK at \in [some -> DOMAIN taken] : Embeds(at, texts, taken)
  BY DEF Takes
<1>2. Embeds(at, told, taken)
  BY <1>1 DEF Embeds
<1>. QED
  BY <1>2 DEF Takes

LEMMA TakesMore ==
    ASSUME NEW S, NEW taken \in Seq(S), NEW c \in S, NEW some, NEW texts,
           Takes(some, texts, taken)
    PROVE  Takes(some, texts, Append(taken, c))
<1>1. PICK at \in [some -> DOMAIN taken] : Embeds(at, texts, taken)
  BY DEF Takes
<1>. DEFINE longer == Append(taken, c)
<1>2. DOMAIN taken \subseteq DOMAIN longer /\ \A k \in DOMAIN taken : longer[k] = taken[k]
  BY AppendProperties
<1>. HIDE DEF longer
<1>3. at \in [some -> DOMAIN longer]
  BY <1>1, <1>2
<1>4. Embeds(at, texts, longer)
  BY <1>1, <1>2 DEF Embeds
<1>. QED
  BY <1>3, <1>4 DEF Takes, longer

\* The last of them is taken.
LEMMA TakesLast ==
    ASSUME NEW S, NEW taken \in Seq(S), NEW m \in Nat, NEW some \in SUBSET (1..m), NEW texts,
           texts[m] \in S, Takes(some \ {m}, texts, taken)
    PROVE  Takes(some, texts, Append(taken, texts[m]))
<1>1. PICK at \in [some \ {m} -> DOMAIN taken] : Embeds(at, texts, taken)
  BY DEF Takes
<1>. DEFINE longer == Append(taken, texts[m])
            last == Len(taken) + 1
            now == [i \in some |-> IF i = m THEN last ELSE at[i]]
<1>2. /\ DOMAIN taken = 1..(last - 1) /\ DOMAIN longer = 1..last /\ last \in Nat \ {0}
      /\ longer[last] = texts[m] /\ \A k \in DOMAIN taken : longer[k] = taken[k]
  BY AppendProperties
<1>. HIDE DEF longer, last
<1>3. now \in [some -> DOMAIN longer]
  BY <1>1, <1>2
<1>4. \A i \in some : i # m => now[i] = at[i] /\ at[i] \in DOMAIN taken /\ i < m
  BY <1>1
<1>5. \A i \in some : i = m => now[i] = last
  OBVIOUS
<1>. HIDE DEF now
<1>6. \A i \in some : texts[i] = longer[now[i]]
  BY <1>1, <1>2, <1>4, <1>5 DEF Embeds
<1>7. \A i, j \in some : j < i => now[j] < now[i]
  <2>. SUFFICES ASSUME NEW i \in some, NEW j \in some, j < i PROVE now[j] < now[i]
    OBVIOUS
  <2>1. CASE i = m
    BY <1>2, <1>4, <1>5, <2>1
  <2>2. CASE i # m
    <3>1. j # m
      BY <1>4, <2>2
    <3>. QED
      BY <1>1, <1>4, <2>2, <3>1 DEF Embeds
  <2>. QED
    BY <2>1, <2>2
<1>8. Embeds(now, texts, longer)
  BY <1>3, <1>6, <1>7 DEF Embeds
<1>. QED
  BY <1>3, <1>8 DEF Takes, longer

LEMMA WholeIs ==
    ASSUME LinkTypes
    PROVE  /\ Whole \in SUBSET (1..Len(sent)) /\ Len(sent) \in Nat /\ sent \in Seq(Sentences)
           /\ \A i \in 1..Len(sent) : BodiesOf(sent)[i] = sent[i].body
<1>1. sent \in Seq(Sentences) /\ body \in Bodies
  BY DEF LinkTypes, Sentences
<1>2. Len(sent) \in Nat /\ DOMAIN sent = 1..Len(sent)
  BY <1>1, SentIs
<1>. QED
  BY <1>1, <1>2, SaidOf DEF Whole

\* A sentence that is fresh and came through so far is on a line of its own.
LEMMA FreshHears ==
    ASSUME LinkInv, NEW d, NEW wire \in {"clear", "noisy"}, Hears(d, wire), fresh /\ ~damaged =>
           Intact(Pending, body, sending)
    PROVE  fresh' /\ ~damaged' => Intact(Pending', body', sending')
<1>1. /\ body \in Bodies /\ Len(body) \in Nat \ {0}
      /\ Len(Sentence(body)) = Len(body) + 6
      /\ sending \in 1..(Len(body) + 6) /\ Pending \in Seq(Chars)
  BY PositionIs DEF LinkInv
<1>2. /\ d = CR => Pending' = Pending
      /\ d = LF => Pending' = <<>>
      /\ d \notin {CR, LF} => Pending' = Append(Pending, d) /\ d \in Chars
  BY GoodIs DEF Hears, Heard, LinkInv
<1>3. CASE sending < Len(body) + 6
  <2>1. sending' = sending + 1 /\ body' = body /\ (damaged' <=> damaged \/ wire = "noisy")
    BY <1>3, GoesOn DEF LinkInv
  <2>2. fresh' = fresh
    BY <1>1, <1>3 DEF Hears, Moves
  <2>. SUFFICES ASSUME fresh, ~damaged, wire = "clear" PROVE Intact(Pending', body', sending')
    BY <1>1, <2>1, <2>2 DEF Hears
  <2>3. /\ d = Sentence(body)[sending] /\ sending \in 1..(Len(body) + 5) /\ d # LF
        /\ (d = CR => sending = Len(body) + 5) /\ (sending = Len(body) + 5 => d = CR)
    BY <1>1, <1>3, GoodIs DEF LinkInv
  <2>4. CASE d = CR
    BY <1>1, <1>2, <2>1, <2>3, <2>4, IntactAtCR
  <2>5. CASE d # CR
    <3>1. sending \in 1..(Len(body) + 4)
      BY <1>1, <2>3, <2>5
    <3>. QED
      BY <1>1, <1>2, <2>1, <2>3, <2>5, <3>1, IntactGrows
  <2>. QED
    BY <2>4, <2>5
<1>4. CASE sending = Len(body) + 6
  <2>1. sending' = 1 /\ fresh' = (wire = "clear") /\ body' \in Bodies
    BY <1>1, <1>4 DEF Hears, Moves
  <2>2. wire = "clear" => d = LF
    BY <1>4, GoodIs DEF LinkInv
  <2>. QED
    BY <1>2, <2>1, <2>2, IntactStarts
<1>. QED
  BY <1>1, <1>3, <1>4

\* When its line ends it is the line that waits.
LEMMA WholeHears ==
    ASSUME LinkInv, FreshInv, NEW d, NEW wire \in {"clear", "noisy"}, Hears(d, wire), LinkTypes'
    PROVE  FreshInv'
<1>1. fresh' /\ ~damaged' => Intact(Pending', body', sending')
  BY FreshHears DEF FreshInv
<1>2. Taken(Whole) /\ UNCHANGED <<decoded, accepted>>
  BY DEF FreshInv, Hears, Heard, decode_vars
<1>3. /\ Whole \in SUBSET (1..Len(sent)) /\ Len(sent) \in Nat
      /\ \A i \in 1..Len(sent) : BodiesOf(sent)[i] = sent[i].body
  BY WholeIs DEF LinkInv
<1>4. ASSUME sent' = sent PROVE FreshInv'
  <2>1. Taken(Whole)'
    BY <1>2, <1>4 DEF Taken, Whole
  <2>. QED
    BY <1>1, <2>1 DEF FreshInv
<1>5. CASE sending = Len(Sentence(body))
  <2>. DEFINE m == Len(sent) + 1
              whole == wire = "clear" /\ ~damaged /\ fresh
  <2>1. sending = Len(body) + 6
    BY <1>5, PositionIs DEF LinkInv
  <2>2. /\ sent' \in Seq(Sentences) /\ Len(sent') = m
        /\ sent'[m].body = body /\ sent'[m].whole = whole
        /\ \A i \in 1..Len(sent) : sent'[i] = sent[i]
        /\ DOMAIN sent' = 1..m /\ DOMAIN sent = 1..Len(sent)
    BY <2>1, MovesToNext DEF Hears, LinkInv
  <2>3. Whole' \ {m} = Whole /\ (~whole => Whole' = Whole)
    <3>. HIDE DEF whole
    <3>. QED
      BY <1>3, <2>2 DEF Whole
  <2>4. \A i \in Whole : BodiesOf(sent)[i] = BodiesOf(sent)'[i]
    <3>1. \A i \in 1..m : BodiesOf(sent)'[i] = sent'[i].body
      BY <2>2, SaidOf DEF LinkInv, LinkTypes
    <3>. QED
      BY <1>3, <2>2, <3>1
  <2>5. Takes(Whole, BodiesOf(sent)', accepted')
    BY <1>2, <2>4, TakesSame DEF Taken
  <2>6. CASE ~whole
    BY <1>1, <2>3, <2>5, <2>6 DEF FreshInv, Taken
  <2>7. CASE whole
    <3>1. /\ body \in Bodies /\ sending = Len(body) + 6 /\ d = LF
          /\ Intact(Pending, body, sending)
      BY <1>5, <2>7, PositionIs, SentenceIs DEF Hears, FreshInv, LinkInv
    <3>2. Complete(Pending, body)
      BY <3>1, IntactEnds
    <3>3. Line' = Pending /\ lines' = Append(lines, Pending)
      BY <3>1, CharsAre DEF Hears, Heard
    <3>4. decoded' < Len(lines')
      BY <1>2, <3>3, TurnIs DEF LinkInv, TurnInv, Hears, Heard
    <3>5. Takes(Whole' \ {Len(sent')}, BodiesOf(sent)', accepted')
      BY <2>2, <2>3, <2>5
    <3>6. sent' # <<>>
      BY <1>3, <2>2, SentIs
    <3>. QED
      BY <1>1, <2>2, <3>2, <3>3, <3>4, <3>5, <3>6 DEF FreshInv, Taken
  <2>. QED
    BY <2>6, <2>7
<1>. QED
  BY <1>4, <1>5 DEF Hears, Moves

LEMMA FreshStays ==
    ASSUME FreshInv, UNCHANGED <<decoded, lines, accepted, body, sending, damaged, fresh, sent>>,
           UNCHANGED Pending
    PROVE  FreshInv'
BY DEF FreshInv, Taken, Whole, Line

\* decode() takes the line with the sentence on it, and loses none it took.
LEMMA FreshDecoded ==
    ASSUME LinkInv, FreshInv, decoded < Len(lines), decoded' = decoded + 1,
           UNCHANGED <<vars, device_vars>>,
           \/ UNCHANGED accepted /\ Refused(Line)
           \/ BasicMatches(Line) /\ accepted' = Append(accepted, Body(Line))
    PROVE  FreshInv'
<1>. DEFINE m == Len(sent)
<1>1. UNCHANGED <<Pending, body, sending, damaged, fresh, sent, Whole>>
  BY DEF vars, device_vars, Pending, Whole
<1>2. /\ Line \in Seq(Chars) /\ accepted \in Seq(Seq(Chars))
      /\ Whole \in SUBSET (1..m) /\ m \in Nat
      /\ \A i \in 1..m : BodiesOf(sent)[i] = sent[i].body
  BY TurnIs, WholeIs DEF LinkInv, LinkTypes
<1>3. Takes(Whole, BodiesOf(sent), accepted')
  <2>1. CASE Taken(Whole)
    <3>1. BasicMatches(Line) => Body(Line) \in Seq(Chars)
      BY <1>2, BodyOfLine
    <3>2. BasicMatches(Line) => Takes(Whole, BodiesOf(sent), Append(accepted, Body(Line)))
      BY <1>2, <2>1, <3>1, TakesMore DEF Taken
    <3>. QED
      BY <2>1, <3>2 DEF Taken
  <2>2. CASE /\ sent # <<>> /\ Complete(Line, sent[m].body) /\ Taken(Whole \ {m})
    <3>1. m \in 1..m /\ sent[m].body \in Bodies /\ BodiesOf(sent)[m] = sent[m].body
      <4>1. sent \in Seq(Sentences)
        BY WholeIs DEF LinkInv
      <4>2. m \in 1..m
        BY <1>2, <2>2, <4>1, SentIs
      <4>. QED
        BY <1>2, <4>1, <4>2, SentIs
    <3>2. /\ BasicMatches(Line) /\ Body(Line) = sent[m].body
          /\ Checksum(Line) = BitsOf(sent[m].body)
      BY <1>2, <2>2, <3>1, CompleteIs
    <3>3. accepted' = Append(accepted, BodiesOf(sent)[m])
      BY <3>1, <3>2 DEF Refused
    <3>4. BodiesOf(sent)[m] \in Seq(Chars)
      BY <1>2, <3>1, <3>2, BodyOfLine
    <3>5. Takes(Whole, BodiesOf(sent), Append(accepted, BodiesOf(sent)[m]))
      BY <1>2, <2>2, <3>4, TakesLast DEF Taken
    <3>. QED
      BY <3>3, <3>5
  <2>. QED
    BY <2>1, <2>2 DEF FreshInv
<1>. QED
  BY <1>1, <1>3 DEF FreshInv, Taken

LEMMA FreshOpens ==
    ASSUME OpenLink
    PROVE  FreshInv'
<1>1. /\ accepted' = <<>> /\ sent' = <<>> /\ Pending' = <<>> /\ body' \in Bodies
      /\ fresh' = (sending' = 1)
  BY DEF OpenLink, Open, Pending
<1>2. Whole' = {}
  BY <1>1 DEF Whole
<1>3. [i \in {} |-> i] \in [Whole' -> DOMAIN accepted']
  BY <1>2
<1>4. PICK at : at \in [Whole' -> DOMAIN accepted']
  BY <1>3
<1>5. Embeds(at, BodiesOf(sent)', accepted')
  BY <1>2, <1>4 DEF Embeds
<1>6. Taken(Whole)'
  BY <1>4, <1>5 DEF Taken, Takes
<1>7. fresh' => Intact(Pending', body', sending')
  BY <1>1, IntactStarts
<1>. QED
  BY <1>6, <1>7 DEF FreshInv

\* Damage stays where it happens: when the read thread has nothing more to
\* decode, every sentence that came through from its $ to its line feed, and
\* began a line, has been accepted, in order, whatever happened to the ones
\* around it (EasyNmeaCoder.hpp:92-103 and 134-160,
\* SerialInterface.hpp:138-175).
THEOREM NoiseStaysLocal == LinkSpec => []NoiseIsLocal
<1>1. ASSUME LinkInit PROVE FreshInv
  <2>1. Whole = {} /\ Pending = <<>> /\ sending = 1 /\ body \in Bodies /\ accepted = <<>>
    BY <1>1 DEF LinkInit, Init, Whole, Pending
  <2>2. [i \in {} |-> i] \in [Whole -> DOMAIN accepted]
    BY <2>1
  <2>3. PICK at : at \in [Whole -> DOMAIN accepted]
    BY <2>2
  <2>4. Embeds(at, BodiesOf(sent), accepted)
    BY <2>1, <2>3 DEF Embeds
  <2>5. Intact(Pending, body, sending)
    BY <2>1, IntactStarts
  <2>. QED
    BY <2>3, <2>4, <2>5 DEF FreshInv, Taken, Takes
<1>2. ASSUME LinkInv, LinkInv', FreshInv, [LinkNext]_link_vars PROVE FreshInv'
  <2>1. ASSUME NEW c \in Chars \cup {CR, LF},
               (Deliver(c) \/ Replace(c) \/ Lose(c)) /\ UNCHANGED decode_vars
        PROVE  FreshInv'
    <3>1. PICK d \in Chars \cup {CR, LF}, wire \in {"clear", "noisy"} : Hears(d, wire)
      BY <1>2, <2>1, WireIsHeard DEF LinkInv
    <3>. QED
      BY <1>2, <3>1, WholeHears DEF LinkInv
  <2>2. CASE \/ (Close \/ StartRead \/ ReadFails) /\ UNCHANGED <<decode_vars, device_vars>>
             \/ ReadNextLine \/ SumNext \/ UNCHANGED link_vars
    <3>1. UNCHANGED <<decoded, lines, accepted, body, sending, damaged, fresh, sent>>
      BY <2>2 DEF ReadNextLine, SumNext, link_vars, decode_vars, device_vars, sum_vars,
                  Close, StartRead, GiveUp, ReadFails, ReadLine, vars
    <3>2. UNCHANGED Pending
      <4>1. CASE Close
        BY <4>1 DEF Close, Pending
      <4>2. CASE StartRead
        BY <4>2 DEF StartRead, GiveUp, Pending
      <4>3. CASE ReadFails
        BY <4>3 DEF ReadFails, GiveUp, Pending
      <4>4. CASE ReadNextLine
        BY <4>4 DEF ReadNextLine, ReadLine, Pending
      <4>5. CASE SumNext \/ UNCHANGED link_vars
        BY <4>5 DEF SumNext, link_vars, vars, Pending
      <4>. QED
        BY <2>2, <4>1, <4>2, <4>3, <4>4, <4>5
    <3>. QED
      BY <1>2, <3>1, <3>2, FreshStays
  <2>3. CASE OpenLink
    BY <2>3, FreshOpens
  <2>4. CASE MatchLine
    <3>1. CASE decoded' = decoded
      <4>1. UNCHANGED <<lines, accepted, body, sending, damaged, fresh, sent, Pending>>
        BY <2>4 DEF MatchLine, vars, device_vars, Pending
      <4>. QED
        BY <1>2, <3>1, <4>1, FreshStays
    <3>2. CASE ~BasicMatches(Line) /\ decoded' = decoded + 1
      <4>1. decoded < Len(lines) /\ UNCHANGED <<accepted, vars, device_vars>> /\ Refused(Line)
        BY <2>4, <3>2 DEF MatchLine, Refused
      <4>. QED
        BY <1>2, <3>2, <4>1, FreshDecoded
    <3>. QED
      BY <2>4, <3>1, <3>2 DEF MatchLine
  <2>5. CASE ValidateLine
    <3>1. /\ BasicMatches(Line) /\ check = BitsOf(Body(Line)) /\ decoded < Len(lines)
      BY <1>2, <2>5, SumIs
    <3>2. /\ decoded' = decoded + 1 /\ UNCHANGED <<vars, device_vars>>
          /\ accepted' = IF check = Checksum(Line) THEN Append(accepted, Body(Line)) ELSE accepted
      BY <2>5 DEF ValidateLine
    <3>3. CASE check = Checksum(Line)
      BY <1>2, <3>1, <3>2, <3>3, FreshDecoded
    <3>4. CASE check # Checksum(Line)
      <4>1. Refused(Line) /\ UNCHANGED accepted
        BY <3>1, <3>2, <3>4 DEF Refused
      <4>. QED
        BY <1>2, <3>1, <3>2, <4>1, FreshDecoded
    <3>. QED
      BY <3>3, <3>4
  <2>. QED
    BY <1>2, <2>1, <2>2, <2>3, <2>4, <2>5 DEF LinkNext
<1>3. LinkInv /\ FreshInv => NoiseIsLocal
  BY DEF FreshInv, Taken, Takes, NoiseIsLocal, Idle, LinkInv, LinkTypes
<1>. QED
  BY <1>1, <1>2, <1>3, LinkCorrect, PTL DEF LinkSpec
=============================================================================
