------------------------- MODULE EasyNmeaCoderProofs -------------------------
(***************************************************************************)
(* Proofs about EasyNmeaCoder, for any set of sentences.  The recursive    *)
(* functions Number and Split are first computed for the forms that the    *)
(* expression lets through; the properties are then arithmetic.            *)
(***************************************************************************)
EXTENDS EasyNmeaCoder, FloatProofs, FiniteSetTheorems

-----------------------------------------------------------------------------
(* Numbers *)

NumberSteps(f, digits) ==
    f = [i \in 0..Len(digits) |-> IF i = 0 THEN 0 ELSE 10 * f[i - 1] + digits[i]]

LEMMA NumberIs ==
    ASSUME NEW digits \in Seq(Int)
    PROVE  \E f : /\ Number(digits) = f[Len(digits)] /\ f[0] = 0
                  /\ \A i \in 1..Len(digits) : f[i] = 10 * f[i - 1] + digits[i]
<1>. DEFINE n == Len(digits)
            step == [p \in (1..n) \X Int |-> 10 * p[2] + digits[p[1]]]
<1>1. n \in Nat /\ step \in [(1..n) \X Int -> Int]
  OBVIOUS
<1>2. PICK f \in [0..n -> Int] : Steps(f, 0, n, step)
  <2>1. 0 \in Int
    OBVIOUS
  <2>. HIDE DEF n, step
  <2>. QED
    BY <1>1, <2>1, RecursionExists, Zenon
<1>3. \A i \in 1..n : f[i] = 10 * f[i - 1] + digits[i]
  <2>1. \A i \in 1..n : f[i] = step[<<i, f[i - 1]>>]
    BY <1>2, Zenon DEF Steps
  <2>2. \A i \in 1..n : f[i - 1] \in Int
    <3>1. \A i \in 1..n : i - 1 \in 0..n
      BY <1>1
    <3>. QED
      BY <3>1
  <2>. QED
    BY <2>1, <2>2
<1>4. NumberSteps(f, digits)
  <2>1. f[0] = 0
    BY <1>2 DEF Steps
  <2>2. \A i \in 0..n : f[i] = IF i = 0 THEN 0 ELSE 10 * f[i - 1] + digits[i]
    BY <1>1, <1>3, <2>1
  <2>. QED
    BY <2>2 DEF NumberSteps
<1>. DEFINE g == CHOOSE f1 : NumberSteps(f1, digits)
<1>5. NumberSteps(g, digits)
  BY <1>4, Zenon
<1>6. Number(digits) = g[n]
  BY DEF Number, NumberSteps
<1>7. \A i \in 0..n : g[i] = IF i = 0 THEN 0 ELSE 10 * g[i - 1] + digits[i]
  <2>. HIDE DEF g
  <2>. QED
    BY <1>5, Zenon DEF NumberSteps
<1>8. g[0] = 0 /\ \A i \in 1..n : g[i] = 10 * g[i - 1] + digits[i]
  <2>. HIDE DEF g
  <2>. QED
    BY <1>1, <1>7
<1>. QED
  BY <1>6, <1>8

LEMMA NumberOf ==
    ASSUME NEW digits \in Seq(Int)
    PROVE  /\ Len(digits) = 1 => Number(digits) = digits[1]
           /\ Len(digits) = 2 => Number(digits) = 10 * digits[1] + digits[2]
           /\ Len(digits) = 3 => Number(digits) = 10 * (10 * digits[1] + digits[2]) + digits[3]
           /\ Len(digits) = 4 => Number(digits) = 10 * (10 * (10 * digits[1] + digits[2]) + digits[3]) + digits[4]
           /\ Len(digits) = 5 => Number(digits) = 10 * (10 * (10 * (10 * digits[1] + digits[2]) + digits[3]) + digits[4]) + digits[5]
           /\ Len(digits) = 6 => Number(digits) =
                 10 * (10 * (10 * (10 * (10 * digits[1] + digits[2]) + digits[3]) + digits[4]) + digits[5]) + digits[6]
<1>1. PICK f : /\ Number(digits) = f[Len(digits)] /\ f[0] = 0
               /\ \A i \in 1..Len(digits) : f[i] = 10 * f[i - 1] + digits[i]
  BY NumberIs
<1>. DEFINE d == digits n == Len(digits)
<1>2. n \in Nat /\ \A i \in 1..n : d[i] \in Int
  OBVIOUS
<1>3. /\ n >= 1 => d[1] \in Int
      /\ n >= 2 => d[2] \in Int
      /\ n >= 3 => d[3] \in Int
      /\ n >= 4 => d[4] \in Int
      /\ n >= 5 => d[5] \in Int
      /\ n >= 6 => d[6] \in Int
  <2>. HIDE DEF d, n
  <2>. QED
    BY <1>2
<1>4. /\ n >= 1 => f[1] = 10 * f[0] + d[1]
      /\ n >= 2 => f[2] = 10 * f[1] + d[2]
      /\ n >= 3 => f[3] = 10 * f[2] + d[3]
      /\ n >= 4 => f[4] = 10 * f[3] + d[4]
      /\ n >= 5 => f[5] = 10 * f[4] + d[5]
      /\ n >= 6 => f[6] = 10 * f[5] + d[6]
  <2>1. \A i \in 0..5 : n >= i + 1 => f[i + 1] = 10 * f[i] + d[i + 1]
    <3>1. \A i \in 0..5 : n >= i + 1 => i + 1 \in 1..n /\ (i + 1) - 1 = i
      BY <1>2
    <3>. QED
      BY <1>1, <3>1
  <2>. HIDE DEF d, n
  <2>. QED
    BY <2>1
<1>5. Number(d) = f[n] /\ f[0] = 0
  BY <1>1
<1>. HIDE DEF d, n
<1>6. n >= 1 => f[1] = d[1]
  BY <1>3, <1>4, <1>5
<1>7. n >= 2 => f[2] = 10 * d[1] + d[2]
  BY <1>2, <1>4, <1>6
<1>8. n >= 3 => f[3] = 10 * (10 * d[1] + d[2]) + d[3]
  BY <1>2, <1>4, <1>7
<1>9. n >= 4 => f[4] = 10 * (10 * (10 * d[1] + d[2]) + d[3]) + d[4]
  BY <1>2, <1>4, <1>8
<1>10. n >= 5 => f[5] = 10 * (10 * (10 * (10 * d[1] + d[2]) + d[3]) + d[4]) + d[5]
  BY <1>2, <1>4, <1>9
<1>11. n >= 6 => f[6] = 10 * (10 * (10 * (10 * (10 * d[1] + d[2]) + d[3]) + d[4]) + d[5]) + d[6]
  BY <1>2, <1>4, <1>10
<1>12. CASE n = 1
  BY <1>5, <1>6, <1>12 DEF d, n
<1>13. CASE n = 2
  BY <1>5, <1>7, <1>13 DEF d, n
<1>14. CASE n = 3
  BY <1>5, <1>8, <1>14 DEF d, n
<1>15. CASE n = 4
  BY <1>5, <1>9, <1>15 DEF d, n
<1>16. CASE n = 5
  BY <1>5, <1>10, <1>16 DEF d, n
<1>17. CASE n = 6
  BY <1>5, <1>11, <1>17 DEF d, n
<1>. QED
  BY <1>12, <1>13, <1>14, <1>15, <1>16, <1>17 DEF n

-----------------------------------------------------------------------------
(* Components *)

Contents == {content \in Seq(Seq(Int)) : content # <<>>}
SplitSteps(f, text, separator) ==
    f = [i \in 0..Len(text) |->
            IF i = 0 THEN << <<>> >> ELSE WithNext(f[i - 1], text[i], separator)]

LEMMA WithNextType ==
    ASSUME NEW content \in Contents, NEW c \in Int, NEW separator
    PROVE  WithNext(content, c, separator) \in Contents
<1>. DEFINE n == Len(content)
<1>1. content \in Seq(Seq(Int)) /\ content # <<>> /\ n \in 1..Len(content)
  BY EmptySeq DEF Contents
<1>2. CASE c = separator
  <2>1. <<>> \in Seq(Int)
    BY EmptySeq
  <2>2. Append(content, <<>>) \in Seq(Seq(Int)) /\ Append(content, <<>>) # <<>>
    BY <1>1, <2>1, AppendProperties
  <2>. QED
    BY <1>2, <2>2 DEF WithNext, Contents
<1>3. CASE c # separator
  <2>1. content[n] \in Seq(Int)
    BY <1>1, ElementOfSeq
  <2>2. Append(content[n], c) \in Seq(Int)
    BY <2>1, AppendProperties
  <2>3. [content EXCEPT ![n] = Append(content[n], c)] \in Contents
    BY <1>1, <2>2, ExceptSeq DEF Contents
  <2>. QED
    BY <1>3, <2>3 DEF WithNext
<1>. QED
  BY <1>2, <1>3

LEMMA SplitIs ==
    ASSUME NEW text \in Seq(Int), NEW separator
    PROVE  \E f : /\ Split(text, separator) = f[Len(text)] /\ f[0] = << <<>> >>
                  /\ \A i \in 1..Len(text) : f[i] = WithNext(f[i - 1], text[i], separator)
<1>. DEFINE n == Len(text)
            step == [p \in (1..n) \X Contents |-> WithNext(p[2], text[p[1]], separator)]
<1>1. n \in Nat /\ step \in [(1..n) \X Contents -> Contents]
  <2>1. ASSUME NEW p \in (1..n) \X Contents PROVE step[p] \in Contents
    BY <2>1, WithNextType
  <2>. QED
    BY <2>1
<1>2. PICK f \in [0..n -> Contents] : Steps(f, << <<>> >>, n, step)
  <2>1. << <<>> >> \in Contents
    BY EmptySeq DEF Contents
  <2>. HIDE DEF n, step
  <2>. QED
    BY <1>1, <2>1, RecursionExists, Zenon
<1>3. \A i \in 1..n : f[i] = WithNext(f[i - 1], text[i], separator)
  <2>1. \A i \in 1..n : f[i] = step[<<i, f[i - 1]>>]
    BY <1>2, Zenon DEF Steps
  <2>2. \A i \in 1..n : f[i - 1] \in Contents
    <3>1. \A i \in 1..n : i - 1 \in 0..n
      BY <1>1
    <3>. QED
      BY <3>1
  <2>. QED
    BY <2>1, <2>2
<1>4. SplitSteps(f, text, separator)
  <2>1. f[0] = << <<>> >>
    BY <1>2 DEF Steps
  <2>2. \A i \in 0..n : f[i] = IF i = 0 THEN << <<>> >> ELSE WithNext(f[i - 1], text[i], separator)
    BY <1>1, <1>3, <2>1
  <2>. QED
    BY <2>2 DEF SplitSteps
<1>. DEFINE g == CHOOSE f1 : SplitSteps(f1, text, separator)
<1>5. SplitSteps(g, text, separator)
  BY <1>4, Zenon
<1>6. Split(text, separator) = g[n]
  BY DEF Split, SplitSteps
<1>7. \A i \in 0..n : g[i] = IF i = 0 THEN << <<>> >> ELSE WithNext(g[i - 1], text[i], separator)
  <2>. HIDE DEF g
  <2>. QED
    BY <1>5, Zenon DEF SplitSteps
<1>8. g[0] = << <<>> >> /\ \A i \in 1..n : g[i] = WithNext(g[i - 1], text[i], separator)
  <2>. HIDE DEF g
  <2>. QED
    BY <1>1, <1>7
<1>. QED
  BY <1>6, <1>8

\* Tuples, one element at a time.
LEMMA AppendTo1 ==
    ASSUME NEW a, NEW b
    PROVE  Append(<<a>>, b) = <<a, b>> /\ <<a>> \o <<b>> = <<a, b>>
<1>. DEFINE S == {a, b}
            q == Append(<<a>>, b)
<1>1. <<a>> \in Seq(S) /\ <<a, b>> \in Seq(S) /\ b \in S
  OBVIOUS
<1>. HIDE DEF S
<1>2. /\ q \in Seq(S) /\ Len(q) = 2
      /\ q[1] = a /\ q[2] = b
  BY <1>1, AppendProperties
<1>3. q = <<a>> \o <<b>>
  BY <1>1, AppendIsConcat
<1>. HIDE DEF q
<1>4. Len(<<a, b>>) = 2 /\ \A i \in 1..2 : q[i] = <<a, b>>[i]
  BY <1>2
<1>5. q = <<a, b>>
  BY <1>1, <1>2, <1>4, SeqEqual
<1>. QED
  BY <1>3, <1>5 DEF q

LEMMA AppendTo2 ==
    ASSUME NEW a, NEW b, NEW c
    PROVE  Append(<<a, b>>, c) = <<a, b, c>> /\ <<a, b>> \o <<c>> = <<a, b, c>>
<1>. DEFINE S == {a, b, c}
            q == Append(<<a, b>>, c)
<1>1. <<a, b>> \in Seq(S) /\ <<a, b, c>> \in Seq(S) /\ c \in S
  OBVIOUS
<1>. HIDE DEF S
<1>2. /\ q \in Seq(S) /\ Len(q) = 3
      /\ q[1] = a /\ q[2] = b /\ q[3] = c
  BY <1>1, AppendProperties
<1>3. q = <<a, b>> \o <<c>>
  BY <1>1, AppendIsConcat
<1>. HIDE DEF q
<1>4. Len(<<a, b, c>>) = 3 /\ \A i \in 1..3 : q[i] = <<a, b, c>>[i]
  BY <1>2
<1>5. q = <<a, b, c>>
  BY <1>1, <1>2, <1>4, SeqEqual
<1>. QED
  BY <1>3, <1>5 DEF q

LEMMA AppendTo3 ==
    ASSUME NEW a, NEW b, NEW c, NEW d
    PROVE  Append(<<a, b, c>>, d) = <<a, b, c, d>> /\ <<a, b, c>> \o <<d>> = <<a, b, c, d>>
<1>. DEFINE S == {a, b, c, d}
            q == Append(<<a, b, c>>, d)
<1>1. <<a, b, c>> \in Seq(S) /\ <<a, b, c, d>> \in Seq(S) /\ d \in S
  OBVIOUS
<1>. HIDE DEF S
<1>2. /\ q \in Seq(S) /\ Len(q) = 4
      /\ q[1] = a /\ q[2] = b /\ q[3] = c /\ q[4] = d
  BY <1>1, AppendProperties
<1>3. q = <<a, b, c>> \o <<d>>
  BY <1>1, AppendIsConcat
<1>. HIDE DEF q
<1>4. Len(<<a, b, c, d>>) = 4 /\ \A i \in 1..4 : q[i] = <<a, b, c, d>>[i]
  BY <1>2
<1>5. q = <<a, b, c, d>>
  BY <1>1, <1>2, <1>4, SeqEqual
<1>. QED
  BY <1>3, <1>5 DEF q

LEMMA AppendTo4 ==
    ASSUME NEW a, NEW b, NEW c, NEW d, NEW e
    PROVE  Append(<<a, b, c, d>>, e) = <<a, b, c, d, e>> /\ <<a, b, c, d>> \o <<e>> = <<a, b, c, d, e>>
<1>. DEFINE S == {a, b, c, d, e}
            q == Append(<<a, b, c, d>>, e)
<1>1. <<a, b, c, d>> \in Seq(S) /\ <<a, b, c, d, e>> \in Seq(S) /\ e \in S
  OBVIOUS
<1>. HIDE DEF S
<1>2. /\ q \in Seq(S) /\ Len(q) = 5
      /\ q[1] = a /\ q[2] = b /\ q[3] = c /\ q[4] = d /\ q[5] = e
  BY <1>1, AppendProperties
<1>3. q = <<a, b, c, d>> \o <<e>>
  BY <1>1, AppendIsConcat
<1>. HIDE DEF q
<1>4. Len(<<a, b, c, d, e>>) = 5 /\ \A i \in 1..5 : q[i] = <<a, b, c, d, e>>[i]
  BY <1>2
<1>5. q = <<a, b, c, d, e>>
  BY <1>1, <1>2, <1>4, SeqEqual
<1>. QED
  BY <1>3, <1>5 DEF q

LEMMA OneAndTwo ==
    ASSUME NEW a, NEW b, NEW c
    PROVE  <<a>> \o <<b, c>> = <<a, b, c>>
<1>. DEFINE S == {a, b, c}
<1>1. <<a>> \in Seq(S) /\ <<b>> \in Seq(S) /\ <<c>> \in Seq(S)
  OBVIOUS
<1>. HIDE DEF S
<1>2. <<a>> \o (<<b>> \o <<c>>) = (<<a>> \o <<b>>) \o <<c>>
  BY <1>1, ConcatAssociative
<1>3. <<a>> \o <<b>> = <<a, b>> /\ <<b>> \o <<c>> = <<b, c>>
  BY AppendTo1
<1>4. <<a, b>> \o <<c>> = <<a, b, c>>
  BY AppendTo2
<1>. QED
  BY <1>2, <1>3, <1>4, Zenon

LEMMA TwoAndTwo ==
    ASSUME NEW a, NEW b, NEW c, NEW d
    PROVE  <<a, b>> \o <<c, d>> = <<a, b, c, d>>
<1>. DEFINE S == {a, b, c, d}
<1>1. <<a, b>> \in Seq(S) /\ <<c>> \in Seq(S) /\ <<d>> \in Seq(S)
  OBVIOUS
<1>. HIDE DEF S
<1>2. <<a, b>> \o (<<c>> \o <<d>>) = (<<a, b>> \o <<c>>) \o <<d>>
  BY <1>1, ConcatAssociative
<1>3. <<c>> \o <<d>> = <<c, d>>
  BY AppendTo1
<1>4. <<a, b>> \o <<c>> = <<a, b, c>>
  BY AppendTo2
<1>5. <<a, b, c>> \o <<d>> = <<a, b, c, d>>
  BY AppendTo3
<1>. QED
  BY <1>2, <1>3, <1>4, <1>5, Zenon

\* A separator begins a component, any other character goes on with the last one.
LEMMA SeparatorAfter ==
    ASSUME NEW t, NEW u, NEW separator
    PROVE  /\ WithNext(<<t>>, separator, separator) = <<t, <<>> >>
           /\ WithNext(<<t, u>>, separator, separator) = <<t, u, <<>> >>
<1>1. Append(<<t>>, <<>>) = <<t, <<>> >>
  BY AppendTo1
<1>2. Append(<<t, u>>, <<>>) = <<t, u, <<>> >>
  BY AppendTo2
<1>. QED
  BY <1>1, <1>2, Zenon DEF WithNext

LEMMA WithNextOf1 ==
    ASSUME NEW t, NEW separator, NEW c, c # separator
    PROVE  WithNext(<<t>>, c, separator) = <<Append(t, c)>>
<1>1. Len(<<t>>) = 1 /\ <<t>>[1] = t
  OBVIOUS
<1>2. [<<t>> EXCEPT ![1] = Append(t, c)] = <<Append(t, c)>>
  OBVIOUS
<1>. QED
  BY <1>1, <1>2 DEF WithNext

LEMMA WithNextOf2 ==
    ASSUME NEW t, NEW u, NEW separator, NEW c, c # separator
    PROVE  WithNext(<<t, u>>, c, separator) = <<t, Append(u, c)>>
<1>1. Len(<<t, u>>) = 2 /\ <<t, u>>[2] = u
  OBVIOUS
<1>2. [<<t, u>> EXCEPT ![2] = Append(u, c)] = <<t, Append(u, c)>>
  OBVIOUS
<1>. QED
  BY <1>1, <1>2 DEF WithNext

LEMMA WithNextOf3 ==
    ASSUME NEW t, NEW u, NEW v, NEW separator, NEW c, c # separator
    PROVE  WithNext(<<t, u, v>>, c, separator) = <<t, u, Append(v, c)>>
<1>1. Len(<<t, u, v>>) = 3 /\ <<t, u, v>>[3] = v
  OBVIOUS
<1>2. [<<t, u, v>> EXCEPT ![3] = Append(v, c)] = <<t, u, Append(v, c)>>
  OBVIOUS
<1>. QED
  BY <1>1, <1>2 DEF WithNext

-----------------------------------------------------------------------------
(* Samples *)

\* A sample is made of a sentence that matches and of which nothing throws.
LEMMA SampleOf ==
    ASSUME NEW s \in Sentences, Decoded[s].kind = "GPGGA"
    PROVE  /\ s \in Sentence /\ GpggaMatches(s) /\ ~Throws(s) /\ Decoded[s] = Translated(s)
<1>1. Decoded[s] = Decode(s)
  BY DEF Decoded
<1>2. Decode(s) = DecodeGpgga(s)
  BY <1>1 DEF Decode, Invalid
<1>3. GpggaMatches(s)
  BY <1>1, <1>2 DEF DecodeGpgga, Invalid
<1>4. ~Throws(s)
  BY <1>1, <1>2, <1>3 DEF DecodeGpgga
<1>. QED
  BY <1>1, <1>2, <1>3, <1>4, SentencesAssumption DEF DecodeGpgga

\* The sample is always that of the last sentence.
DataInv == sentence \in Sentences /\ data = Decoded[sentence]

LEMMA DataCorrect == Spec => []DataInv
<1>1. Init => DataInv
  BY SentencesAssumption DEF Init, DataInv
<1>2. DataInv /\ [Next]_coder_vars => DataInv'
  BY DEF DataInv, Next, DecodeLine, Terminated, coder_vars
<1>. QED
  BY <1>1, <1>2, PTL DEF Spec

-----------------------------------------------------------------------------
(* The timestamps *)

\* What timestamps are rounded from: hhmmss.ms in thousandths, for times that
\* the expression lets through.
Thousandths(time) == 1000 * time.hhmmss + time.ms
IsTime(time) ==
    /\ time.hhmmss \in Nat /\ time.ms \in Nat
    /\ Thousandths(time) < 2 * Hidden * 1000
    /\ OfDay(time) => Thousandths(time) < Day

LEMMA TimestampOf ==
    ASSUME NEW s \in Sentences, Decoded[s].kind = "GPGGA"
    PROVE  IsTime(s.time) /\ Decoded[s].timestamp = Nearest(Thousandths(s.time), 1000)
<1>1. s \in Sentence /\ TimeMatches(s.time) /\ Decoded[s] = Translated(s)
  BY SampleOf DEF GpggaMatches
<1>2. s.time \in [hhmmss : Nat \cup {Empty}, ms : Milliseconds]
  BY <1>1 DEF Sentence
<1>3. s.time.hhmmss \in Nat \cup {Empty} /\ s.time.ms \in Milliseconds
  BY <1>2
<1>4. IsTime(s.time)
  <2>. DEFINE h == s.time.hhmmss  ms == s.time.ms
  <2>1. Empty \in Int /\ ~(Empty >= 0)
    BY SMT DEF Empty
  <2>2. h \in Nat /\ h >= 0 /\ ms \in 0..999
    <3>0. h \in Int
      BY <1>3, <2>1
    <3>1. h >= 0
      BY <1>1, <3>0, SMT DEF TimeMatches
    <3>2. h # Empty
      BY <2>1, <3>1
    <3>. QED
      BY <1>3, <3>1, <3>2 DEF Milliseconds
  <2>3. h <= 999999
    BY <1>1, <2>2, SMT DEF TimeMatches
  <2>4. /\ 1000 * h + ms < 2 * Hidden * 1000
        /\ h < 240000 => 1000 * h + ms < Day
    <3>. HIDE DEF h, ms
    <3>. QED
      BY <2>2, <2>3, SMT DEF Hidden, Day
  <2>. QED
    <3>1. OfDay(s.time) => h < 240000
      BY SMT DEF OfDay
    <3>2. Thousandths(s.time) = 1000 * h + ms
      BY SMT DEF Thousandths
    <3>3. h \in Nat /\ ms \in Nat
      <4>. HIDE DEF h, ms
      <4>. QED
        BY <2>2, SMT
    <3>4. /\ Thousandths(s.time) < 2 * Hidden * 1000
          /\ OfDay(s.time) => Thousandths(s.time) < Day
      <4>. HIDE DEF h, ms
      <4>. QED
        BY <2>4, <3>1, <3>2, SMT
    <3>. QED
      BY <3>3, <3>4, Zenon DEF IsTime
<1>. QED
  BY <1>1, <1>4 DEF Translated, Timestamp, Thousandths

\* Within a minute, the later time is the greater number.
LEMMA LaterIsGreater ==
    ASSUME NEW time, NEW later, time.hhmmss \in Nat, time.ms \in Nat,
           later.hhmmss \in Nat, later.ms \in Nat, NEW by \in Nat, IsLater(later, time, by)
    PROVE  Thousandths(time) + by <= Thousandths(later)
<1>1. time.hhmmss = 100 * (time.hhmmss \div 100) + (time.hhmmss % 100)
  OBVIOUS
<1>2. later.hhmmss = 100 * (later.hhmmss \div 100) + (later.hhmmss % 100)
  OBVIOUS
<1>. QED
  BY <1>1, <1>2 DEF IsLater, Millis, Thousandths

\* Timestamps never go back within a minute, and times of a day that are 16 ms
\* apart have different ones (EasyNmeaCoder.hpp:212).
THEOREM TimestampsOrdered == Spec => TimestampsKeepOrder
<1>1. ASSUME DataInv, DataInv', IsGpgga, IsGpgga'
      PROVE  /\ IsLater(sentence'.time, sentence.time, 0)
                   => AtMost(data.timestamp, data'.timestamp)
             /\ OfDay(sentence'.time) /\ IsLater(sentence'.time, sentence.time, 16)
                   => ~AtMost(data'.timestamp, data.timestamp)
  <2>. DEFINE time == sentence.time  n == Thousandths(time)
              later == sentence'.time  m == Thousandths(later)
  <2>1. IsTime(time) /\ data.timestamp = Nearest(n, 1000)
    BY <1>1, TimestampOf DEF DataInv, IsGpgga
  <2>2. IsTime(later) /\ data'.timestamp = Nearest(m, 1000)
    BY <1>1, TimestampOf DEF DataInv, IsGpgga
  <2>. HIDE DEF time, later
  <2>3. /\ n \in Nat /\ m \in Nat /\ m < 2 * Hidden * 1000 /\ (OfDay(later) => m < Day)
        /\ \A by \in Nat : IsLater(later, time, by) => n + by <= m
    BY <2>1, <2>2, LaterIsGreater DEF IsTime, Thousandths
  <2>. HIDE DEF n, m
  <2>4. ASSUME IsLater(later, time, 0) PROVE AtMost(data.timestamp, data'.timestamp)
    <3>1. n <= m
      BY <2>3, <2>4
    <3>. QED
      BY <2>1, <2>2, <2>3, <3>1, NearestOrder, 1000 \in Nat \ {0}
  <2>5. ASSUME OfDay(later), IsLater(later, time, 16)
        PROVE  ~AtMost(data'.timestamp, data.timestamp)
    <3>1. n + 16 <= m /\ m < Day
      BY <2>3, <2>5
    <3>. QED
      BY <2>1, <2>2, <2>3, <3>1, DayApart
  <2>. QED
    BY <2>4, <2>5 DEF time, later
<1>. QED
  BY <1>1, DataCorrect, PTL DEF TimestampsKeepOrder

-----------------------------------------------------------------------------
(* The optional fields *)

Values(tail) == {j \in DOMAIN tail : tail[j] \notin {Comma, Checksum}}
CommasTo(tail, j) == {k \in 1..j : tail[k] = Comma}
Character(c) == c \in Int /\ c \notin {Comma, Checksum}

LEMMA GivenIs ==
    ASSUME NEW tail, NEW commas
    PROVE  Given(tail, commas)
             = {tail[i] : i \in {j \in Values(tail) : Cardinality(CommasTo(tail, j)) = commas}}
BY Zenon DEF Given, Values, CommasTo

\* The forms that the expression lets through.
LEMMA TailForms ==
    ASSUME NEW tail \in Seq(Int), TailMatches(tail)
    PROVE  \/ tail = <<Checksum>>
           \/ tail = <<Comma, Checksum>>
           \/ \E u : Character(u) /\ tail = <<u, Comma, Checksum>>
           \/ \E i : Character(i) /\ tail = <<Comma, i, Comma, Checksum>>
           \/ \E u, i : Character(u) /\ Character(i) /\ tail = <<u, Comma, i, Comma, Checksum>>
<1>1. CASE tail = <<Checksum>>
  BY <1>1
<1>2. CASE tail # <<Checksum>>
  <2>1. PICK update, station \in {<<>>} \cup {<<tail[i]>> : i \in DOMAIN tail} :
            /\ tail = update \o <<Comma>>
                        \o (IF station = <<>> THEN <<>> ELSE station \o <<Comma>>) \o <<Checksum>>
            /\ {Comma, Checksum} \cap ToSet(update \o station) = {}
    BY <1>2, Zenon DEF TailMatches
  <2>2. \A text \in {<<>>} \cup {<<tail[i]>> : i \in DOMAIN tail} :
            text = <<>> \/ \E c \in Int : text = <<c>>
    OBVIOUS
  <2>3. CASE update = <<>> /\ station = <<>>
    <3>1. tail = <<>> \o <<Comma>> \o <<>> \o <<Checksum>>
      BY <2>1, <2>3, Zenon
    <3>2. <<>> \o <<Comma>> = <<Comma>> /\ <<Comma>> \o <<>> = <<Comma>>
      BY ConcatEmptySeq DEF Comma
    <3>3. <<Comma>> \o <<Checksum>> = <<Comma, Checksum>>
      BY AppendTo1
    <3>. QED
      BY <3>1, <3>2, <3>3, Zenon
  <2>4. ASSUME NEW u \in Int, update = <<u>>, station = <<>>
        PROVE  Character(u) /\ tail = <<u, Comma, Checksum>>
    <3>1. tail = <<u>> \o <<Comma>> \o <<>> \o <<Checksum>>
      BY <2>1, <2>4, Zenon
    <3>2. <<u, Comma>> \o <<>> = <<u, Comma>> /\ <<u>> \o <<>> = <<u>>
      BY ConcatEmptySeq DEF Comma
    <3>3. <<u>> \o <<Comma>> = <<u, Comma>>
      BY AppendTo1
    <3>4. <<u, Comma>> \o <<Checksum>> = <<u, Comma, Checksum>>
      BY AppendTo2
    <3>5. ToSet(<<u>>) = {u}
      BY DEF ToSet
    <3>. QED
      BY <2>1, <2>4, <3>1, <3>2, <3>3, <3>4, <3>5, Zenon DEF Character
  <2>5. ASSUME NEW i \in Int, update = <<>>, station = <<i>>
        PROVE  Character(i) /\ tail = <<Comma, i, Comma, Checksum>>
    <3>1. <<i>> # <<>>
      OBVIOUS
    <3>2. tail = <<>> \o <<Comma>> \o (<<i>> \o <<Comma>>) \o <<Checksum>>
      BY <2>1, <2>5, <3>1, Zenon
    <3>3. <<>> \o <<Comma>> = <<Comma>> /\ <<>> \o <<i>> = <<i>>
      BY ConcatEmptySeq DEF Comma
    <3>4. <<i>> \o <<Comma>> = <<i, Comma>>
      BY AppendTo1
    <3>5. <<Comma>> \o <<i, Comma>> = <<Comma, i, Comma>>
      BY OneAndTwo
    <3>6. <<Comma, i, Comma>> \o <<Checksum>> = <<Comma, i, Comma, Checksum>>
      BY AppendTo3
    <3>7. ToSet(<<i>>) = {i}
      BY DEF ToSet
    <3>. QED
      BY <2>1, <2>5, <3>2, <3>3, <3>4, <3>5, <3>6, <3>7, Zenon DEF Character
  <2>6. ASSUME NEW u \in Int, NEW i \in Int, update = <<u>>, station = <<i>>
        PROVE  Character(u) /\ Character(i) /\ tail = <<u, Comma, i, Comma, Checksum>>
    <3>1. <<i>> # <<>>
      OBVIOUS
    <3>2. tail = <<u>> \o <<Comma>> \o (<<i>> \o <<Comma>>) \o <<Checksum>>
      BY <2>1, <2>6, <3>1, Zenon
    <3>3. <<u>> \o <<Comma>> = <<u, Comma>> /\ <<i>> \o <<Comma>> = <<i, Comma>>
          /\ <<u>> \o <<i>> = <<u, i>>
      BY AppendTo1
    <3>4. <<u, Comma>> \o <<i, Comma>> = <<u, Comma, i, Comma>>
      BY TwoAndTwo
    <3>5. <<u, Comma, i, Comma>> \o <<Checksum>> = <<u, Comma, i, Comma, Checksum>>
      BY AppendTo4
    <3>6. ToSet(<<u, i>>) = {u, i}
      BY DEF ToSet
    <3>. QED
      BY <2>1, <2>6, <3>2, <3>3, <3>4, <3>5, <3>6, Zenon DEF Character
  <2>7. \/ update = <<>> /\ station = <<>>
        \/ \E u \in Int : update = <<u>> /\ station = <<>>
        \/ \E i \in Int : update = <<>> /\ station = <<i>>
        \/ \E u, i \in Int : update = <<u>> /\ station = <<i>>
    BY <2>2, Zenon
  <2>. QED
    BY <2>3, <2>4, <2>5, <2>6, <2>7, Zenon
<1>. QED
  BY <1>1, <1>2

\* One more character is one more step.
LEMMA SplitAppend ==
    ASSUME NEW text \in Seq(Int), NEW c \in Int, NEW separator
    PROVE  Split(Append(text, c), separator) = WithNext(Split(text, separator), c, separator)
<1>. DEFINE n == Len(text)
            more == Append(text, c)
<1>1. /\ n \in Nat /\ more \in Seq(Int) /\ Len(more) = n + 1 /\ more[n + 1] = c
      /\ \A i \in 1..n : more[i] = text[i]
  BY AppendProperties
<1>2. PICK f : /\ Split(text, separator) = f[n] /\ f[0] = << <<>> >>
               /\ \A i \in 1..n : f[i] = WithNext(f[i - 1], text[i], separator)
  BY SplitIs, Zenon
<1>. HIDE DEF more
<1>3. PICK g : /\ Split(more, separator) = g[n + 1] /\ g[0] = << <<>> >>
               /\ \A i \in 1..(n + 1) : g[i] = WithNext(g[i - 1], more[i], separator)
  <2>1. \E g : /\ Split(more, separator) = g[Len(more)] /\ g[0] = << <<>> >>
               /\ \A i \in 1..Len(more) : g[i] = WithNext(g[i - 1], more[i], separator)
    BY <1>1, SplitIs, Zenon
  <2>. QED
    BY <1>1, <2>1, Zenon
<1>. DEFINE Same == {i \in Nat : i <= n => f[i] = g[i]}
<1>4. \A i \in Nat : i \in Same
  <2>1. 0 \in Same
    BY <1>2, <1>3
  <2>2. ASSUME NEW i \in Nat, i \in Same PROVE i + 1 \in Same
    <3>. SUFFICES ASSUME i + 1 <= n PROVE f[i + 1] = g[i + 1]
      OBVIOUS
    <3>1. f[i] = g[i] /\ i + 1 \in 1..n /\ i + 1 \in 1..(n + 1) /\ (i + 1) - 1 = i
      BY <1>1, <2>2
    <3>2. /\ f[i + 1] = WithNext(f[i], text[i + 1], separator)
          /\ g[i + 1] = WithNext(g[i], more[i + 1], separator)
      BY <1>2, <1>3, <3>1
    <3>. QED
      BY <1>1, <3>1, <3>2
  <2>. HIDE DEF Same
  <2>. QED
    BY <2>1, <2>2, SetInduction
<1>5. f[n] = g[n]
  BY <1>1, <1>4
<1>6. g[n + 1] = WithNext(g[n], c, separator)
  <2>1. n + 1 \in 1..(n + 1) /\ (n + 1) - 1 = n
    BY <1>1
  <2>. QED
    BY <1>1, <1>3, <2>1
<1>. QED
  BY <1>2, <1>3, <1>5, <1>6 DEF more

LEMMA SplitNext ==
    ASSUME NEW text \in Seq(Int), NEW c \in Int, NEW content, Split(text, Comma) = content
    PROVE  Split(Append(text, c), Comma) = WithNext(content, c, Comma)
BY SplitAppend, Zenon

LEMMA SplitNothing ==
    ASSUME NEW separator
    PROVE  Split(<<>>, separator) = << <<>> >>
<1>1. <<>> \in Seq(Int) /\ Len(<<>>) = 0
  BY EmptySeq
<1>2. PICK f : Split(<<>>, separator) = f[Len(<<>>)] /\ f[0] = << <<>> >>
  BY <1>1, SplitIs, Zenon
<1>. QED
  BY <1>1, <1>2

LEMMA SplitFirst ==
    ASSUME NEW c \in Int
    PROVE  Split(<<c>>, Comma) = IF c = Comma THEN << <<>>, <<>> >> ELSE << <<c>> >>
<1>1. <<>> \in Seq(Int) /\ Append(<<>>, c) = <<c>>
  BY EmptySeq
<1>2. Split(<<c>>, Comma) = WithNext(<< <<>> >>, c, Comma)
  <2>1. Split(Append(<<>>, c), Comma) = WithNext(Split(<<>>, Comma), c, Comma)
    BY <1>1, SplitAppend
  <2>. QED
    BY <1>1, <2>1, SplitNothing
<1>3. CASE c = Comma
  <2>1. WithNext(<< <<>> >>, Comma, Comma) = << <<>>, <<>> >>
    BY SeparatorAfter
  <2>. QED
    BY <1>2, <1>3, <2>1
<1>4. CASE c # Comma
  <2>1. WithNext(<< <<>> >>, c, Comma) = <<Append(<<>>, c)>>
    BY <1>4, WithNextOf1
  <2>. QED
    BY <1>1, <1>2, <1>4, <2>1
<1>. QED
  BY <1>3, <1>4

\* What split_() makes of each form.
LEMMA SplitForms ==
    /\ Split(<<Checksum>>, Comma) = << <<Checksum>> >>
    /\ Split(<<Comma, Checksum>>, Comma) = << <<>>, <<Checksum>> >>
    /\ \A u : Character(u) => Split(<<u, Comma, Checksum>>, Comma) = << <<u>>, <<Checksum>> >>
    /\ \A i : Character(i) =>
          Split(<<Comma, i, Comma, Checksum>>, Comma) = << <<>>, <<i>>, <<Checksum>> >>
    /\ \A u, i : Character(u) /\ Character(i) =>
          Split(<<u, Comma, i, Comma, Checksum>>, Comma) = << <<u>>, <<i>>, <<Checksum>> >>
<1>1. Comma \in Int /\ Checksum \in Int /\ Checksum # Comma
  BY DEF Comma, Checksum
<1>2. /\ Split(<<Checksum>>, Comma) = << <<Checksum>> >>
      /\ Split(<<Comma>>, Comma) = << <<>>, <<>> >>
  BY <1>1, SplitFirst
\* A component that begins and ends with the next character.
<1>3. Append(<<>>, Checksum) = <<Checksum>>
  OBVIOUS
<1>4. Split(<<Comma, Checksum>>, Comma) = << <<>>, <<Checksum>> >>
  <2>1. Split(Append(<<Comma>>, Checksum), Comma) = WithNext(<< <<>>, <<>> >>, Checksum, Comma)
    <3>1. <<Comma>> \in Seq(Int)
      BY <1>1
    <3>. QED
      BY <1>1, <1>2, <3>1, SplitNext, Zenon
  <2>2. Append(<<Comma>>, Checksum) = <<Comma, Checksum>>
    BY AppendTo1
  <2>3. WithNext(<< <<>>, <<>> >>, Checksum, Comma) = << <<>>, Append(<<>>, Checksum)>>
    BY <1>1, WithNextOf2
  <2>. QED
    BY <1>3, <2>1, <2>2, <2>3
<1>5. ASSUME NEW first \in Seq(Int), NEW part, Split(first, Comma) = <<part, <<>> >>,
             NEW i, Character(i)
      PROVE  /\ Split(Append(first, i), Comma) = <<part, <<i>> >>
             /\ Split(Append(Append(first, i), Comma), Comma) = <<part, <<i>>, <<>> >>
             /\ Split(Append(Append(Append(first, i), Comma), Checksum), Comma)
                    = <<part, <<i>>, <<Checksum>> >>
  <2>1. /\ i \in Int /\ i # Comma /\ Append(first, i) \in Seq(Int)
        /\ Append(Append(first, i), Comma) \in Seq(Int) /\ Append(<<>>, i) = <<i>>
    BY <1>1, <1>5, AppendProperties DEF Character
  <2>2. Split(Append(first, i), Comma) = <<part, <<i>> >>
    <3>1. Split(Append(first, i), Comma) = WithNext(<<part, <<>> >>, i, Comma)
      BY <1>5, <2>1, SplitNext, Zenon
    <3>2. WithNext(<<part, <<>> >>, i, Comma) = <<part, Append(<<>>, i)>>
      BY <2>1, WithNextOf2
    <3>. QED
      BY <2>1, <3>1, <3>2
  <2>3. Split(Append(Append(first, i), Comma), Comma) = <<part, <<i>>, <<>> >>
    <3>1. Split(Append(Append(first, i), Comma), Comma) = WithNext(<<part, <<i>> >>, Comma, Comma)
      BY <1>1, <2>1, <2>2, SplitNext, Zenon
    <3>2. WithNext(<<part, <<i>> >>, Comma, Comma) = <<part, <<i>>, <<>> >>
      BY SeparatorAfter
    <3>. QED
      BY <3>1, <3>2
  <2>4. Split(Append(Append(Append(first, i), Comma), Checksum), Comma)
            = <<part, <<i>>, <<Checksum>> >>
    <3>1. Split(Append(Append(Append(first, i), Comma), Checksum), Comma)
              = WithNext(<<part, <<i>>, <<>> >>, Checksum, Comma)
      BY <1>1, <2>1, <2>3, SplitNext, Zenon
    <3>2. WithNext(<<part, <<i>>, <<>> >>, Checksum, Comma)
              = <<part, <<i>>, Append(<<>>, Checksum)>>
      BY <1>1, WithNextOf3
    <3>. QED
      BY <1>3, <3>1, <3>2
  <2>. QED
    BY <2>2, <2>3, <2>4
<1>6. ASSUME NEW u, Character(u)
      PROVE  /\ <<u, Comma>> \in Seq(Int) /\ Split(<<u, Comma>>, Comma) = << <<u>>, <<>> >>
             /\ Split(<<u, Comma, Checksum>>, Comma) = << <<u>>, <<Checksum>> >>
  <2>1. u \in Int /\ u # Comma /\ <<u>> \in Seq(Int) /\ <<u, Comma>> \in Seq(Int)
    BY <1>1, <1>6 DEF Character
  <2>2. Split(<<u>>, Comma) = << <<u>> >>
    BY <2>1, SplitFirst
  <2>3. Append(<<u>>, Comma) = <<u, Comma>>
    BY AppendTo1
  <2>4. Append(<<u, Comma>>, Checksum) = <<u, Comma, Checksum>>
    BY AppendTo2
  <2>5. Split(<<u, Comma>>, Comma) = << <<u>>, <<>> >>
    <3>1. Split(Append(<<u>>, Comma), Comma) = WithNext(<< <<u>> >>, Comma, Comma)
      BY <1>1, <2>1, <2>2, SplitNext, Zenon
    <3>2. WithNext(<< <<u>> >>, Comma, Comma) = << <<u>>, <<>> >>
      BY SeparatorAfter
    <3>. QED
      BY <2>3, <3>1, <3>2
  <2>6. Split(<<u, Comma, Checksum>>, Comma) = << <<u>>, <<Checksum>> >>
    <3>1. Split(Append(<<u, Comma>>, Checksum), Comma)
              = WithNext(<< <<u>>, <<>> >>, Checksum, Comma)
      BY <1>1, <2>1, <2>5, SplitNext, Zenon
    <3>2. WithNext(<< <<u>>, <<>> >>, Checksum, Comma) = << <<u>>, Append(<<>>, Checksum)>>
      BY <1>1, WithNextOf2
    <3>. QED
      BY <1>3, <2>4, <3>1, <3>2
  <2>. QED
    BY <2>1, <2>5, <2>6
<1>7. ASSUME NEW i, Character(i)
      PROVE  Split(<<Comma, i, Comma, Checksum>>, Comma) = << <<>>, <<i>>, <<Checksum>> >>
  <2>1. <<Comma>> \in Seq(Int)
    BY <1>1
  <2>2. Append(<<Comma>>, i) = <<Comma, i>>
    BY AppendTo1
  <2>3. Append(<<Comma, i>>, Comma) = <<Comma, i, Comma>>
    BY AppendTo2
  <2>4. Append(<<Comma, i, Comma>>, Checksum) = <<Comma, i, Comma, Checksum>>
    BY AppendTo3
  <2>5. Split(Append(Append(Append(<<Comma>>, i), Comma), Checksum), Comma)
            = << <<>>, <<i>>, <<Checksum>> >>
    BY <1>2, <1>5, <1>7, <2>1
  <2>. QED
    BY <2>2, <2>3, <2>4, <2>5
<1>8. ASSUME NEW u, NEW i, Character(u), Character(i)
      PROVE  Split(<<u, Comma, i, Comma, Checksum>>, Comma) = << <<u>>, <<i>>, <<Checksum>> >>
  <2>1. <<u, Comma>> \in Seq(Int) /\ Split(<<u, Comma>>, Comma) = << <<u>>, <<>> >>
    BY <1>6, <1>8
  <2>2. Append(<<u, Comma>>, i) = <<u, Comma, i>>
    BY AppendTo2
  <2>3. Append(<<u, Comma, i>>, Comma) = <<u, Comma, i, Comma>>
    BY AppendTo3
  <2>4. Append(<<u, Comma, i, Comma>>, Checksum) = <<u, Comma, i, Comma, Checksum>>
    BY AppendTo4
  <2>5. Split(Append(Append(Append(<<u, Comma>>, i), Comma), Checksum), Comma)
            = << <<u>>, <<i>>, <<Checksum>> >>
    BY <1>5, <1>8, <2>1
  <2>. QED
    BY <2>2, <2>3, <2>4, <2>5
<1>. QED
  BY <1>2, <1>4, <1>6, <1>7, <1>8

\* What each form gives.
LEMMA NoValues ==
    ASSUME NEW tail, Values(tail) = {}, NEW commas
    PROVE  Given(tail, commas) = {}
BY GivenIs

LEMMA OneValue ==
    ASSUME NEW tail, NEW j, Values(tail) = {j}, NEW before \in Nat,
           Cardinality(CommasTo(tail, j)) = before, NEW commas
    PROVE  Given(tail, commas) = IF commas = before THEN {tail[j]} ELSE {}
BY GivenIs

LEMMA GivenForms ==
    /\ \A n \in 0..1 : Given(<<Checksum>>, n) = {}
    /\ \A n \in 0..1 : Given(<<Comma, Checksum>>, n) = {}
    /\ \A u : Character(u) => Given(<<u, Comma, Checksum>>, 0) = {u}
                                /\ Given(<<u, Comma, Checksum>>, 1) = {}
    /\ \A i : Character(i) => Given(<<Comma, i, Comma, Checksum>>, 0) = {}
                                /\ Given(<<Comma, i, Comma, Checksum>>, 1) = {i}
    /\ \A u, i : Character(u) /\ Character(i) =>
          Given(<<u, Comma, i, Comma, Checksum>>, 0) = {u}
            /\ Given(<<u, Comma, i, Comma, Checksum>>, 1) = {i}
<1>1. Cardinality({}) = 0 /\ \A x : Cardinality({x}) = 1
  BY FS_EmptySet, FS_Singleton
<1>2. \A n \in 0..1 : Given(<<Checksum>>, n) = {}
  <2>1. Values(<<Checksum>>) = {}
    BY DEF Values
  <2>. QED
    BY <2>1, NoValues
<1>3. \A n \in 0..1 : Given(<<Comma, Checksum>>, n) = {}
  <2>1. Values(<<Comma, Checksum>>) = {}
    BY DEF Values
  <2>. QED
    BY <2>1, NoValues
<1>4. ASSUME NEW u, Character(u)
      PROVE  Given(<<u, Comma, Checksum>>, 0) = {u} /\ Given(<<u, Comma, Checksum>>, 1) = {}
  <2>. DEFINE t == <<u, Comma, Checksum>>
  <2>1. Values(t) = {1} /\ CommasTo(t, 1) = {} /\ t[1] = u
    BY <1>4 DEF Values, CommasTo, Character
  <2>. HIDE DEF t
  <2>2. \A n : Given(t, n) = IF n = 0 THEN {t[1]} ELSE {}
    BY <1>1, <2>1, OneValue
  <2>3. Given(t, 0) = {u} /\ Given(t, 1) = {}
    BY <2>1, <2>2
  <2>. QED
    BY <2>3 DEF t
<1>5. ASSUME NEW i, Character(i)
      PROVE  /\ Given(<<Comma, i, Comma, Checksum>>, 0) = {}
             /\ Given(<<Comma, i, Comma, Checksum>>, 1) = {i}
  <2>. DEFINE t == <<Comma, i, Comma, Checksum>>
  <2>1. Values(t) = {2} /\ CommasTo(t, 2) = {1} /\ t[2] = i
    BY <1>5 DEF Values, CommasTo, Character
  <2>. HIDE DEF t
  <2>2. \A n : Given(t, n) = IF n = 1 THEN {t[2]} ELSE {}
    <3>1. Cardinality(CommasTo(t, 2)) = 1
      BY <1>1, <2>1
    <3>. QED
      BY <2>1, <3>1, OneValue
  <2>3. Given(t, 0) = {} /\ Given(t, 1) = {i}
    BY <2>1, <2>2
  <2>. QED
    BY <2>3 DEF t
<1>6. ASSUME NEW u, NEW i, Character(u), Character(i)
      PROVE  /\ Given(<<u, Comma, i, Comma, Checksum>>, 0) = {u}
             /\ Given(<<u, Comma, i, Comma, Checksum>>, 1) = {i}
  <2>. DEFINE t == <<u, Comma, i, Comma, Checksum>>
  <2>1. /\ Values(t) = {1, 3} /\ t[1] = u /\ t[3] = i
        /\ CommasTo(t, 1) = {} /\ CommasTo(t, 3) = {2}
    <3>1. DOMAIN t = {1, 2, 3, 4, 5}
      OBVIOUS
    <3>2. t[1] = u /\ t[2] = Comma /\ t[3] = i /\ t[4] = Comma /\ t[5] = Checksum
      OBVIOUS
    <3>. HIDE DEF t
    <3>3. Values(t) = {1, 3}
      BY <1>6, <3>1, <3>2 DEF Values, Character
    <3>4. 1..1 = {1} /\ 1..3 = {1, 2, 3}
      OBVIOUS
    <3>5. CommasTo(t, 1) = {} /\ CommasTo(t, 3) = {2}
      BY <1>6, <3>2, <3>4 DEF CommasTo, Character
    <3>. QED
      BY <3>2, <3>3, <3>5
  <2>. HIDE DEF t
  <2>2. Cardinality(CommasTo(t, 1)) = 0 /\ Cardinality(CommasTo(t, 3)) = 1
    BY <1>1, <2>1
  <2>3. /\ {j \in Values(t) : Cardinality(CommasTo(t, j)) = 0} = {1}
        /\ {j \in Values(t) : Cardinality(CommasTo(t, j)) = 1} = {3}
    BY <2>1, <2>2
  <2>4. Given(t, 0) = {u} /\ Given(t, 1) = {i}
    BY <2>1, <2>3, GivenIs
  <2>. QED
    BY <2>4 DEF t
<1>. QED
  BY <1>2, <1>3, <1>4, <1>5, <1>6

\* A field is what a value that the sentence gives is read as, or else the default.
UpdateIs(values, field) ==
    (values = {} /\ field = Negative(Nearest(1, 1)))
        \/ (\E n \in Nat : values = {n} /\ field = Tenths(n))
StationIs(values, field) ==
    (values = {} /\ field = 0) \/ (\E n \in Nat : values = {n} /\ field = ToUint16(n))

LEMMA OptionalRead ==
    ASSUME NEW tail \in Seq(Int), TailMatches(tail),
           \A j \in DOMAIN tail : tail[j] \notin {Comma, Checksum} => tail[j] \in Nat
    PROVE  /\ UpdateIs(Given(tail, 0), DgpsLastUpdate(Split(tail, Comma)))
           /\ StationIs(Given(tail, 1), DgpsReferenceStationId(Split(tail, Comma)))
<1>. DEFINE content == Split(tail, Comma)
            none == Negative(Nearest(1, 1))
<1>2. EmptyData.dgps_last_update = none /\ EmptyData.dgps_reference_station_id = 0
  BY DEF EmptyData
<1>3. ASSUME NEW c, Character(c), NEW j \in DOMAIN tail, tail[j] = c
      PROVE  c \in Nat
  BY <1>3 DEF Character
<1>. HIDE DEF none
<1>4. CASE tail = <<Checksum>>
  <2>1. content = << <<Checksum>> >> /\ Given(tail, 0) = {} /\ Given(tail, 1) = {}
    BY <1>4, SplitForms, GivenForms
  <2>. HIDE DEF content
  <2>2. DgpsLastUpdate(content) = none /\ DgpsReferenceStationId(content) = 0
    BY <1>2, <2>1 DEF DgpsLastUpdate, DgpsReferenceStationId
  <2>. QED
    BY <2>1, <2>2 DEF UpdateIs, StationIs, content, none
<1>5. CASE tail = <<Comma, Checksum>>
  <2>1. content = << <<>>, <<Checksum>> >> /\ Given(tail, 0) = {} /\ Given(tail, 1) = {}
    BY <1>5, SplitForms, GivenForms
  <2>. HIDE DEF content
  <2>2. DgpsLastUpdate(content) = none /\ DgpsReferenceStationId(content) = 0
    BY <1>2, <2>1 DEF DgpsLastUpdate, DgpsReferenceStationId
  <2>. QED
    BY <2>1, <2>2 DEF UpdateIs, StationIs, content, none
<1>6. ASSUME NEW u, Character(u), tail = <<u, Comma, Checksum>>
      PROVE  /\ UpdateIs(Given(tail, 0), DgpsLastUpdate(content))
             /\ StationIs(Given(tail, 1), DgpsReferenceStationId(content))
  <2>1. content = << <<u>>, <<Checksum>> >> /\ Given(tail, 0) = {u} /\ Given(tail, 1) = {}
    BY <1>6, SplitForms, GivenForms
  <2>. HIDE DEF content
  <2>2. DgpsLastUpdate(content) = Tenths(u) /\ DgpsReferenceStationId(content) = 0
    BY <1>2, <2>1 DEF DgpsLastUpdate, DgpsReferenceStationId
  <2>3. u \in Nat
    <3>1. 1 \in DOMAIN tail /\ tail[1] = u
      BY <1>6
    <3>. QED
      BY <1>3, <1>6, <3>1
  <2>. QED
    BY <2>1, <2>2, <2>3 DEF UpdateIs, StationIs
<1>7. ASSUME NEW i, Character(i), tail = <<Comma, i, Comma, Checksum>>
      PROVE  /\ UpdateIs(Given(tail, 0), DgpsLastUpdate(content))
             /\ StationIs(Given(tail, 1), DgpsReferenceStationId(content))
  <2>1. /\ content = << <<>>, <<i>>, <<Checksum>> >>
        /\ Given(tail, 0) = {} /\ Given(tail, 1) = {i}
    BY <1>7, SplitForms, GivenForms
  <2>. HIDE DEF content
  <2>3. DgpsLastUpdate(content) = none /\ DgpsReferenceStationId(content) = ToUint16(i)
    BY <1>2, <2>1 DEF DgpsLastUpdate, DgpsReferenceStationId
  <2>4. i \in Nat
    <3>1. 2 \in DOMAIN tail /\ tail[2] = i
      BY <1>7
    <3>. QED
      BY <1>3, <1>7, <3>1
  <2>. QED
    BY <2>1, <2>3, <2>4 DEF UpdateIs, StationIs, none
<1>8. ASSUME NEW u, NEW i, Character(u), Character(i), tail = <<u, Comma, i, Comma, Checksum>>
      PROVE  /\ UpdateIs(Given(tail, 0), DgpsLastUpdate(content))
             /\ StationIs(Given(tail, 1), DgpsReferenceStationId(content))
  <2>1. /\ content = << <<u>>, <<i>>, <<Checksum>> >>
        /\ Given(tail, 0) = {u} /\ Given(tail, 1) = {i}
    BY <1>8, SplitForms, GivenForms
  <2>. HIDE DEF content
  <2>3. DgpsLastUpdate(content) = Tenths(u) /\ DgpsReferenceStationId(content) = ToUint16(i)
    BY <1>2, <2>1 DEF DgpsLastUpdate, DgpsReferenceStationId
  <2>4. u \in Nat /\ i \in Nat
    <3>1. 1 \in DOMAIN tail /\ tail[1] = u /\ 3 \in DOMAIN tail /\ tail[3] = i
      BY <1>8
    <3>. QED
      BY <1>3, <1>8, <3>1
  <2>. QED
    BY <2>1, <2>3, <2>4 DEF UpdateIs, StationIs
<1>. QED
  BY <1>4, <1>5, <1>6, <1>7, <1>8, TailForms DEF none

\* The values of a tail of which nothing throws.
LEMMA TailOf ==
    ASSUME NEW s \in Sentence, ~Throws(s)
    PROVE  /\ s.tail \in Seq(Int)
           /\ \A j \in DOMAIN s.tail :
                 s.tail[j] \notin {Comma, Checksum} => s.tail[j] \in 0..MostTenths
<1>. DEFINE Characters == {n \in Int : n \in 0..MostTenths \/ n \in {TooLong, Comma, Checksum}}
<1>1. s.tail \in Seq(Characters)
  BY DEF Sentence
<1>2. s.tail \in Seq(Int)
  BY <1>1
<1>3. \A j \in DOMAIN s.tail : s.tail[j] \in Characters
  <2>. HIDE DEF Characters
  <2>. QED
    BY <1>1
<1>4. \A j \in DOMAIN s.tail : s.tail[j] # TooLong
  BY <1>2 DEF Throws, ToSet
<1>. QED
  BY <1>2, <1>3, <1>4

LEMMA OptionalOf ==
    ASSUME NEW s \in Sentences, Decoded[s].kind = "GPGGA"
    PROVE  /\ UpdateIs(Given(s.tail, 0), Decoded[s].dgps_last_update)
           /\ StationIs(Given(s.tail, 1), Decoded[s].dgps_reference_station_id)
<1>. DEFINE tail == s.tail
<1>1. s \in Sentence /\ GpggaMatches(s) /\ ~Throws(s) /\ Decoded[s] = Translated(s)
  BY SampleOf
<1>2. TailMatches(tail)
  BY <1>1 DEF GpggaMatches
<1>3. /\ tail \in Seq(Int)
      /\ \A j \in DOMAIN tail : tail[j] \notin {Comma, Checksum} => tail[j] \in Nat
  BY <1>1, TailOf
<1>4. /\ Decoded[s].dgps_last_update = DgpsLastUpdate(Split(tail, Comma))
      /\ Decoded[s].dgps_reference_station_id = DgpsReferenceStationId(Split(tail, Comma))
  BY <1>1 DEF Translated
<1>. HIDE DEF tail
<1>5. /\ UpdateIs(Given(tail, 0), DgpsLastUpdate(Split(tail, Comma)))
      /\ StationIs(Given(tail, 1), DgpsReferenceStationId(Split(tail, Comma)))
  BY <1>2, <1>3, OptionalRead
<1>. QED
  BY <1>4, <1>5 DEF tail

\* The optional fields of a sample are those that its sentence has, whichever
\* of the five forms its end takes, and the defaults where it has none
\* (EasyNmeaCoder.hpp:230-239 and 253-268).
THEOREM OptionalFieldsCorrect == Spec => []OptionalFieldsAreTheSentences
<1>1. DataInv => OptionalFieldsAreTheSentences
  <2>. SUFFICES ASSUME DataInv, IsGpgga, Fits(sentence)
                PROVE  /\ data.dgps_last_update \in
                              IF Given(sentence.tail, 0) = {} THEN {Negative(Nearest(1, 1))}
                              ELSE {Nearest(n, 10) : n \in Given(sentence.tail, 0)}
                       /\ data.dgps_reference_station_id \in
                              IF Given(sentence.tail, 1) = {} THEN {0} ELSE Given(sentence.tail, 1)
    BY DEF OptionalFieldsAreTheSentences
  <2>. DEFINE updates == Given(sentence.tail, 0)
              stations == Given(sentence.tail, 1)
  <2>1. /\ UpdateIs(updates, data.dgps_last_update)
        /\ StationIs(stations, data.dgps_reference_station_id)
    BY OptionalOf DEF DataInv, IsGpgga
  <2>2. \A n \in Nat : Tenths(n) = Nearest(n, 10)
    BY DEF Tenths
  <2>3. \A n \in stations : n \in Nat => ToUint16(n) = n
    BY DEF Fits, ToUint16, Uint16Values
  <2>. HIDE DEF updates, stations
  <2>. QED
    BY <2>1, <2>2, <2>3 DEF UpdateIs, StationIs, updates, stations
<1>. QED
  BY <1>1, DataCorrect, PTL

-----------------------------------------------------------------------------
(* The position *)

\* Digit after digit.
LEMMA NumberAppend ==
    ASSUME NEW digits \in Seq(Int), NEW c \in Int
    PROVE  /\ Number(digits) \in Int /\ Number(<<>>) = 0
           /\ Number(Append(digits, c)) = 10 * Number(digits) + c
<1>. DEFINE more == Append(digits, c)  n == Len(digits)
<1>1. /\ more \in Seq(Int) /\ Len(more) = n + 1 /\ n \in Nat
      /\ more[n + 1] = c /\ \A i \in 1..n : more[i] = digits[i]
  OBVIOUS
<1>2. PICK f : /\ Number(digits) = f[n] /\ f[0] = 0
               /\ \A i \in 1..n : f[i] = 10 * f[i - 1] + digits[i]
  BY NumberIs
<1>3. PICK g : /\ Number(more) = g[n + 1] /\ g[0] = 0
               /\ \A i \in 1..(n + 1) : g[i] = 10 * g[i - 1] + more[i]
  <2>. HIDE DEF more
  <2>1. PICK g : /\ Number(more) = g[Len(more)] /\ g[0] = 0
                 /\ \A i \in 1..Len(more) : g[i] = 10 * g[i - 1] + more[i]
    BY <1>1, NumberIs
  <2>. QED
    BY <1>1, <2>1
<1>4. \A i \in 1..n : digits[i] \in Int
  OBVIOUS
<1>. HIDE DEF more, n
<1>. DEFINE Same == {i \in Nat : i <= n => f[i] = g[i] /\ f[i] \in Int}
<1>5. \A i \in Nat : i \in Same
  <2>1. 0 \in Same
    BY <1>2, <1>3
  <2>2. ASSUME NEW i \in Nat, i \in Same PROVE i + 1 \in Same
    <3>. SUFFICES ASSUME i + 1 <= n PROVE f[i + 1] = g[i + 1] /\ f[i + 1] \in Int
      OBVIOUS
    <3>1. f[i] = g[i] /\ f[i] \in Int
      BY <1>1, <2>2
    <3>2. i + 1 \in 1..n /\ i + 1 \in 1..(n + 1) /\ (i + 1) - 1 = i
      BY <1>1
    <3>3. f[i + 1] = 10 * f[i] + digits[i + 1]
      BY <1>2, <3>2
    <3>4. g[i + 1] = 10 * g[i] + more[i + 1]
      BY <1>3, <3>2
    <3>5. more[i + 1] = digits[i + 1] /\ digits[i + 1] \in Int
      BY <1>1, <1>4, <3>2
    <3>. QED
      BY <3>1, <3>3, <3>4, <3>5
  <2>. HIDE DEF Same
  <2>. QED
    BY <2>1, <2>2, SetInduction
<1>6. f[n] = g[n] /\ f[n] \in Int
  BY <1>1, <1>5
<1>7. g[n + 1] = 10 * g[n] + c
  <2>1. n + 1 \in 1..(n + 1) /\ (n + 1) - 1 = n
    BY <1>1
  <2>. QED
    BY <1>1, <1>3, <2>1
<1>8. Number(<<>>) = 0
  <2>1. <<>> \in Seq(Int) /\ Len(<<>>) = 0
    BY EmptySeq
  <2>. QED
    BY <2>1, NumberIs
<1>. QED
  BY <1>2, <1>3, <1>6, <1>7, <1>8 DEF more

Digits == 0..9

LEMMA NumberBound ==
    ASSUME NEW b \in Seq(Digits)
    PROVE  LET p == Power(10, Len(b)) IN
           p \in Nat \ {0} /\ Number(b) \in Nat /\ Number(b) < p
<1>. DEFINE n == Len(b)
            Upto(k) == SubSeq(b, 1, k)
            Good == {k \in Nat : k <= n =>
                        /\ Power(10, k) \in Nat \ {0}
                        /\ Number(Upto(k)) \in Nat /\ Number(Upto(k)) < Power(10, k)}
<1>0. n \in Nat /\ b \in Seq(Int) /\ \A i \in 1..n : b[i] \in 0..9
  BY DEF Digits
<1>2. 0 \in Good
  <2>1. Upto(0) = <<>>
    OBVIOUS
  <2>2. Power(10, 0) = 1
    BY PowerNext, 10 \in Nat
  <2>3. Number(<<>>) = 0
    BY <1>0, NumberAppend, 0 \in Int
  <2>. HIDE DEF Upto
  <2>. QED
    BY <2>1, <2>2, <2>3
<1>3. ASSUME NEW k \in Nat, k \in Good PROVE k + 1 \in Good
  <2>. SUFFICES ASSUME k + 1 <= n
                PROVE  /\ Power(10, k + 1) \in Nat \ {0}
                       /\ Number(Upto(k + 1)) \in Nat /\ Number(Upto(k + 1)) < Power(10, k + 1)
    OBVIOUS
  <2>. DEFINE c == b[k + 1]  u == Upto(k)  p == Power(10, k)
  <2>1. c \in 0..9 /\ c \in Int /\ u \in Seq(Int)
    <3>1. k + 1 \in 1..n
      BY <1>0
    <3>2. u \in Seq(Int)
      BY <1>0
    <3>3. c \in 0..9
      BY <1>0, <3>1
    <3>. QED
      BY <3>2, <3>3
  <2>2. Upto(k + 1) = Append(u, c)
    BY <1>0
  <2>4. p \in Nat \ {0} /\ Number(u) \in Nat /\ Number(u) < p
    BY <1>0, <1>3
  <2>5. Power(10, k + 1) = 10 * p
    BY PowerNext, 10 \in Nat
  <2>. HIDE DEF c, u, p, Upto
  <2>6. Number(Append(u, c)) = 10 * Number(u) + c
    BY <2>1, NumberAppend
  <2>10. Number(Upto(k + 1)) = 10 * Number(u) + c
    BY <2>2, <2>6
  <2>. QED
    BY <2>1, <2>4, <2>5, <2>10
<1>4. n \in Good
  <2>. HIDE DEF Good
  <2>. QED
    BY <1>0, <1>2, <1>3, SetInduction
<1>5. Upto(n) = b
  BY <1>0
<1>. HIDE DEF Upto
<1>. QED
  BY <1>0, <1>4, <1>5

LEMMA NumberConcat ==
    ASSUME NEW a \in Seq(Digits), NEW b \in Seq(Digits)
    PROVE  Number(a \o b) = Number(a) * Power(10, Len(b)) + Number(b)
<1>. DEFINE n == Len(b)
            Upto(k) == SubSeq(b, 1, k)
            Good == {k \in Nat : k <= n =>
                        Number(a \o Upto(k)) = Number(a) * Power(10, k) + Number(Upto(k))}
<1>0. n \in Nat /\ a \in Seq(Int) /\ b \in Seq(Int) /\ \A i \in 1..n : b[i] \in 0..9
  BY DEF Digits
<1>1. Number(a) \in Nat
  BY NumberBound
<1>2. 0 \in Good
  <2>1. Upto(0) = <<>> /\ a \o <<>> = a
    OBVIOUS
  <2>2. Power(10, 0) = 1
    BY PowerNext, 10 \in Nat
  <2>3. Number(<<>>) = 0
    BY <1>0, NumberAppend, 0 \in Int
  <2>. HIDE DEF Upto
  <2>4. a \o Upto(0) = a
    BY <2>1
  <2>5. Number(a) * Power(10, 0) + Number(Upto(0)) = Number(a)
    <3>1. \A x \in Nat : x * 1 + 0 = x
      OBVIOUS
    <3>. QED
      BY <1>1, <2>1, <2>2, <2>3, <3>1, Zenon
  <2>. QED
    BY <2>4, <2>5
<1>3. ASSUME NEW k \in Nat, k \in Good PROVE k + 1 \in Good
  <2>. SUFFICES ASSUME k + 1 <= n
                PROVE  Number(a \o Upto(k + 1)) = Number(a) * Power(10, k + 1) + Number(Upto(k + 1))
    OBVIOUS
  <2>. DEFINE c == b[k + 1]  u == Upto(k)  p == Power(10, k)
  <2>1. c \in Int /\ u \in Seq(Int) /\ u \in Seq(Digits) /\ a \o u \in Seq(Int)
    <3>1. k + 1 \in 1..n
      BY <1>0
    <3>2. u \in Seq(Int) /\ u \in Seq(Digits)
      BY <1>0
    <3>. QED
      BY <1>0, <3>1, <3>2
  <2>2. Upto(k + 1) = Append(u, c)
    BY <1>0
  <2>3. a \o Append(u, c) = Append(a \o u, c)
    <3>. HIDE DEF u, c
    <3>1. \A i \in 1..(Len(a) + Len(u) + 1) : (a \o Append(u, c))[i] = Append(a \o u, c)[i]
      BY <1>0, <2>1
    <3>2. a \o Append(u, c) \in Seq(Int) /\ Append(a \o u, c) \in Seq(Int)
      BY <1>0, <2>1
    <3>3. Len(a \o Append(u, c)) = Len(a) + Len(u) + 1 /\ Len(Append(a \o u, c)) = Len(a) + Len(u) + 1
      BY <1>0, <2>1
    <3>. QED
      BY <3>1, <3>2, <3>3, SeqEqual
  <2>4. Number(a \o u) = Number(a) * p + Number(u)
    BY <1>0, <1>3
  <2>5. Power(10, k + 1) = 10 * p /\ p \in Nat
    BY PowerNext, 10 \in Nat
  <2>. HIDE DEF c, u, p, Upto
  <2>6. /\ Number(Append(u, c)) = 10 * Number(u) + c
        /\ Number(Append(a \o u, c)) = 10 * Number(a \o u) + c
    BY <2>1, NumberAppend
  <2>7. 10 * (Number(a) * p) = Number(a) * (10 * p) /\ Number(u) \in Nat
    <3>1. Number(u) \in Nat
      BY <2>1, NumberBound
    <3>. QED
      BY <1>1, <2>5, <3>1, SMTT(30)
  <2>. DEFINE x == Number(a) * p
  <2>8. x \in Int /\ Number(a) * (10 * p) = 10 * x /\ Number(a \o u) = x + Number(u)
    BY <1>1, <2>4, <2>5, <2>7
  <2>. HIDE DEF x
  <2>9. Number(a \o Upto(k + 1)) = 10 * (x + Number(u)) + c
    BY <2>2, <2>3, <2>6, <2>8
  <2>10. Number(Upto(k + 1)) = 10 * Number(u) + c
    BY <2>2, <2>6
  <2>11. Number(a) * Power(10, k + 1) = 10 * x
    BY <2>5, <2>8
  <2>. QED
    BY <2>1, <2>7, <2>8, <2>9, <2>10, <2>11
<1>4. n \in Good
  <2>. HIDE DEF Good
  <2>. QED
    BY <1>0, <1>2, <1>3, SetInduction
<1>5. Upto(n) = b
  BY <1>0
<1>. HIDE DEF Upto
<1>. QED
  BY <1>0, <1>4, <1>5

\* A text with one dot has two components, what is before it and what is after it.
LEMMA SplitAtDot ==
    ASSUME NEW angle \in Seq(Int), NEW dot \in Nat \ {0}, HasDotAt(angle, dot)
    PROVE  Split(angle, Dot) = <<SubSeq(angle, 1, dot - 1), SubSeq(angle, dot + 1, Len(angle))>>
<1>. DEFINE n == Len(angle)
<1>1. PICK f : /\ Split(angle, Dot) = f[n] /\ f[0] = << <<>> >>
               /\ \A i \in 1..n : f[i] = WithNext(f[i - 1], angle[i], Dot)
  BY SplitIs, Zenon
<1>2. n \in Nat /\ n > dot /\ \A i \in 1..n : angle[i] = Dot <=> i = dot
  BY DEF HasDotAt
<1>. HIDE DEF n
<1>. DEFINE Before == {k \in Nat : k < dot => f[k] = <<SubSeq(angle, 1, k)>>}
<1>3. 0 \in Before
  <2>1. SubSeq(angle, 1, 0) = <<>>
    OBVIOUS
  <2>. QED
    BY <1>1, <2>1
<1>4. ASSUME NEW k \in Nat, k \in Before PROVE k + 1 \in Before
  <2>. SUFFICES ASSUME k + 1 < dot PROVE f[k + 1] = <<SubSeq(angle, 1, k + 1)>>
    OBVIOUS
  <2>. DEFINE u == SubSeq(angle, 1, k)
  <2>1. f[k] = <<u>>
    BY <1>4
  <2>2. k + 1 \in 1..n /\ (k + 1) - 1 = k /\ k + 1 # dot
    BY <1>2
  <2>3. f[k + 1] = WithNext(f[k], angle[k + 1], Dot) /\ angle[k + 1] # Dot
    BY <1>1, <1>2, <2>2
  <2>4. Append(u, angle[k + 1]) = SubSeq(angle, 1, k + 1)
    BY <1>2, <2>2 DEF n
  <2>. HIDE DEF u
  <2>5. f[k + 1] = <<Append(u, angle[k + 1])>>
    BY <2>1, <2>3, WithNextOf1
  <2>. QED
    BY <2>4, <2>5
<1>5. \A k \in Nat : k \in Before
  <2>. HIDE DEF Before
  <2>. QED
    BY <1>3, <1>4, SetInduction
<1>. DEFINE whole == SubSeq(angle, 1, dot - 1)
<1>6. dot - 1 \in Nat /\ dot - 1 < dot
  OBVIOUS
<1>7. f[dot - 1] = <<whole>>
  BY <1>5, <1>6
<1>. HIDE DEF whole
<1>8. f[dot] = <<whole, <<>> >>
  <2>1. f[dot] = WithNext(f[dot - 1], Dot, Dot)
    BY <1>1, <1>2
  <2>. QED
    BY <1>7, <2>1, SeparatorAfter
<1>. DEFINE Part(k) == SubSeq(angle, dot + 1, dot + k)
            After == {k \in Nat : dot + k <= n => f[dot + k] = <<whole, Part(k)>>}
<1>9. 0 \in After
  <2>1. Part(0) = <<>> /\ dot + 0 = dot
    OBVIOUS
  <2>. HIDE DEF Part
  <2>2. f[dot + 0] = <<whole, Part(0)>>
    BY <1>8, <2>1
  <2>. QED
    BY <2>2
<1>10. ASSUME NEW k \in Nat, k \in After PROVE k + 1 \in After
  <2>. SUFFICES ASSUME dot + (k + 1) <= n PROVE f[dot + (k + 1)] = <<whole, Part(k + 1)>>
    OBVIOUS
  <2>. DEFINE i == dot + k + 1  u == Part(k)
  <2>0. i = dot + (k + 1) /\ i \in 1..n /\ i - 1 = dot + k /\ i # dot /\ dot + k <= n
    BY <1>2
  <2>1. f[dot + k] = <<whole, u>>
    BY <1>10, <2>0
  <2>4. Append(u, angle[i]) = Part(k + 1)
    BY <1>2, <2>0 DEF n
  <2>. HIDE DEF i, u, Part
  <2>3. f[i] = WithNext(f[i - 1], angle[i], Dot) /\ angle[i] # Dot
    BY <1>1, <1>2, <2>0
  <2>5. WithNext(<<whole, u>>, angle[i], Dot) = <<whole, Append(u, angle[i])>>
    BY <2>3, WithNextOf2
  <2>6. f[i] = <<whole, Part(k + 1)>>
    BY <2>0, <2>1, <2>3, <2>4, <2>5
  <2>. QED
    BY <2>0, <2>6
<1>11. n - dot \in After
  <2>1. n - dot \in Nat
    BY <1>2
  <2>. HIDE DEF After
  <2>. QED
    BY <1>9, <1>10, <2>1, SetInduction
<1>12. dot + (n - dot) = n
  BY <1>2
<1>13. f[n] = <<whole, Part(n - dot)>>
  <2>. HIDE DEF Part
  <2>. QED
    BY <1>2, <1>11, <1>12
<1>. QED
  BY <1>1, <1>12, <1>13 DEF whole, n

LEMMA ThreeParts ==
    ASSUME NEW a \in Seq(Digits), NEW b \in Seq(Digits), NEW c \in Seq(Digits)
    PROVE  \A x, y : x = a \o b /\ y = b \o c => x \o c = a \o y
OBVIOUS

\* An angle of degrees and minutes: its digits before the minutes, the two
\* digits of the minutes, and those after the dot.
LEMMA PartsOf ==
    ASSUME NEW angle \in Seq(Digits \cup {Dot}), NEW dot \in 5..6, HasDotAt(angle, dot)
    PROVE  LET head == SubSeq(angle, 1, dot - 3)
               minute == SubSeq(angle, dot - 2, dot - 1)
               part == SubSeq(angle, dot + 1, Len(angle)) IN
           /\ head \in Seq(Digits) /\ minute \in Seq(Digits) /\ part \in Seq(Digits)
           /\ Len(part) = Places(angle) /\ Len(part) \in Nat /\ ~InDegrees(angle)
           /\ Len(minute \o part) = 2 + Len(part)
           /\ Degrees(angle) = head
           /\ ToDegrees(angle) =
                 Plus(Number(head),
                      Sixtieth(Nearest(Number(minute \o part), Power(10, Len(part)))))
           /\ RemoveAt(angle, DotOf(angle)) = head \o (minute \o part)
<1>. DEFINE head == SubSeq(angle, 1, dot - 3)
            minute == SubSeq(angle, dot - 2, dot - 1)
            part == SubSeq(angle, dot + 1, Len(angle))
            whole == SubSeq(angle, 1, dot - 1)
<1>1. Dot \in Int /\ angle \in Seq(Int) /\ dot \in Nat \ {0}
  BY DEF Dot, Digits
<1>2. Len(angle) \in Nat /\ Len(angle) > dot /\ \A i \in 1..Len(angle) : angle[i] = Dot <=> i = dot
  BY <1>1 DEF HasDotAt
<1>3. \A i \in 1..Len(angle) : i # dot => angle[i] \in Digits
  BY <1>2
<1>4. /\ head \in Seq(Digits) /\ Len(head) = dot - 3
      /\ \A i \in 1..(dot - 3) : head[i] = angle[i]
  BY <1>2, <1>3
<1>5. /\ minute \in Seq(Digits) /\ Len(minute) = 2
      /\ \A i \in 1..2 : minute[i] = angle[dot - 3 + i]
  BY <1>2, <1>3
<1>6. /\ part \in Seq(Digits) /\ Len(part) = Len(angle) - dot
      /\ \A i \in 1..(Len(angle) - dot) : part[i] = angle[dot + i]
  BY <1>2, <1>3
<1>7. /\ whole \in Seq(Digits) /\ Len(whole) = dot - 1
      /\ \A i \in 1..(dot - 1) : whole[i] = angle[i]
  BY <1>2, <1>3
<1>8. DotOf(angle) = dot
  BY <1>2 DEF DotOf
<1>9. Split(angle, Dot) = <<whole, part>>
  BY <1>1, SplitAtDot
<1>10. SubSeq(whole, 1, Len(whole) - 2) = head
  <2>1. /\ SubSeq(whole, 1, dot - 3) \in Seq(Digits) /\ Len(SubSeq(whole, 1, dot - 3)) = dot - 3
        /\ \A i \in 1..(dot - 3) : SubSeq(whole, 1, dot - 3)[i] = whole[i]
    <3>. HIDE DEF whole
    <3>. QED
      BY <1>7
  <2>2. Len(whole) - 2 = dot - 3
    BY <1>7
  <2>. HIDE DEF whole, head
  <2>. QED
    BY <1>4, <1>7, <2>1, <2>2, SeqEqual
<1>11. SubSeq(whole, Len(whole) - 1, Len(whole)) = minute
  <2>1. /\ SubSeq(whole, dot - 2, dot - 1) \in Seq(Digits) /\ Len(SubSeq(whole, dot - 2, dot - 1)) = 2
        /\ \A i \in 1..2 : SubSeq(whole, dot - 2, dot - 1)[i] = whole[dot - 3 + i]
    <3>. HIDE DEF whole
    <3>. QED
      BY <1>7
  <2>2. Len(whole) - 1 = dot - 2 /\ Len(whole) = dot - 1
    BY <1>7
  <2>. HIDE DEF whole, minute
  <2>. QED
    <3>1. SubSeq(whole, dot - 2, dot - 1) = minute
      <4>1. \A i \in 1..2 : dot - 3 + i \in 1..(dot - 1)
        BY <1>1
      <4>2. \A i \in 1..2 : SubSeq(whole, dot - 2, dot - 1)[i] = minute[i]
        BY <1>5, <1>7, <2>1, <4>1
      <4>. QED
        BY <1>5, <2>1, <4>2, SeqEqual
    <3>. QED
      BY <2>2, <3>1
<1>12. RemoveAt(angle, DotOf(angle)) = whole \o part
  BY <1>8 DEF RemoveAt
<1>13. whole \o part = head \o (minute \o part) /\ Len(minute \o part) = 2 + Len(part)
  <2>. HIDE DEF whole, head, minute, part
  <2>0. Len(angle) - dot \in Nat
    BY <1>2
  <2>. DEFINE S == Seq(Digits)
  <2>4. \A a, b \in S : a \o b \in S /\ Len(a \o b) = Len(a) + Len(b)
                /\ \A i \in 1..(Len(a) + Len(b)) :
                       (a \o b)[i] = IF i <= Len(a) THEN a[i] ELSE b[i - Len(a)]
    BY ConcatProperties, Zenon
  <2>5. head \in S /\ minute \in S /\ part \in S /\ whole \in S
    BY <1>4, <1>5, <1>6, <1>7
  <2>1. /\ minute \o part \in Seq(Digits) /\ Len(minute \o part) = 2 + (Len(angle) - dot)
    <3>. HIDE DEF S
    <3>1. minute \o part \in S /\ Len(minute \o part) = Len(minute) + Len(part)
      BY <2>4, <2>5
    <3>. QED
      BY <1>5, <1>6, <3>1 DEF S
  <2>2. head \o minute = whole
    <3>1. /\ head \o minute \in Seq(Digits) /\ Len(head \o minute) = dot - 1
      <4>. HIDE DEF S
      <4>1. head \o minute \in S /\ Len(head \o minute) = Len(head) + Len(minute)
        BY <2>4, <2>5
      <4>. QED
        BY <1>1, <1>4, <1>5, <4>1 DEF S
    <3>2. \A i \in 1..(dot - 1) : (head \o minute)[i] = whole[i]
      <4>1. \A i \in 1..(dot - 1) : (head \o minute)[i] =
                  IF i <= dot - 3 THEN head[i] ELSE minute[i - (dot - 3)]
        <5>. HIDE DEF S
        <5>1. \A i \in 1..(Len(head) + Len(minute)) :
                (head \o minute)[i] = IF i <= Len(head) THEN head[i] ELSE minute[i - Len(head)]
          BY <2>4, <2>5
        <5>2. Len(head) + Len(minute) = dot - 1
          BY <1>1, <1>4, <1>5
        <5>. QED
          BY <1>4, <5>1, <5>2
      <4>2. \A i \in 1..(dot - 1) : i > dot - 3 =>
                  i - (dot - 3) \in 1..2 /\ dot - 3 + (i - (dot - 3)) = i
        BY <1>1
      <4>3. \A i \in 1..(dot - 1) : i <= dot - 3 => i \in 1..(dot - 3)
        BY <1>1
      <4>. QED
        <5>1. \A i \in 1..(dot - 1) : i > dot - 3 => minute[i - (dot - 3)] = angle[i]
          BY <1>5, <4>2
        <5>2. \A i \in 1..(dot - 1) : i <= dot - 3 => head[i] = angle[i]
          BY <1>4, <4>3
        <5>3. \A i \in 1..(dot - 1) : i <= dot - 3 \/ i > dot - 3
          BY <1>1
        <5>. QED
          BY <1>7, <4>1, <5>1, <5>2, <5>3
    <3>. QED
      BY <1>7, <3>1, <3>2, SeqEqual
  <2>. DEFINE tail == minute \o part
  <2>3. tail = minute \o part
    OBVIOUS
  <2>. HIDE DEF S, tail
  <2>6. head \in Seq(Digits) /\ minute \in Seq(Digits) /\ part \in Seq(Digits)
    BY <1>4, <1>5, <1>6
  <2>7. whole \o part = head \o tail
    <3>1. \A a, b, c \in Seq(Digits) : \A x, y : x = a \o b /\ y = b \o c => x \o c = a \o y
      BY ThreeParts
    <3>2. \A x, y : x = head \o minute /\ y = minute \o part => x \o part = head \o y
      BY <2>6, <3>1, Zenon
    <3>3. whole = head \o minute
      BY <2>2
    <3>. QED
      BY <2>3, <3>2, <3>3, Zenon
  <2>. QED
    BY <1>6, <2>1, <2>7 DEF tail
<1>14. Len(part) = Places(angle) /\ ~InDegrees(angle)
  BY <1>6, <1>8 DEF Places, InDegrees
<1>15. Degrees(angle) = head
  <2>1. Split(angle, Dot)[1] = whole
    BY <1>9
  <2>. QED
    BY <1>10, <2>1 DEF Degrees
<1>16. ToDegrees(angle) = Plus(Number(head), Sixtieth(Nearest(Number(minute \o part), Power(10, Len(part)))))
  <2>1. Split(angle, Dot)[1] = whole /\ Split(angle, Dot)[2] = part
    BY <1>9
  <2>. HIDE DEF whole, head, minute, part
  <2>. QED
    BY <1>11, <1>15, <2>1, Zenon DEF ToDegrees
<1>17. Len(part) \in Nat
  BY <1>2, <1>6
<1>. HIDE DEF whole, head, minute, part
<1>. QED
  BY <1>4, <1>5, <1>6, <1>12, <1>13, <1>14, <1>15, <1>16, <1>17 DEF head, minute, part

\* The forms of degrees and minutes that the expression lets through.
IsAngle(angle, dot) ==
    /\ HasDotAt(angle, dot)
    /\ Number(SubSeq(angle, 1, dot - 3)) <= 179
    /\ Number(SubSeq(angle, dot - 2, dot - 1)) <= 60

\* Its degrees and its minutes, as numbers.
LEMMA AngleIs ==
    ASSUME NEW angle \in Seq(Digits \cup {Dot}), NEW dot \in 5..6, IsAngle(angle, dot)
    PROVE  \E n \in 0..179, m \in Nat :
              LET T == Power(10, Places(angle)) IN
              /\ Minute(m, T)
              /\ ToDegrees(angle) = Plus(n, Sixtieth(Nearest(m, T)))
              /\ Minutes(angle) = 60 * T * n + m
<1>. DEFINE head == SubSeq(angle, 1, dot - 3)
            minute == SubSeq(angle, dot - 2, dot - 1)
            part == SubSeq(angle, dot + 1, Len(angle))
            places == Len(part)
            T == Power(10, places)
            n == Number(head)
            mm == Number(minute)
            F == Number(part)
            m == Number(minute \o part)
            value == Number(head \o (minute \o part))
<1>1. /\ head \in Seq(Digits) /\ minute \in Seq(Digits) /\ part \in Seq(Digits)
      /\ places = Places(angle) /\ places \in Nat /\ ~InDegrees(angle)
      /\ Len(minute \o part) = 2 + places
      /\ ToDegrees(angle) = Plus(n, Sixtieth(Nearest(m, T)))
      /\ RemoveAt(angle, DotOf(angle)) = head \o (minute \o part)
  BY PartsOf DEF IsAngle
<1>2. n <= 179 /\ mm <= 60
  BY DEF IsAngle
<1>. HIDE DEF head, minute, part
<1>3. n \in Nat /\ mm \in Nat /\ F \in Nat /\ F < T /\ T \in Nat \ {0}
  BY <1>1, NumberBound
<1>4. m = mm * T + F
  BY <1>1, NumberConcat
<1>5. minute \o part \in Seq(Digits)
  BY <1>1, ConcatProperties, Zenon
<1>6. Power(10, 2 + places) = 100 * T
  <2>1. Power(10, 0 + 1) = 10 * 1 /\ Power(10, 1 + 1) = 10 * Power(10, 1)
    BY PowerNext, 10 \in Nat, 0 \in Nat, 1 \in Nat
  <2>2. Power(10, 2) = 100
    BY <2>1
  <2>3. Power(10, 2 + places) = Power(10, 2) * Power(10, places)
    BY <1>1, PowerAdds, 10 \in Nat \ {0}, 2 \in Nat
  <2>. QED
    BY <2>2, <2>3
<1>7. value = n * (100 * T) + m
  <2>. DEFINE tail == minute \o part
  <2>1. tail \in Seq(Digits) /\ Len(tail) = 2 + places
    BY <1>1, <1>5
  <2>. HIDE DEF tail
  <2>2. Number(head \o tail) = Number(head) * Power(10, Len(tail)) + Number(tail)
    BY <1>1, <2>1, NumberConcat
  <2>. QED
    BY <1>6, <2>1, <2>2 DEF tail
<1>8. Minutes(angle) = (value \div (100 * T)) * 60 * T + (value % (100 * T))
  BY <1>1 DEF Minutes
<1>. HIDE DEF T, n, mm, F, m, value, places
<1>9. m \in Nat /\ m < 61 * T
  <2>1. mm * T <= 60 * T /\ mm * T \in Nat
    BY <1>2, <1>3, SMTT(30)
  <2>. DEFINE x == mm * T
  <2>2. x \in Nat /\ x <= 60 * T /\ m = x + F
    BY <1>4, <2>1
  <2>. HIDE DEF x
  <2>. QED
    BY <1>3, <2>2
<1>10. value \div (100 * T) = n /\ value % (100 * T) = m
  <2>. DEFINE d == 100 * T  q == value \div d  r == value % d
  <2>1. d \in Nat \ {0} /\ m < d /\ value = n * d + m /\ value \in Nat
    <3>1. d \in Nat \ {0} /\ m < d
      BY <1>3, <1>9
    <3>2. value = n * d + m
      BY <1>7
    <3>. HIDE DEF d
    <3>3. n * d \in Nat
      BY <1>3, <3>1
    <3>. QED
      BY <1>9, <3>1, <3>2, <3>3
  <2>. HIDE DEF d
  <2>2. q \in Nat /\ r \in Nat /\ r < d /\ q * d + r = value
    BY <2>1, DivMod
  <2>. HIDE DEF q, r
  <2>3. ASSUME NEW a \in Nat, NEW b \in Nat, NEW x \in Nat, NEW y \in Nat, x < d, y < d,
               a * d + x = b * d + y
        PROVE  ~(a < b)
    <3>. SUFFICES ASSUME a < b PROVE FALSE
      OBVIOUS
    <3>1. b * d >= (a + 1) * d /\ (a + 1) * d = a * d + d
      BY <2>1, SMTT(30)
    <3>. QED
      BY <2>1, <2>3, <3>1
  <2>4. q = n
    <3>1. ~(q < n) /\ ~(n < q)
      BY <1>3, <1>9, <2>1, <2>2, <2>3
    <3>. QED
      BY <1>3, <2>2, <3>1
  <2>5. r = m
    <3>1. n * d \in Nat
      BY <1>3, <2>1
    <3>. QED
      BY <1>9, <2>1, <2>2, <2>4, <3>1
  <2>. QED
    BY <2>4, <2>5 DEF q, r, d
<1>11. Minutes(angle) = 60 * T * n + m
  <2>1. n * 60 * T = 60 * T * n
    BY <1>3, SMTT(30)
  <2>. QED
    BY <1>8, <1>10, <2>1
<1>12. T = Power(10, Places(angle)) /\ Minute(m, T)
  BY <1>1, <1>3, <1>9 DEF Minute, T
<1>13. n \in 0..179
  BY <1>2, <1>3
<1>. QED
  BY <1>1, <1>9, <1>11, <1>12, <1>13

LEMMA AngleConverted ==
    ASSUME NEW angle \in Seq(Digits \cup {Dot}), NEW dot \in 5..6, IsAngle(angle, dot)
    PROVE  LET T == Power(10, Places(angle)) IN
           /\ T \in Nat \ {0} /\ Minutes(angle) \in Nat
           /\ Converted(ToDegrees(angle), Minutes(angle), T)
<1>. DEFINE f == ToDegrees(angle)  T == Power(10, Places(angle))  value == Minutes(angle)
<1>1. PICK n \in 0..179, m \in Nat :
          /\ Minute(m, T) /\ f = Plus(n, Sixtieth(Nearest(m, T)))
          /\ value = 60 * T * n + m
  BY AngleIs
<1>. HIDE DEF f, T, value
<1>2. n \in 0..180 /\ T \in Nat \ {0}
  BY <1>1 DEF Minute
<1>3. Converted(f, value, T)
  BY <1>1, <1>2, SumOf
<1>4. value \in Nat
  <2>1. 60 * T * n \in Nat
    BY <1>2, SMTT(30)
  <2>. QED
    BY <1>1, <2>1
<1>. QED
  BY <1>2, <1>3, <1>4 DEF f, T, value

\* It is read to within one unit.
LEMMA AngleRead ==
    ASSUME NEW angle \in Seq(Digits \cup {Dot}), NEW dot \in 5..6, IsAngle(angle, dot),
           NEW positive \in BOOLEAN
    PROVE  IsRead(Bearing(angle, positive), angle, positive)
<1>. DEFINE f == ToDegrees(angle)  T == Power(10, Places(angle))  value == Minutes(angle)
<1>1. T \in Nat \ {0} /\ value \in Nat /\ Converted(f, value, T)
  BY AngleConverted
<1>. HIDE DEF f, T, value
<1>5. f.bits - Rounded(Division(value, 60 * T, f.exponent), 60 * T) \in (-1)..1
  BY <1>1, ReadOf
<1>6. f = Zero <=> value = 0
  BY <1>1 DEF Converted
<1>7. f = [bits |-> f.bits, exponent |-> f.exponent] /\ f.bits \in Nat
  BY <1>1 DEF Converted, Within
<1>8. Negative(Negative(f)) = f
  <2>1. PICK b, e : b \in Nat /\ f = [bits |-> b, exponent |-> e]
    BY <1>7
  <2>2. Negative(f) = [bits |-> -b, exponent |-> e]
    BY <2>1 DEF Negative
  <2>3. Negative([bits |-> -b, exponent |-> e]) = [bits |-> -(-b), exponent |-> e]
    BY DEF Negative
  <2>. QED
    BY <2>1, <2>2, <2>3
<1>9. (IF positive THEN Bearing(angle, positive) ELSE Negative(Bearing(angle, positive))) = f
  BY <1>8 DEF Bearing, f
<1>. QED
  BY <1>5, <1>6, <1>9, Zenon DEF IsRead, T, value

\* The forms of degrees alone.
LEMMA DegreesAre ==
    ASSUME NEW degrees \in Seq(Digits), NEW angle \in Seq(Digits \cup {Dot}),
           IsDegrees(angle, degrees)
    PROVE  HasDotAt(angle, Len(degrees) + 1) /\ angle \in Seq(Int)
<1>. DEFINE d == Len(degrees)  front == degrees \o <<Dot>>
<1>1. PICK n \in DOMAIN angle : angle = front \o Zeros(n)
  BY DEF IsDegrees
<1>2. n \in Nat /\ n >= 1 /\ Dot \in Int /\ (\A i \in 0..9 : i # Dot) /\ angle \in Seq(Int)
  BY DEF Dot, Digits
<1>3. d \in Nat /\ degrees \in Seq(Int) /\ \A i \in 1..d : degrees[i] \in 0..9
  BY DEF Digits
<1>4. /\ front \in Seq(Int) /\ Len(front) = d + 1 /\ front[d + 1] = Dot
      /\ \A i \in 1..d : front[i] = degrees[i]
  BY <1>2, <1>3
<1>5. Zeros(n) \in Seq(Int) /\ Len(Zeros(n)) = n /\ \A i \in 1..n : Zeros(n)[i] = 0
  <2>1. Zeros(n) \in [1..n -> Int]
    BY DEF Zeros
  <2>2. Zeros(n) \in Seq(Int) /\ Len(Zeros(n)) = n
    BY <1>2, <2>1, IsSequence
  <2>3. \A i \in 1..n : Zeros(n)[i] = 0
    BY DEF Zeros
  <2>. QED
    BY <2>2, <2>3
<1>6. Len(angle) = d + 1 + n /\ \A i \in 1..(d + 1 + n) :
          angle[i] = IF i <= d + 1 THEN front[i] ELSE Zeros(n)[i - (d + 1)]
  <2>. DEFINE zeros == Zeros(n)
  <2>1. zeros \in Seq(Int) /\ front \in Seq(Int)
    BY <1>4, <1>5
  <2>. HIDE DEF zeros, front
  <2>2. \A a, b \in Seq(Int) : Len(a \o b) = Len(a) + Len(b)
                /\ \A i \in 1..(Len(a) + Len(b)) :
                       (a \o b)[i] = IF i <= Len(a) THEN a[i] ELSE b[i - Len(a)]
    BY ConcatProperties, Zenon
  <2>3. Len(front \o zeros) = Len(front) + Len(zeros)
                /\ \A i \in 1..(Len(front) + Len(zeros)) :
                       (front \o zeros)[i] = IF i <= Len(front) THEN front[i] ELSE zeros[i - Len(front)]
    BY <2>1, <2>2, Zenon
  <2>4. Len(zeros) = n /\ angle = front \o zeros /\ Len(front) = d + 1
    BY <1>1, <1>4, <1>5 DEF zeros
  <2>. QED
    BY <2>3, <2>4, Zenon DEF zeros
<1>. HIDE DEF front, d
<1>7. ASSUME NEW i \in 1..(d + 1 + n) PROVE angle[i] = Dot <=> i = d + 1
  <2>1. CASE i <= d
    <3>1. i \in 1..d /\ i <= d + 1 /\ i # d + 1
      BY <1>2, <1>3, <2>1
    <3>2. angle[i] = degrees[i] /\ degrees[i] \in 0..9
      BY <1>3, <1>4, <1>6, <3>1
    <3>. QED
      BY <1>2, <3>1, <3>2
  <2>2. CASE i = d + 1
    BY <1>2, <1>3, <1>4, <1>6, <2>2
  <2>3. CASE i > d + 1
    <3>1. i - (d + 1) \in 1..n /\ ~(i <= d + 1) /\ i # d + 1
      BY <1>2, <1>3, <2>3
    <3>2. angle[i] = 0
      BY <1>5, <1>6, <3>1
    <3>. QED
      BY <1>2, <3>1, <3>2
  <2>. QED
    BY <1>2, <1>3, <2>1, <2>2, <2>3
<1>8. HasDotAt(angle, d + 1)
  <2>1. DOMAIN angle = 1..(d + 1 + n) /\ Len(angle) > d + 1
    BY <1>2, <1>3, <1>6
  <2>. QED
    BY <1>7, <2>1 DEF HasDotAt
<1>. QED
  BY <1>2, <1>8 DEF d

\* std::stof() throws for 90.0.
LEMMA NinetyThrows ==
    ASSUME NEW angle \in Seq(Digits \cup {Dot}), IsDegrees(angle, <<9, 0>>)
    PROVE  Degrees(angle) = <<>>
<1>1. <<9, 0>> \in Seq(Digits) /\ Len(<<9, 0>>) = 2
  BY DEF Digits
<1>2. HasDotAt(angle, 3) /\ angle \in Seq(Int)
  <2>1. HasDotAt(angle, 2 + 1) /\ angle \in Seq(Int)
    BY <1>1, DegreesAre
  <2>. QED
    BY <2>1
<1>. DEFINE whole == SubSeq(angle, 1, 2)
<1>3. Split(angle, Dot)[1] = whole
  <2>1. Split(angle, Dot) = <<SubSeq(angle, 1, 3 - 1), SubSeq(angle, 3 + 1, Len(angle))>>
    BY <1>2, 3 \in Nat \ {0}, SplitAtDot
  <2>. QED
    BY <2>1
<1>4. Len(whole) = 2
  BY <1>2 DEF HasDotAt
<1>5. SubSeq(whole, 1, 0) = <<>>
  BY <1>2
<1>. QED
  BY <1>3, <1>4, <1>5 DEF Degrees

LEMMA HalfTurnIsDegrees ==
    ASSUME NEW angle \in Seq(Digits \cup {Dot}), IsDegrees(angle, <<1, 8, 0>>)
    PROVE  InDegrees(angle)
<1>1. <<1, 8, 0>> \in Seq(Digits) /\ Len(<<1, 8, 0>>) = 3
  BY DEF Digits
<1>2. HasDotAt(angle, 4) /\ angle \in Seq(Int)
  <2>1. HasDotAt(angle, 3 + 1) /\ angle \in Seq(Int)
    BY <1>1, DegreesAre
  <2>. QED
    BY <2>1
<1>3. DotOf(angle) = 4
  BY <1>2 DEF HasDotAt, DotOf
<1>. QED
  BY <1>3 DEF InDegrees

\* The bounds of the expression.
LEMMA LatitudeIs ==
    ASSUME NEW angle \in Seq(Digits \cup {Dot}), LatitudeMatches(angle), Degrees(angle) # <<>>
    PROVE  IsAngle(angle, 5)
<1>1. HasDotAt(angle, 5) /\ angle[1] <= 8 /\ MinutesMatch(angle[3], angle[4])
  BY NinetyThrows DEF LatitudeMatches
<1>. DEFINE head == SubSeq(angle, 1, 2)  minute == SubSeq(angle, 3, 4)
<1>2. angle[1] \in 0..9 /\ angle[2] \in 0..9 /\ angle[3] \in 0..9 /\ angle[4] \in 0..9
  <2>1. \A i \in DOMAIN angle : angle[i] # Dot => angle[i] \in 0..9
    BY DEF Digits
  <2>2. \A i \in 1..4 : i \in DOMAIN angle /\ i # 5
    BY <1>1 DEF HasDotAt
  <2>3. \A i \in 1..4 : angle[i] \in 0..9
    BY <1>1, <2>1, <2>2 DEF HasDotAt
  <2>. QED
    BY <2>3
<1>3. angle \in Seq(Int) /\ Len(angle) > 5
  BY <1>1 DEF HasDotAt, Digits, Dot
<1>4. /\ head \in Seq(Int) /\ Len(head) = 2 /\ head[1] = angle[1] /\ head[2] = angle[2]
      /\ minute \in Seq(Int) /\ Len(minute) = 2 /\ minute[1] = angle[3] /\ minute[2] = angle[4]
  BY <1>3
<1>. HIDE DEF head, minute
<1>5. Number(head) = 10 * angle[1] + angle[2] /\ Number(minute) = 10 * angle[3] + angle[4]
  BY <1>4, NumberOf
<1>6. Number(head) <= 179
  <2>1. \A a, b \in 0..9 : a <= 8 => 10 * a + b <= 179
    OBVIOUS
  <2>. QED
    BY <1>1, <1>2, <1>5, <2>1
<1>7. Number(minute) <= 60
  BY <1>1, <1>2, <1>5 DEF MinutesMatch
<1>. QED
  BY <1>1, <1>6, <1>7 DEF IsAngle, head, minute

LEMMA LongitudeIs ==
    ASSUME NEW angle \in Seq(Digits \cup {Dot}), LongitudeMatches(angle), ~InDegrees(angle)
    PROVE  IsAngle(angle, 6)
<1>1. /\ HasDotAt(angle, 6)
      /\ angle[1] = 0 \/ (angle[1] = 1 /\ angle[2] <= 7)
      /\ MinutesMatch(angle[4], angle[5])
  BY HalfTurnIsDegrees DEF LongitudeMatches
<1>. DEFINE head == SubSeq(angle, 1, 3)  minute == SubSeq(angle, 4, 5)
<1>2. angle[1] \in 0..9 /\ angle[2] \in 0..9 /\ angle[3] \in 0..9 /\ angle[4] \in 0..9 /\ angle[5] \in 0..9
  <2>1. \A i \in DOMAIN angle : angle[i] # Dot => angle[i] \in 0..9
    BY DEF Digits
  <2>2. \A i \in 1..5 : i \in DOMAIN angle /\ i # 6
    BY <1>1 DEF HasDotAt
  <2>3. \A i \in 1..5 : angle[i] \in 0..9
    BY <1>1, <2>1, <2>2 DEF HasDotAt
  <2>. QED
    BY <2>3
<1>3. angle \in Seq(Int) /\ Len(angle) > 6
  BY <1>1 DEF HasDotAt, Digits, Dot
<1>4. /\ head \in Seq(Int) /\ Len(head) = 3
      /\ head[1] = angle[1] /\ head[2] = angle[2] /\ head[3] = angle[3]
      /\ minute \in Seq(Int) /\ Len(minute) = 2 /\ minute[1] = angle[4] /\ minute[2] = angle[5]
  BY <1>3
<1>. HIDE DEF head, minute
<1>5. /\ Number(head) = 10 * (10 * angle[1] + angle[2]) + angle[3]
      /\ Number(minute) = 10 * angle[4] + angle[5]
  BY <1>4, NumberOf
<1>6. Number(head) <= 179
  <2>1. \A a, b, c \in 0..9 : a = 0 \/ (a = 1 /\ b <= 7) => 10 * (10 * a + b) + c <= 179
    OBVIOUS
  <2>2. angle[1] = 0 \/ (angle[1] = 1 /\ angle[2] <= 7)
    BY <1>1
  <2>3. 10 * (10 * angle[1] + angle[2]) + angle[3] <= 179
    BY <1>2, <2>1, <2>2
  <2>. QED
    BY <1>5, <2>3
<1>7. Number(minute) <= 60
  BY <1>1, <1>2, <1>5 DEF MinutesMatch
<1>. QED
  BY <1>1, <1>6, <1>7 DEF IsAngle, head, minute

LEMMA AnglesOf ==
    ASSUME NEW s \in Sentences, Decoded[s].kind = "GPGGA"
    PROVE  /\ s.latitude \in Seq(Digits \cup {Dot}) /\ s.longitude \in Seq(Digits \cup {Dot})
           /\ s.north \in BOOLEAN /\ s.east \in BOOLEAN
           /\ Decoded[s].latitude = Bearing(s.latitude, s.north)
           /\ Decoded[s].longitude = Bearing(s.longitude, s.east)
           /\ IsAngle(s.latitude, 5)
           /\ ~InDegrees(s.longitude) => IsAngle(s.longitude, 6)
<1>1. s \in Sentence /\ GpggaMatches(s) /\ ~Throws(s) /\ Decoded[s] = Translated(s)
  BY SampleOf
<1>2. s.latitude \in AngleText /\ s.longitude \in AngleText /\ s.north \in BOOLEAN /\ s.east \in BOOLEAN
  BY <1>1 DEF Sentence
<1>3. s.latitude \in Seq(Digits \cup {Dot}) /\ s.longitude \in Seq(Digits \cup {Dot})
  BY <1>2 DEF AngleText, Digits
<1>4. /\ Decoded[s].latitude = Bearing(s.latitude, s.north)
      /\ Decoded[s].longitude = Bearing(s.longitude, s.east)
  BY <1>1 DEF Translated
<1>5. LatitudeMatches(s.latitude) /\ LongitudeMatches(s.longitude) /\ Degrees(s.latitude) # <<>>
  BY <1>1 DEF GpggaMatches, Throws
<1>. QED
  BY <1>2, <1>3, <1>4, <1>5, LatitudeIs, LongitudeIs

\* The position of a sample is that of its sentence, to within one unit of the
\* last bit of a float: for angles of any number of digits, dividing by 60 and
\* adding lose no more than that (EasyNmeaCoder.hpp:213-224 and 281-298).
THEOREM PositionCorrect == Spec => []PositionIsTheSentences
<1>1. DataInv => PositionIsTheSentences
  <2>. SUFFICES ASSUME DataInv, IsGpgga
                PROVE  /\ IsRead(data.latitude, sentence.latitude, sentence.north)
                       /\ ~InDegrees(sentence.longitude)
                             => IsRead(data.longitude, sentence.longitude, sentence.east)
    BY DEF PositionIsTheSentences
  <2>1. sentence \in Sentences /\ data = Decoded[sentence] /\ data.kind = "GPGGA"
    BY DEF DataInv, IsGpgga
  <2>. QED
    BY <2>1, AnglesOf, AngleRead, 5 \in 5..6, 6 \in 5..6
<1>. QED
  BY <1>1, DataCorrect, PTL

-----------------------------------------------------------------------------
(* Equality *)

LEMMA ZerosAre ==
    ASSUME NEW n \in Nat
    PROVE  Zeros(n) \in Seq(Digits) /\ Len(Zeros(n)) = n /\ Number(Zeros(n)) = 0
<1>. DEFINE Nought == {k \in Nat : Number(Zeros(k)) = 0}
<1>1. \A k \in Nat : Zeros(k) \in Seq(Digits) /\ Len(Zeros(k)) = k /\ Zeros(k) \in Seq(Int)
  <2>. SUFFICES ASSUME NEW k \in Nat
                PROVE  Zeros(k) \in Seq(Digits) /\ Len(Zeros(k)) = k /\ Zeros(k) \in Seq(Int)
    OBVIOUS
  <2>1. Zeros(k) \in [1..k -> Digits]
    BY DEF Zeros, Digits
  <2>2. Zeros(k) \in [1..k -> Int]
    BY DEF Zeros
  <2>. QED
    BY <2>1, <2>2, IsSequence
<1>2. 0 \in Nought
  <2>1. Zeros(0) = <<>>
    BY <1>1
  <2>2. Number(<<>>) = 0
    BY <1>1, NumberAppend, 0 \in Int
  <2>. QED
    BY <2>1, <2>2
<1>3. ASSUME NEW k \in Nat, k \in Nought PROVE k + 1 \in Nought
  <2>. DEFINE z == Zeros(k)  more == Zeros(k + 1)
  <2>1. /\ z \in Seq(Int) /\ Len(z) = k /\ \A i \in 1..k : z[i] = 0
        /\ more \in Seq(Int) /\ Len(more) = k + 1 /\ \A i \in 1..(k + 1) : more[i] = 0
    <3>1. (\A i \in 1..k : z[i] = 0) /\ \A i \in 1..(k + 1) : more[i] = 0
      BY DEF Zeros
    <3>. QED
      BY <1>1, <3>1
  <2>. HIDE DEF z, more
  <2>2. more = Append(z, 0)
    <3>1. /\ Append(z, 0) \in Seq(Int) /\ Len(Append(z, 0)) = k + 1
          /\ \A i \in 1..(k + 1) : Append(z, 0)[i] = 0
      BY <2>1
    <3>. QED
      BY <2>1, <3>1, SeqEqual
  <2>3. Number(z) = 0
    BY <1>3 DEF z
  <2>4. Number(more) = 10 * 0 + 0
    BY <2>1, <2>2, <2>3, NumberAppend, 0 \in Int
  <2>. QED
    BY <2>4 DEF more
<1>4. n \in Nought
  <2>. HIDE DEF Nought
  <2>. QED
    BY <1>2, <1>3, SetInduction
<1>. QED
  BY <1>1, <1>4

LEMMA EndOf ==
    ASSUME NEW text \in Seq(Int), NEW i \in Nat, i < Len(text)
    PROVE  LET end == SubSeq(text, i + 1, Len(text)) IN
           Len(end) = Len(text) - i /\ \A k \in 1..(Len(text) - i) : end[k] = text[i + k]
OBVIOUS

LEMMA AfterEnd ==
    ASSUME NEW l \in Nat, NEW n \in Nat, NEW dot \in Nat, l > dot,
           NEW i \in 1..(l + n - dot), i > l - dot
    PROVE  i - (l - dot) \in 1..n /\ ~(i <= l - dot) /\ l + (i - (l - dot)) = dot + i
OBVIOUS

\* Zeros after the minutes change no angle.
LEMMA SameDegrees ==
    ASSUME NEW a \in Seq(Digits \cup {Dot}), NEW dot \in 5..6, HasDotAt(a, dot),
           Number(SubSeq(a, dot - 2, dot - 1)) <= 60,
           NEW n \in Nat, NEW b \in Seq(Digits \cup {Dot}), b = a \o Zeros(n)
    PROVE  ToDegrees(b) = ToDegrees(a)
<1>. DEFINE head == SubSeq(a, 1, dot - 3)
            minute == SubSeq(a, dot - 2, dot - 1)
            part == SubSeq(a, dot + 1, Len(a))
            zeros == Zeros(n)
            rest == SubSeq(b, dot + 1, Len(b))
<1>1. dot \in Nat /\ Dot \in Int /\ a \in Seq(Int) /\ b \in Seq(Int) /\ Len(a) \in Nat /\ Len(a) > dot
  <2>1. Dot \in Int /\ (Digits \cup {Dot}) \subseteq Int
    BY DEF Dot, Digits
  <2>2. a \in Seq(Int) /\ b \in Seq(Int)
    BY <2>1
  <2>3. Len(a) > dot
    BY DEF HasDotAt
  <2>. QED
    BY <2>1, <2>2, <2>3
<1>2. zeros \in Seq(Digits) /\ Len(zeros) = n /\ Number(zeros) = 0 /\ \A i \in 1..n : zeros[i] = 0
  <2>1. \A i \in 1..n : zeros[i] = 0
    BY DEF Zeros
  <2>. QED
    BY <2>1, ZerosAre
<1>3. /\ Len(b) = Len(a) + n
      /\ \A i \in 1..Len(a) : b[i] = a[i]
      /\ \A i \in 1..n : b[Len(a) + i] = 0
  <2>. DEFINE S == Seq(Digits \cup {Dot})
  <2>1. zeros \in S /\ a \in S
    BY <1>2
  <2>2. \A x, y \in S : Len(x \o y) = Len(x) + Len(y)
                /\ \A i \in 1..(Len(x) + Len(y)) :
                       (x \o y)[i] = IF i <= Len(x) THEN x[i] ELSE y[i - Len(x)]
    BY ConcatProperties, Zenon
  <2>. HIDE DEF S, zeros
  <2>3. b = a \o zeros
    BY DEF zeros
  <2>4. Len(b) = Len(a) + Len(zeros) /\ \A i \in 1..(Len(a) + Len(zeros)) :
                       b[i] = IF i <= Len(a) THEN a[i] ELSE zeros[i - Len(a)]
    BY <2>1, <2>2, <2>3, Zenon
  <2>5. Len(b) = Len(a) + n /\ \A i \in 1..(Len(a) + n) :
                       b[i] = IF i <= Len(a) THEN a[i] ELSE zeros[i - Len(a)]
    BY <1>2, <2>4
  <2>6. \A i \in 1..n : Len(a) + i \in 1..(Len(a) + n) /\ ~(Len(a) + i <= Len(a)) /\ (Len(a) + i) - Len(a) = i
    BY <1>1
  <2>7. \A i \in 1..Len(a) : i \in 1..(Len(a) + n) /\ i <= Len(a)
    BY <1>1
  <2>8. ASSUME NEW i \in 1..n PROVE b[Len(a) + i] = 0
    <3>1. b[Len(a) + i] = zeros[(Len(a) + i) - Len(a)]
      BY <2>5, <2>6, Zenon
    <3>2. zeros[i] = 0
      BY <1>2 DEF zeros
    <3>. QED
      BY <2>6, <3>1, <3>2, Zenon
  <2>9. ASSUME NEW i \in 1..Len(a) PROVE b[i] = a[i]
    BY <2>5, <2>7, Zenon
  <2>. QED
    BY <2>5, <2>8, <2>9
<1>. HIDE DEF zeros
<1>4. HasDotAt(b, dot)
  <2>1. DOMAIN a = 1..Len(a) /\ DOMAIN b = 1..(Len(a) + n) /\ Len(b) > dot
    BY <1>1, <1>3
  <2>2. ASSUME NEW i \in 1..(Len(a) + n) PROVE b[i] = Dot <=> i = dot
    <3>1. CASE i <= Len(a)
      <4>1. i \in 1..Len(a)
        BY <1>1, <3>1
      <4>. QED
        BY <1>3, <2>1, <4>1 DEF HasDotAt
    <3>2. CASE i > Len(a)
      <4>1. i - Len(a) \in 1..n /\ Len(a) + (i - Len(a)) = i /\ i # dot
        BY <1>1, <3>2
      <4>2. b[i] = 0
        BY <1>3, <4>1
      <4>3. 0 # Dot
        BY DEF Dot
      <4>. QED
        BY <4>1, <4>2, <4>3
    <3>3. i <= Len(a) \/ i > Len(a)
      BY <1>1
    <3>. QED
      BY <3>1, <3>2, <3>3, Zenon
  <2>. QED
    BY <2>1, <2>2 DEF HasDotAt
<1>5. SubSeq(b, 1, dot - 3) = head
  <2>. DEFINE t == SubSeq(b, 1, dot - 3)
  <2>1. /\ head \in Seq(Int) /\ Len(head) = dot - 3 /\ \A i \in 1..(dot - 3) : head[i] = a[i]
    BY <1>1
  <2>2. /\ t \in Seq(Int) /\ Len(t) = dot - 3 /\ \A i \in 1..(dot - 3) : t[i] = b[i]
    BY <1>1, <1>3
  <2>3. \A i \in 1..(dot - 3) : i \in 1..Len(a)
    BY <1>1
  <2>. HIDE DEF t, head
  <2>4. \A i \in 1..(dot - 3) : t[i] = head[i]
    BY <1>3, <2>1, <2>2, <2>3
  <2>5. t = head
    BY <2>1, <2>2, <2>4, SeqEqual
  <2>. QED
    BY <2>5 DEF t
<1>6. SubSeq(b, dot - 2, dot - 1) = minute
  <2>. DEFINE t == SubSeq(b, dot - 2, dot - 1)
  <2>1. /\ minute \in Seq(Int) /\ Len(minute) = 2 /\ \A i \in 1..2 : minute[i] = a[dot - 3 + i]
    BY <1>1
  <2>2. /\ t \in Seq(Int) /\ Len(t) = 2 /\ \A i \in 1..2 : t[i] = b[dot - 3 + i]
    BY <1>1, <1>3
  <2>3. \A i \in 1..2 : dot - 3 + i \in 1..Len(a)
    BY <1>1
  <2>. HIDE DEF t, minute
  <2>4. \A i \in 1..2 : t[i] = minute[i]
    BY <1>3, <2>1, <2>2, <2>3
  <2>5. t = minute
    BY <2>1, <2>2, <2>4, SeqEqual
  <2>. QED
    BY <2>5 DEF t
<1>7. /\ minute \in Seq(Digits) /\ part \in Seq(Digits) /\ Len(minute \o part) = 2 + Len(part)
      /\ Len(part) \in Nat
      /\ ToDegrees(a) =
            Plus(Number(head), Sixtieth(Nearest(Number(minute \o part), Power(10, Len(part)))))
  BY PartsOf
<1>8. /\ rest \in Seq(Digits)
      /\ ToDegrees(b) =
            Plus(Number(head), Sixtieth(Nearest(Number(minute \o rest), Power(10, Len(rest)))))
  BY <1>4, <1>5, <1>6, PartsOf
<1>9. rest = part \o zeros
  <2>1. /\ part \in Seq(Digits) /\ Len(part) = Len(a) - dot
        /\ \A i \in 1..(Len(a) - dot) : part[i] = a[dot + i]
    BY <1>1, <1>7, EndOf
  <2>2. /\ Len(rest) = Len(a) + n - dot
        /\ \A i \in 1..(Len(a) + n - dot) : rest[i] = b[dot + i]
    <3>1. Len(b) \in Nat /\ dot < Len(b) /\ Len(b) - dot = Len(a) + n - dot
      BY <1>1, <1>3
    <3>. QED
      BY <1>1, <3>1, EndOf
  <2>. HIDE DEF part, rest
  <2>. DEFINE S == Seq(Digits)
  <2>3. \A x, y \in S : x \o y \in S /\ Len(x \o y) = Len(x) + Len(y)
                /\ \A i \in 1..(Len(x) + Len(y)) :
                       (x \o y)[i] = IF i <= Len(x) THEN x[i] ELSE y[i - Len(x)]
    BY ConcatProperties, Zenon
  <2>4. part \in S /\ zeros \in S
    BY <1>2, <2>1
  <2>. HIDE DEF S
  <2>. DEFINE u == part \o zeros
  <2>5. u \in S /\ Len(u) = Len(part) + Len(zeros)
                /\ \A i \in 1..(Len(part) + Len(zeros)) :
                       u[i] = IF i <= Len(part) THEN part[i] ELSE zeros[i - Len(part)]
    BY <2>3, <2>4
  <2>6. Len(part) + Len(zeros) = Len(a) + n - dot
    BY <1>1, <1>2, <2>1
  <2>. HIDE DEF u
  <2>7. u \in S /\ Len(u) = Len(a) + n - dot
                /\ \A i \in 1..(Len(a) + n - dot) :
                       u[i] = IF i <= Len(a) - dot THEN part[i] ELSE zeros[i - (Len(a) - dot)]
    BY <2>1, <2>5, <2>6
  <2>8. ASSUME NEW i \in 1..(Len(a) + n - dot) PROVE rest[i] = u[i]
    <3>1. CASE i <= Len(a) - dot
      <4>1. i \in 1..(Len(a) - dot) /\ dot + i \in 1..Len(a)
        BY <1>1, <3>1
      <4>. QED
        BY <1>3, <2>1, <2>2, <2>7, <3>1, <4>1
    <3>2. CASE i > Len(a) - dot
      <4>1. /\ i - (Len(a) - dot) \in 1..n /\ ~(i <= Len(a) - dot)
            /\ Len(a) + (i - (Len(a) - dot)) = dot + i
        BY <1>1, <3>2, AfterEnd
      <4>2. b[dot + i] = 0 /\ zeros[i - (Len(a) - dot)] = 0
        BY <1>2, <1>3, <4>1
      <4>. QED
        BY <2>2, <2>7, <4>1, <4>2
    <3>. QED
      BY <1>1, <3>1, <3>2
  <2>9. rest \in Seq(Digits) /\ u \in Seq(Digits) /\ Len(rest) = Len(u)
    BY <1>8, <2>2, <2>7 DEF S
  <2>10. \A i \in 1..Len(rest) : rest[i] = u[i]
    BY <2>2, <2>8
  <2>11. rest = u
    BY <2>9, <2>10, SeqEqual
  <2>. QED
    BY <2>11 DEF u
<1>. DEFINE m == Number(minute \o part)  T == Power(10, Len(part))  k == Power(10, n)
<1>. HIDE DEF head, minute, part, rest
<1>10. minute \o rest = (minute \o part) \o zeros /\ minute \o part \in Seq(Digits)
  <2>. DEFINE S == Seq(Digits)
  <2>1. \A x, y, z \in S : \A v, w : v = x \o y /\ w = y \o z => v \o z = x \o w
    BY ThreeParts
  <2>2. minute \in S /\ part \in S /\ zeros \in S
    BY <1>2, <1>7
  <2>3. minute \o part \in Seq(Digits)
    BY <1>7, ConcatProperties, Zenon
  <2>. HIDE DEF S
  <2>. DEFINE front == minute \o part
  <2>4. front = minute \o part
    OBVIOUS
  <2>. HIDE DEF front
  <2>5. \A v, w : v = minute \o part /\ w = part \o zeros => v \o zeros = minute \o w
    BY <2>1, <2>2, Zenon
  <2>6. front \o zeros = minute \o rest
    BY <1>9, <2>4, <2>5, Zenon
  <2>. QED
    BY <2>3, <2>4, <2>6
<1>11. Number(minute \o rest) = m * k
  <2>. DEFINE front == minute \o part
  <2>1. front \in Seq(Digits) /\ minute \o rest = front \o zeros
    BY <1>10
  <2>. HIDE DEF front
  <2>2. Number(front \o zeros) = Number(front) * Power(10, Len(zeros)) + Number(zeros)
    BY <1>2, <2>1, NumberConcat
  <2>3. Number(front) \in Nat /\ Power(10, n) \in Nat
    BY <2>1, NumberBound, PowerNext, 10 \in Nat
  <2>. DEFINE x == Number(front) * Power(10, n)
  <2>4. x \in Nat /\ Number(minute \o rest) = x + 0
    BY <1>2, <2>1, <2>2, <2>3
  <2>. HIDE DEF x
  <2>5. Number(minute \o rest) = x
    BY <2>4
  <2>. QED
    BY <2>5 DEF x, front
<1>12. Power(10, Len(rest)) = T * k /\ k \in Nat \ {0} /\ T \in Nat \ {0}
  <2>1. Len(rest) = Len(part) + n
    BY <1>2, <1>7, <1>9, ConcatProperties
  <2>. QED
    BY <1>7, <2>1, PowerAdds, 10 \in Nat \ {0}
<1>13. m \in Nat /\ m < 2 * Hidden * T
  <2>1. m = Number(minute) * T + Number(part) /\ Number(part) < T /\ Number(part) \in Nat /\ Number(minute) \in Nat
    BY <1>7, NumberConcat, NumberBound
  <2>2. Number(minute) <= 60
    BY DEF minute
  <2>. DEFINE x == Number(minute) * T
  <2>3. x \in Nat /\ x <= 60 * T
    BY <1>12, <2>1, <2>2, SMTT(30)
  <2>4. 61 <= 2 * Hidden /\ Hidden \in Nat
    BY SMT DEF Hidden
  <2>6. m = x + Number(part) /\ Number(part) < T /\ Number(part) \in Nat /\ T \in Nat
    BY <1>12, <2>1
  <2>. HIDE DEF x, m, T
  <2>. DEFINE h == 2 * Hidden
  <2>7. h \in Nat /\ h >= 61
    BY <2>4
  <2>. HIDE DEF h
  <2>8. h * T >= 61 * T /\ h * T \in Nat
    BY <2>6, <2>7, SMTT(30)
  <2>9. m \in Nat /\ m < 61 * T
    BY <2>3, <2>6
  <2>. DEFINE y == h * T
  <2>10. y \in Nat /\ y >= 61 * T
    BY <2>8
  <2>. HIDE DEF y
  <2>11. m \in Nat /\ m < y
    BY <2>6, <2>9, <2>10
  <2>. QED
    BY <2>11 DEF y, h
<1>14. Nearest(m * k, T * k) = Nearest(m, T)
  <2>. HIDE DEF m, T, k
  <2>. QED
    BY <1>12, <1>13, NearestScaled
<1>. QED
  BY <1>7, <1>8, <1>11, <1>12, <1>14, Zenon

\* Two values of which one float is as near as Converted says are less than a
\* thousandth of a minute apart.
Resolution(p, u) == (p = 65536 /\ u = 61) \/ (p >= 131072 /\ u = 124)
Around(value, b, p, u, K) ==
    120 * (1000 * K) * b - 2 * value * p \in (-(u * (1000 * K)))..(u * (1000 * K))

LEMMA ThousandthApart ==
    ASSUME NEW b \in Int, NEW p \in Nat, NEW u \in Nat, NEW K \in Nat \ {0}, Resolution(p, u),
           NEW S \in Int, NEW R \in Int, Around(S, b, p, u, K), Around(R, b, p, u, K)
    PROVE  ~(S >= R + K)
<1>. USE DEF Resolution, Around
<1>. SUFFICES ASSUME S >= R + K PROVE FALSE
  OBVIOUS
<1>. DEFINE x == S * p  y == R * p  z == K * p  w == 1000 * K
<1>1. x \in Int /\ y \in Int /\ z \in Int /\ w \in Nat /\ 2 * S * p = 2 * x /\ 2 * R * p = 2 * y
  BY SMTT(30)
<1>2. x >= y + z
  <2>1. S * p >= (R + K) * p /\ (R + K) * p = R * p + K * p
    BY SMTT(30)
  <2>. QED
    BY <1>1, <2>1
<1>. DEFINE v == 120 * w * b
<1>3. v \in Int
  BY <1>1, SMTT(30)
<1>4. u * w \in Nat /\ v - 2 * x \in (-(u * w))..(u * w) /\ v - 2 * y \in (-(u * w))..(u * w)
  BY <1>1
<1>5. u * w < z
  <2>1. CASE p = 65536 /\ u = 61
    <3>1. z = 65536 * K /\ u * w = 61000 * K
      BY <2>1
    <3>. QED
      BY <3>1
  <2>2. CASE p >= 131072 /\ u = 124
    <3>1. z >= 131072 * K
      BY <2>2, SMTT(30)
    <3>2. u * w = 124000 * K
      BY <2>2
    <3>. QED
      BY <1>1, <3>1, <3>2
  <2>. QED
    BY <2>1, <2>2
<1>. DEFINE t == u * w
<1>6. t \in Nat /\ v - 2 * x <= t /\ -t <= v - 2 * x /\ v - 2 * y <= t /\ -t <= v - 2 * y /\ t < z
  BY <1>1, <1>3, <1>4, <1>5
<1>. HIDE DEF t, v, x, y, z, w
<1>. QED
  BY <1>1, <1>2, <1>3, <1>6

\* What is within so many units is so too in finer ones, and on either side of
\* zero.
LEMMA Scaled ==
    ASSUME NEW b \in Nat, NEW v \in Nat, NEW p \in Nat, NEW T \in Nat \ {0}, NEW u \in Nat,
           NEW M \in Nat \ {0}, NEW W \in Nat, T * M = W, NEW sign \in {1, -1},
           (120 * T) * b - (2 * v) * p \in (-(u * T))..(u * T)
    PROVE  120 * W * (sign * b) - 2 * (sign * v * M) * p \in (-(u * W))..(u * W)
<1>. DEFINE x == (120 * T) * b - (2 * v) * p
            y == 120 * W * b - 2 * (v * M) * p
<1>1. x \in Int /\ u * T \in Nat /\ x <= u * T /\ -(u * T) <= x
  <2>1. x \in Int /\ u * T \in Nat
    BY SMTT(30)
  <2>. QED
    BY <2>1
<1>2. y = x * M
  <2>1. ((120 * T) * b) * M = 120 * (T * M) * b
    BY SMTT(30)
  <2>2. ((2 * v) * p) * M = 2 * (v * M) * p
    BY SMTT(30)
  <2>3. x * M = ((120 * T) * b) * M - ((2 * v) * p) * M
    BY SMTT(30)
  <2>. QED
    BY <2>1, <2>2, <2>3
<1>3. y \in Int /\ u * W \in Nat /\ y <= u * W /\ -(u * W) <= y
  <2>1. u * W = (u * T) * M
    <3>1. u * (T * M) = (u * T) * M
      BY SMTT(30)
    <3>. QED
      BY <3>1
  <2>. DEFINE t == u * T
  <2>. HIDE DEF x, y, t
  <2>2. t \in Nat /\ x \in Int /\ x <= t /\ -t <= x
    BY <1>1 DEF t
  <2>3. x * M <= t * M /\ (-t) * M <= x * M /\ (-t) * M = -(t * M) /\ x * M \in Int /\ t * M \in Nat
    BY <2>2, SMTT(30)
  <2>. QED
    BY <1>2, <2>1, <2>3 DEF t
<1>4. CASE sign = 1
  <2>1. 120 * W * (sign * b) = 120 * W * b /\ 2 * (sign * v * M) * p = 2 * (v * M) * p
    BY <1>4
  <2>. HIDE DEF x
  <2>2. 120 * W * (sign * b) - 2 * (sign * v * M) * p = y
    BY <2>1
  <2>. HIDE DEF y
  <2>. QED
    BY <1>3, <2>2
<1>5. CASE sign = -1
  <2>1. 120 * W * (sign * b) = -(120 * W * b) /\ 2 * (sign * v * M) * p = -(2 * (v * M) * p)
    BY <1>5, SMTT(30)
  <2>. DEFINE g == 120 * W * b  h == 2 * (v * M) * p
  <2>2. g \in Int /\ h \in Int /\ y = g - h
    BY SMTT(30)
  <2>3. 120 * W * (sign * b) - 2 * (sign * v * M) * p = (-g) - (-h)
    BY <2>1
  <2>. HIDE DEF g, h, y, x
  <2>4. (-g) - (-h) = -y
    BY <2>2
  <2>5. 120 * W * (sign * b) - 2 * (sign * v * M) * p = -y
    BY <2>3, <2>4
  <2>. QED
    BY <1>3, <2>5
<1>. QED
  BY <1>4, <1>5

Sign(positive) == IF positive THEN 1 ELSE -1

\* A float of b * 2^-e for v/T sixtieths of a degree.
Resolves(b, e, v, T) ==
    /\ b \in Nat /\ e \in Nat
    /\ \/ v = 0 /\ e = 0
       \/ e = 16 /\ (120 * T) * b - (2 * v) * Power(2, e) \in (-(61 * T))..(61 * T)
       \/ e > 16 /\ (120 * T) * b - (2 * v) * Power(2, e) \in (-(124 * T))..(124 * T)

LEMMA BearingIs ==
    ASSUME NEW angle \in Seq(Digits \cup {Dot}), NEW dot \in 5..6, IsAngle(angle, dot),
           NEW positive \in BOOLEAN
    PROVE  LET T == Power(10, Places(angle)) IN
           /\ T \in Nat \ {0} /\ Minutes(angle) \in Nat /\ Places(angle) \in Nat
           /\ \E b, e : /\ Bearing(angle, positive).bits = Sign(positive) * b
                        /\ Bearing(angle, positive).exponent = e
                        /\ Resolves(b, e, Minutes(angle), T)
<1>. DEFINE f == ToDegrees(angle)  T == Power(10, Places(angle))  v == Minutes(angle)
            b == f.bits  e == f.exponent
<1>1. T \in Nat \ {0} /\ v \in Nat /\ Converted(f, v, T)
  BY AngleConverted
<1>2. Places(angle) \in Nat
  BY PartsOf DEF IsAngle
<1>3. Bearing(angle, positive) = IF positive THEN f ELSE Negative(f)
  BY DEF Bearing
<1>. HIDE DEF f, v, T
<1>4. f = [bits |-> b, exponent |-> e] /\ b \in Nat /\ e \in Nat
  BY <1>1 DEF Converted, Within
<1>5. Resolves(b, e, v, T)
  <2>1. CASE f = Zero
    <3>1. v = 0 /\ e = 0
      BY <1>1, <2>1 DEF Converted, Zero
    <3>. QED
      BY <1>4, <3>1 DEF Resolves
  <2>2. CASE e = 16 /\ Within(f, 120 * T, 2 * v, 61 * T)
    <3>1. (120 * T) * b - (2 * v) * Power(2, e) \in (-(61 * T))..(61 * T)
      BY <2>2 DEF Within
    <3>. QED
      BY <1>4, <2>2, <3>1 DEF Resolves
  <2>3. CASE e > 16
    <3>1. (120 * T) * b - (2 * v) * Power(2, e) \in (-(124 * T))..(124 * T)
      BY <1>1 DEF Converted, Within
    <3>. QED
      BY <1>4, <2>3, <3>1 DEF Resolves
  <2>. QED
    BY <1>1, <2>1, <2>2, <2>3 DEF Converted
<1>6. CASE positive
  <2>1. Bearing(angle, positive).bits = 1 * b /\ Bearing(angle, positive).exponent = e
    BY <1>3, <1>4, <1>6
  <2>. QED
    BY <1>1, <1>2, <1>5, <1>6, <2>1 DEF Sign, T, v
<1>7. CASE ~positive
  <2>1. Bearing(angle, positive) = [bits |-> -b, exponent |-> e]
    <3>. HIDE DEF b, e
    <3>1. Negative([bits |-> b, exponent |-> e]) = [bits |-> -b, exponent |-> e]
      BY DEF Negative
    <3>. QED
      BY <1>3, <1>4, <1>7, <3>1
  <2>2. -b = (-1) * b
    BY <1>4
  <2>3. Bearing(angle, positive).bits = Sign(positive) * b /\ Bearing(angle, positive).exponent = e
    BY <1>7, <2>1, <2>2 DEF Sign
  <2>. QED
    BY <1>1, <1>2, <1>5, <2>3 DEF T, v
<1>. QED
  BY <1>6, <1>7

LEMMA MaxOf ==
    ASSUME NEW i \in Nat, NEW j \in Nat
    PROVE  LET places == Max({3, i, j}) IN
           places \in Nat /\ 3 <= places /\ i <= places /\ j <= places
<1>. DEFINE P(x) == x \in {3, i, j} /\ \A y \in {3, i, j} : x >= y
<1>1. \E x : P(x)
  <2>1. P(3) \/ P(i) \/ P(j)
    OBVIOUS
  <2>. QED
    BY <2>1
<1>2. Max({3, i, j}) = CHOOSE x : P(x)
  BY DEF Max
<1>3. P(CHOOSE x : P(x))
  BY <1>1, Zenon
<1>. QED
  BY <1>2, <1>3

\* Angles of one float differ by less than a thousandth of a minute.
LEMMA Near ==
    ASSUME NEW a \in Seq(Digits \cup {Dot}), NEW b \in Seq(Digits \cup {Dot}),
           NEW dot \in 5..6, IsAngle(a, dot), IsAngle(b, dot),
           NEW a_positive \in BOOLEAN, NEW b_positive \in BOOLEAN,
           Bearing(a, a_positive) = Bearing(b, b_positive)
    PROVE  IsNear(a, a_positive, b, b_positive)
<1>. DEFINE i == Places(a)  j == Places(b)  places == Max({3, i, j})
            T == Power(10, i)  U == Power(10, j)
            M == Power(10, places - i)  N == Power(10, places - j)  K == Power(10, places - 3)
            v == Minutes(a)  w == Minutes(b)
            s == Sign(a_positive)  t == Sign(b_positive)
            S == s * v * M  R == t * w * N
<1>1. PICK x, e : /\ Bearing(a, a_positive).bits = s * x
                  /\ Bearing(a, a_positive).exponent = e /\ Resolves(x, e, v, T)
  BY BearingIs
<1>2. PICK y, g : /\ Bearing(b, b_positive).bits = t * y
                  /\ Bearing(b, b_positive).exponent = g /\ Resolves(y, g, w, U)
  BY BearingIs
<1>3. /\ T \in Nat \ {0} /\ U \in Nat \ {0} /\ v \in Nat /\ w \in Nat
      /\ i \in Nat /\ j \in Nat /\ s \in {1, -1} /\ t \in {1, -1}
  <2>1. T \in Nat \ {0} /\ v \in Nat /\ i \in Nat
    BY BearingIs
  <2>2. U \in Nat \ {0} /\ w \in Nat /\ j \in Nat
    BY BearingIs
  <2>. QED
    BY <2>1, <2>2 DEF Sign
<1>4. s * x = t * y /\ e = g
  BY <1>1, <1>2
<1>5. /\ M \in Nat \ {0} /\ N \in Nat \ {0} /\ K \in Nat \ {0}
      /\ T * M = 1000 * K /\ U * N = 1000 * K
  <2>1. places \in Nat /\ 3 <= places /\ i <= places /\ j <= places
    BY <1>3, MaxOf
  <2>. HIDE DEF places, i, j
  <2>2. places - i \in Nat /\ places - j \in Nat /\ places - 3 \in Nat
        /\ i + (places - i) = places /\ j + (places - j) = places /\ 3 + (places - 3) = places
    BY <1>3, <2>1
  <2>3. ASSUME NEW m \in Nat, NEW n \in Nat
        PROVE  Power(10, m + n) = Power(10, m) * Power(10, n) /\ Power(10, n) \in Nat \ {0}
    BY PowerAdds, 10 \in Nat \ {0}
  <2>4. Power(10, places) = T * M /\ M \in Nat \ {0}
    BY <1>3, <2>2, <2>3
  <2>5. Power(10, places) = U * N /\ N \in Nat \ {0}
    BY <1>3, <2>2, <2>3
  <2>6. Power(10, places) = Power(10, 3) * K /\ K \in Nat \ {0}
    BY <2>2, <2>3
  <2>7. Power(10, 3) = 1000
    <3>1. Power(10, 0 + 1) = 10 * Power(10, 0) /\ Power(10, 0) = 1
      BY PowerNext, 10 \in Nat, 0 \in Nat
    <3>2. Power(10, 1 + 1) = 10 * Power(10, 1)
      BY PowerNext, 10 \in Nat, 1 \in Nat
    <3>3. Power(10, 2 + 1) = 10 * Power(10, 2)
      BY PowerNext, 10 \in Nat, 2 \in Nat
    <3>. QED
      BY <3>1, <3>2, <3>3
  <2>. HIDE DEF T, U, M, N, K
  <2>. QED
    BY <2>4, <2>5, <2>6, <2>7
<1>6. Signed(a, a_positive, places) = S /\ Signed(b, b_positive, places) = R
  BY DEF Signed, Sign
<1>7. S - R \in (1 - K)..(K - 1)
  <2>. DEFINE p == Power(2, e)  W == 1000 * K
  <2>1. x \in Nat /\ y \in Nat /\ e \in Nat /\ p \in Nat /\ W \in Nat
    <3>1. x \in Nat /\ y \in Nat /\ e \in Nat
      BY <1>1, <1>2 DEF Resolves
    <3>. QED
      <4>1. p \in Nat
        BY <3>1, PowerNext, 2 \in Nat
      <4>. HIDE DEF p, K
      <4>2. W \in Nat
        BY <1>5
      <4>. QED
        BY <3>1, <4>1, <4>2
  <2>. HIDE DEF T, U, M, N, K, v, w, s, t, i, j, places
  <2>2. S \in Int /\ R \in Int
    BY <1>3, <1>5
  <2>3. ASSUME NEW u \in Nat, (p = 65536 /\ u = 61) \/ (p >= 131072 /\ u = 124),
               (120 * T) * x - (2 * v) * p \in (-(u * T))..(u * T),
               (120 * U) * y - (2 * w) * p \in (-(u * U))..(u * U)
        PROVE  S - R \in (1 - K)..(K - 1)
    <3>0. Resolution(p, u)
      BY <2>3 DEF Resolution
    <3>. HIDE DEF p, W
    <3>1. T * M = W /\ U * N = W
      BY <1>5 DEF W
    <3>2. 120 * W * (s * x) - 2 * S * p \in (-(u * W))..(u * W)
      BY <1>3, <1>5, <2>1, <2>3, <3>1, Scaled
    <3>3. 120 * W * (t * y) - 2 * R * p \in (-(u * W))..(u * W)
      BY <1>3, <1>5, <2>1, <2>3, <3>1, Scaled
    <3>. DEFINE z == s * x
    <3>4. z \in Int /\ z = t * y
      BY <1>3, <1>4, <2>1
    <3>. HIDE DEF z, S, R
    <3>5. Around(S, z, p, u, K) /\ Around(R, z, p, u, K)
      BY <3>2, <3>3, <3>4 DEF W, z, Around
    <3>6. ~(S >= R + K) /\ ~(R >= S + K)
      <4>1. K \in Nat \ {0} /\ p \in Nat
        BY <1>5, <2>1
      <4>2. ~(S >= R + K)
        BY <2>2, <3>0, <3>4, <3>5, <4>1, ThousandthApart, Zenon
      <4>3. ~(R >= S + K)
        BY <2>2, <3>0, <3>4, <3>5, <4>1, ThousandthApart, Zenon
      <4>. QED
        BY <4>2, <4>3
    <3>. QED
      BY <1>5, <2>2, <3>6
  <2>4. CASE e = 0
    <3>1. v = 0 /\ w = 0
      BY <1>1, <1>2, <1>4, <2>4 DEF Resolves
    <3>2. S = 0 /\ R = 0
      BY <1>3, <1>5, <3>1
    <3>. QED
      BY <1>5, <3>2
  <2>5. CASE e = 16
    <3>1. p = 65536
      BY <2>5, PowersOfTwo
    <3>2. /\ (120 * T) * x - (2 * v) * p \in (-(61 * T))..(61 * T)
          /\ (120 * U) * y - (2 * w) * p \in (-(61 * U))..(61 * U)
      BY <1>1, <1>2, <1>4, <2>5 DEF Resolves
    <3>. HIDE DEF p
    <3>. QED
      BY <2>3, <3>1, <3>2
  <2>6. CASE e > 16
    <3>1. p >= 131072
      <4>1. CASE e = 17
        BY <4>1, PowersOfTwo
      <4>2. CASE e > 17
        <5>1. 2 * Power(2, 17) <= p /\ Power(2, 17) = 131072
          BY <2>1, <4>2, PowersOfTwo, PowersGrow
        <5>. QED
          BY <2>1, <5>1
      <4>. QED
        BY <2>1, <2>6, <4>1, <4>2
    <3>2. /\ (120 * T) * x - (2 * v) * p \in (-(124 * T))..(124 * T)
          /\ (120 * U) * y - (2 * w) * p \in (-(124 * U))..(124 * U)
      BY <1>1, <1>2, <1>4, <2>1, <2>6 DEF Resolves
    <3>. HIDE DEF p
    <3>. QED
      BY <2>3, <3>1, <3>2
  <2>. QED
    BY <1>1, <2>4, <2>5, <2>6 DEF Resolves
<1>. QED
  BY <1>6, <1>7, Zenon DEF IsNear

LEMMA NegativeIs ==
    ASSUME NEW f, f = [bits |-> f.bits, exponent |-> f.exponent]
    PROVE  Negative(f) = [bits |-> -f.bits, exponent |-> f.exponent]
<1>1. PICK b, e : b = f.bits /\ e = f.exponent
  OBVIOUS
<1>2. f = [bits |-> b, exponent |-> e]
  BY <1>1
<1>3. Negative([bits |-> b, exponent |-> e]) = [bits |-> -b, exponent |-> e]
  BY DEF Negative
<1>. QED
  BY <1>1, <1>2, <1>3

\* Below zero only the numbers below zero.
LEMMA TenthsSign ==
    ASSUME NEW n \in (-SevenDigits)..SevenDigits
    PROVE  /\ Tenths(n).bits \in Int
           /\ n >= 0 => Tenths(n) = Nearest(n, 10) /\ Tenths(n).bits >= 0
           /\ n < 0 => /\ Tenths(n).bits < 0 /\ -n \in 0..SevenDigits
                       /\ Nearest(-n, 10) = [bits |-> -Tenths(n).bits, exponent |-> Tenths(n).exponent]
<1>. DEFINE k == IF n < 0 THEN -n ELSE n
            f == Nearest(k, 10)
<1>0. SevenDigits \in Nat /\ k \in 0..SevenDigits
  <2>1. SevenDigits \in Nat
    BY BoundsType
  <2>. QED
    BY <2>1
<1>1. k # 0 => /\ f = [bits |-> f.bits, exponent |-> f.exponent]
               /\ f.bits \in Nat /\ f.bits > 0
  <2>. SUFFICES ASSUME k # 0
                PROVE  /\ f = [bits |-> f.bits, exponent |-> f.exponent]
                       /\ f.bits \in Nat /\ f.bits > 0
    OBVIOUS
  <2>1. /\ Normal(f.bits) /\ f.bits \in Nat
        /\ f = [bits |-> f.bits, exponent |-> f.exponent]
    <3>. HIDE DEF k
    <3>1. k \in Nat \ {0} /\ k <= SevenDigits
      BY <1>0
    <3>. QED
      BY <3>1, TenthPlaces DEF Within
  <2>. HIDE DEF f
  <2>. QED
    BY <2>1, NormalOrNot
<1>2. n = 0 => Nearest(n, 10).bits = 0
  BY DEF Nearest, Zero
<1>3. CASE n >= 0
  <2>1. k = n /\ Tenths(n) = Nearest(n, 10)
    BY <1>3 DEF Tenths
  <2>2. Nearest(n, 10).bits \in Int /\ Nearest(n, 10).bits >= 0
    <3>1. CASE n = 0
      BY <1>2, <3>1
    <3>2. CASE n # 0
      BY <1>1, <2>1, <3>2
    <3>. QED
      BY <3>1, <3>2
  <2>. QED
    BY <1>3, <2>1, <2>2
<1>4. CASE n < 0
  <2>1. k = -n /\ k # 0 /\ Tenths(n) = Negative(f)
    BY <1>4 DEF Tenths
  <2>2. Nearest(-n, 10) = f
    BY <2>1
  <2>. HIDE DEF f, k
  <2>3. Negative(f) = [bits |-> -f.bits, exponent |-> f.exponent]
    BY <1>1, <2>1, NegativeIs
  <2>4. Tenths(n).bits = -f.bits /\ Tenths(n).exponent = f.exponent
    BY <2>1, <2>3
  <2>5. f.bits \in Nat /\ f.bits > 0 /\ f = [bits |-> f.bits, exponent |-> f.exponent]
    BY <1>1, <2>1
  <2>6. f.bits = -Tenths(n).bits
    BY <2>4, <2>5
  <2>7. f = [bits |-> -Tenths(n).bits, exponent |-> Tenths(n).exponent]
    BY <2>4, <2>5, <2>6
  <2>8. Tenths(n).bits \in Int /\ Tenths(n).bits < 0
    BY <2>4, <2>5
  <2>. QED
    BY <1>0, <1>4, <2>1, <2>2, <2>7, <2>8
<1>. QED
  BY <1>3, <1>4, <1>0

LEMMA TenthsApart ==
    ASSUME NEW n \in (-SevenDigits)..SevenDigits, NEW m \in (-SevenDigits)..SevenDigits,
           Tenths(n) = Tenths(m)
    PROVE  n = m
<1>0. SevenDigits \in Nat
  BY BoundsType
<1>1. CASE n >= 0 /\ m >= 0
  <2>1. Nearest(n, 10) = Nearest(m, 10)
    BY <1>1, TenthsSign
  <2>2. n \in 0..SevenDigits /\ m \in 0..SevenDigits
    BY <1>0, <1>1
  <2>. QED
    BY <2>1, <2>2, NearestTenths
<1>2. CASE n < 0 /\ m < 0
  <2>1. Nearest(-n, 10) = Nearest(-m, 10) /\ -n \in 0..SevenDigits /\ -m \in 0..SevenDigits
    BY <1>2, TenthsSign
  <2>. DEFINE a == -n  b == -m
  <2>2. a = b
    <3>. HIDE DEF a, b
    <3>1. Nearest(a, 10) = Nearest(b, 10) /\ a \in 0..SevenDigits /\ b \in 0..SevenDigits
      BY <2>1 DEF a, b
    <3>. QED
      BY <3>1, NearestTenths
  <2>. QED
    BY <1>0, <2>2
<1>3. CASE n >= 0 /\ m < 0
  <2>1. Tenths(n).bits >= 0 /\ Tenths(m).bits < 0
    BY <1>3, TenthsSign
  <2>. DEFINE b == Tenths(m).bits
  <2>2. b \in Int /\ b >= 0 /\ b < 0
    BY <2>1, TenthsSign
  <2>. HIDE DEF b
  <2>. QED
    BY <2>2
<1>4. CASE n < 0 /\ m >= 0
  <2>1. Tenths(n).bits < 0 /\ Tenths(m).bits >= 0
    BY <1>4, TenthsSign
  <2>. DEFINE b == Tenths(m).bits
  <2>2. b \in Int /\ b >= 0 /\ b < 0
    BY <2>1, TenthsSign
  <2>. HIDE DEF b
  <2>. QED
    BY <2>2
<1>. QED
  BY <1>0, <1>1, <1>2, <1>3, <1>4

\* Optional fields tell what a sentence gives.
LEMMA NoUpdateIs == Negative(Nearest(1, 1)).bits < 0
<1>. DEFINE f == Nearest(1, 1)
<1>1. Normal(f.bits) /\ f = [bits |-> f.bits, exponent |-> f.exponent] /\ f.bits \in Nat
  <2>1. 1 < Hidden * 1 /\ 1 \in Nat \ {0}
    BY SMT DEF Hidden
  <2>2. Within(f, 2 * 1, 2 * 1, 1) /\ Normal(f.bits) /\ f = [bits |-> f.bits, exponent |-> f.exponent]
    BY <2>1, NearestWithin
  <2>. QED
    BY <2>2 DEF Within
<1>. HIDE DEF f
<1>2. f.bits > 0
  BY <1>1, NormalOrNot
<1>3. Negative(f) = [bits |-> -f.bits, exponent |-> f.exponent]
  BY <1>1, NegativeIs
<1>4. Negative(f).bits < 0
  BY <1>1, <1>2, <1>3
<1>. QED
  BY <1>4 DEF f

LEMMA UpdateApart ==
    ASSUME NEW a, NEW b, NEW field, UpdateIs(a, field), UpdateIs(b, field),
           \A n \in a \cup b : n \in (-SevenDigits)..SevenDigits
    PROVE  a = b
<1>. DEFINE none == Negative(Nearest(1, 1))
<1>1. none.bits < 0
  BY NoUpdateIs
<1>. HIDE DEF none
<1>2. /\ (a = {} /\ field = none) \/ (\E n \in Nat : a = {n} /\ field = Tenths(n))
      /\ (b = {} /\ field = none) \/ (\E n \in Nat : b = {n} /\ field = Tenths(n))
  BY DEF UpdateIs, none
<1>3. ASSUME NEW n \in Nat, n \in (-SevenDigits)..SevenDigits PROVE Tenths(n) # none
  <2>1. n >= 0
    OBVIOUS
  <2>2. Tenths(n).bits \in Int /\ Tenths(n).bits >= 0
    BY <1>3, <2>1, TenthsSign
  <2>. DEFINE x == Tenths(n).bits
  <2>3. x \in Int /\ x >= 0 /\ (Tenths(n) = none => x < 0)
    BY <1>1, <2>2
  <2>. HIDE DEF x
  <2>. QED
    BY <2>3
<1>4. CASE a = {}
  <2>1. field = none
    BY <1>2, <1>4
  <2>. QED
    BY <1>2, <1>3, <1>4, <2>1
<1>5. CASE b = {}
  <2>1. field = none
    BY <1>2, <1>5
  <2>. QED
    BY <1>2, <1>3, <1>5, <2>1
<1>6. CASE a # {} /\ b # {}
  <2>1. PICK n \in Nat : a = {n} /\ field = Tenths(n)
    BY <1>2, <1>6
  <2>2. PICK m \in Nat : b = {m} /\ field = Tenths(m)
    BY <1>2, <1>6
  <2>3. n = m
    BY <2>1, <2>2, TenthsApart
  <2>. QED
    BY <2>1, <2>2, <2>3
<1>. QED
  BY <1>4, <1>5, <1>6

LEMMA StationApart ==
    ASSUME NEW a, NEW field, StationIs(a, field), \A n \in a : n < Uint16Values
    PROVE  a \ {0} = {field} \ {0}
<1>1. CASE a = {} /\ field = 0
  BY <1>1
<1>2. ASSUME NEW n \in Nat, a = {n}, field = ToUint16(n)
      PROVE  a \ {0} = {field} \ {0}
  <2>1. field = n
    BY <1>2 DEF ToUint16, Uint16Values
  <2>. QED
    BY <1>2, <2>1
<1>. QED
  BY <1>1, <1>2 DEF StationIs

LEMMA UpdateSame ==
    ASSUME NEW a, NEW f, NEW g, UpdateIs(a, f), UpdateIs(a, g)
    PROVE  f = g
BY DEF UpdateIs

LEMMA EqualIs ==
    ASSUME NEW a, NEW b
    PROVE  Equal(a, b) <=>
               /\ a.kind = b.kind
               /\ a.timestamp = b.timestamp
               /\ a.latitude = b.latitude
               /\ a.longitude = b.longitude
               /\ a.fix = b.fix
               /\ a.satellites_on_view = b.satellites_on_view
               /\ a.horizontal_precision = b.horizontal_precision
               /\ a.altitude = b.altitude
               /\ a.height_of_geoid = b.height_of_geoid
               /\ a.dgps_last_update = b.dgps_last_update
               /\ a.dgps_reference_station_id = b.dgps_reference_station_id
<1>1. DOMAIN EmptyData =
          {"kind", "timestamp", "latitude", "longitude", "fix", "satellites_on_view",
           "horizontal_precision", "altitude", "height_of_geoid", "dgps_last_update",
           "dgps_reference_station_id"}
  BY DEF EmptyData
<1>. QED
  BY <1>1 DEF Equal

\* The fields of a sample whose numbers are told apart.
IsSample(s) == s \in Sentences /\ Decoded[s].kind = "GPGGA" /\ AreApart(s)

LEMMA FieldsOf ==
    ASSUME NEW s, IsSample(s)
    PROVE  LET d == Decoded[s] IN
           /\ d.timestamp = Timestamp(s.time) /\ d.fix = s.fix
           /\ d.satellites_on_view = s.satellites
           /\ d.horizontal_precision = Tenths(s.hdop) /\ d.altitude = Tenths(s.altitude)
           /\ d.height_of_geoid = Tenths(s.height)
           /\ \A n \in {s.hdop, s.altitude, s.height} \cup Given(s.tail, 0) :
                  n \in (-SevenDigits)..SevenDigits
           /\ \A n \in Given(s.tail, 1) : n < Uint16Values
<1>1. s \in Sentence /\ GpggaMatches(s) /\ ~Throws(s) /\ Decoded[s] = Translated(s)
  BY SampleOf DEF IsSample
<1>2. AreApart(s)
  BY DEF IsSample
<1>3. \A n \in {s.hdop, s.altitude, s.height} \cup Given(s.tail, 0) :
          n \in (-SevenDigits)..SevenDigits
  BY <1>2, Zenon DEF AreApart
<1>4. \A n \in Given(s.tail, 1) : n < Uint16Values
  BY <1>2, Zenon DEF AreApart, Fits
<1>5. ToUint16(s.satellites) = s.satellites
  <2>. DEFINE n == s.satellites
  <2>1. n \in Numeral
    BY <1>1 DEF Sentence
  <2>2. n >= 0 /\ n < Uint16Values
    <3>1. n < Uint16Values
      BY <1>2, Zenon DEF AreApart, Fits
    <3>2. n # TooLong /\ (n >= 0 \/ n = TooLong)
      BY <1>1, Zenon DEF GpggaMatches, Throws
    <3>. QED
      BY <3>1, <3>2
  <2>3. n \in Int
    BY <2>1 DEF Numeral
  <2>. HIDE DEF n
  <2>4. n % 65536 = n
    BY <2>2, <2>3, SMT DEF Uint16Values
  <2>5. ToUint16(n) = n
    BY <2>4 DEF ToUint16, Uint16Values
  <2>. QED
    BY <2>5 DEF n
<1>6. /\ Decoded[s].timestamp = Timestamp(s.time) /\ Decoded[s].fix = s.fix
      /\ Decoded[s].satellites_on_view = ToUint16(s.satellites)
      /\ Decoded[s].horizontal_precision = Tenths(s.hdop)
      /\ Decoded[s].altitude = Tenths(s.altitude)
      /\ Decoded[s].height_of_geoid = Tenths(s.height)
  BY <1>1 DEF Translated
<1>. QED
  BY <1>3, <1>4, <1>5, <1>6

LEMMA EqualSaid ==
    ASSUME NEW s, NEW t, IsSample(s), IsSample(t), ~InDegrees(s.longitude), ~InDegrees(t.longitude),
           Equal(Decoded[s], Decoded[t])
    PROVE  /\ Says(s) = Says(t)
           /\ IsNear(s.latitude, s.north, t.latitude, t.north)
           /\ IsNear(s.longitude, s.east, t.longitude, t.east)
<1>. DEFINE a == Decoded[s]  b == Decoded[t]
<1>1. /\ a.latitude = b.latitude /\ a.longitude = b.longitude /\ a.fix = b.fix
      /\ a.satellites_on_view = b.satellites_on_view
      /\ a.horizontal_precision = b.horizontal_precision /\ a.altitude = b.altitude
      /\ a.height_of_geoid = b.height_of_geoid
      /\ a.dgps_last_update = b.dgps_last_update
      /\ a.dgps_reference_station_id = b.dgps_reference_station_id
  BY EqualIs
<1>. HIDE DEF a, b
<1>2. s.fix = t.fix /\ s.satellites = t.satellites
  BY <1>1, FieldsOf DEF a, b
<1>3. /\ \A n \in {s.hdop, s.altitude, s.height, t.hdop, t.altitude, t.height} :
             n \in (-SevenDigits)..SevenDigits
      /\ Tenths(s.hdop) = Tenths(t.hdop) /\ Tenths(s.altitude) = Tenths(t.altitude)
      /\ Tenths(s.height) = Tenths(t.height)
  BY <1>1, FieldsOf DEF a, b
<1>4. s.hdop = t.hdop
  BY <1>3, TenthsApart
<1>5. s.altitude = t.altitude /\ s.height = t.height
  BY <1>3, TenthsApart
<1>6. /\ UpdateIs(Given(s.tail, 0), a.dgps_last_update)
      /\ StationIs(Given(s.tail, 1), a.dgps_reference_station_id)
      /\ UpdateIs(Given(t.tail, 0), b.dgps_last_update)
      /\ StationIs(Given(t.tail, 1), b.dgps_reference_station_id)
  BY OptionalOf DEF IsSample, a, b
<1>7. Given(s.tail, 0) = Given(t.tail, 0)
  <2>1. \A n \in Given(s.tail, 0) \cup Given(t.tail, 0) : n \in (-SevenDigits)..SevenDigits
    BY FieldsOf
  <2>. QED
    BY <1>1, <1>6, <2>1, UpdateApart
<1>8. Given(s.tail, 1) \ {0} = Given(t.tail, 1) \ {0}
  <2>1. \A n \in Given(s.tail, 1) \cup Given(t.tail, 1) : n < Uint16Values
    BY FieldsOf
  <2>2. Given(s.tail, 1) \ {0} = {a.dgps_reference_station_id} \ {0}
    BY <1>6, <2>1, StationApart
  <2>3. Given(t.tail, 1) \ {0} = {b.dgps_reference_station_id} \ {0}
    BY <1>6, <2>1, StationApart
  <2>. QED
    BY <1>1, <2>2, <2>3
<1>9. Says(s) = Says(t)
  BY <1>2, <1>4, <1>5, <1>7, <1>8 DEF Says
<1>10. /\ IsNear(s.latitude, s.north, t.latitude, t.north)
       /\ IsNear(s.longitude, s.east, t.longitude, t.east)
  <2>1. /\ s.latitude \in Seq(Digits \cup {Dot}) /\ s.longitude \in Seq(Digits \cup {Dot})
        /\ s.north \in BOOLEAN /\ s.east \in BOOLEAN
        /\ a.latitude = Bearing(s.latitude, s.north) /\ a.longitude = Bearing(s.longitude, s.east)
        /\ IsAngle(s.latitude, 5) /\ IsAngle(s.longitude, 6)
    BY AnglesOf DEF IsSample, a
  <2>2. /\ t.latitude \in Seq(Digits \cup {Dot}) /\ t.longitude \in Seq(Digits \cup {Dot})
        /\ t.north \in BOOLEAN /\ t.east \in BOOLEAN
        /\ b.latitude = Bearing(t.latitude, t.north) /\ b.longitude = Bearing(t.longitude, t.east)
        /\ IsAngle(t.latitude, 5) /\ IsAngle(t.longitude, 6)
    BY AnglesOf DEF IsSample, b
  <2>. QED
    BY <1>1, <2>1, <2>2, Near, 5 \in 5..6, 6 \in 5..6
<1>. QED
  BY <1>9, <1>10

LEMMA SameBearing ==
    ASSUME NEW a \in Seq(Digits \cup {Dot}), NEW b \in Seq(Digits \cup {Dot}),
           NEW dot \in 5..6, IsAngle(a, dot), IsAngle(b, dot), IsSame(a, b), NEW positive
    PROVE  Bearing(a, positive) = Bearing(b, positive)
<1>1. PICK n \in 0..MostDigits : a \o Zeros(n) = b \/ b \o Zeros(n) = a
  BY DEF IsSame
<1>2. n \in Nat
  BY DEF MostDigits
<1>3. /\ HasDotAt(a, dot) /\ Number(SubSeq(a, dot - 2, dot - 1)) <= 60
      /\ HasDotAt(b, dot) /\ Number(SubSeq(b, dot - 2, dot - 1)) <= 60
  BY DEF IsAngle
<1>4. ToDegrees(a) = ToDegrees(b)
  BY <1>1, <1>2, <1>3, SameDegrees
<1>. QED
  BY <1>4 DEF Bearing

LEMMA SaidEqual ==
    ASSUME NEW s, NEW t, IsSample(s), IsSample(t), ~InDegrees(s.longitude), ~InDegrees(t.longitude),
           Says(s) = Says(t), s.time = t.time,
           s.north = t.north, IsSame(s.latitude, t.latitude),
           s.east = t.east, IsSame(s.longitude, t.longitude)
    PROVE  Equal(Decoded[s], Decoded[t])
<1>. DEFINE a == Decoded[s]  b == Decoded[t]
<1>1. /\ s.fix = t.fix /\ s.satellites = t.satellites /\ s.hdop = t.hdop
      /\ s.altitude = t.altitude /\ s.height = t.height
      /\ Given(s.tail, 0) = Given(t.tail, 0)
      /\ Given(s.tail, 1) \ {0} = Given(t.tail, 1) \ {0}
  BY DEF Says
<1>. HIDE DEF a, b
<1>2. /\ a.timestamp = b.timestamp /\ a.fix = b.fix
      /\ a.satellites_on_view = b.satellites_on_view
      /\ a.horizontal_precision = b.horizontal_precision /\ a.altitude = b.altitude
      /\ a.height_of_geoid = b.height_of_geoid
  BY <1>1, FieldsOf DEF a, b
<1>3. /\ UpdateIs(Given(s.tail, 0), a.dgps_last_update)
      /\ StationIs(Given(s.tail, 1), a.dgps_reference_station_id)
      /\ UpdateIs(Given(t.tail, 0), b.dgps_last_update)
      /\ StationIs(Given(t.tail, 1), b.dgps_reference_station_id)
  BY OptionalOf DEF IsSample, a, b
<1>4. a.dgps_last_update = b.dgps_last_update
  BY <1>1, <1>3, UpdateSame
<1>5. a.dgps_reference_station_id = b.dgps_reference_station_id
  <2>1. \A n \in Given(s.tail, 1) \cup Given(t.tail, 1) : n < Uint16Values
    BY FieldsOf
  <2>2. Given(s.tail, 1) \ {0} = {a.dgps_reference_station_id} \ {0}
    BY <1>3, <2>1, StationApart
  <2>3. Given(t.tail, 1) \ {0} = {b.dgps_reference_station_id} \ {0}
    BY <1>3, <2>1, StationApart
  <2>. QED
    BY <1>1, <2>2, <2>3
<1>6. a.latitude = b.latitude /\ a.longitude = b.longitude
  <2>1. /\ s.latitude \in Seq(Digits \cup {Dot}) /\ s.longitude \in Seq(Digits \cup {Dot})
        /\ a.latitude = Bearing(s.latitude, s.north) /\ a.longitude = Bearing(s.longitude, s.east)
        /\ IsAngle(s.latitude, 5) /\ IsAngle(s.longitude, 6)
    BY AnglesOf DEF IsSample, a
  <2>2. /\ t.latitude \in Seq(Digits \cup {Dot}) /\ t.longitude \in Seq(Digits \cup {Dot})
        /\ b.latitude = Bearing(t.latitude, t.north) /\ b.longitude = Bearing(t.longitude, t.east)
        /\ IsAngle(t.latitude, 5) /\ IsAngle(t.longitude, 6)
    BY AnglesOf DEF IsSample, b
  <2>3. Bearing(s.latitude, s.north) = Bearing(t.latitude, s.north)
    BY <2>1, <2>2, SameBearing, 5 \in 5..6
  <2>4. Bearing(s.longitude, s.east) = Bearing(t.longitude, s.east)
    BY <2>1, <2>2, SameBearing, 6 \in 5..6
  <2>. QED
    BY <2>1, <2>2, <2>3, <2>4
<1>7. a.kind = b.kind
  BY DEF IsSample, a, b
<1>8. Equal(a, b)
  BY <1>2, <1>4, <1>5, <1>6, <1>7, EqualIs
<1>. QED
  BY <1>8 DEF a, b

\* Samples compare equal only if their sentences said the same, of the position
\* to a thousandth of a minute, and they do if both said it at the same time,
\* whatever zeros their minutes end in and whether an optional field was empty
\* or left out (data.hpp:157-171, EasyNmeaCoder.hpp:212-239).
THEOREM EqualityCorrect == Spec => EqualSamplesSaidTheSame
<1>1. DataInv /\ DataInv' /\ [Next]_coder_vars =>
          [IsGpgga /\ AreApart(sentence) /\ ~InDegrees(sentence.longitude)
           /\ IsGpgga' /\ AreApart(sentence') /\ ~InDegrees(sentence'.longitude)
           => /\ Equal(data, data')
                 => /\ Says(sentence) = Says(sentence')
                    /\ IsNear(sentence.latitude, sentence.north, sentence'.latitude, sentence'.north)
                    /\ IsNear(sentence.longitude, sentence.east, sentence'.longitude, sentence'.east)
              /\ /\ Says(sentence) = Says(sentence') /\ sentence.time = sentence'.time
                 /\ sentence.north = sentence'.north /\ IsSame(sentence.latitude, sentence'.latitude)
                 /\ sentence.east = sentence'.east /\ IsSame(sentence.longitude, sentence'.longitude)
                 => Equal(data, data')]_coder_vars
  <2>. SUFFICES ASSUME DataInv, DataInv',
                       IsGpgga, AreApart(sentence), ~InDegrees(sentence.longitude),
                       IsGpgga', AreApart(sentence'), ~InDegrees(sentence'.longitude)
                PROVE  /\ Equal(data, data')
                          => /\ Says(sentence) = Says(sentence')
                             /\ IsNear(sentence.latitude, sentence.north, sentence'.latitude, sentence'.north)
                             /\ IsNear(sentence.longitude, sentence.east, sentence'.longitude, sentence'.east)
                       /\ /\ Says(sentence) = Says(sentence') /\ sentence.time = sentence'.time
                          /\ sentence.north = sentence'.north /\ IsSame(sentence.latitude, sentence'.latitude)
                          /\ sentence.east = sentence'.east /\ IsSame(sentence.longitude, sentence'.longitude)
                          => Equal(data, data')
    OBVIOUS
  <2>1. IsSample(sentence) /\ IsSample(sentence') /\ data = Decoded[sentence] /\ data' = Decoded[sentence']
    BY DEF DataInv, IsGpgga, IsSample
  <2>. QED
    BY <2>1, EqualSaid, SaidEqual, Zenon
<1>. QED
  BY <1>1, DataCorrect, PTL DEF Spec, EqualSamplesSaidTheSame
=============================================================================
