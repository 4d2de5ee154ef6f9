------------------------ MODULE SerialInterfaceProofs ------------------------
(***************************************************************************)
(* Proofs about SerialInterface: for any characters and any bound on how   *)
(* many are read, the lines delivered are the stream that arrived.         *)
(***************************************************************************)
EXTENDS SerialInterface, Induction, TLAPS

USE CharsAssumption

\* Every step keeps the types (SerialInterface.hpp:41-175): in particular no
\* terminator is ever in a line.
THEOREM SerialTypeCorrect == Spec => []TypeOK
<1>1. Init => TypeOK
  BY EmptySeq DEF Init, TypeOK
<1>2. ASSUME TypeOK, [Next]_vars PROVE TypeOK'
  <2>. USE DEF TypeOK
  <2>1. CASE Open
    BY <1>2, <2>1, EmptySeq DEF Open
  <2>2. CASE Close
    BY <1>2, <2>2 DEF Close
  <2>3. CASE ReadLine
    BY <1>2, <2>3, EmptySeq DEF ReadLine
  <2>4. CASE StartRead
    BY <1>2, <2>4 DEF StartRead, GiveUp
  <2>5. CASE ReadFails
    BY <1>2, <2>5 DEF ReadFails, GiveUp
  <2>6. ASSUME NEW c \in Chars \cup {CR, LF}, ReadChar(c) PROVE TypeOK'
    <3>1. session' \in Seq(Chars \cup {CR, LF})
      BY <1>2, <2>6, AppendProperties DEF ReadChar
    <3>2. c \in Chars => Append(result, c) \in Seq(Chars)
      BY <1>2, AppendProperties
    <3>3. Append(lines, result) \in Seq(Seq(Chars))
      BY <1>2, AppendProperties
    <3>4. CASE c = CR
      BY <1>2, <2>6, <3>1, <3>4 DEF ReadChar
    <3>5. CASE c = LF
      BY <1>2, <2>6, <3>1, <3>3, <3>5 DEF ReadChar
    <3>6. CASE c \notin {CR, LF}
      BY <1>2, <2>6, <3>1, <3>2, <3>6 DEF ReadChar
    <3>. QED
      BY <3>4, <3>5, <3>6
  <2>7. CASE UNCHANGED vars
    BY <1>2, <2>7 DEF vars
  <2>. QED
    BY <1>2, <2>1, <2>2, <2>3, <2>4, <2>5, <2>6, <2>7 DEF Next
<1>. QED
  BY <1>1, <1>2, PTL DEF Spec

\* A line that was given up is not read on.
ReadingInv == step # "call" => ~dropped

LEMMA ReadingCorrect == Spec => []ReadingInv
<1>1. Init => ReadingInv
  BY DEF Init, ReadingInv
<1>2. ASSUME ReadingInv, [Next]_vars PROVE ReadingInv'
  <2>. USE DEF ReadingInv
  <2>1. CASE Open
    BY <1>2, <2>1 DEF Open
  <2>2. CASE Close
    BY <1>2, <2>2 DEF Close
  <2>3. CASE ReadLine
    BY <1>2, <2>3 DEF ReadLine
  <2>4. CASE StartRead
    BY <1>2, <2>4 DEF StartRead, GiveUp
  <2>5. CASE ReadFails
    BY <1>2, <2>5 DEF ReadFails, GiveUp
  <2>6. ASSUME NEW c \in Chars \cup {CR, LF}, ReadChar(c) PROVE ReadingInv'
    BY <1>2, <2>6 DEF ReadChar
  <2>7. CASE UNCHANGED vars
    BY <1>2, <2>7 DEF vars
  <2>. QED
    BY <1>2, <2>1, <2>2, <2>3, <2>4, <2>5, <2>6, <2>7 DEF Next
<1>. QED
  BY <1>1, <1>2, PTL DEF Spec

-----------------------------------------------------------------------------
Sendable == Chars \cup {LF}

LEMMA SendableTypes ==
    /\ \A c \in Chars \cup {CR, LF} : KeptOf(c) \in Seq(Sendable)
    /\ \A line \in Seq(Chars) : line \in Seq(Sendable) /\ Append(line, LF) \in Seq(Sendable)
<1>1. ASSUME NEW c \in Chars \cup {CR, LF} PROVE KeptOf(c) \in Seq(Sendable)
  <2>1. CASE c = CR
    BY <2>1, EmptySeq DEF KeptOf
  <2>2. CASE c # CR
    <3>1. c \in Sendable
      BY <2>2 DEF Sendable
    <3>2. <<c>> \in Seq(Sendable)
      BY <3>1
    <3>. QED
      BY <2>2, <3>2 DEF KeptOf
  <2>. QED
    BY <2>1, <2>2
<1>2. ASSUME NEW line \in Seq(Chars)
      PROVE  line \in Seq(Sendable) /\ Append(line, LF) \in Seq(Sendable)
  <2>1. Chars \subseteq Sendable /\ LF \in Sendable
    BY DEF Sendable
  <2>. QED
    BY <2>1, SeqMonotonic, AppendProperties
<1>. QED
  BY <1>1, <1>2

\* A character more in the session is a character more of what was sent,
\* unless it is a carriage return.
LEMMA SentGrows ==
    ASSUME TypeOK, NEW c \in Chars \cup {CR, LF}, session' = Append(session, c)
    PROVE  Sent' = Sent \o KeptOf(c)
<1>. DEFINE kept == [i \in DOMAIN session |-> KeptOf(session[i])]
            now == [i \in DOMAIN session' |-> KeptOf(session'[i])]
<1>1. session \in Seq(Chars \cup {CR, LF}) /\ Len(session) \in Nat
  BY DEF TypeOK
<1>2. \A d \in Chars \cup {CR, LF} : KeptOf(d) \in Seq(Sendable)
  BY SendableTypes
<1>3. kept \in [1..Len(session) -> Seq(Sendable)]
  BY <1>1, <1>2
<1>4. kept \in Seq(Seq(Sendable)) /\ Len(kept) = Len(session)
  <2>. HIDE DEF kept
  <2>. QED
    BY <1>1, <1>3, IsSequence
<1>5. now = Append(kept, KeptOf(c))
  BY <1>1, <1>4
<1>. QED
  BY <1>2, <1>4, <1>5, FlattenAppend DEF Sent

\* A line more is one more with its line feed.
LEMMA DeliveredGrows ==
    ASSUME TypeOK
    PROVE  /\ Delivered \in Seq(Sendable)
           /\ lines' = Append(lines, result) => Delivered' = Delivered \o Append(result, LF)
<1>. DEFINE ended == [i \in DOMAIN lines |-> Append(lines[i], LF)]
            now == [i \in DOMAIN lines' |-> Append(lines'[i], LF)]
<1>1. lines \in Seq(Seq(Chars)) /\ result \in Seq(Chars) /\ Len(lines) \in Nat
  BY DEF TypeOK
<1>2. \A line \in Seq(Chars) : Append(line, LF) \in Seq(Sendable)
  BY SendableTypes
<1>3. ended \in [1..Len(lines) -> Seq(Sendable)]
  BY <1>1, <1>2
<1>4. ended \in Seq(Seq(Sendable)) /\ Len(ended) = Len(lines)
  <2>. HIDE DEF ended
  <2>. QED
    BY <1>1, <1>3, IsSequence
<1>5. Append(result, LF) \in Seq(Sendable)
  BY <1>1, <1>2
<1>6. ASSUME lines' = Append(lines, result) PROVE now = Append(ended, Append(result, LF))
  BY <1>1, <1>4, <1>6
<1>. QED
  BY <1>4, <1>5, <1>6, FlattenAppend DEF Delivered

\* The lines delivered and the one being read, put together again, are what
\* the device sent since the port was opened but for the carriage returns,
\* whenever the port is closed (SerialInterface.hpp:138-175).
THEOREM LinesCorrect == Spec => []LinesAreTheStream
<1>1. Init => LinesAreTheStream
  BY FlattenEmpty DEF Init, LinesAreTheStream, Delivered, Pending, Sent
<1>2. ASSUME TypeOK, ReadingInv, LinesAreTheStream, [Next]_vars PROVE LinesAreTheStream'
  <2>1. ASSUME UNCHANGED <<session, lines>>, Pending' = Pending PROVE LinesAreTheStream'
    BY <1>2, <2>1 DEF LinesAreTheStream, Delivered, Sent
  <2>2. CASE Open
    <3>1. Delivered' = <<>> /\ Sent' = <<>> /\ Pending' = <<>>
      BY <2>2, FlattenEmpty DEF Open, Delivered, Sent, Pending
    <3>. QED
      BY <3>1 DEF LinesAreTheStream
  <2>3. CASE Close
    BY <2>1, <2>3 DEF Close, Pending
  <2>4. CASE ReadLine
    BY <2>1, <2>4 DEF ReadLine, Pending
  <2>5. CASE StartRead
    BY <2>1, <2>5 DEF StartRead, GiveUp, Pending
  <2>6. CASE ReadFails
    BY <2>1, <2>6 DEF ReadFails, GiveUp, Pending
  <2>7. ASSUME NEW c \in Chars \cup {CR, LF}, ReadChar(c) PROVE LinesAreTheStream'
    <3>1. session' = Append(session, c) /\ Pending = result /\ UNCHANGED dropped
      BY <2>7 DEF ReadChar, Pending
    <3>2. Sent' = Delivered \o result \o KeptOf(c)
      BY <1>2, <3>1, SentGrows DEF LinesAreTheStream
    <3>3. result \in Seq(Sendable) /\ Delivered \in Seq(Sendable) /\ KeptOf(c) \in Seq(Sendable)
      BY <1>2, DeliveredGrows, SendableTypes DEF TypeOK
    <3>4. Sent' = Delivered \o (result \o KeptOf(c))
      BY <3>2, <3>3, ConcatAssociative
    <3>5. CASE c = LF
      <4>1. step' = "call" /\ lines' = Append(lines, result) /\ ~dropped'
        BY <1>2, <2>7, <3>5 DEF ReadChar, ReadingInv
      <4>2. Delivered' = Delivered \o Append(result, LF) /\ Pending' = <<>>
        BY <1>2, <4>1, DeliveredGrows DEF Pending
      <4>3. KeptOf(c) = <<LF>> /\ LF \in Sendable
        BY <3>5 DEF KeptOf, Sendable
      <4>4. Append(result, LF) = result \o <<LF>> /\ Delivered' \o <<>> = Delivered'
        BY <3>3, <4>2, <4>3, AppendIsConcat
      <4>. QED
        BY <3>4, <4>2, <4>3, <4>4 DEF LinesAreTheStream
    <3>6. CASE c # LF
      <4>1. step' = "read_char" /\ UNCHANGED lines
        BY <2>7, <3>6 DEF ReadChar
      <4>2. result' = result \o KeptOf(c)
        <5>1. CASE c = CR
          BY <2>7, <3>3, <5>1 DEF ReadChar, KeptOf
        <5>2. CASE c # CR
          BY <1>2, <2>7, <3>6, <5>2, AppendIsConcat DEF ReadChar, KeptOf, TypeOK
        <5>. QED
          BY <5>1, <5>2
      <4>. QED
        BY <3>4, <4>1, <4>2 DEF LinesAreTheStream, Pending, Delivered
    <3>. QED
      BY <3>5, <3>6
  <2>8. CASE UNCHANGED vars
    BY <2>1, <2>8 DEF vars, Pending
  <2>. QED
    BY <1>2, <2>2, <2>3, <2>4, <2>5, <2>6, <2>7, <2>8 DEF Next
<1>. QED
  BY <1>1, <1>2, SerialTypeCorrect, ReadingCorrect, PTL DEF Spec
=============================================================================
