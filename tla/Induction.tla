------------------------------ MODULE Induction ------------------------------
(***************************************************************************)
(* Induction without an operator for a parameter, and what it gives about  *)
(* FlattenSeq: the facts about recursive functions that the proofs about   *)
(* lines and sentences need.                                               *)
(***************************************************************************)
EXTENDS Naturals, Sequences, SequencesExt, SequenceTheorems,
        WellFoundedInduction, TLAPS

\* A set of numbers that has 0 and the successor of each of its numbers has
\* them all: otherwise the least number it lacks has a predecessor in it.
LEMMA SetInduction ==
    ASSUME NEW S, 0 \in S, \A n \in Nat : n \in S => n + 1 \in S
    PROVE  \A n \in Nat : n \in S
<1>. DEFINE T == {n \in Nat : n \notin S}
<1>1. SUFFICES ASSUME T # {} PROVE FALSE
  OBVIOUS
<1>2. PICK least \in T : \A n \in T : <<n, least>> \notin OpToRel(<, Nat)
  BY <1>1, NatLessThanWellFounded, WFMin, Zenon
<1>3. \A n \in T : ~(n < least)
  BY <1>2 DEF OpToRel
<1>4. least - 1 \in Nat /\ least - 1 < least /\ (least - 1) + 1 = least
  OBVIOUS
<1>. QED
  BY <1>3, <1>4

LEMMA IsSequence ==
    ASSUME NEW S, NEW n \in Nat, NEW f \in [1..n -> S]
    PROVE  f \in Seq(S) /\ Len(f) = n
OBVIOUS

-----------------------------------------------------------------------------
\* A function on 0..n is defined by its first value and by its step, and by
\* nothing less: this is how the recursive functions of the models are defined.
Steps(f, base, n, step) ==
    /\ f = [i \in 0..n |-> f[i]]
    /\ f[0] = base /\ \A i \in 1..n : f[i] = step[<<i, f[i - 1]>>]

LEMMA RecursionExists ==
    ASSUME NEW R, NEW base \in R, NEW n \in Nat, NEW step \in [(1..n) \X R -> R]
    PROVE  \E f \in [0..n -> R] : Steps(f, base, n, step)
<1>. DEFINE Done == {k \in Nat : k <= n => \E f \in [0..k -> R] : Steps(f, base, k, step)}
<1>1. 0 \in Done
  <2>1. [i \in 0..0 |-> base] \in [0..0 -> R] /\ Steps([i \in 0..0 |-> base], base, 0, step)
    BY DEF Steps
  <2>. QED
    BY <2>1
<1>2. ASSUME NEW k \in Nat, k \in Done PROVE k + 1 \in Done
  <2>. SUFFICES ASSUME k + 1 <= n PROVE \E f \in [0..(k + 1) -> R] : Steps(f, base, k + 1, step)
    OBVIOUS
  <2>1. PICK g \in [0..k -> R] : Steps(g, base, k, step)
    BY <1>2
  <2>. DEFINE f == [i \in 0..(k + 1) |-> IF i <= k THEN g[i] ELSE step[<<k + 1, g[k]>>]]
  <2>2. <<k + 1, g[k]>> \in (1..n) \X R
    OBVIOUS
  <2>3. f \in [0..(k + 1) -> R]
    BY <2>2
  <2>4. f[0] = base /\ f = [i \in 0..(k + 1) |-> f[i]]
    BY <2>1 DEF Steps
  <2>5. ASSUME NEW i \in 1..(k + 1) PROVE f[i] = step[<<i, f[i - 1]>>]
    <3>1. i - 1 \in 0..k /\ i \in 0..(k + 1)
      OBVIOUS
    <3>2. f[i - 1] = g[i - 1]
      BY <3>1
    <3>3. CASE i <= k
      <4>1. i \in 1..k /\ f[i] = g[i]
        BY <3>1, <3>3
      <4>. HIDE DEF f
      <4>. QED
        BY <2>1, <3>2, <4>1 DEF Steps
    <3>4. CASE i = k + 1
      <4>1. i - 1 = k /\ f[i] = step[<<k + 1, g[k]>>]
        BY <3>1, <3>4
      <4>. HIDE DEF f
      <4>. QED
        BY <3>2, <3>4, <4>1
    <3>. QED
      BY <3>3, <3>4
  <2>6. Steps(f, base, k + 1, step)
    <3>. HIDE DEF f
    <3>. QED
      BY <2>4, <2>5 DEF Steps
  <2>. QED
    BY <2>3, <2>6
<1>3. \A k \in Nat : k \in Done
  <2>. HIDE DEF Done
  <2>. QED
    BY <1>1, <1>2, SetInduction
<1>. QED
  BY <1>3

LEMMA RecursionUnique ==
    ASSUME NEW base, NEW n \in Nat, NEW step, NEW f, NEW g,
           Steps(f, base, n, step), Steps(g, base, n, step)
    PROVE  f = g
<1>. DEFINE Same == {k \in Nat : k <= n => f[k] = g[k]}
<1>1. 0 \in Same
  BY DEF Steps
<1>2. ASSUME NEW k \in Nat, k \in Same PROVE k + 1 \in Same
  <2>. SUFFICES ASSUME k + 1 <= n PROVE f[k + 1] = g[k + 1]
    OBVIOUS
  <2>1. k + 1 \in 1..n /\ (k + 1) - 1 = k /\ f[k] = g[k]
    BY <1>2
  <2>. QED
    BY <2>1 DEF Steps
<1>3. \A k \in Nat : k \in Same
  <2>. HIDE DEF Same
  <2>. QED
    BY <1>1, <1>2, SetInduction
<1>4. \A i \in 0..n : f[i] = g[i]
  BY <1>3
<1>. QED
  BY <1>4 DEF Steps

-----------------------------------------------------------------------------
\* f[i] is the concatenation of the first i sequences in q.
Runs(f, q) == f = [i \in 1..Len(q) |-> IF i = 1 THEN q[i] ELSE f[i - 1] \o q[i]]

LEMMA RunsAt ==
    ASSUME NEW q, NEW f
    PROVE  Runs(f, q) <=>
              /\ f = [i \in 1..Len(q) |-> f[i]]
              /\ \A i \in 1..Len(q) : f[i] = IF i = 1 THEN q[i] ELSE f[i - 1] \o q[i]
<1>1. ASSUME Runs(f, q)
      PROVE  /\ f = [i \in 1..Len(q) |-> f[i]]
             /\ \A i \in 1..Len(q) : f[i] = IF i = 1 THEN q[i] ELSE f[i - 1] \o q[i]
  BY <1>1, Zenon DEF Runs
<1>2. ASSUME f = [i \in 1..Len(q) |-> f[i]],
             \A i \in 1..Len(q) : f[i] = IF i = 1 THEN q[i] ELSE f[i - 1] \o q[i]
      PROVE  Runs(f, q)
  BY <1>2 DEF Runs
<1>. QED
  BY <1>1, <1>2

LEMMA RunsUnique ==
    ASSUME NEW q, Len(q) \in Nat, NEW f, NEW g, Runs(f, q), Runs(g, q)
    PROVE  f = g
<1>. DEFINE Same == {n \in Nat : n \in 1..Len(q) => f[n] = g[n]}
<1>1. \A i \in 1..Len(q) : f[i] = IF i = 1 THEN q[i] ELSE f[i - 1] \o q[i]
  BY RunsAt
<1>2. \A i \in 1..Len(q) : g[i] = IF i = 1 THEN q[i] ELSE g[i - 1] \o q[i]
  BY RunsAt
<1>3. 0 \in Same
  OBVIOUS
<1>4. ASSUME NEW n \in Nat, n \in Same PROVE n + 1 \in Same
  <2>. SUFFICES ASSUME n + 1 \in 1..Len(q) PROVE f[n + 1] = g[n + 1]
    OBVIOUS
  <2>1. n = 0 \/ (n \in 1..Len(q) /\ f[n] = g[n])
    BY <1>4
  <2>2. (n + 1) - 1 = n /\ (n + 1 = 1 <=> n = 0)
    OBVIOUS
  <2>. QED
    BY <1>1, <1>2, <2>1, <2>2
<1>5. \A n \in Nat : n \in Same
  <2>. HIDE DEF Same
  <2>. QED
    BY <1>3, <1>4, SetInduction
<1>6. \A i \in 1..Len(q) : f[i] = g[i]
  BY <1>5
<1>7. f = [i \in 1..Len(q) |-> f[i]] /\ g = [i \in 1..Len(q) |-> g[i]]
  BY RunsAt
<1>. QED
  BY <1>6, <1>7

LEMMA RunsExist ==
    ASSUME NEW E, NEW q \in Seq(Seq(E))
    PROVE  \E f : Runs(f, q) /\ \A i \in 1..Len(q) : f[i] \in Seq(E)
<1>. DEFINE Good(p, f) == Runs(f, p) /\ \A i \in 1..Len(p) : f[i] \in Seq(E)
            Done == {n \in Nat : \A p \in Seq(Seq(E)) : Len(p) = n => \E f : Good(p, f)}
<1>1. 0 \in Done
  <2>. SUFFICES ASSUME NEW p \in Seq(Seq(E)), Len(p) = 0 PROVE \E f : Good(p, f)
    OBVIOUS
  <2>1. Good(p, [i \in 1..0 |-> <<>>])
    BY DEF Runs
  <2>. QED
    BY <2>1
<1>2. ASSUME NEW n \in Nat, n \in Done PROVE n + 1 \in Done
  <2>. SUFFICES ASSUME NEW p \in Seq(Seq(E)), Len(p) = n + 1 PROVE \E f : Good(p, f)
    OBVIOUS
  <2>. DEFINE front == [i \in 1..n |-> p[i]]
  <2>1. front \in Seq(Seq(E)) /\ Len(front) = n
    OBVIOUS
  <2>2. PICK g : Good(front, g)
    BY <1>2, <2>1
  <2>. DEFINE f == [i \in 1..(n + 1) |-> IF i <= n THEN g[i] ELSE IF n = 0 THEN p[1] ELSE g[n] \o p[n + 1]]
  <2>3. \A i \in 1..n : g[i] = IF i = 1 THEN p[i] ELSE g[i - 1] \o p[i]
    BY <2>1, <2>2 DEF Runs
  <2>4. \A i \in 1..(n + 1) : f[i] = IF i = 1 THEN p[i] ELSE f[i - 1] \o p[i]
    BY <2>3
  <2>5. Runs(f, p)
    BY <2>4 DEF Runs
  <2>6. \A i \in 1..(n + 1) : f[i] \in Seq(E)
    <3>1. \A i \in 1..n : g[i] \in Seq(E)
      BY <2>1, <2>2
    <3>. QED
      BY <3>1
  <2>. QED
    BY <2>5, <2>6
<1>3. Len(q) \in Done
  <2>1. \A n \in Nat : n \in Done
    <3>. HIDE DEF Done
    <3>. QED
      BY <1>1, <1>2, SetInduction
  <2>. QED
    BY <2>1
<1>. QED
  BY <1>3

LEMMA FlattenRuns ==
    ASSUME NEW E, NEW q \in Seq(Seq(E)), q # <<>>, NEW f, Runs(f, q)
    PROVE  FlattenSeq(q) = f[Len(q)]
<1>1. Runs(CHOOSE g : Runs(g, q), q)
  BY Zenon
<1>2. (CHOOSE g : Runs(g, q)) = f
  BY <1>1, RunsUnique
<1>3. FlattenSeq(q) = (CHOOSE g : Runs(g, q))[Len(q)]
  BY DEF FlattenSeq, Runs
<1>. QED
  BY <1>2, <1>3

\* FlattenSeq() concatenates: nothing for no sequence, and one more at the end.
LEMMA FlattenEmpty == FlattenSeq(<<>>) = <<>>
BY DEF FlattenSeq

LEMMA FlattenAppend ==
    ASSUME NEW E, NEW q \in Seq(Seq(E)), NEW s \in Seq(E)
    PROVE  /\ FlattenSeq(q) \in Seq(E)
           /\ FlattenSeq(Append(q, s)) = FlattenSeq(q) \o s
<1>. DEFINE p == Append(q, s)
<1>1. p \in Seq(Seq(E))
  OBVIOUS
<1>2. Len(p) = Len(q) + 1 /\ Len(q) \in Nat /\ p # <<>>
  <2>1. Len(p) = Len(q) + 1 /\ Len(q) \in Nat
    OBVIOUS
  <2>. HIDE DEF p
  <2>. QED
    BY <2>1
<1>3. \A i \in 1..Len(q) : p[i] = q[i]
  OBVIOUS
<1>4. p[Len(q) + 1] = s
  OBVIOUS
<1>. HIDE DEF p
<1>5. PICK f : Runs(f, q) /\ \A i \in 1..Len(q) : f[i] \in Seq(E)
  BY RunsExist
<1>6. PICK g : Runs(g, p) /\ \A i \in 1..Len(p) : g[i] \in Seq(E)
  BY <1>1, RunsExist
<1>7. FlattenSeq(p) = g[Len(q) + 1]
  BY <1>1, <1>2, <1>6, FlattenRuns
<1>8. \A i \in 1..Len(p) : g[i] = IF i = 1 THEN p[i] ELSE g[i - 1] \o p[i]
  BY <1>6, RunsAt
<1>9. CASE q = <<>>
  <2>1. g[1] = s
    BY <1>2, <1>4, <1>8, <1>9
  <2>2. FlattenSeq(q) = <<>> /\ Len(q) = 0
    BY <1>9, FlattenEmpty
  <2>3. FlattenSeq(p) = s
    BY <1>7, <2>1, <2>2
  <2>4. <<>> \o s = s
    OBVIOUS
  <2>. QED
    BY <2>2, <2>3, <2>4 DEF p
<1>10. CASE q # <<>>
  <2>1. FlattenSeq(q) = f[Len(q)]
    BY <1>5, <1>10, FlattenRuns
  <2>. DEFINE h == [i \in 1..Len(q) |-> g[i]]
  <2>2. h = [i \in 1..Len(q) |-> h[i]]
    OBVIOUS
  <2>3. \A i \in 1..Len(q) : h[i] = IF i = 1 THEN q[i] ELSE h[i - 1] \o q[i]
    BY <1>2, <1>3, <1>8
  <2>4. Runs(h, q)
    <3>. HIDE DEF h
    <3>. QED
      BY <2>2, <2>3, RunsAt, Zenon
  <2>5. f = h
    BY <1>2, <1>5, <2>4, RunsUnique
  <2>6. Len(q) \in 1..Len(q)
    BY <1>2, <1>10
  <2>7. f[Len(q)] = g[Len(q)]
    BY <2>5, <2>6
  <2>8. g[Len(q) + 1] = g[Len(q)] \o s
    <3>1. Len(q) + 1 \in 1..Len(p) /\ Len(q) + 1 # 1 /\ (Len(q) + 1) - 1 = Len(q)
      BY <1>2, <2>6
    <3>. QED
      BY <1>4, <1>8, <3>1
  <2>. QED
    BY <1>5, <1>7, <2>1, <2>6, <2>7, <2>8 DEF p
<1>. QED
  BY <1>9, <1>10
=============================================================================
