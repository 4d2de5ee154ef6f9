----------------------------- MODULE FloatProofs -----------------------------
(***************************************************************************)
(* What the rounding of Float loses, and that it keeps the order of        *)
(* numbers.  An error is bounded by a product of integers: Within(f, ...)  *)
(* says how far scale * f may be from a value.  Products of variables stay *)
(* behind defined names, so that each last step is linear.                 *)
(***************************************************************************)
EXTENDS Float, Induction

-----------------------------------------------------------------------------
(* Powers *)

PowerSteps(f, base, n) == f = [i \in 0..n |-> IF i = 0 THEN 1 ELSE base * f[i - 1]]

LEMMA PowerIs ==
    ASSUME NEW base \in Nat, NEW n \in Nat
    PROVE  \E f \in [0..n -> Nat] : /\ Power(base, n) = f[n] /\ f[0] = 1
                                    /\ \A i \in 1..n : f[i] = base * f[i - 1]
<1>. DEFINE step == [p \in (1..n) \X Nat |-> base * p[2]]
<1>1. step \in [(1..n) \X Nat -> Nat]
  OBVIOUS
<1>2. PICK f \in [0..n -> Nat] : Steps(f, 1, n, step)
  <2>1. 1 \in Nat
    OBVIOUS
  <2>. HIDE DEF step
  <2>. QED
    BY <1>1, <2>1, RecursionExists, Zenon
<1>3. f[0] = 1 /\ \A i \in 1..n : f[i] = base * f[i - 1]
  <2>1. f[0] = 1 /\ \A i \in 1..n : f[i] = step[<<i, f[i - 1]>>]
    BY <1>2, Zenon DEF Steps
  <2>2. \A i \in 1..n : f[i - 1] \in Nat
    OBVIOUS
  <2>. QED
    BY <2>1, <2>2
<1>4. PowerSteps(f, base, n)
  <2>1. \A i \in 0..n : f[i] = IF i = 0 THEN 1 ELSE base * f[i - 1]
    BY <1>3
  <2>. QED
    BY <2>1 DEF PowerSteps
<1>. DEFINE g == CHOOSE f1 : PowerSteps(f1, base, n)
<1>5. PowerSteps(g, base, n)
  BY <1>4, Zenon
<1>6. Power(base, n) = g[n]
  BY DEF Power, PowerSteps
<1>. DEFINE Same == {i \in Nat : i <= n => f[i] = g[i]}
<1>7. \A i \in Nat : i \in Same
  <2>0. \A i \in 0..n : g[i] = IF i = 0 THEN 1 ELSE base * g[i - 1]
    <3>. HIDE DEF g
    <3>. QED
      BY <1>5, Zenon DEF PowerSteps
  <2>. HIDE DEF g
  <2>1. 0 \in Same
    BY <1>3, <2>0
  <2>2. ASSUME NEW i \in Nat, i \in Same PROVE i + 1 \in Same
    BY <1>3, <2>0, <2>2
  <2>. HIDE DEF Same
  <2>. QED
    BY <2>1, <2>2, SetInduction
<1>8. f[n] = g[n]
  <2>. HIDE DEF g
  <2>. QED
    BY <1>7
<1>. QED
  <2>. HIDE DEF g, Same
  <2>. QED
    BY <1>3, <1>6, <1>8

LEMMA PowerNext ==
    ASSUME NEW base \in Nat, NEW n \in Nat
    PROVE  /\ Power(base, n) \in Nat /\ Power(base, 0) = 1
           /\ Power(base, n + 1) = base * Power(base, n)
<1>1. PICK f \in [0..n -> Nat] : /\ Power(base, n) = f[n] /\ f[0] = 1
                                 /\ \A i \in 1..n : f[i] = base * f[i - 1]
  BY PowerIs
<1>2. PICK g \in [0..(n + 1) -> Nat] :
          /\ Power(base, n + 1) = g[n + 1] /\ g[0] = 1
          /\ \A i \in 1..(n + 1) : g[i] = base * g[i - 1]
  BY PowerIs, n + 1 \in Nat
<1>3. Power(base, 0) = 1
  BY PowerIs
<1>. DEFINE Same == {i \in Nat : i <= n => f[i] = g[i]}
<1>4. \A i \in Nat : i \in Same
  <2>1. 0 \in Same
    BY <1>1, <1>2
  <2>2. ASSUME NEW i \in Nat, i \in Same PROVE i + 1 \in Same
    BY <1>1, <1>2, <2>2
  <2>. HIDE DEF Same
  <2>. QED
    BY <2>1, <2>2, SetInduction
<1>5. g[n + 1] = base * g[n]
  BY <1>2
<1>. QED
  BY <1>1, <1>2, <1>3, <1>4, <1>5

LEMMA PowerAdds ==
    ASSUME NEW base \in Nat \ {0}, NEW m \in Nat, NEW n \in Nat
    PROVE  Power(base, m + n) = Power(base, m) * Power(base, n) /\ Power(base, n) \in Nat \ {0}
<1>. DEFINE Adds == {i \in Nat : /\ Power(base, m + i) = Power(base, m) * Power(base, i)
                                 /\ Power(base, i) >= 1}
<1>0. base \in Nat /\ Power(base, m) \in Nat
  BY PowerNext
<1>1. 0 \in Adds
  BY <1>0, PowerNext
<1>2. ASSUME NEW i \in Nat, i \in Adds PROVE i + 1 \in Adds
  <2>. DEFINE p == Power(base, m) q == Power(base, i)
  <2>1. q \in Nat /\ Power(base, i + 1) = base * q
    BY <1>0, PowerNext
  <2>2. Power(base, m + (i + 1)) = base * Power(base, m + i)
    <3>1. Power(base, (m + i) + 1) = base * Power(base, m + i)
      BY <1>0, PowerNext, m + i \in Nat
    <3>. QED
      BY <3>1, (m + i) + 1 = m + (i + 1)
  <2>3. Power(base, m + i) = p * q /\ q >= 1 /\ p \in Nat
    BY <1>0, <1>2
  <2>4. i + 1 \in Nat
    OBVIOUS
  <2>. HIDE DEF p, q
  <2>5. base * (p * q) = p * (base * q) /\ base * q >= 1
    BY <1>0, <2>1, <2>3, SMTT(30)
  <2>. QED
    BY <2>1, <2>2, <2>3, <2>4, <2>5 DEF p
<1>3. n \in Adds
  <2>. HIDE DEF Adds
  <2>. QED
    BY <1>1, <1>2, SetInduction
<1>. QED
  BY <1>0, <1>3, PowerNext

-----------------------------------------------------------------------------
(* Division *)

LEMMA DivMod ==
    ASSUME NEW a \in Nat, NEW d \in Nat \ {0}
    PROVE  /\ a \div d \in Nat /\ a % d \in Nat /\ a % d < d
           /\ (a \div d) * d + (a % d) = a
OBVIOUS

\* A quotient and a remainder of n/d to so many binary places.
Divides(division, n, d, places) ==
    /\ division \in Nat \X Nat /\ division[2] < d
    /\ division[1] * d + division[2] = n * Power(2, places)

LEMMA NextBitOf ==
    ASSUME NEW q \in Nat, NEW r \in Nat, NEW d \in Nat \ {0}, r < d
    PROVE  \E bit \in 0..1, s \in Nat :
              /\ NextBit(<<q, r>>, d) = <<2 * q + bit, s>>
              /\ s < d /\ bit * d + s = 2 * r
<1>1. CASE 2 * r < d
  <2>1. (2 * r) \div d = 0 /\ (2 * r) % d = 2 * r
    BY <1>1, SMTT(30)
  <2>2. NextBit(<<q, r>>, d) = <<2 * q + 0, 2 * r>> /\ 2 * r \in Nat /\ 0 * d + 2 * r = 2 * r
    BY <2>1 DEF NextBit
  <2>. QED
    BY <1>1, <2>2
<1>2. CASE 2 * r >= d
  <2>1. (2 * r) \div d = 1 /\ (2 * r) % d = 2 * r - d
    BY <1>2, SMTT(30)
  <2>2. /\ NextBit(<<q, r>>, d) = <<2 * q + 1, 2 * r - d>> /\ 2 * r - d \in Nat
        /\ 1 * d + (2 * r - d) = 2 * r /\ 2 * r - d < d
    BY <1>2, <2>1 DEF NextBit
  <2>. QED
    BY <2>2
<1>. QED
  BY <1>1, <1>2

LEMMA NextBitDivides ==
    ASSUME NEW n \in Nat, NEW d \in Nat \ {0}, NEW places \in Nat,
           NEW division, Divides(division, n, d, places)
    PROVE  /\ Divides(NextBit(division, d), n, d, places + 1)
           /\ NextBit(division, d)[1] \in {2 * division[1], 2 * division[1] + 1}
<1>1. PICK q \in Nat, r \in Nat : division = <<q, r>> /\ r < d /\ q * d + r = n * Power(2, places)
  BY DEF Divides
<1>2. PICK bit \in 0..1, s \in Nat : /\ NextBit(<<q, r>>, d) = <<2 * q + bit, s>>
                                     /\ s < d /\ bit * d + s = 2 * r
  BY <1>1, NextBitOf
<1>3. Power(2, places + 1) = 2 * Power(2, places) /\ Power(2, places) \in Nat
  BY PowerNext
<1>4. (2 * q + bit) * d + s = n * Power(2, places + 1)
  <2>. DEFINE p == Power(2, places)
  <2>1. p \in Nat /\ Power(2, places + 1) = 2 * p /\ q * d + r = n * p
    BY <1>1, <1>3
  <2>. HIDE DEF p
  <2>2. (2 * q + bit) * d + s = 2 * (q * d + r)
    BY <1>2, SMTT(30)
  <2>3. 2 * (n * p) = n * (2 * p)
    BY <2>1
  <2>. QED
    BY <2>1, <2>2, <2>3
<1>. QED
  BY <1>1, <1>2, <1>4 DEF Divides

DivisionSteps(f, n, d, places) ==
    f = [i \in 0..places |-> IF i = 0 THEN <<n \div d, n % d>> ELSE NextBit(f[i - 1], d)]

LEMMA DivisionIs ==
    ASSUME NEW n \in Nat, NEW d \in Nat \ {0}, NEW places \in Nat
    PROVE  \E f : /\ Division(n, d, places) = f[places] /\ f[0] = <<n \div d, n % d>>
                  /\ \A i \in 1..places : f[i] = NextBit(f[i - 1], d)
<1>. DEFINE Pairs == {p \in Nat \X Nat : p[2] < d}
            step == [p \in (1..places) \X Pairs |-> NextBit(p[2], d)]
            base == <<n \div d, n % d>>
<1>1. \A p \in Pairs : NextBit(p, d) \in Pairs
  <2>. SUFFICES ASSUME NEW p \in Pairs PROVE NextBit(p, d) \in Pairs
    OBVIOUS
  <2>1. PICK q \in Nat, r \in Nat : p = <<q, r>> /\ r < d
    OBVIOUS
  <2>2. PICK bit \in 0..1, s \in Nat : NextBit(<<q, r>>, d) = <<2 * q + bit, s>> /\ s < d
    BY <2>1, NextBitOf
  <2>. QED
    BY <2>1, <2>2
<1>2. base \in Pairs
  BY DivMod
<1>. HIDE DEF Pairs, base
<1>3. step \in [(1..places) \X Pairs -> Pairs]
  BY <1>1
<1>4. PICK f \in [0..places -> Pairs] : Steps(f, base, places, step)
  <2>. HIDE DEF step
  <2>. QED
    BY <1>2, <1>3, RecursionExists, Zenon
<1>5. f[0] = base /\ \A i \in 1..places : f[i] = NextBit(f[i - 1], d)
  <2>1. f[0] = base /\ \A i \in 1..places : f[i] = step[<<i, f[i - 1]>>]
    BY <1>4, Zenon DEF Steps
  <2>2. \A i \in 1..places : f[i - 1] \in Pairs
    OBVIOUS
  <2>. QED
    BY <2>1, <2>2
<1>6. DivisionSteps(f, n, d, places)
  <2>1. \A i \in 0..places : f[i] = IF i = 0 THEN base ELSE NextBit(f[i - 1], d)
    BY <1>5
  <2>. QED
    BY <2>1 DEF DivisionSteps, base
<1>. DEFINE g == CHOOSE f1 : DivisionSteps(f1, n, d, places)
<1>7. DivisionSteps(g, n, d, places)
  BY <1>6, Zenon
<1>8. Division(n, d, places) = g[places]
  BY DEF Division, DivisionSteps
<1>. HIDE DEF g
<1>9. \A i \in 0..places : g[i] = IF i = 0 THEN base ELSE NextBit(g[i - 1], d)
  BY <1>7, Zenon DEF DivisionSteps, base
<1>10. g[0] = base /\ \A i \in 1..places : g[i] = NextBit(g[i - 1], d)
  BY <1>9
<1>. QED
  BY <1>8, <1>10 DEF base

\* What is divided to more places begins in the same way.
LEMMA DivisionOf ==
    ASSUME NEW n \in Nat, NEW d \in Nat \ {0}, NEW places \in Nat
    PROVE  /\ Divides(Division(n, d, places), n, d, places)
           /\ Division(n, d, 0) = <<n \div d, n % d>>
           /\ Division(n, d, places + 1) = NextBit(Division(n, d, places), d)
<1>1. PICK f : /\ Division(n, d, places) = f[places] /\ f[0] = <<n \div d, n % d>>
               /\ \A i \in 1..places : f[i] = NextBit(f[i - 1], d)
  BY DivisionIs
<1>2. PICK g : /\ Division(n, d, places + 1) = g[places + 1] /\ g[0] = <<n \div d, n % d>>
               /\ \A i \in 1..(places + 1) : g[i] = NextBit(g[i - 1], d)
  BY DivisionIs, places + 1 \in Nat
<1>3. Division(n, d, 0) = <<n \div d, n % d>>
  <2>1. ASSUME NEW k \in Nat
        PROVE  \E h : /\ Division(n, d, k) = h[k] /\ h[0] = <<n \div d, n % d>>
                      /\ \A i \in 1..k : h[i] = NextBit(h[i - 1], d)
    BY DivisionIs
  <2>2. \E h : /\ Division(n, d, 0) = h[0] /\ h[0] = <<n \div d, n % d>>
               /\ \A i \in 1..0 : h[i] = NextBit(h[i - 1], d)
    BY <2>1, 0 \in Nat
  <2>. QED
    BY <2>2
<1>. DEFINE Same == {i \in Nat : i <= places => f[i] = g[i] /\ Divides(f[i], n, d, i)}
<1>4. \A i \in Nat : i \in Same
  <2>1. 0 \in Same
    <3>1. Divides(<<n \div d, n % d>>, n, d, 0)
      <4>1. Power(2, 0) = 1
        BY PowerNext
      <4>. QED
        BY <4>1, DivMod DEF Divides
    <3>. QED
      BY <1>1, <1>2, <3>1
  <2>2. ASSUME NEW i \in Nat, i \in Same PROVE i + 1 \in Same
    <3>. SUFFICES ASSUME i + 1 <= places PROVE f[i + 1] = g[i + 1] /\ Divides(f[i + 1], n, d, i + 1)
      OBVIOUS
    <3>1. f[i] = g[i] /\ Divides(f[i], n, d, i)
      BY <2>2
    <3>2. f[i + 1] = NextBit(f[i], d) /\ g[i + 1] = NextBit(g[i], d)
      BY <1>1, <1>2
    <3>. QED
      BY <3>1, <3>2, NextBitDivides
  <2>. HIDE DEF Same
  <2>. QED
    BY <2>1, <2>2, SetInduction
<1>5. f[places] = g[places] /\ Divides(f[places], n, d, places)
  BY <1>4
<1>6. g[places + 1] = NextBit(g[places], d)
  BY <1>2
<1>. QED
  BY <1>1, <1>2, <1>3, <1>5, <1>6

LEMMA PowersOfTwo ==
    /\ Power(2, 0) = 1 /\ Power(2, 1) = 2 /\ Power(2, 5) = 32 /\ Power(2, 6) = 64
    /\ Power(2, 7) = 128 /\ Power(2, 16) = 65536 /\ Power(2, 17) = 131072
    /\ Power(2, 23) = Hidden /\ Power(2, 24) = 2 * Hidden
<1>1. 2 \in Nat \ {0} /\ Power(2, 0) = 1
  BY PowerNext, 0 \in Nat
<1>2. Power(2, 1) = 2
  BY PowerNext, <1>1, Power(2, 0 + 1) = 2 * Power(2, 0)
<1>3. Power(2, 1 + 1) = 4
  BY <1>1, <1>2, PowerAdds
<1>4. Power(2, 2 + 2) = 16
  BY <1>1, <1>3, PowerAdds
<1>5. Power(2, 4 + 4) = 256
  BY <1>1, <1>4, PowerAdds
<1>6. Power(2, 8 + 8) = 65536
  BY <1>1, <1>5, PowerAdds, SMT
<1>7. Power(2, 4 + 1) = 32
  BY <1>1, <1>2, <1>4, PowerAdds
<1>8. Power(2, 4 + 2) = 64
  BY <1>1, <1>3, <1>4, PowerAdds
<1>9. Power(2, 6 + 1) = 128
  BY <1>1, <1>2, <1>8, PowerAdds
<1>10. Power(2, 16 + 1) = 131072
  BY <1>1, <1>2, <1>6, PowerAdds, SMT
<1>11. Power(2, 16 + 7) = Hidden
  BY <1>1, <1>6, <1>9, PowerAdds, SMT DEF Hidden
<1>12. Power(2, 17 + 7) = 2 * Hidden
  BY <1>1, <1>10, <1>9, PowerAdds, SMT DEF Hidden
<1>. QED
  BY <1>1, <1>2, <1>6, <1>7, <1>8, <1>9, <1>10, <1>11, <1>12, SMT

\* Larger exponents, larger powers.
LEMMA PowersGrow ==
    ASSUME NEW m \in Nat, NEW n \in Nat, m < n
    PROVE  2 * Power(2, m) <= Power(2, n) /\ Power(2, m) \in Nat \ {0} /\ Power(2, n) > n
<1>1. /\ Power(2, (m + 1) + (n - (m + 1))) = Power(2, m + 1) * Power(2, n - (m + 1))
      /\ Power(2, n - (m + 1)) \in Nat \ {0}
  BY PowerAdds, m + 1 \in Nat, n - (m + 1) \in Nat, 2 \in Nat \ {0}
<1>2. Power(2, m + 1) = 2 * Power(2, m) /\ Power(2, m) \in Nat \ {0}
  BY PowerNext, PowerAdds, 2 \in Nat \ {0}
<1>3. 2 * Power(2, m) <= Power(2, n)
  <2>. DEFINE p == Power(2, m)  q == Power(2, n - (m + 1))
  <2>1. p \in Nat /\ q \in Nat \ {0} /\ Power(2, n) = (2 * p) * q
    BY <1>1, <1>2
  <2>. HIDE DEF p, q
  <2>2. (2 * p) * q >= 2 * p
    BY <2>1, SMTT(30)
  <2>. QED
    BY <2>1, <2>2 DEF p
<1>. DEFINE Above == {i \in Nat : Power(2, i) > i}
<1>4. n \in Above
  <2>1. 0 \in Above
    BY PowersOfTwo
  <2>2. \A i \in Nat : i \in Above => i + 1 \in Above
    BY PowerNext
  <2>. HIDE DEF Above
  <2>. QED
    BY <2>1, <2>2, SetInduction
<1>. QED
  BY <1>2, <1>3, <1>4

-----------------------------------------------------------------------------
(* The nearest float *)

Normal(bits) == bits \in Hidden..(2 * Hidden - 1)

LEMMA NormalOrNot ==
    /\ Hidden \in Nat \ {0}
    /\ \A bits \in Int : Normal(bits) <=> Hidden <= bits /\ bits < 2 * Hidden
    /\ \A bits \in Nat : bits < Hidden => 2 * bits + 1 < 2 * Hidden
<1>1. Hidden \in Nat \ {0}
  BY SMT DEF Hidden
<1>. QED
  BY <1>1 DEF Normal

LEMMA PlaceExists ==
    ASSUME NEW n \in Nat \ {0}, NEW d \in Nat \ {0}, n < 2 * Hidden * d
    PROVE  \E i \in 0..(23 + d) : Normal(Division(n, d, i)[1])
<1>. DEFINE last == 23 + d
            Q(i) == Division(n, d, i)[1]
            R(i) == Division(n, d, i)[2]
<1>. SUFFICES ASSUME \A i \in 0..last : ~Normal(Q(i)) PROVE FALSE
  OBVIOUS
<1>0. last \in Nat /\ n \in Nat
  OBVIOUS
<1>1. /\ \A i \in Nat : /\ Q(i) \in Nat /\ R(i) \in Nat /\ R(i) < d
                       /\ Q(i) * d + R(i) = n * Power(2, i)
      /\ Q(0) = n \div d
      /\ \A i \in Nat : Q(i + 1) \in {2 * Q(i), 2 * Q(i) + 1}
  <2>1. \A i \in Nat : Divides(Division(n, d, i), n, d, i)
    BY <1>0, DivisionOf
  <2>2. Q(0) = n \div d
    <3>1. Division(n, d, 0) = <<n \div d, n % d>>
      BY <1>0, DivisionOf, 0 \in Nat
    <3>. QED
      BY <3>1
  <2>3. ASSUME NEW i \in Nat PROVE Q(i + 1) \in {2 * Q(i), 2 * Q(i) + 1}
    <3>1. Division(n, d, i + 1) = NextBit(Division(n, d, i), d)
      BY <1>0, DivisionOf
    <3>2. NextBit(Division(n, d, i), d)[1] \in {2 * Q(i), 2 * Q(i) + 1}
      BY <1>0, <2>1, NextBitDivides
    <3>. QED
      BY <3>1, <3>2
  <2>. QED
    BY <2>1, <2>2, <2>3 DEF Divides
<1>2. n \div d < 2 * Hidden
  <2>. DEFINE q == n \div d  r == n % d
  <2>1. q \in Nat /\ r \in Nat /\ q * d + r = n
    BY DivMod
  <2>. HIDE DEF q, r
  <2>2. q < 2 * Hidden
    BY <2>1, SMTT(30) DEF Hidden
  <2>. QED
    BY <2>2 DEF q
<1>. HIDE DEF Q, R, last
<1>. DEFINE Below == {i \in Nat : i <= last => Q(i) < Hidden}
<1>3. 0 \in Below
  <2>1. ~Normal(Q(0)) /\ Q(0) \in Nat /\ Q(0) < 2 * Hidden
    BY <1>0, <1>1, <1>2
  <2>. QED
    BY <2>1, NormalOrNot
<1>4. ASSUME NEW i \in Nat, i \in Below PROVE i + 1 \in Below
  <2>. SUFFICES ASSUME i + 1 <= last PROVE Q(i + 1) < Hidden
    OBVIOUS
  <2>1. Q(i) < Hidden /\ Q(i) \in Nat /\ Q(i + 1) \in {2 * Q(i), 2 * Q(i) + 1}
    BY <1>0, <1>1, <1>4
  <2>2. ~Normal(Q(i + 1))
    BY <1>0
  <2>. QED
    BY <2>1, <2>2, NormalOrNot
<1>5. last \in Below
  <2>. HIDE DEF Below
  <2>. QED
    BY <1>0, <1>3, <1>4, SetInduction
<1>. DEFINE q == Q(last)  r == R(last)  p == Power(2, d)
<1>6. q \in Nat /\ r \in Nat /\ r < d /\ q < Hidden /\ q * d + r = n * Power(2, last)
  BY <1>0, <1>1, <1>5
<1>7. p \in Nat /\ p > d /\ Power(2, last) = Hidden * p
  <2>1. Power(2, d) \in Nat /\ Power(2, d) > d
    BY PowersGrow, PowerNext, 0 < d
  <2>. QED
    BY <2>1, PowerAdds, PowersOfTwo, 2 \in Nat \ {0} DEF last
<1>8. q * d + r = n * (Hidden * p)
  BY <1>6, <1>7
<1>. HIDE DEF q, r, p
<1>9. n * (Hidden * p) >= Hidden * p
  BY <1>7, SMTT(30) DEF Hidden
<1>10. q * d <= (Hidden - 1) * d
  BY <1>6, SMTT(30) DEF Hidden
<1>. QED
  BY <1>6, <1>7, <1>8, <1>9, <1>10, SMT DEF Hidden

\* The larger a number, the fewer the places at which it has 24 digits.
LEMMA PlacesOrder ==
    ASSUME NEW n \in Nat, NEW m \in Nat, n <= m, NEW d \in Nat \ {0},
           NEW i \in Nat, NEW j \in Nat,
           NEW q \in Nat, NEW r \in Nat, r < d, q * d + r = n * Power(2, i),
           NEW s \in Nat, NEW t \in Nat, t < d, s * d + t = m * Power(2, j),
           q >= Hidden, s < 2 * Hidden
    PROVE  j <= i
<1>. SUFFICES ASSUME i < j PROVE FALSE
  OBVIOUS
<1>. DEFINE a == Power(2, i)  b == Power(2, j)
<1>1. a \in Nat /\ b \in Nat /\ 2 * a <= b
  BY PowersGrow, PowerNext
<1>2. q * d + r = n * a /\ s * d + t = m * b
  OBVIOUS
<1>. HIDE DEF a, b
<1>3. m * b >= 2 * (n * a)
  <2>1. m * b >= n * b /\ n * b >= n * (2 * a) /\ n * (2 * a) = 2 * (n * a)
    BY <1>1, SMTT(30)
  <2>. QED
    BY <1>1, <2>1
<1>4. s * d + d > 2 * (q * d)
  BY <1>2, <1>3
<1>5. q * d >= Hidden * d
  BY SMTT(30) DEF Hidden
<1>6. s * d <= (2 * Hidden - 1) * d
  BY SMTT(30) DEF Hidden
<1>. QED
  BY <1>4, <1>5, <1>6, SMT DEF Hidden

LEMMA RoundedOf ==
    ASSUME NEW q \in Nat, NEW r \in Nat, NEW d \in Nat \ {0}, r < d
    PROVE  /\ Rounded(<<q, r>>, d) \in {q, q + 1}
           /\ 2 * (Rounded(<<q, r>>, d) * d) - 2 * (q * d + r) \in (-d)..d
<1>1. CASE 2 * r > d \/ (2 * r = d /\ q % 2 = 1)
  <2>1. Rounded(<<q, r>>, d) = q + 1
    BY <1>1 DEF Rounded
  <2>2. (q + 1) * d = q * d + d
    BY SMTT(30)
  <2>. QED
    BY <1>1, <2>1, <2>2
<1>2. CASE ~(2 * r > d \/ (2 * r = d /\ q % 2 = 1))
  <2>1. Rounded(<<q, r>>, d) = q
    BY <1>2 DEF Rounded
  <2>. QED
    BY <1>2, <2>1
<1>. QED
  BY <1>1, <1>2

\* bits * 2^-exponent is within so many units of 1/scale * 2^-exponent of value/scale.
Within(f, scale, value, units) ==
    /\ f.exponent \in Nat /\ f.bits \in Nat
    /\ scale * f.bits - value * Power(2, f.exponent) \in (-units)..units

\* To write 2^24 with one digit less changes nothing.
LEMMA FloatOf ==
    ASSUME NEW bits \in Nat, NEW exponent \in Nat \ {0}, NEW scale \in Nat, NEW value \in Nat,
           NEW units \in Nat, scale * bits - value * Power(2, exponent) \in (-units)..units
    PROVE  /\ Within(Float(bits, exponent), scale, value, units)
           /\ Float(bits, exponent) = [bits |-> Float(bits, exponent).bits,
                                       exponent |-> Float(bits, exponent).exponent]
           /\ \/ Float(bits, exponent).exponent = exponent /\ Float(bits, exponent).bits = bits
                    /\ bits # 2 * Hidden
              \/ /\ Float(bits, exponent).exponent = exponent - 1 /\ bits = 2 * Hidden
                 /\ Float(bits, exponent).bits = Hidden
                 /\ 2 * (scale * Hidden - value * Power(2, exponent - 1)) \in (-units)..units
<1>1. CASE bits = 2 * Hidden
  <2>. DEFINE p == Power(2, exponent - 1)
  <2>1. p \in Nat /\ Power(2, exponent) = 2 * p
    <3>1. exponent - 1 \in Nat /\ (exponent - 1) + 1 = exponent
      OBVIOUS
    <3>. QED
      BY <3>1, PowerNext
  <2>. HIDE DEF p
  <2>2. 2 * (scale * Hidden - value * p) = scale * bits - value * Power(2, exponent)
    BY <1>1, <2>1, NormalOrNot, SMTT(30)
  <2>. DEFINE x == scale * Hidden - value * p
  <2>3. x \in Int
    BY <2>1, NormalOrNot
  <2>4. 2 * x \in (-units)..units
    BY <2>2
  <2>. HIDE DEF x
  <2>5. x \in (-units)..units
    BY <2>3, <2>4
  <2>6. Float(bits, exponent) = [bits |-> Hidden, exponent |-> exponent - 1]
    BY <1>1 DEF Float
  <2>. QED
    BY <1>1, <2>4, <2>5, <2>6, NormalOrNot DEF Within, p, x
<1>2. CASE bits # 2 * Hidden
  BY <1>2 DEF Float, Within
<1>. QED
  BY <1>1, <1>2

LEMMA NearestOf ==
    ASSUME NEW n \in Nat \ {0}, NEW d \in Nat \ {0}, n < 2 * Hidden * d
    PROVE  \E e \in Nat, q \in Nat, r \in Nat :
              /\ r < d /\ q * d + r = n * Power(2, e)
              /\ Normal(q) /\ Nearest(n, d) = Float(Rounded(<<q, r>>, d), e)
<1>. DEFINE place == CHOOSE i \in 0..(23 + d) : Division(n, d, i)[1] \in Hidden..(2 * Hidden - 1)
<1>1. place \in 0..(23 + d) /\ Division(n, d, place)[1] \in Hidden..(2 * Hidden - 1)
  BY PlaceExists, Zenon DEF Normal
<1>2. Nearest(n, d) = Float(Rounded(Division(n, d, place), d), place)
  BY DEF Nearest
<1>. HIDE DEF place
<1>3. place \in Nat /\ Divides(Division(n, d, place), n, d, place)
  BY <1>1, DivisionOf
<1>4. PICK q \in Nat, r \in Nat : Division(n, d, place) = <<q, r>>
  BY <1>3 DEF Divides
<1>5. r < d /\ q * d + r = n * Power(2, place)
  BY <1>3, <1>4 DEF Divides
<1>6. Normal(q) /\ Nearest(n, d) = Float(Rounded(<<q, r>>, d), place)
  BY <1>1, <1>2, <1>4 DEF Normal
<1>. QED
  BY <1>3, <1>5, <1>6

\* A float has an error of half a unit.
LEMMA NearestWithin ==
    ASSUME NEW n \in Nat \ {0}, NEW d \in Nat \ {0}, n < Hidden * d
    PROVE  /\ Within(Nearest(n, d), 2 * d, 2 * n, d) /\ Normal(Nearest(n, d).bits)
           /\ Nearest(n, d) = [bits |-> Nearest(n, d).bits, exponent |-> Nearest(n, d).exponent]
<1>1. Hidden * d < 2 * Hidden * d /\ Hidden * d \in Nat /\ 2 * Hidden * d \in Nat
  BY NormalOrNot, SMTT(30)
<1>2. PICK e \in Nat, q \in Nat, r \in Nat :
          /\ r < d /\ q * d + r = n * Power(2, e)
          /\ Normal(q) /\ Nearest(n, d) = Float(Rounded(<<q, r>>, d), e)
  <2>1. n < 2 * Hidden * d
    BY <1>1
  <2>. QED
    BY <2>1, NearestOf
<1>. DEFINE p == Power(2, e)  b == Rounded(<<q, r>>, d)
<1>3. p \in Nat
  BY PowerNext
<1>4. e # 0
  <2>. SUFFICES ASSUME e = 0 PROVE FALSE
    OBVIOUS
  <2>1. q * d + r = n
    BY <1>2, PowersOfTwo
  <2>2. q * d >= Hidden * d
    BY <1>2, NormalOrNot, SMTT(30)
  <2>. QED
    BY <1>1, <1>2, <2>1, <2>2
<1>5. b \in {q, q + 1} /\ 2 * (b * d) - 2 * (q * d + r) \in (-d)..d
  BY <1>2, RoundedOf
<1>. HIDE DEF p, b
<1>6. (2 * d) * b - (2 * n) * p \in (-d)..d /\ b \in Nat
  <2>1. b \in Nat /\ (2 * d) * b = 2 * (b * d) /\ (2 * n) * p = 2 * (n * p)
    BY <1>3, <1>5, SMTT(30)
  <2>2. q * d + r = n * p
    BY <1>2 DEF p
  <2>. QED
    BY <1>5, <2>1, <2>2
<1>. DEFINE f == Float(b, e)
<1>7. /\ Within(f, 2 * d, 2 * n, d) /\ f = [bits |-> f.bits, exponent |-> f.exponent]
      /\ (f.bits = b /\ b # 2 * Hidden) \/ f.bits = Hidden
  <2>. DEFINE scale == 2 * d  value == 2 * n
  <2>1. scale \in Nat /\ value \in Nat /\ d \in Nat /\ e \in Nat \ {0} /\ b \in Nat
    BY <1>4, <1>6
  <2>2. scale * b - value * Power(2, e) \in (-d)..d
    BY <1>6 DEF p
  <2>. HIDE DEF scale, value
  <2>3. /\ Within(f, scale, value, d) /\ f = [bits |-> f.bits, exponent |-> f.exponent]
        /\ (f.bits = b /\ b # 2 * Hidden) \/ f.bits = Hidden
    BY <2>1, <2>2, FloatOf
  <2>. QED
    BY <2>3 DEF scale, value
<1>8. Nearest(n, d) = f
  BY <1>2 DEF b
<1>. HIDE DEF f
<1>9. Normal(f.bits)
  BY <1>2, <1>5, <1>7, NormalOrNot
<1>. QED
  BY <1>7, <1>8, <1>9

\* Rounding keeps the order of numbers.
LEMMA RoundedOrder ==
    ASSUME NEW q \in Nat, NEW r \in Nat, NEW s \in Nat, NEW t \in Nat, NEW d \in Nat \ {0},
           r < d, t < d, q * d + r <= s * d + t
    PROVE  q <= s /\ Rounded(<<q, r>>, d) <= Rounded(<<s, t>>, d)
<1>1. q <= s
  <2>. SUFFICES ASSUME q >= s + 1 PROVE FALSE
    OBVIOUS
  <2>1. q * d >= (s + 1) * d /\ (s + 1) * d = s * d + d
    BY SMTT(30)
  <2>. QED
    BY <2>1
<1>2. CASE q = s
  <2>1. r <= t
    BY <1>2
  <2>. QED
    BY <1>2, <2>1 DEF Rounded
<1>3. CASE q < s
  <2>1. Rounded(<<q, r>>, d) \in {q, q + 1} /\ Rounded(<<s, t>>, d) \in {s, s + 1}
    BY RoundedOf
  <2>. QED
    BY <1>3, <2>1
<1>. QED
  BY <1>1, <1>2, <1>3

LEMMA FloatOrder ==
    ASSUME NEW b \in Hidden..(2 * Hidden), NEW c \in Hidden..(2 * Hidden),
           NEW i \in Nat, NEW j \in Nat, j < i \/ (j = i /\ b <= c)
    PROVE  AtMost(Float(b, i), Float(c, j))
<1>1. b \in Nat /\ c \in Nat /\ Hidden <= b /\ Hidden <= c /\ b <= 2 * Hidden /\ c <= 2 * Hidden
  BY NormalOrNot
<1>2. Float(c, j).bits \in Nat \ {0}
  BY <1>1, NormalOrNot DEF Float
<1>3. Float(c, j) # Zero
  BY <1>2 DEF Zero
<1>4. \/ Float(b, i).exponent > Float(c, j).exponent
      \/ Float(b, i).exponent = Float(c, j).exponent /\ Float(b, i).bits <= Float(c, j).bits
  <2>1. CASE b = 2 * Hidden /\ c = 2 * Hidden
    BY <2>1, NormalOrNot DEF Float
  <2>2. CASE b = 2 * Hidden /\ c # 2 * Hidden
    BY <1>1, <2>2, NormalOrNot DEF Float
  <2>3. CASE b # 2 * Hidden /\ c = 2 * Hidden
    BY <1>1, <2>3, NormalOrNot DEF Float
  <2>4. CASE b # 2 * Hidden /\ c # 2 * Hidden
    BY <1>1, <2>4, NormalOrNot DEF Float
  <2>. QED
    BY <2>1, <2>2, <2>3, <2>4
<1>. QED
  BY <1>3, <1>4 DEF AtMost

LEMMA NearestOrder ==
    ASSUME NEW n \in Nat, NEW m \in Nat, n <= m, NEW d \in Nat \ {0}, m < 2 * Hidden * d
    PROVE  AtMost(Nearest(n, d), Nearest(m, d))
<1>1. CASE n = 0
  BY <1>1 DEF Nearest, AtMost
<1>2. CASE n # 0
  <2>0. 2 * Hidden * d \in Nat
    BY NormalOrNot, SMTT(30)
  <2>1. n \in Nat \ {0} /\ m \in Nat \ {0} /\ n < 2 * Hidden * d
    BY <1>2, <2>0
  <2>2. PICK i \in Nat, q \in Nat, r \in Nat :
            /\ r < d /\ q * d + r = n * Power(2, i)
            /\ Normal(q) /\ Nearest(n, d) = Float(Rounded(<<q, r>>, d), i)
    BY <2>1, NearestOf
  <2>3. PICK j \in Nat, s \in Nat, t \in Nat :
            /\ t < d /\ s * d + t = m * Power(2, j)
            /\ Normal(s) /\ Nearest(m, d) = Float(Rounded(<<s, t>>, d), j)
    BY <2>1, NearestOf
  <2>4. q >= Hidden /\ q < 2 * Hidden /\ s >= Hidden /\ s < 2 * Hidden
    BY <2>2, <2>3, NormalOrNot
  <2>5. j <= i
    BY <2>2, <2>3, <2>4, PlacesOrder
  <2>. DEFINE b == Rounded(<<q, r>>, d)  c == Rounded(<<s, t>>, d)
  <2>6. b \in {q, q + 1} /\ c \in {s, s + 1}
    BY <2>2, <2>3, RoundedOf
  <2>7. b \in Hidden..(2 * Hidden) /\ c \in Hidden..(2 * Hidden)
    <3>. HIDE DEF b, c
    <3>. QED
      BY <2>4, <2>6, NormalOrNot
  <2>8. j = i => b <= c
    <3>. SUFFICES ASSUME j = i PROVE b <= c
      OBVIOUS
    <3>. DEFINE p == Power(2, i)
    <3>1. p \in Nat /\ q * d + r = n * p /\ s * d + t = m * p
      BY <2>2, <2>3, PowerNext
    <3>. HIDE DEF p
    <3>2. n * p <= m * p
      BY <3>1, SMTT(30)
    <3>3. q * d + r <= s * d + t
      BY <3>1, <3>2
    <3>. QED
      BY <2>2, <2>3, <3>3, RoundedOrder
  <2>. HIDE DEF b, c
  <2>9. AtMost(Float(b, i), Float(c, j))
    BY <2>5, <2>7, <2>8, FloatOrder
  <2>. QED
    BY <2>2, <2>3, <2>9 DEF b, c
<1>. QED
  BY <1>1, <1>2

\* A number below 2^(23 - k) and of 24 digits has more than k of them after the point.
LEMMA WithinIs ==
    ASSUME NEW f, NEW scale, NEW value, NEW units, Within(f, scale, value, units)
    PROVE  /\ f.exponent \in Nat /\ f.bits \in Nat /\ Power(2, f.exponent) \in Nat
           /\ scale * f.bits - value * Power(2, f.exponent) \in (-units)..units
<1>1. f.exponent \in Nat /\ f.bits \in Nat
  BY DEF Within
<1>2. Power(2, f.exponent) \in Nat
  BY <1>1, PowerNext, 2 \in Nat
<1>. QED
  BY <1>1, <1>2, Zenon DEF Within

LEMMA AtMostSix ==
    ASSUME NEW e \in Nat, NEW k \in Nat, Power(2, e) > Power(2, k)
    PROVE  e > k
<1>. SUFFICES ASSUME e <= k PROVE FALSE
  OBVIOUS
<1>1. CASE e = k
  BY <1>1, PowerNext
<1>2. CASE e < k
  BY <1>2, PowersGrow, PowerNext
<1>. QED
  BY <1>1, <1>2

Day == 240000000

LEMMA BoundsType == Day \in Nat /\ SevenDigits \in Nat
BY SMT DEF Day, SevenDigits

DayFloat(f, n, b, e, p, x) ==
    /\ f.bits = b /\ f.exponent = e /\ p = Power(2, e) /\ p >= 64 /\ x = n * p
    /\ Hidden <= b /\ b < 2 * Hidden /\ 2000 * b - 2 * x \in (-1000)..1000

LEMMA DayPlaces ==
    ASSUME NEW n \in Nat \ {0}, n < Day
    PROVE  \E b, e, p, x \in Nat : DayFloat(Nearest(n, 1000), n, b, e, p, x)
<1>. DEFINE f == Nearest(n, 1000)
<1>1. Within(f, 2000, 2 * n, 1000) /\ Normal(f.bits)
  <2>1. n < Hidden * 1000
    BY SMT DEF Hidden, Day
  <2>2. Within(f, 2 * 1000, 2 * n, 1000) /\ Normal(f.bits)
    BY <2>1, NearestWithin, 1000 \in Nat \ {0}, SMT
  <2>. QED
    BY <2>2, 2 * 1000 = 2000, SMT
<1>. HIDE DEF f
<1>2. PICK b \in Nat, e \in Nat : f.bits = b /\ f.exponent = e
  BY <1>1, WithinIs
<1>. DEFINE p == Power(2, e)  x == n * p
<1>3. /\ p \in Nat /\ 2000 * b - (2 * n) * p \in (-1000)..1000
  <2>1. /\ Power(2, f.exponent) \in Nat
        /\ 2000 * f.bits - (2 * n) * Power(2, f.exponent) \in (-1000)..1000
    <3>1. Power(2, f.exponent) \in Nat
      BY <1>1, WithinIs
    <3>2. 2000 * f.bits - (2 * n) * Power(2, f.exponent) \in (-1000)..1000
      BY <1>1 DEF Within
    <3>. QED
      BY <3>1, <3>2
  <2>. QED
    BY <1>2, <2>1
<1>4. Hidden <= b /\ b < 2 * Hidden
  BY <1>1, <1>2, NormalOrNot
<1>5. x \in Nat /\ (2 * n) * p = 2 * x
  <2>. HIDE DEF p
  <2>. QED
    BY <1>3, SMTT(30)
<1>. HIDE DEF p, x
<1>6. 2000 * b - 2 * x \in (-1000)..1000
  BY <1>3, <1>5
<1>7. p > 32
  <2>. SUFFICES ASSUME p <= 32 PROVE FALSE
    BY <1>3
  <2>1. n * p <= n * 32
    BY <1>3, SMTT(30)
  <2>2. 2 * x >= 2000 * Hidden - 1000
    BY <1>4, <1>5, <1>6, NormalOrNot
  <2>. QED
    BY <1>5, <2>1, <2>2, SMT DEF Hidden, Day, x
<1>8. e > 5
  BY <1>7, AtMostSix, PowersOfTwo, SMT DEF p
<1>9. p >= 64
  <2>1. Power(2, 5) = 32 /\ 2 * Power(2, 5) <= Power(2, e)
    BY <1>8, PowersGrow, PowersOfTwo
  <2>. QED
    BY <2>1 DEF p
<1>10. p = Power(2, e) /\ x = n * p
  BY DEF p, x
<1>11. DayFloat(f, n, b, e, p, x)
  BY <1>2, <1>4, <1>6, <1>9, <1>10 DEF DayFloat
<1>. QED
  BY <1>3, <1>5, <1>11, SMT DEF f

LEMMA DayApart ==
    ASSUME NEW n \in Nat, NEW m \in Nat, n + 16 <= m, m < Day
    PROVE  ~AtMost(Nearest(m, 1000), Nearest(n, 1000))
<1>. DEFINE f == Nearest(n, 1000)  g == Nearest(m, 1000)
<1>1. m \in Nat \ {0}
  OBVIOUS
<1>2. PICK c \in Nat, j \in Nat, q \in Nat, y \in Nat :
          DayFloat(g, m, c, j, q, y)
  BY <1>1, DayPlaces, SMT
<1>. HIDE DEF g
<1>. USE DEF DayFloat
<1>3. g # Zero
  BY <1>2, NormalOrNot DEF Zero
<1>4. CASE n = 0
  <2>1. f = Zero
    BY <1>4 DEF Nearest
  <2>. HIDE DEF f
  <2>2. ~AtMost(g, f)
    BY <1>3, <2>1 DEF AtMost
  <2>. QED
    BY <2>2 DEF f, g
<1>5. CASE n # 0
  <2>1. PICK b \in Nat, i \in Nat, p \in Nat, x \in Nat :
            DayFloat(f, n, b, i, p, x)
    <3>1. n \in Nat \ {0} /\ n < Day
      BY <1>5, BoundsType
    <3>. QED
      BY <3>1, DayPlaces, SMT
  <2>. HIDE DEF f
  <2>2. j = i => b < c
    <3>. SUFFICES ASSUME j = i PROVE b < c
      OBVIOUS
    <3>1. m * p >= (n + 16) * p /\ (n + 16) * p = n * p + 16 * p
      BY SMTT(30)
    <3>2. y = m * p
      BY <1>2, <2>1
    <3>3. y >= x + 1024
      BY <2>1, <3>1, <3>2
    <3>4. 2000 * b - 2 * x \in (-1000)..1000 /\ 2000 * c - 2 * y \in (-1000)..1000
      BY <1>2, <2>1
    <3>. QED
      BY <3>3, <3>4
  <2>3. ~(j > i)
    <3>. SUFFICES ASSUME i < j PROVE FALSE
      OBVIOUS
    <3>1. q >= 2 * p
      BY <1>2, <2>1, PowersGrow
    <3>2. m * q >= (n + 16) * q
      BY SMTT(30)
    <3>3. (n + 16) * q >= (n + 16) * (2 * p)
      BY <3>1, SMTT(30)
    <3>4. (n + 16) * (2 * p) = 2 * (n * p) + 32 * p
      BY SMTT(30)
    <3>. DEFINE u == (n + 16) * q  v == (n + 16) * (2 * p)  w == n * p
    <3>5. u \in Nat /\ v \in Nat /\ y >= u /\ u >= v /\ v = 2 * w + 32 * p /\ w = x
      BY <1>2, <2>1, <3>2, <3>3, <3>4
    <3>. HIDE DEF u, v, w
    <3>6. y >= 2 * x + 2048
      BY <2>1, <3>5
    <3>7. Hidden \in Nat
      BY NormalOrNot
    <3>8. /\ 2000 * b - 2 * x \in (-1000)..1000 /\ 2000 * c - 2 * y \in (-1000)..1000
          /\ Hidden <= b /\ c < 2 * Hidden
      BY <1>2, <2>1
    <3>. QED
      BY <3>6, <3>7, <3>8
  <2>4. ~AtMost(g, f)
    BY <1>2, <1>3, <2>1, <2>2, <2>3 DEF AtMost
  <2>. QED
    BY <2>4 DEF f, g
<1>. QED
  BY <1>4, <1>5

\* Numbers of up to seven digits have floats of their own.
LEMMA TenthPlaces ==
    ASSUME NEW n \in Nat \ {0}, n <= SevenDigits
    PROVE  LET f == Nearest(n, 10) IN
           /\ Within(f, 20, 2 * n, 10) /\ Normal(f.bits) /\ Power(2, f.exponent) >= 16
           /\ f = [bits |-> f.bits, exponent |-> f.exponent]
<1>. DEFINE f == Nearest(n, 10)  p == Power(2, f.exponent)
<1>1. /\ Within(f, 20, 2 * n, 10) /\ Normal(f.bits)
      /\ f = [bits |-> f.bits, exponent |-> f.exponent]
  <2>1. n < Hidden * 10
    BY SMT DEF Hidden, Day, SevenDigits
  <2>2. /\ Within(f, 2 * 10, 2 * n, 10) /\ Normal(f.bits)
        /\ f = [bits |-> f.bits, exponent |-> f.exponent]
    BY <2>1, NearestWithin, 10 \in Nat \ {0}, SMT
  <2>. QED
    BY <2>2, 2 * 10 = 20, SMT
<1>. HIDE DEF f
<1>2. /\ f.exponent \in Nat /\ f.bits \in Nat /\ Hidden <= f.bits /\ p \in Nat
      /\ 20 * f.bits - (2 * n) * p \in (-10)..10
  <2>1. /\ f.exponent \in Nat /\ f.bits \in Nat /\ p \in Nat
        /\ 20 * f.bits - (2 * n) * p \in (-10)..10
    BY <1>1, WithinIs, SMT
  <2>. QED
    BY <1>1, <2>1, NormalOrNot
<1>. HIDE DEF p
<1>3. 2 * (n * p) >= 20 * Hidden - 10
  BY <1>2, NormalOrNot, SMTT(30)
<1>4. p > 8
  <2>. SUFFICES ASSUME p <= 8 PROVE FALSE
    BY <1>2
  <2>1. n * p <= n * 8
    BY <1>2, SMTT(30)
  <2>. QED
    BY <1>2, <1>3, <2>1, SMT DEF Hidden, Day, SevenDigits
<1>5. Power(2, 3) = 8 /\ Power(2, 4) = 16
  <2>1. Power(2, 0 + 1) = 2
    BY PowerNext, PowersOfTwo, 0 \in Nat
  <2>2. Power(2, 1 + 1) = 4
    BY <2>1, PowerNext, 1 \in Nat, 2 \in Nat
  <2>3. Power(2, 2 + 1) = 8
    BY <2>2, PowerNext, 2 \in Nat
  <2>4. Power(2, 3 + 1) = 16
    BY <2>3, PowerNext, 3 \in Nat, 2 \in Nat
  <2>. QED
    BY <2>3, <2>4
<1>6. f.exponent > 3
  BY <1>2, <1>4, <1>5, AtMostSix, SMT DEF p
<1>7. p >= 16
  <2>1. CASE f.exponent = 4
    BY <1>5, <2>1 DEF p
  <2>2. CASE f.exponent > 4
    BY <1>2, <1>5, <2>2, PowersGrow DEF p
  <2>. QED
    BY <1>2, <1>6, <2>1, <2>2
<1>. QED
  BY <1>1, <1>7 DEF f, p

LEMMA NearestTenths ==
    ASSUME NEW n \in 0..SevenDigits, NEW m \in 0..SevenDigits, Nearest(n, 10) = Nearest(m, 10)
    PROVE  n = m
<1>. DEFINE f == Nearest(n, 10)  p == Power(2, f.exponent)
<1>0. SevenDigits \in Nat
  BY BoundsType
<1>1. Nearest(0, 10) = Zero
  BY DEF Nearest
<1>2. \A k \in 1..SevenDigits : Nearest(k, 10) # Zero
  <2>. SUFFICES ASSUME NEW k \in 1..SevenDigits PROVE Nearest(k, 10) # Zero
    OBVIOUS
  <2>1. Normal(Nearest(k, 10).bits)
    BY <1>0, TenthPlaces, SMT
  <2>. QED
    BY <2>1, NormalOrNot DEF Zero
<1>3. CASE n = 0 \/ m = 0
  BY <1>0, <1>1, <1>2, <1>3, SMT
<1>4. CASE n # 0 /\ m # 0
  <2>1. Within(f, 20, 2 * n, 10) /\ Within(f, 20, 2 * m, 10) /\ p >= 16
    BY <1>0, <1>4, TenthPlaces, SMT
  <2>. HIDE DEF f
  <2>2. /\ f.bits \in Nat /\ p \in Nat /\ 20 * f.bits - (2 * n) * p \in (-10)..10
        /\ 20 * f.bits - (2 * m) * p \in (-10)..10
    BY <2>1, WithinIs, SMT
  <2>. HIDE DEF p
  <2>3. ASSUME NEW a \in Nat, NEW b \in Nat, a < b
        PROVE  (2 * b) * p - (2 * a) * p >= 32
    <3>1. (2 * b) * p >= (2 * (a + 1)) * p /\ (2 * (a + 1)) * p = (2 * a) * p + 2 * p
      BY <2>2, <2>3, SMTT(30)
    <3>. QED
      BY <2>1, <2>2, <3>1
  <2>4. n \in Nat /\ m \in Nat
    BY <1>0
  <2>5. ~(n < m) /\ ~(m < n)
    BY <2>2, <2>3, <2>4, SMT
  <2>. QED
    BY <2>4, <2>5, SMT
<1>. QED
  BY <1>3, <1>4

-----------------------------------------------------------------------------
(* A sixtieth *)

\* What is lost when a number that has lost up to T is divided by 60 and rounded.
LEMMA SixtiethError ==
    ASSUME NEW T \in Nat \ {0}, NEW m \in Nat, NEW p \in Nat, NEW b \in Nat, NEW c \in Nat,
           NEW s \in {32, 64}, 2 * T * b - 2 * m * p \in (-T)..T,
           2 * (c * 60) - 2 * (s * b) \in (-60)..60
    PROVE  (120 * T) * c - (2 * m) * (s * p) \in (-(124 * T))..(124 * T)
<1>. DEFINE x == T * b  y == m * p  z == T * c
<1>1. x \in Nat /\ y \in Nat /\ z \in Nat /\ 2 * T * b = 2 * x /\ 2 * m * p = 2 * y
  BY SMTT(30)
<1>2. (120 * T) * c = 120 * z /\ (2 * m) * (s * p) = 2 * (s * y)
  BY SMTT(30)
<1>3. 120 * z - 2 * (s * x) \in (-(60 * T))..(60 * T)
  <2>1. /\ T * (120 * c - 2 * (s * b)) <= T * 60
        /\ T * (120 * c - 2 * (s * b)) >= T * (-60)
    BY SMTT(30)
  <2>2. T * (120 * c - 2 * (s * b)) = 120 * z - 2 * (s * x)
    BY SMTT(30)
  <2>. DEFINE w == T * (120 * c - 2 * (s * b))
  <2>3. w \in Int /\ w <= 60 * T /\ w >= -(60 * T)
    BY <2>1, SMTT(30)
  <2>4. w = 120 * z - 2 * (s * x)
    BY <2>2
  <2>. HIDE DEF w, x, z
  <2>. QED
    BY <1>1, <2>3, <2>4
<1>. HIDE DEF x, y, z
<1>4. 2 * x - 2 * y \in (-T)..T
  BY <1>1
<1>5. CASE s = 32
  BY <1>1, <1>2, <1>3, <1>4, <1>5
<1>6. CASE s = 64
  BY <1>1, <1>2, <1>3, <1>4, <1>6
<1>. QED
  BY <1>5, <1>6

\* The minutes of an angle are below 61: their sixtieth has at least 23 places.
Minute(m, T) == m \in Nat /\ T \in Nat \ {0} /\ m < 61 * T

LEMMA MinutePlaces ==
    ASSUME NEW m \in Nat \ {0}, NEW T, Minute(m, T)
    PROVE  LET f == Nearest(m, T) IN
           /\ Within(f, 2 * T, 2 * m, T) /\ Normal(f.bits) /\ f.exponent >= 18
           /\ f = [bits |-> f.bits, exponent |-> f.exponent]
<1>. DEFINE f == Nearest(m, T)
<1>1. T \in Nat \ {0} /\ m < 61 * T
  BY DEF Minute
<1>2. /\ Within(f, 2 * T, 2 * m, T) /\ Normal(f.bits)
      /\ f = [bits |-> f.bits, exponent |-> f.exponent]
  <2>1. 61 * T <= Hidden * T /\ Hidden * T \in Nat
    BY <1>1, SMTT(30) DEF Hidden
  <2>2. m < Hidden * T
    BY <1>1, <2>1
  <2>. QED
    BY <1>1, <2>2, NearestWithin
<1>. HIDE DEF f
<1>3. PICK b \in Nat, e \in Nat : f.bits = b /\ f.exponent = e
  BY <1>2, WithinIs
<1>. DEFINE p == Power(2, e)  y == m * p  z == T * b
<1>4. p \in Nat /\ (2 * T) * b - (2 * m) * p \in (-T)..T
  BY <1>2, <1>3, WithinIs DEF Within
<1>5. b >= Hidden /\ Hidden \in Nat
  BY <1>2, <1>3, NormalOrNot
<1>. HIDE DEF p
<1>6. y \in Nat /\ z \in Nat /\ (2 * m) * p = 2 * y /\ (2 * T) * b = 2 * z /\ z >= T * Hidden
  BY <1>1, <1>4, <1>5, SMTT(30)
<1>7. 2 * z - 2 * y <= T
  BY <1>1, <1>4, <1>6
<1>8. p > 131072
  <2>. SUFFICES ASSUME p <= 131072 PROVE FALSE
    BY <1>4
  <2>1. y <= m * 131072
    BY <1>4, SMTT(30)
  <2>. HIDE DEF y, z
  <2>2. T * Hidden = 8388608 * T
    BY <1>1, SMT DEF Hidden
  <2>. QED
    BY <1>1, <1>6, <1>7, <2>1, <2>2, SMT
<1>9. e > 17
  BY <1>3, <1>8, AtMostSix, PowersOfTwo, 17 \in Nat, SMT DEF p
<1>. QED
  BY <1>2, <1>3, <1>9 DEF f

LEMMA SixtiethOf ==
    ASSUME NEW m \in Nat \ {0}, NEW T, Minute(m, T)
    PROVE  LET g == Sixtieth(Nearest(m, T)) IN
           /\ Within(g, 120 * T, 2 * m, 124 * T) /\ Normal(g.bits) /\ g.exponent >= 23
           /\ g = [bits |-> g.bits, exponent |-> g.exponent]
<1>. DEFINE f == Nearest(m, T)
<1>1. /\ Within(f, 2 * T, 2 * m, T) /\ Normal(f.bits) /\ f.exponent >= 18
      /\ f = [bits |-> f.bits, exponent |-> f.exponent]
  BY MinutePlaces
<1>. HIDE DEF f
<1>2. PICK b \in Nat, e \in Nat : f = [bits |-> b, exponent |-> e]
  BY <1>1, WithinIs
<1>3. b >= Hidden /\ b < 2 * Hidden /\ e >= 18 /\ Hidden \in Nat \ {0}
  BY <1>1, <1>2, NormalOrNot
<1>. DEFINE p == Power(2, e)
            shift == IF 32 * b >= 60 * Hidden THEN 5 ELSE 6
            s == Power(2, shift)
            c == Rounded(Division(s * b, 60, 0), 60)
<1>4. T \in Nat \ {0} /\ p \in Nat /\ 2 * T * b - 2 * m * p \in (-T)..T
  <2>1. T \in Nat \ {0} /\ p \in Nat
    BY PowerNext DEF Minute
  <2>2. (2 * T) * b - (2 * m) * p \in (-T)..T
    BY <1>1, <1>2 DEF Within
  <2>. QED
    BY <2>1, <2>2
<1>5. Sixtieth(f) = Float(c, e + shift)
  <2>1. f # Zero
    BY <1>2, <1>3 DEF Zero
  <2>. QED
    BY <1>2, <2>1 DEF Sixtieth
<1>6. \/ shift = 5 /\ s = 32 /\ 32 * b >= 60 * Hidden
      \/ shift = 6 /\ s = 64 /\ 32 * b < 60 * Hidden
  <2>1. Power(2, 5) = 32 /\ Power(2, 6) = 64
    BY PowersOfTwo
  <2>. QED
    BY <1>3, <2>1
<1>. HIDE DEF shift, s
<1>7. PICK q \in Nat, r \in Nat :
          Division(s * b, 60, 0) = <<q, r>> /\ r < 60 /\ q * 60 + r = s * b
  <2>1. s * b \in Nat
    BY <1>6
  <2>2. Division(s * b, 60, 0) = <<(s * b) \div 60, (s * b) % 60>>
    BY <2>1, DivisionOf, 60 \in Nat \ {0}, 0 \in Nat
  <2>3. /\ (s * b) \div 60 \in Nat /\ (s * b) % 60 \in Nat /\ (s * b) % 60 < 60
        /\ ((s * b) \div 60) * 60 + ((s * b) % 60) = s * b
    BY <2>1
  <2>. QED
    BY <2>2, <2>3
<1>8. c \in {q, q + 1} /\ 2 * (c * 60) - 2 * (s * b) \in (-60)..60
  <2>1. /\ Rounded(<<q, r>>, 60) \in {q, q + 1}
        /\ 2 * (Rounded(<<q, r>>, 60) * 60) - 2 * (q * 60 + r) \in (-60)..60
    BY <1>7, RoundedOf, 60 \in Nat \ {0}
  <2>. QED
    BY <1>7, <2>1
<1>. HIDE DEF c
<1>9. c \in Nat /\ Hidden <= c /\ c <= 2 * Hidden /\ (shift = 5 => c < 2 * Hidden)
  BY <1>3, <1>6, <1>7, <1>8
<1>10. (120 * T) * c - (2 * m) * (s * p) \in (-(124 * T))..(124 * T)
  <2>1. s \in {32, 64}
    BY <1>6
  <2>. HIDE DEF p
  <2>. QED
    BY <1>4, <1>8, <1>9, <2>1, SixtiethError
<1>11. Power(2, e + shift) = s * p
  <2>. DEFINE k == shift
  <2>0. k \in Nat
    BY <1>6
  <2>. HIDE DEF k
  <2>3. Power(2, k + e) = Power(2, k) * Power(2, e)
    BY <2>0, PowerAdds, 2 \in Nat \ {0}
  <2>1. Power(2, shift + e) = Power(2, shift) * Power(2, e)
    BY <2>3 DEF k
  <2>2. e + shift = shift + e
    BY <1>6
  <2>. QED
    BY <2>1, <2>2 DEF s
<1>. DEFINE g == Float(c, e + shift)
<1>12. /\ Within(g, 120 * T, 2 * m, 124 * T)
       /\ g = [bits |-> g.bits, exponent |-> g.exponent]
       /\ \/ g.exponent = e + shift /\ g.bits = c /\ c # 2 * Hidden
          \/ g.exponent = (e + shift) - 1 /\ c = 2 * Hidden /\ g.bits = Hidden
  <2>. DEFINE exponent == e + shift  scale == 120 * T  value == 2 * m  units == 124 * T
  <2>1. /\ exponent \in Nat \ {0} /\ scale \in Nat /\ value \in Nat /\ units \in Nat
    BY <1>3, <1>4, <1>6
  <2>2. scale * c - value * Power(2, exponent) \in (-units)..units
    BY <1>10, <1>11
  <2>. HIDE DEF exponent, scale, value, units
  <2>3. LET h == Float(c, exponent) IN
        /\ Within(h, scale, value, units) /\ h = [bits |-> h.bits, exponent |-> h.exponent]
        /\ \/ h.exponent = exponent /\ h.bits = c /\ c # 2 * Hidden
           \/ h.exponent = exponent - 1 /\ c = 2 * Hidden /\ h.bits = Hidden
    BY <1>9, <2>1, <2>2, FloatOf
  <2>. QED
    BY <2>3 DEF exponent, scale, value, units
<1>. HIDE DEF g
<1>13. g.exponent >= 23 /\ Normal(g.bits)
  BY <1>3, <1>6, <1>9, <1>12, NormalOrNot
<1>. QED
  BY <1>5, <1>12, <1>13 DEF f, g

-----------------------------------------------------------------------------
(* The sum of degrees and minutes *)

\* What is lost when a number that has lost up to 124 T is cut and rounded.
LEMMA CutError ==
    ASSUME NEW T \in Nat \ {0}, NEW m \in Nat, NEW p \in Nat, NEW b \in Nat, NEW c \in Nat,
           NEW s \in Nat, s >= 2,
           (120 * T) * b - (2 * m) * (s * p) \in (-(124 * T))..(124 * T),
           2 * (c * s) - 2 * b \in (-s)..s
    PROVE  /\ (120 * T) * c - (2 * m) * p \in (-(122 * T))..(122 * T)
           /\ s >= 128 => (120 * T) * c - (2 * m) * p \in (-(61 * T))..(61 * T)
<1>. DEFINE x == (120 * T) * c - (2 * m) * p
            y == (120 * T) * b - (2 * m) * (s * p)
            z == 2 * (c * s) - 2 * b
<1>1. x \in Int /\ y \in Int /\ z \in Int
  BY SMTT(30)
<1>2. s * x = (60 * T) * z + y
  BY SMTT(30)
<1>3. y >= -(124 * T) /\ y <= 124 * T /\ z >= -s /\ z <= s
  OBVIOUS
<1>. HIDE DEF x, y, z
<1>4. (60 * T) * z <= (60 * T) * s /\ (60 * T) * z >= -((60 * T) * s)
  BY <1>1, <1>3, SMTT(30)
<1>. DEFINE u == (60 * T) * z  v == (60 * T) * s  k == s * x
<1>5. u \in Int /\ v \in Int /\ k \in Int
  BY <1>1, SMTT(30)
<1>6. k <= v + 124 * T /\ k >= -(v + 124 * T)
  <2>. HIDE DEF u, v, k
  <2>1. k = u + y /\ u <= v /\ u >= -v
    BY <1>2, <1>4 DEF u, v, k
  <2>. QED
    BY <1>1, <1>3, <1>5, <2>1
<1>7. x <= 122 * T /\ x >= -(122 * T)
  <2>1. ASSUME NEW w \in Int, w > 122 * T PROVE s * w > v + 124 * T
    <3>1. s * w > s * (122 * T)
      BY <2>1, SMTT(30)
    <3>2. s * (122 * T) = v + s * (62 * T) /\ s * (62 * T) >= 2 * (62 * T)
      BY SMTT(30)
    <3>. DEFINE a == s * (122 * T)  d == s * (62 * T)  e == s * w
    <3>3. a \in Int /\ d \in Int /\ e \in Int
      BY SMTT(30)
    <3>. HIDE DEF a, d, e, v
    <3>4. e > v + 124 * T
      BY <1>5, <3>1, <3>2, <3>3 DEF a, d, e
    <3>. QED
      BY <3>4 DEF e
  <2>2. ~(x > 122 * T)
    BY <1>1, <1>6, <2>1
  <2>3. ~(-x > 122 * T)
    <3>. SUFFICES ASSUME -x > 122 * T PROVE FALSE
      OBVIOUS
    <3>1. -x \in Int /\ s * (-x) = -k
      BY <1>1, SMTT(30)
    <3>2. s * (-x) > v + 124 * T
      BY <2>1, <3>1
    <3>. HIDE DEF v, k
    <3>. QED
      BY <1>5, <1>6, <3>1, <3>2
  <2>. QED
    BY <1>1, <2>2, <2>3
<1>8. ASSUME s >= 128 PROVE x <= 61 * T /\ x >= -(61 * T)
  <2>1. ASSUME NEW w \in Int, w > 61 * T PROVE s * w > v + 124 * T
    <3>1. s * w > s * (61 * T)
      BY <2>1, SMTT(30)
    <3>2. s * (61 * T) = v + s * T /\ s * T >= 128 * T
      BY <1>8, SMTT(30)
    <3>. DEFINE a == s * (61 * T)  d == s * T  e == s * w
    <3>3. a \in Int /\ d \in Int /\ e \in Int
      BY SMTT(30)
    <3>. HIDE DEF a, d, e, v
    <3>4. e > v + 124 * T
      BY <1>5, <3>1, <3>2, <3>3 DEF a, d, e
    <3>. QED
      BY <3>4 DEF e
  <2>2. ~(x > 61 * T)
    BY <1>1, <1>6, <2>1
  <2>3. ~(-x > 61 * T)
    <3>. SUFFICES ASSUME -x > 61 * T PROVE FALSE
      OBVIOUS
    <3>1. -x \in Int /\ s * (-x) = -k
      BY <1>1, SMTT(30)
    <3>2. s * (-x) > v + 124 * T
      BY <2>1, <3>1
    <3>. HIDE DEF v, k
    <3>. QED
      BY <1>5, <1>6, <3>1, <3>2
  <2>. QED
    BY <1>1, <2>2, <2>3
<1>9. x \in (-(122 * T))..(122 * T)
  BY <1>1, <1>7
<1>10. s >= 128 => x \in (-(61 * T))..(61 * T)
  BY <1>1, <1>8
<1>. QED
  BY <1>9, <1>10 DEF x

\* The place of a sum of degrees and minutes, and how far its bits are to the right.
LEMMA PlusPlace ==
    ASSUME NEW whole \in 1..181
    PROVE  LET place == CHOOSE i \in 0..23 : Power(2, i) * whole \in Hidden..(2 * Hidden - 1) IN
           /\ place \in 16..23 /\ Power(2, place) * whole < 2 * Hidden
           /\ place = 16 => whole > 127
           /\ place = 17 => whole > 63
           /\ place = 23 => whole = 1
<1>. DEFINE Good(i) == Power(2, i) * whole \in Hidden..(2 * Hidden - 1)
            place == CHOOSE i \in 0..23 : Good(i)
<1>1. \E i \in 0..23 : Good(i)
  <2>1. /\ whole \in Nat \ {0} /\ whole < 2 * Hidden * 1 /\ 1 \in Nat \ {0}
    BY SMT DEF Hidden
  <2>2. PICK i \in 0..(23 + 1) : Normal(Division(whole, 1, i)[1])
    BY <2>1, PlaceExists
  <2>3. i \in Nat /\ Divides(Division(whole, 1, i), whole, 1, i)
    <3>1. i \in Nat /\ whole \in Nat
      OBVIOUS
    <3>. QED
      BY <2>1, <3>1, DivisionOf, Zenon
  <2>. DEFINE k == Power(2, i) * whole
  <2>4. k = Division(whole, 1, i)[1] /\ k \in Nat
    <3>1. Power(2, i) \in Nat
      BY <2>3, PowerNext, 2 \in Nat
    <3>. QED
      BY <2>1, <2>3, <3>1, SMT DEF Divides
  <2>5. Good(i)
    BY <2>2, <2>4, Zenon DEF Normal
  <2>6. i # 24
    <3>. SUFFICES ASSUME i = 24 PROVE FALSE
      OBVIOUS
    <3>1. Power(2, i) = 2 * Hidden
      BY PowersOfTwo
    <3>. QED
      BY <2>5, <3>1, NormalOrNot, SMTT(30)
  <2>. QED
    BY <2>3, <2>5, <2>6
<1>2. place \in 0..23 /\ Good(place)
  BY <1>1, Zenon
<1>. HIDE DEF place
<1>. DEFINE p == Power(2, place)  x == p * whole
<1>3. p \in Nat /\ x \in Nat /\ Hidden <= x /\ x < 2 * Hidden
  <2>0. place \in Nat
    BY <1>2
  <2>1. p \in Nat
    BY <2>0, PowerNext, 2 \in Nat, Zenon
  <2>2. x \in Hidden..(2 * Hidden - 1)
    BY <1>2, Zenon
  <2>3. x \in Nat
    <3>. HIDE DEF p
    <3>. QED
      BY <2>1, SMTT(30)
  <2>. HIDE DEF x
  <2>. QED
    BY <2>1, <2>2, <2>3, NormalOrNot
<1>4. x <= p * 181
  BY <1>3, SMTT(30)
<1>. HIDE DEF x
<1>5. p > 32768
  BY <1>3, <1>4, SMT DEF Hidden
<1>6. place > 15
  <2>1. Power(2, 15) = 32768
    <3>1. Power(2, 15 + 1) = 2 * Power(2, 15) /\ Power(2, 15) \in Nat
      BY PowerNext, 15 \in Nat, 2 \in Nat
    <3>. QED
      BY <3>1, PowersOfTwo
  <2>2. 15 \in Nat /\ place \in Nat
    BY <1>2
  <2>. QED
    BY <1>5, <2>1, <2>2, AtMostSix, SMT DEF p
<1>7. place = 16 => whole > 127
  <2>. SUFFICES ASSUME place = 16, whole <= 127 PROVE FALSE
    OBVIOUS
  <2>1. x = 65536 * whole
    BY PowersOfTwo DEF p, x
  <2>. QED
    BY <1>3, <2>1, SMT DEF Hidden
<1>8. place = 17 => whole > 63
  <2>. SUFFICES ASSUME place = 17, whole <= 63 PROVE FALSE
    OBVIOUS
  <2>1. x = 131072 * whole
    BY PowersOfTwo DEF p, x
  <2>. QED
    BY <1>3, <2>1, SMT DEF Hidden
<1>9. place = 23 => whole = 1
  <2>. SUFFICES ASSUME place = 23, whole >= 2 PROVE FALSE
    OBVIOUS
  <2>1. x = Hidden * whole
    BY PowersOfTwo DEF p, x
  <2>. QED
    BY <1>3, <2>1, SMT DEF Hidden
<1>. QED
  BY <1>2, <1>3, <1>6, <1>7, <1>8, <1>9 DEF place, x, p

\* What the minutes add to the bits of the sum.
RightOf(f, place) ==
    IF f = Zero \/ f.exponent - place > 24 THEN 0
    ELSE Rounded(Division(f.bits, Power(2, f.exponent - place), 0), Power(2, f.exponent - place))

LEMMA RightRounds ==
    ASSUME NEW b \in Nat, b < 2 * Hidden, NEW shift \in Nat \ {0}
    PROVE  LET s == Power(2, shift)
               c == IF shift > 24 THEN 0 ELSE Rounded(Division(b, s, 0), s) IN
           c \in Nat /\ s \in Nat /\ s >= 2 /\ 2 * (c * s) - 2 * b \in (-s)..s
<1>. DEFINE s == Power(2, shift)
<1>1. s \in Nat /\ s >= 2
  <2>1. Power(2, 0) = 1 /\ 2 * Power(2, 0) <= Power(2, shift)
    BY PowersGrow, PowersOfTwo, 0 \in Nat
  <2>. QED
    BY <2>1, PowerNext, 2 \in Nat
<1>2. CASE shift > 24
  <2>1. 2 * Power(2, 24) <= s /\ Power(2, 24) = 2 * Hidden
    BY <1>2, PowersGrow, PowersOfTwo, 24 \in Nat
  <2>2. 2 * b <= s
    BY <1>1, <2>1, NormalOrNot
  <2>. QED
    BY <1>1, <1>2, <2>2
<1>3. CASE shift <= 24
  <2>. DEFINE q == b \div s  r == b % s
  <2>. HIDE DEF s
  <2>1. Division(b, s, 0) = <<q, r>>
    <3>1. s \in Nat \ {0}
      BY <1>1
    <3>. QED
      BY <3>1, DivisionOf, 0 \in Nat, Zenon
  <2>2. q \in Nat /\ r \in Nat /\ r < s /\ q * s + r = b
    BY <1>1, DivMod
  <2>. HIDE DEF q, r
  <2>. DEFINE c == Rounded(<<q, r>>, s)
  <2>3. c \in {q, q + 1} /\ 2 * (c * s) - 2 * (q * s + r) \in (-s)..s
    BY <1>1, <2>2, RoundedOf
  <2>. HIDE DEF c
  <2>4. c \in Nat /\ 2 * (c * s) - 2 * b \in (-s)..s
    BY <2>2, <2>3
  <2>. QED
    BY <1>1, <1>3, <2>1, <2>4 DEF c, s
<1>. QED
  BY <1>2, <1>3

LEMMA RightOfMinutes ==
    ASSUME NEW m \in Nat, NEW T, Minute(m, T), NEW place \in 16..23,
           NEW f, f = Sixtieth(Nearest(m, T)), f = Zero \/ f.exponent > place
    PROVE  LET c == RightOf(f, place)  p == Power(2, place) IN
           /\ c \in Nat /\ p \in Nat
           /\ (120 * T) * c - (2 * m) * p \in (-(122 * T))..(122 * T)
           /\ place = 16 => (120 * T) * c - (2 * m) * p \in (-(61 * T))..(61 * T)
<1>. DEFINE p == Power(2, place)  c == RightOf(f, place)
<1>0. T \in Nat \ {0}
  BY DEF Minute
<1>1. p \in Nat /\ place \in Nat
  <2>1. place \in Nat
    OBVIOUS
  <2>. QED
    BY <2>1, PowerNext, 2 \in Nat, Zenon
<1>2. CASE m = 0
  <2>1. Nearest(0, T) = Zero
    BY DEF Nearest
  <2>2. f = Zero
    BY <1>2, <2>1 DEF Sixtieth
  <2>3. c = 0
    BY <2>2 DEF RightOf
  <2>. HIDE DEF p, c
  <2>4. (120 * T) * c - (2 * m) * p = 0
    BY <1>0, <1>1, <1>2, <2>3, SMTT(30)
  <2>. QED
    BY <1>0, <1>1, <2>3, <2>4 DEF c, p
<1>3. CASE m # 0
  <2>1. /\ Within(f, 120 * T, 2 * m, 124 * T) /\ Normal(f.bits) /\ f.exponent >= 23
    BY <1>3, SixtiethOf
  <2>2. PICK b \in Nat, e \in Nat : f.bits = b /\ f.exponent = e
    BY <2>1, WithinIs
  <2>3. b < 2 * Hidden /\ Hidden <= b /\ Hidden \in Nat \ {0}
    BY <2>1, <2>2, NormalOrNot
  <2>4. f # Zero /\ e > place
    BY <2>2, <2>3 DEF Zero
  <2>. DEFINE shift == e - place  s == Power(2, shift)
  <2>5. shift \in Nat \ {0} /\ place + shift = e
    BY <1>1, <2>4
  <2>6. Power(2, shift + place) = s * p
    <3>. HIDE DEF shift
    <3>. QED
      BY <1>1, <2>5, PowerAdds, 2 \in Nat \ {0} DEF s, p
  <2>7. (120 * T) * b - (2 * m) * (s * p) \in (-(124 * T))..(124 * T)
    <3>1. (120 * T) * b - (2 * m) * Power(2, e) \in (-(124 * T))..(124 * T)
      BY <2>1, <2>2 DEF Within
    <3>2. shift + place = e
      BY <1>1, <2>5
    <3>. QED
      BY <2>6, <3>1, <3>2
  <2>8. c = IF shift > 24 THEN 0 ELSE Rounded(Division(b, s, 0), s)
    BY <2>2, <2>4 DEF RightOf
  <2>9. place = 16 => s >= 128
    <3>. SUFFICES ASSUME place = 16 PROVE s >= 128
      OBVIOUS
    <3>1. shift >= 7
      BY <2>1, <2>2
    <3>. HIDE DEF shift
    <3>2. CASE shift = 7
      BY <3>2, PowersOfTwo
    <3>3. CASE shift > 7
      <4>1. 2 * Power(2, 7) <= Power(2, shift)
        BY <2>5, <3>3, PowersGrow, 7 \in Nat
      <4>. QED
        BY <2>5, <4>1, PowersOfTwo, PowerNext, 2 \in Nat
    <3>. QED
      BY <2>5, <3>1, <3>2, <3>3
  <2>. HIDE DEF shift, c
  <2>10. c \in Nat /\ s \in Nat /\ s >= 2 /\ 2 * (c * s) - 2 * b \in (-s)..s
    BY <2>3, <2>5, <2>8, RightRounds
  <2>. HIDE DEF s, p
  <2>11. /\ (120 * T) * c - (2 * m) * p \in (-(122 * T))..(122 * T)
         /\ s >= 128 => (120 * T) * c - (2 * m) * p \in (-(61 * T))..(61 * T)
    BY <1>0, <1>1, <2>7, <2>10, CutError
  <2>. QED
    BY <1>1, <2>9, <2>10, <2>11 DEF c, p
<1>. QED
  BY <1>2, <1>3

\* f is what an angle of value / (60 T) degrees is converted to: it is wrong by
\* less than a unit of its last bit and a half, or by half of that where a unit is largest.
Converted(f, value, T) ==
    /\ f = [bits |-> f.bits, exponent |-> f.exponent]
    /\ Within(f, 120 * T, 2 * value, 124 * T)
    /\ f = Zero <=> value = 0
    /\ \/ f = Zero
       \/ f.exponent = 16 /\ Within(f, 120 * T, 2 * value, 61 * T)
       \/ f.exponent > 16

LEMMA WithinMore ==
    ASSUME NEW f, NEW scale, NEW value, NEW few \in Nat, NEW units \in Nat, few <= units,
           Within(f, scale, value, few), scale \in Nat, value \in Nat
    PROVE  Within(f, scale, value, units)
<1>1. /\ f.exponent \in Nat /\ f.bits \in Nat /\ Power(2, f.exponent) \in Nat
      /\ scale * f.bits - value * Power(2, f.exponent) \in (-few)..few
  BY WithinIs
<1>. DEFINE x == scale * f.bits - value * Power(2, f.exponent)
<1>2. x \in Int /\ x \in (-few)..few
  BY <1>1, SMTT(30)
<1>. HIDE DEF x
<1>3. x \in (-units)..units
  BY <1>2
<1>. QED
  BY <1>1, <1>3 DEF Within, x

LEMMA PlusIs ==
    ASSUME NEW n, n # 0, NEW f
    PROVE  LET whole == IF f.exponent = 23 THEN n + 1 ELSE n
               place == CHOOSE i \in 0..23 : Power(2, i) * whole \in Hidden..(2 * Hidden - 1)
           IN  Plus(n, f) = Float(Power(2, place) * n + RightOf(f, place), place)
BY Zenon DEF Plus, RightOf

LEMMA PlusOf ==
    ASSUME NEW n \in 1..180, NEW m \in Nat, NEW T, Minute(m, T)
    PROVE  Converted(Plus(n, Sixtieth(Nearest(m, T))), 60 * T * n + m, T)
<1>. DEFINE f == Sixtieth(Nearest(m, T))
            whole == IF f.exponent = 23 THEN n + 1 ELSE n
            place == CHOOSE i \in 0..23 : Power(2, i) * whole \in Hidden..(2 * Hidden - 1)
            p == Power(2, place)
            c == RightOf(f, place)
            bits == p * n + c
            value == 60 * T * n + m
<1>0. T \in Nat \ {0}
  BY DEF Minute
<1>1. f = Zero \/ f.exponent >= 23
  <2>1. CASE m = 0
    <3>1. Nearest(0, T) = Zero
      BY DEF Nearest
    <3>. QED
      BY <2>1, <3>1 DEF Sixtieth
  <2>2. CASE m # 0
    BY <2>2, SixtiethOf
  <2>. QED
    BY <2>1, <2>2
<1>. DEFINE g == Plus(n, f)
<1>2. g = Float(bits, place)
  <2>1. n # 0
    OBVIOUS
  <2>. HIDE DEF f
  <2>. QED
    BY <2>1, PlusIs, Zenon
<1>. HIDE DEF f
<1>3. whole \in 1..181
  OBVIOUS
<1>4. /\ place \in 16..23
      /\ place = 16 => whole > 127
      /\ place = 17 => whole > 63
      /\ place = 23 => whole = 1
  <2>. HIDE DEF whole
  <2>. QED
    BY <1>3, PlusPlace, Zenon
<1>5. f = Zero \/ f.exponent > place
  <2>. HIDE DEF place
  <2>1. CASE f = Zero
    BY <2>1
  <2>2. CASE f # Zero
    <3>1. f.exponent \in Nat /\ f.exponent >= 23
      <4>1. m # 0
        <5>1. Nearest(0, T) = Zero
          BY DEF Nearest
        <5>. QED
          BY <2>2, <5>1 DEF f, Sixtieth
      <4>2. f.exponent \in Nat
        BY <4>1, SixtiethOf, WithinIs DEF f
      <4>. QED
        BY <1>1, <2>2, <4>2
    <3>2. f.exponent = 23 => place # 23
      BY <1>4
    <3>. QED
      BY <1>4, <3>1, <3>2
  <2>. QED
    BY <2>1, <2>2
<1>6. n \in Nat \ {0} /\ value \in Nat \ {0}
  BY <1>0, SMTT(30)
<1>. HIDE DEF place
<1>7. /\ c \in Nat /\ p \in Nat
      /\ (120 * T) * c - (2 * m) * p \in (-(122 * T))..(122 * T)
      /\ place = 16 => (120 * T) * c - (2 * m) * p \in (-(61 * T))..(61 * T)
  <2>1. f = Sixtieth(Nearest(m, T))
    BY DEF f
  <2>2. place \in 16..23
    BY <1>4
  <2>. QED
    BY <1>5, <2>1, <2>2, RightOfMinutes
<1>8. p > 0
  <2>1. place \in Nat
    BY <1>4
  <2>2. Power(2, place) \in Nat \ {0}
    BY <2>1, PowerAdds, 2 \in Nat \ {0}, 0 \in Nat, Zenon
  <2>. QED
    BY <2>2
<1>. HIDE DEF p, c
<1>9. bits \in Nat \ {0}
  BY <1>6, <1>7, <1>8, SMTT(30)
<1>10. (120 * T) * bits - (2 * value) * p = (120 * T) * c - (2 * m) * p
  BY <1>0, <1>6, <1>7, SMTT(30)
<1>11. /\ (120 * T) * bits - (2 * value) * p \in (-(122 * T))..(122 * T)
       /\ place = 16 => (120 * T) * bits - (2 * value) * p \in (-(61 * T))..(61 * T)
  BY <1>7, <1>10
<1>12. place = 16 => bits # 2 * Hidden
  <2>. SUFFICES ASSUME place = 16 PROVE bits < 2 * Hidden
    BY <1>9, NormalOrNot
  <2>1. p = 65536
    BY PowersOfTwo DEF p
  <2>2. c < 2 * p
    <3>. SUFFICES ASSUME c >= 131072 PROVE FALSE
      BY <1>7, <2>1
    <3>1. (120 * T) * c >= (120 * T) * 131072
      BY <1>0, <1>7, SMTT(30)
    <3>2. (2 * m) * p = 131072 * m /\ m < 61 * T
      BY <2>1 DEF Minute
    <3>. DEFINE x == (120 * T) * c
    <3>3. x \in Nat
      BY <1>0, <1>7, SMTT(30)
    <3>. HIDE DEF x
    <3>4. x - 131072 * m <= 61 * T
      BY <1>7, <3>2 DEF x
    <3>. QED
      BY <1>0, <3>1, <3>2, <3>3, <3>4, SMT DEF x
  <2>. QED
    BY <1>7, <2>1, <2>2, SMT DEF Hidden
<1>13. /\ Within(g, 120 * T, 2 * value, 122 * T)
       /\ place = 16 => Within(g, 120 * T, 2 * value, 61 * T)
       /\ g = [bits |-> g.bits, exponent |-> g.exponent]
       /\ \/ g.exponent = place /\ g.bits = bits /\ bits # 2 * Hidden
          \/ /\ g.exponent = place - 1 /\ bits = 2 * Hidden /\ g.bits = Hidden
             /\ 2 * ((120 * T) * Hidden - (2 * value) * Power(2, place - 1)) \in (-(122 * T))..(122 * T)
  <2>. DEFINE scale == 120 * T  v == 2 * value  units == 122 * T  few == 61 * T
  <2>1. /\ scale \in Nat /\ v \in Nat /\ units \in Nat /\ few \in Nat
        /\ place \in Nat \ {0} /\ bits \in Nat
    BY <1>0, <1>4, <1>6, <1>9
  <2>2. /\ scale * bits - v * Power(2, place) \in (-units)..units
        /\ place = 16 => scale * bits - v * Power(2, place) \in (-few)..few
    BY <1>11 DEF p
  <2>. HIDE DEF scale, v, units, few, bits
  <2>3. /\ Within(g, scale, v, units)
        /\ g = [bits |-> g.bits, exponent |-> g.exponent]
        /\ \/ g.exponent = place /\ g.bits = bits /\ bits # 2 * Hidden
           \/ /\ g.exponent = place - 1 /\ bits = 2 * Hidden /\ g.bits = Hidden
              /\ 2 * (scale * Hidden - v * Power(2, place - 1)) \in (-units)..units
    BY <1>2, <2>1, <2>2, FloatOf
  <2>4. ASSUME place = 16 PROVE Within(g, scale, v, few)
    <3>1. scale * bits - v * Power(2, place) \in (-few)..few
      BY <2>2, <2>4
    <3>2. Within(Float(bits, place), scale, v, few)
      BY <2>1, <3>1, FloatOf
    <3>. QED
      BY <1>2, <3>2
  <2>. QED
    BY <2>3, <2>4 DEF scale, v, units, few
<1>. HIDE DEF g, bits
<1>14. Within(g, 120 * T, 2 * value, 124 * T)
  <2>. DEFINE scale == 120 * T  v == 2 * value  units == 124 * T  few == 122 * T
  <2>1. scale \in Nat /\ v \in Nat /\ units \in Nat /\ few \in Nat /\ few <= units
    BY <1>0, <1>6
  <2>2. Within(g, scale, v, few)
    BY <1>13
  <2>. HIDE DEF scale, v, units, few
  <2>3. Within(g, scale, v, units)
    BY <2>1, <2>2, WithinMore
  <2>. QED
    BY <2>3 DEF scale, v, units
<1>15. g # Zero
  BY <1>9, <1>13, NormalOrNot DEF Zero
<1>16. (g.exponent = 16 /\ Within(g, 120 * T, 2 * value, 61 * T)) \/ g.exponent > 16
  <2>1. CASE place = 16
    BY <1>12, <1>13, <2>1
  <2>2. CASE place = 17 /\ bits = 2 * Hidden
    <3>. DEFINE x == (120 * T) * Hidden - (2 * value) * Power(2, 16)
    <3>1. g.exponent = 16 /\ g.bits = Hidden /\ 2 * x \in (-(122 * T))..(122 * T)
      BY <1>13, <2>2
    <3>2. x \in Int
      BY <1>0, <1>6, NormalOrNot, PowersOfTwo, SMTT(30)
    <3>. HIDE DEF x
    <3>3. x \in (-(61 * T))..(61 * T)
      BY <1>0, <3>1, <3>2
    <3>. QED
      BY <3>1, <3>3, NormalOrNot DEF Within, x
  <2>3. CASE ~(place = 16) /\ ~(place = 17 /\ bits = 2 * Hidden)
    BY <1>4, <1>13, <2>3
  <2>. QED
    BY <2>1, <2>2, <2>3
<1>. HIDE DEF value
<1>17. Converted(g, value, T)
  BY <1>6, <1>13, <1>14, <1>15, <1>16 DEF Converted
<1>. QED
  BY <1>17 DEF g, f, value

LEMMA SumOf ==
    ASSUME NEW n \in 0..180, NEW m \in Nat, NEW T, Minute(m, T)
    PROVE  Converted(Plus(n, Sixtieth(Nearest(m, T))), 60 * T * n + m, T)
<1>. DEFINE f == Sixtieth(Nearest(m, T))
<1>1. CASE n # 0
  <2>1. n \in 1..180
    BY <1>1
  <2>. QED
    BY <2>1, PlusOf
<1>2. CASE n = 0
  <2>1. Plus(n, f) = f
    BY <1>2 DEF Plus
  <2>2. T \in Nat \ {0} /\ 60 * T * n + m = m
    BY <1>2 DEF Minute
  <2>3. Converted(f, m, T)
    <3>1. CASE m = 0
      <4>1. Nearest(0, T) = Zero
        BY DEF Nearest
      <4>2. f = Zero
        BY <3>1, <4>1 DEF Sixtieth
      <4>. HIDE DEF f
      <4>3. Zero = [bits |-> 0, exponent |-> 0]
        BY DEF Zero
      <4>4. Within(f, 120 * T, 2 * m, 124 * T)
        <5>1. (120 * T) * 0 - (2 * m) * Power(2, 0) \in (-(124 * T))..(124 * T)
          BY <2>2, <3>1, PowersOfTwo, SMTT(30)
        <5>. QED
          BY <4>2, <4>3, <5>1 DEF Within
      <4>. QED
        BY <3>1, <4>2, <4>3, <4>4 DEF Converted
    <3>2. CASE m # 0
      <4>1. /\ Within(f, 120 * T, 2 * m, 124 * T) /\ Normal(f.bits) /\ f.exponent >= 23
            /\ f = [bits |-> f.bits, exponent |-> f.exponent]
        BY <3>2, SixtiethOf
      <4>. HIDE DEF f
      <4>2. f.exponent \in Nat
        BY <4>1, WithinIs
      <4>3. f # Zero
        BY <4>1, NormalOrNot DEF Zero
      <4>. QED
        BY <3>2, <4>1, <4>2, <4>3 DEF Converted
    <3>. QED
      BY <3>1, <3>2
  <2>. HIDE DEF f
  <2>4. Converted(Plus(n, f), 60 * T * n + m, T)
    BY <2>1, <2>2, <2>3
  <2>. QED
    BY <2>4 DEF f
<1>. QED
  BY <1>1, <1>2

\* It is the nearest number of so many places, or next to it.
LEMMA ReadOf ==
    ASSUME NEW value \in Nat, NEW T \in Nat \ {0}, NEW f, Converted(f, value, T)
    PROVE  f.bits - Rounded(Division(value, 60 * T, f.exponent), 60 * T) \in (-1)..1
<1>1. f.exponent \in Nat /\ f.bits \in Nat
  BY DEF Converted, Within
<1>2. PICK b \in Nat, e \in Nat : f.bits = b /\ f.exponent = e
  BY <1>1
<1>. DEFINE d == 60 * T  p == Power(2, e)
<1>3. d \in Nat \ {0} /\ p \in Nat
  <2>1. p \in Nat
    BY PowerNext, 2 \in Nat
  <2>. QED
    BY <2>1
<1>4. (120 * T) * b - (2 * value) * p \in (-(124 * T))..(124 * T)
  <2>1. (120 * T) * f.bits - (2 * value) * Power(2, f.exponent) \in (-(124 * T))..(124 * T)
    BY DEF Converted, Within
  <2>. QED
    BY <1>2, <2>1
<1>5. PICK q \in Nat, r \in Nat : Division(value, d, e) = <<q, r>> /\ r < d /\ q * d + r = value * p
  <2>. HIDE DEF d
  <2>1. Divides(Division(value, d, e), value, d, e)
    BY <1>3, DivisionOf
  <2>. QED
    BY <2>1 DEF Divides
<1>. DEFINE c == Rounded(<<q, r>>, d)
<1>6. c \in {q, q + 1} /\ 2 * (c * d) - 2 * (q * d + r) \in (-d)..d
  <2>. HIDE DEF d
  <2>. QED
    BY <1>3, <1>5, RoundedOf
<1>. HIDE DEF c, p
<1>7. c \in Nat
  BY <1>6
<1>. DEFINE x == T * b  y == T * c  v == value * p
<1>8. x \in Nat /\ y \in Nat /\ v \in Nat /\ (120 * T) * b = 120 * x /\ (2 * value) * p = 2 * v /\ c * d = 60 * y
  BY <1>3, <1>7, SMTT(30)
<1>. HIDE DEF x, y, v
<1>9. 2 * (60 * y) - 2 * v \in (-d)..d
  BY <1>5, <1>6, <1>8 DEF v
<1>10. 120 * x - 120 * y <= 184 * T /\ 120 * y - 120 * x <= 184 * T
  BY <1>4, <1>8, <1>9
<1>11. b - c <= 1 /\ c - b <= 1
  <2>1. ASSUME NEW i \in Nat, NEW j \in Nat, i >= j + 2 PROVE T * i >= T * j + 2 * T
    <3>1. T * i >= T * (j + 2) /\ T * (j + 2) = T * j + 2 * T
      BY <2>1, SMTT(30)
    <3>. QED
      BY <3>1
  <2>2. b >= c + 2 => x >= y + 2 * T
    BY <1>7, <2>1 DEF x, y
  <2>3. c >= b + 2 => y >= x + 2 * T
    BY <1>7, <2>1 DEF x, y
  <2>. QED
    BY <1>7, <1>8, <1>10, <2>2, <2>3
<1>12. b - c \in (-1)..1
  BY <1>7, <1>11
<1>. QED
  BY <1>2, <1>5, <1>12 DEF c

-----------------------------------------------------------------------------
(* Other terms *)

\* To write a fraction in other terms changes no float.
LEMMA QuotientUnique ==
    ASSUME NEW d \in Nat \ {0}, NEW q \in Nat, NEW r \in Nat, r < d,
           NEW s \in Nat, NEW t \in Nat, t < d, q * d + r = s * d + t
    PROVE  q = s /\ r = t
<1>1. ASSUME NEW a \in Nat, NEW b \in Nat, NEW x \in Nat, NEW y \in Nat, x < d,
             a * d + x = b * d + y
      PROVE  ~(a < b)
  <2>. SUFFICES ASSUME a < b PROVE FALSE
    OBVIOUS
  <2>1. b * d >= (a + 1) * d /\ (a + 1) * d = a * d + d
    BY SMTT(30)
  <2>. QED
    BY <1>1, <2>1
<1>2. ~(q < s) /\ ~(s < q)
  BY <1>1
<1>3. q = s
  BY <1>2
<1>. QED
  BY <1>3

LEMMA RoundedScaled ==
    ASSUME NEW d \in Nat \ {0}, NEW q \in Nat, NEW r \in Nat, NEW k \in Nat \ {0}
    PROVE  Rounded(<<q, r * k>>, d * k) = Rounded(<<q, r>>, d)
<1>1. (2 * (r * k) > d * k <=> 2 * r > d) /\ (2 * (r * k) = d * k <=> 2 * r = d)
  <2>1. ASSUME NEW a \in Nat, NEW b \in Nat, a < b PROVE a * k < b * k
    <3>1. b * k >= (a + 1) * k /\ (a + 1) * k = a * k + k
      BY <2>1, SMTT(30)
    <3>2. a * k \in Nat /\ b * k \in Nat
      OBVIOUS
    <3>. QED
      BY <3>1, <3>2
  <2>. DEFINE x == (2 * r) * k  y == d * k
  <2>2. x = 2 * (r * k) /\ x \in Nat /\ y \in Nat
    BY SMTT(30)
  <2>3. (2 * r < d => x < y) /\ (d < 2 * r => y < x) /\ (2 * r = d => x = y)
    BY <2>1
  <2>. HIDE DEF x, y
  <2>4. (x > y <=> 2 * r > d) /\ (x = y <=> 2 * r = d)
    BY <2>2, <2>3
  <2>. QED
    BY <2>2, <2>4 DEF y
<1>. QED
  BY <1>1 DEF Rounded

LEMMA NearestScaled ==
    ASSUME NEW n \in Nat, NEW d \in Nat \ {0}, NEW k \in Nat \ {0}, n < 2 * Hidden * d
    PROVE  Nearest(n * k, d * k) = Nearest(n, d)
<1>1. CASE n = 0
  <2>1. n * k = 0
    BY <1>1
  <2>. QED
    BY <1>1, <2>1 DEF Nearest
<1>2. CASE n # 0
  <2>. DEFINE nk == n * k  dk == d * k
  <2>1. nk \in Nat \ {0} /\ dk \in Nat \ {0} /\ nk < 2 * Hidden * dk
    <3>1. Hidden \in Nat
      BY NormalOrNot
    <3>2. nk \in Nat /\ dk \in Nat /\ nk > 0 /\ dk > 0
      BY <1>2, SMTT(30)
    <3>. DEFINE h == 2 * Hidden
    <3>3. h \in Nat /\ n < h * d
      BY <3>1
    <3>. HIDE DEF h
    <3>4. h * d >= n + 1 /\ h * d \in Nat
      BY <3>3
    <3>5. (h * d) * k >= (n + 1) * k /\ (n + 1) * k = n * k + k /\ (h * d) * k = h * (d * k)
      BY <3>3, <3>4, SMTT(30)
    <3>6. nk < h * dk
      <4>. DEFINE x == (h * d) * k  y == n * k  z == h * (d * k)
      <4>1. x \in Nat /\ y \in Nat /\ x >= y + k /\ x = z
        BY <3>3, <3>5
      <4>. HIDE DEF x, y, z
      <4>2. y < z
        BY <4>1
      <4>. QED
        BY <4>2 DEF y, z
    <3>. QED
      BY <3>2, <3>6 DEF h
  <2>. HIDE DEF nk, dk
  <2>2. PICK i \in Nat, q \in Nat, r \in Nat :
            /\ r < d /\ q * d + r = n * Power(2, i)
            /\ Normal(q) /\ Nearest(n, d) = Float(Rounded(<<q, r>>, d), i)
    BY <1>2, NearestOf
  <2>3. PICK j \in Nat, s \in Nat, t \in Nat :
            /\ t < dk /\ s * dk + t = nk * Power(2, j)
            /\ Normal(s) /\ Nearest(nk, dk) = Float(Rounded(<<s, t>>, dk), j)
    BY <2>1, NearestOf
  <2>. DEFINE rk == r * k
  <2>4. rk \in Nat /\ rk < dk
    <3>1. dk >= (r + 1) * k /\ (r + 1) * k = r * k + k /\ r * k \in Nat
      BY <2>2, SMTT(30) DEF dk
    <3>. QED
      BY <2>1, <3>1
  <2>5. q * dk + rk = nk * Power(2, i)
    <3>. DEFINE p == Power(2, i)
    <3>1. p \in Nat /\ q * d + r = n * p
      BY <2>2, PowerNext, 2 \in Nat
    <3>. HIDE DEF p
    <3>2. (q * d + r) * k = q * (d * k) + r * k /\ (n * p) * k = (n * k) * p
      BY <3>1, SMTT(30)
    <3>. QED
      BY <3>1, <3>2 DEF nk, dk, p
  <2>. HIDE DEF rk
  <2>6. q >= Hidden /\ q < 2 * Hidden /\ s >= Hidden /\ s < 2 * Hidden
    BY <2>2, <2>3, NormalOrNot
  <2>7. i <= j /\ j <= i
    <3>1. nk \in Nat /\ nk <= nk
      BY <2>1
    <3>2. j <= i
      BY <2>1, <2>3, <2>4, <2>5, <2>6, <3>1, PlacesOrder
    <3>3. i <= j
      BY <2>1, <2>3, <2>4, <2>5, <2>6, <3>1, PlacesOrder
    <3>. QED
      BY <3>2, <3>3
  <2>8. i = j
    BY <2>7
  <2>9. q = s /\ rk = t
    BY <2>1, <2>3, <2>4, <2>5, <2>8, QuotientUnique
  <2>10. Rounded(<<q, rk>>, dk) = Rounded(<<q, r>>, d)
    BY RoundedScaled DEF rk, dk
  <2>11. Nearest(nk, dk) = Nearest(n, d)
    BY <2>2, <2>3, <2>8, <2>9, <2>10
  <2>. QED
    BY <2>11 DEF nk, dk
<1>. QED
  BY <1>1, <1>2
==============================================================================
