--------------------------- MODULE NumbersProofs ---------------------------
(***************************************************************************)
(* What is proved about the run-time arithmetic, for registers of any      *)
(* width, 32 bits included.                                                *)
(***************************************************************************)
EXTENDS Numbers, TLAPS, SequenceTheorems, WellFoundedInduction

-----------------------------------------------------------------------------
(* Recursive functions.                                                    *)

LEMMA LeastOf ==
  ASSUME NEW T \in SUBSET Nat, T # {}
  PROVE  \E t \in T : \A s \in T : t <= s
<1>1. PICK t \in T : \A s \in T : ~ (<<s, t>> \in OpToRel(<, Nat))
  BY WFMin, NatLessThanWellFounded
<1>2. ASSUME NEW s \in T PROVE t <= s
  <2>1. ~ (s < t)
    BY <1>1 DEF OpToRel
  <2> QED
    BY <2>1
<1> QED
  BY <1>2

\* A function with the value start at 0 and elsewhere a value made from the one at an
\* earlier place.
Solves(f, n, T, start, back, make) ==
  /\ f \in [0 .. n -> T] /\ f[0] = start
  /\ \A v \in 1 .. n : f[v] = make[v][f[back[v]]]

LEMMA Recursion ==
  ASSUME NEW n \in Nat, NEW T, NEW start \in T,
         NEW back \in [1 .. n -> Nat], \A v \in 1 .. n : back[v] < v,
         NEW make \in [1 .. n -> [T -> T]]
  PROVE  \E f : Solves(f, n, T, start, back, make)
<1> DEFINE Bad == {k \in 0 .. n : ~ \E f : Solves(f, k, T, start, back, make)}
<1>0. n \in 0 .. n
  OBVIOUS
<1>1. SUFFICES ASSUME Bad # {} PROVE FALSE
  BY <1>0
<1>2. Bad \in SUBSET Nat
  OBVIOUS
<1>3. PICK k \in Bad : \A j \in Bad : k <= j
  BY <1>1, <1>2, LeastOf
<1>4. k \in 0 .. n /\ ~ \E f : Solves(f, k, T, start, back, make)
  BY <1>3
<1>5. CASE k = 0
  <2> DEFINE g == [v \in 0 .. 0 |-> start]
  <2>1. g \in [0 .. 0 -> T] /\ g[0] = start
    OBVIOUS
  <2>2. Solves(g, 0, T, start, back, make)
    BY <2>1 DEF Solves
  <2> QED
    BY <1>4, <1>5, <2>2
<1>6. CASE k # 0
  <2>0. k - 1 \in 0 .. n /\ ~ (k <= k - 1)
    BY <1>4, <1>6
  <2>1. k - 1 \in 0 .. n /\ k - 1 \notin Bad
    BY <1>3, <2>0
  <2>2. PICK f : Solves(f, k - 1, T, start, back, make)
    BY <2>1
  <2>3. /\ f \in [0 .. k - 1 -> T] /\ f[0] = start
        /\ \A v \in 1 .. k - 1 : f[v] = make[v][f[back[v]]]
    BY <2>2 DEF Solves
  <2>4. k \in 1 .. n /\ back[k] \in 0 .. k - 1
    BY <1>4, <1>6
  <2>5. PICK last \in T : last = make[k][f[back[k]]]
    BY <2>3, <2>4
  <2> DEFINE g == [v \in 0 .. k |-> IF v = k THEN last ELSE f[v]]
  <2>6. g \in [0 .. k -> T] /\ g[k] = last /\ \A v \in 0 .. k - 1 : g[v] = f[v]
    BY <1>4, <2>3
  <2> HIDE DEF g
  <2>7. g[0] = start
    BY <2>3, <2>4, <2>6
  <2>8. ASSUME NEW v \in 1 .. k PROVE g[v] = make[v][g[back[v]]]
    <3>1. back[v] \in 0 .. k - 1
      BY <1>4
    <3>2. g[back[v]] = f[back[v]]
      BY <2>6, <3>1
    <3>3. CASE v = k
      BY <2>5, <2>6, <3>2, <3>3
    <3>4. CASE v # k
      <4>1. v \in 1 .. k - 1 /\ v \in 0 .. k - 1
        BY <1>4, <3>4
      <4> QED
        BY <2>3, <2>6, <3>2, <4>1
    <3> QED
      BY <3>3, <3>4
  <2>9. Solves(g, k, T, start, back, make)
    BY <2>6, <2>7, <2>8 DEF Solves
  <2> QED
    BY <1>4, <2>9
<1> QED
  BY <1>5, <1>6

-----------------------------------------------------------------------------
(* Powers of two.                                                          *)

LEMMA PowerRule ==
  /\ Width \in Nat /\ Width > 4
  /\ Power[0] = 1
  /\ \A n \in 1 .. Width : Power[n] = 2 * Power[n - 1]
  /\ \A n \in 0 .. Width : Power[n] \in Nat
<1>0. Width \in Nat /\ Width > 4
  BY NumbersAssumption
<1> DEFINE back == [n \in 1 .. Width |-> n - 1]
           make == [n \in 1 .. Width |-> [v \in Nat |-> 2 * v]]
           Eq(f) == f = [n \in 0 .. Width |-> IF n = 0 THEN 1 ELSE 2 * f[n - 1]]
<1>1. back \in [1 .. Width -> Nat] /\ \A n \in 1 .. Width : back[n] = n - 1 /\ back[n] < n
  BY <1>0
<1>2. make \in [1 .. Width -> [Nat -> Nat]] /\ \A n \in 1 .. Width, v \in Nat : make[n][v] = 2 * v
  OBVIOUS
<1> HIDE DEF back, make
<1>3. \E f : Solves(f, Width, Nat, 1, back, make)
  BY <1>0, <1>1, <1>2, Recursion
<1>4. \E f : Eq(f)
  <2>1. PICK f : Solves(f, Width, Nat, 1, back, make)
    BY <1>3
  <2>2. f \in [0 .. Width -> Nat] /\ f[0] = 1 /\ \A n \in 1 .. Width : f[n] = make[n][f[back[n]]]
    BY <2>1 DEF Solves
  <2>3. ASSUME NEW n \in 0 .. Width, n # 0 PROVE f[n] = 2 * f[n - 1]
    <3>1. n \in 1 .. Width /\ n - 1 \in 0 .. Width
      BY <1>0, <2>3
    <3>2. f[n] = make[n][f[n - 1]] /\ f[n - 1] \in Nat
      BY <1>1, <2>2, <3>1
    <3> QED
      BY <1>2, <3>1, <3>2
  <2>4. \A n \in 0 .. Width : f[n] = IF n = 0 THEN 1 ELSE 2 * f[n - 1]
    BY <2>2, <2>3
  <2>5. Eq(f)
    BY <2>2, <2>4
  <2> QED
    BY <2>5
<1>5. Eq(Power)
  <2>1. Power = CHOOSE f : Eq(f)
    BY DEF Power
  <2> HIDE DEF Eq
  <2> QED
    BY <1>4, <2>1
<1>6. Power[0] = 1 /\ \A n \in 1 .. Width : Power[n] = 2 * Power[n - 1]
  <2>1. \A n \in 0 .. Width : Power[n] = IF n = 0 THEN 1 ELSE 2 * Power[n - 1]
    BY <1>5
  <2> QED
    BY <1>0, <2>1
<1>7. ASSUME NEW m \in 0 .. Width, Power[m] \notin Nat PROVE FALSE
  <2> DEFINE Bad == {n \in 0 .. Width : Power[n] \notin Nat}
  <2>1. Bad \in SUBSET Nat /\ Bad # {}
    BY <1>7
  <2>2. PICK k \in Bad : \A j \in Bad : k <= j
    BY <2>1, LeastOf
  <2>3. k \in 0 .. Width /\ Power[k] \notin Nat
    BY <2>2
  <2>4. k # 0
    BY <1>6, <2>3
  <2>5. k \in 1 .. Width /\ k - 1 \in 0 .. Width /\ ~ (k <= k - 1)
    BY <1>0, <2>3, <2>4
  <2>6. k - 1 \notin Bad
    BY <2>2, <2>5
  <2> QED
    BY <1>6, <2>3, <2>5, <2>6
<1> QED
  BY <1>0, <1>6, <1>7

LEMMA PowerSum ==
  ASSUME NEW b \in 0 .. Width, NEW a \in 0 .. Width - b
  PROVE  /\ a + b \in 0 .. Width /\ Power[a] \in Nat /\ Power[b] \in Nat /\ Power[a + b] \in Nat
         /\ Power[a] * Power[b] = Power[a + b]
<1> DEFINE Bad == {n \in 0 .. Width - b : Power[n] * Power[b] # Power[n + b]}
<1>0. Width \in Nat /\ a + b \in 0 .. Width /\ a \in 0 .. Width
  BY PowerRule
<1>1. SUFFICES ASSUME Bad # {} PROVE FALSE
  <2>1. Power[a] \in Nat /\ Power[b] \in Nat /\ Power[a + b] \in Nat
    BY <1>0, PowerRule
  <2> QED
    BY <1>0, <2>1
<1>2. Bad \in SUBSET Nat
  OBVIOUS
<1>3. PICK k \in Bad : \A j \in Bad : k <= j
  BY <1>1, <1>2, LeastOf
<1>4. k \in 0 .. Width - b /\ Power[k] * Power[b] # Power[k + b]
  BY <1>3
<1>5. k # 0
  BY <1>4, PowerRule
<1>6. k - 1 \in 0 .. Width - b /\ k - 1 \notin Bad
  BY <1>0, <1>3, <1>4, <1>5
<1>7. Power[k - 1] * Power[b] = Power[k - 1 + b]
  BY <1>6
<1>8. /\ k \in 1 .. Width /\ k + b \in 1 .. Width /\ k - 1 + b = k + b - 1
      /\ k - 1 \in 0 .. Width /\ k - 1 + b \in 0 .. Width
  BY <1>0, <1>4, <1>5
<1>9. PICK p, q, r : p = Power[k - 1] /\ q = Power[b] /\ r = Power[k - 1 + b]
  OBVIOUS
<1>10. p \in Nat /\ q \in Nat /\ r \in Nat /\ p * q = r
  BY <1>7, <1>8, <1>9, PowerRule
<1>11. Power[k] = 2 * p /\ Power[k + b] = 2 * r
  BY <1>8, <1>9, PowerRule
<1>12. (2 * p) * q = 2 * r
  BY <1>10
<1> QED
  BY <1>4, <1>9, <1>11, <1>12

LEMMA PowerPositive ==
  ASSUME NEW n \in 0 .. Width
  PROVE  Power[n] \in Nat /\ Power[n] > 0 /\ Power[n] <= Modulus
<1>0. Width \in Nat
  BY PowerRule
<1> DEFINE Bad == {k \in 0 .. Width : ~ (Power[k] > 0)}
<1>1. \A k \in 0 .. Width : Power[k] > 0
  <2>1. SUFFICES ASSUME Bad # {} PROVE FALSE
    OBVIOUS
  <2>2. Bad \in SUBSET Nat
    OBVIOUS
  <2>3. PICK k \in Bad : \A j \in Bad : k <= j
    BY <2>1, <2>2, LeastOf
  <2>4. k \in 0 .. Width /\ ~ (Power[k] > 0)
    BY <2>3
  <2>5. k # 0
    BY <2>4, PowerRule
  <2>6. k - 1 \in 0 .. Width /\ k \in 1 .. Width /\ k - 1 \notin Bad
    BY <1>0, <2>3, <2>4, <2>5
  <2>7. Power[k - 1] \in Nat /\ Power[k - 1] > 0 /\ Power[k] = 2 * Power[k - 1]
    BY <2>6, PowerRule
  <2> QED
    BY <2>4, <2>7
<1>2. Width - n \in 0 .. Width /\ n \in 0 .. Width - (Width - n) /\ n + (Width - n) = Width
  BY <1>0
<1>3. PICK p, q : p = Power[n] /\ q = Power[Width - n]
  OBVIOUS
<1>4. p \in Nat /\ q \in Nat /\ p > 0 /\ q > 0
  BY <1>0, <1>1, <1>2, <1>3, PowerRule
<1>5. p * q = Modulus
  BY <1>2, <1>3, PowerSum DEF Modulus
<1>6. p * q >= p
  <2>1. p * q = p * (q - 1) + p /\ p * (q - 1) >= 0
    BY <1>4
  <2> QED
    BY <1>4, <2>1
<1> QED
  BY <1>3, <1>4, <1>5, <1>6

LEMMA WordFacts ==
  /\ Modulus \in Nat /\ Lowest \in Nat /\ Lowest > 0 /\ Modulus = 2 * Lowest
  /\ \A x \in Word : x \in Nat /\ x < Modulus
  /\ \A x \in Nat : x < Modulus => x \in Word
  BY PowerRule, PowerPositive DEF Modulus, Lowest, Word

-----------------------------------------------------------------------------
(* Division.                                                               *)

\* There is one quotient and remainder.
LEMMA DivisionUnique ==
  ASSUME NEW y \in Nat, NEW a \in Int, NEW b \in Int, NEW r \in 0 .. y - 1, NEW t \in 0 .. y - 1,
         a * y + r = b * y + t
  PROVE  r = t
<1>1. PICK d \in Int : d = a - b
  OBVIOUS
<1>2. d * y = t - r
  BY <1>1
<1>3. CASE d >= 1
  <2>1. d * y = (d - 1) * y + y /\ (d - 1) * y >= 0
    BY <1>3
  <2> QED
    BY <1>2, <2>1
<1>4. CASE d <= -1
  <2>1. d * y = 0 - (0 - d - 1) * y - y /\ (0 - d - 1) * y >= 0
    BY <1>4
  <2> QED
    BY <1>2, <2>1
<1>5. CASE d = 0
  BY <1>2, <1>5
<1> QED
  BY <1>3, <1>4, <1>5

LEMMA DivMod ==
  ASSUME NEW x \in Nat, NEW y \in Nat \ {0}
  PROVE  x % y \in 0 .. y - 1 /\ x \div y \in Int /\ x = y * (x \div y) + (x % y)
  OBVIOUS

LEMMA ModIs ==
  ASSUME NEW y \in Nat \ {0}, NEW a \in Int, NEW r \in 0 .. y - 1, NEW x \in Nat, x = a * y + r
  PROVE  x % y = r
<1>1. x % y \in 0 .. y - 1 /\ x \div y \in Int /\ x = y * (x \div y) + (x % y)
  BY DivMod
<1>2. PICK b \in Int, t \in 0 .. y - 1 : b = x \div y /\ t = x % y
  BY <1>1
<1>3. y * b = b * y
  OBVIOUS
<1>4. a * y + r = b * y + t
  BY <1>1, <1>2, <1>3
<1>5. r = t
  BY <1>4, DivisionUnique
<1> QED
  BY <1>2, <1>5

\* After i steps d0 holds the dividend's bits that are still to come (lo) and the i bits
\* of the quotient found so far; these divide the dividend's first i bits (hi) by y.
Divided(s, x, y, i, hi, lo, q) ==
  /\ hi \in Nat /\ lo \in Nat /\ q \in Nat /\ s.r \in Nat
  /\ x = hi * Power[Width - i] + lo
  /\ lo < Power[Width - i] /\ hi < Power[i] /\ q < Power[i]
  /\ s.q = lo * Power[i] + q
  /\ hi = q * y + s.r /\ s.r < y

\* One bit more: the arithmetic of UDivStep's two shifts.
LEMMA ShiftFacts ==
  ASSUME NEW H \in Nat, NEW A \in Nat, NEW lo \in Nat, NEW q \in Nat,
         H > 0, A > 0, lo < 2 * H, q < A
  PROVE  \E bit \in {0, 1}, rest \in Nat :
           /\ lo = bit * H + rest /\ rest < H
           /\ lo * A + q = bit * (H * A) + (rest * A + q)
           /\ rest * A + q \in Nat /\ rest * A + q < H * A
<1>1. PICK bit \in {0, 1}, rest \in Nat : lo = bit * H + rest /\ rest < H
  <2>1. CASE lo < H
    <3>1. lo = 0 * H + lo
      OBVIOUS
    <3> QED
      BY <2>1, <3>1
  <2>2. CASE lo >= H
    <3>1. lo = 1 * H + (lo - H) /\ lo - H \in Nat /\ lo - H < H
      BY <2>2
    <3> QED
      BY <3>1
  <2> QED
    BY <2>1, <2>2
<1>2. lo * A = bit * (H * A) + rest * A
  <2>1. CASE bit = 0
    BY <1>1, <2>1
  <2>2. CASE bit = 1
    <3>1. (H + rest) * A = H * A + rest * A
      OBVIOUS
    <3> QED
      BY <1>1, <2>2, <3>1
  <2> QED
    BY <2>1, <2>2
<1>3. rest * A \in Nat /\ bit * (H * A) \in Nat /\ H * A \in Nat
  OBVIOUS
<1>4. rest * A + A <= H * A
  <2>1. H * A = rest * A + A + (H - rest - 1) * A
    OBVIOUS
  <2>2. (H - rest - 1) * A >= 0
    BY <1>1
  <2> QED
    BY <1>3, <2>1, <2>2
<1> QED
  BY <1>1, <1>2, <1>3, <1>4

LEMMA StepDivides ==
  ASSUME NEW x \in Word, NEW y \in Word, y > 0, NEW i \in 0 .. Width - 1, NEW s,
         NEW hi, NEW lo, NEW q, Divided(s, x, y, i, hi, lo, q)
  PROVE  \E hi2, lo2, q2 : Divided(UDivStep(s, y), x, y, i + 1, hi2, lo2, q2)
<1>1. PICK H, A : H = Power[Width - i - 1] /\ A = Power[i]
  OBVIOUS
<1>2. /\ Width \in Nat /\ i \in Nat /\ i + 1 \in 0 .. Width /\ Width - i \in 1 .. Width
      /\ Width - i - 1 \in 0 .. Width /\ i \in 0 .. Width /\ Width - (i + 1) = Width - i - 1
      /\ i + 1 \in 1 .. Width /\ i \in 0 .. Width - (Width - i - 1)
      /\ i + (Width - i - 1) = Width - 1
  BY PowerRule
<1>3. H \in Nat /\ A \in Nat /\ H > 0 /\ A > 0
  BY <1>1, <1>2, PowerPositive
<1>4. Power[Width - i] = 2 * H /\ Power[i + 1] = 2 * A
  BY <1>1, <1>2, PowerRule
<1>5. H * A = Lowest
  <2>1. A * H = Lowest
    BY <1>1, <1>2, PowerSum DEF Lowest
  <2> QED
    BY <1>3, <2>1
<1>6. /\ hi \in Nat /\ lo \in Nat /\ q \in Nat /\ s.r \in Nat
      /\ x = hi * (2 * H) + lo
      /\ lo < 2 * H /\ hi < A /\ q < A
      /\ s.q = lo * A + q
      /\ hi = q * y + s.r /\ s.r < y
  BY <1>1, <1>4 DEF Divided
<1>7. PICK bit \in {0, 1}, rest \in Nat :
        /\ lo = bit * H + rest /\ rest < H
        /\ lo * A + q = bit * Lowest + (rest * A + q)
        /\ rest * A + q \in Nat /\ rest * A + q < Lowest
  BY <1>3, <1>5, <1>6, ShiftFacts
<1>8. PICK low \in Nat : low = rest * A + q
  BY <1>7
<1>9. /\ Lowest \in Nat /\ Lowest > 0 /\ Modulus = 2 * Lowest /\ y \in Nat /\ y < Modulus
      /\ 2 * A <= Modulus
  BY <1>2, <1>4, WordFacts, PowerPositive
<1>10. PICK r \in Nat : r = s.r
  BY <1>6
<1>11. PICK v \in Nat : v = s.q
  BY <1>6, <1>7, <1>8, <1>9
<1>12. v = bit * Lowest + low /\ low < Lowest
  BY <1>6, <1>7, <1>8, <1>11
<1>13. v \div Lowest = bit /\ (2 * v) % Modulus = 2 * low
  BY <1>9, <1>12
<1>14. PICK hi2 \in Nat : hi2 = 2 * hi + bit
  BY <1>6
<1>15. PICK rr \in Nat : rr = 2 * r + bit
  OBVIOUS
<1>16. hi2 = (2 * q) * y + rr /\ hi2 < 2 * A
  <2>1. (2 * q) * y = 2 * (q * y)
    BY <1>6, <1>9
  <2>2. PICK qy \in Nat : qy = q * y
    BY <1>6, <1>9
  <2>3. hi = qy + r
    BY <1>6, <1>10, <2>2
  <2>4. hi2 = 2 * qy + rr
    BY <1>6, <1>14, <1>15, <2>3
  <2>5. hi2 < 2 * A
    BY <1>3, <1>6, <1>14
  <2> QED
    BY <2>1, <2>2, <2>4, <2>5
<1>17. rr < Modulus
  <2>1. (2 * q) * y \in Nat
    BY <1>6, <1>9
  <2> QED
    BY <1>3, <1>9, <1>16, <2>1
<1>18. rr % Modulus = rr
  BY <1>9, <1>17
<1>19. UDivStep(s, y) =
         IF rr < y THEN [q |-> 2 * low, r |-> rr] ELSE [q |-> 2 * low + 1, r |-> rr - y]
  BY <1>10, <1>11, <1>13, <1>15, <1>18 DEF UDivStep
<1>20. x = hi2 * H + rest
  <2>1. hi * (2 * H) = 2 * (hi * H) /\ hi2 * H = 2 * (hi * H) + bit * H
    BY <1>3, <1>6, <1>14
  <2> QED
    BY <1>3, <1>6, <1>7, <2>1
<1>21. 2 * low = rest * (2 * A) + 2 * q
  <2>1. rest * (2 * A) = 2 * (rest * A)
    BY <1>3
  <2> QED
    BY <1>3, <1>6, <1>7, <1>8, <2>1
<1>22. rr <= 2 * y - 1 /\ r < y
  BY <1>6, <1>9, <1>10, <1>15
<1>23. CASE rr < y
  <2>1. UDivStep(s, y).q = 2 * low /\ UDivStep(s, y).r = rr
    BY <1>19, <1>23
  <2>2. 2 * q \in Nat /\ 2 * q < 2 * A
    BY <1>3, <1>6
  <2>3. Divided(UDivStep(s, y), x, y, i + 1, hi2, rest, 2 * q)
    BY <1>1, <1>2, <1>4, <1>7, <1>16, <1>20, <1>21, <1>23, <2>1, <2>2 DEF Divided
  <2> QED
    BY <2>3
<1>24. CASE ~ (rr < y)
  <2>1. UDivStep(s, y).q = 2 * low + 1 /\ UDivStep(s, y).r = rr - y
    BY <1>19, <1>24
  <2>2. 2 * q + 1 \in Nat /\ 2 * q + 1 < 2 * A
    BY <1>3, <1>6
  <2>3. (2 * q + 1) * y = (2 * q) * y + y
    BY <1>6, <1>9
  <2>4. PICK qy \in Int : qy = (2 * q) * y
    BY <1>6, <1>9
  <2>5. rr - y \in Nat /\ rr - y < y /\ hi2 = (2 * q + 1) * y + (rr - y)
    BY <1>9, <1>16, <1>22, <1>24, <2>3, <2>4
  <2>6. 2 * low + 1 = rest * (2 * A) + (2 * q + 1)
    <3>1. rest * (2 * A) \in Nat
      BY <1>3
    <3> QED
      BY <1>6, <1>21, <3>1
  <2>7. Divided(UDivStep(s, y), x, y, i + 1, hi2, rest, 2 * q + 1)
    BY <1>1, <1>2, <1>4, <1>7, <1>16, <1>20, <2>1, <2>2, <2>5, <2>6 DEF Divided
  <2> QED
    BY <2>7
<1> QED
  BY <1>23, <1>24

Pairs == [q : Int, r : Int]

\* What UDivMod's recursive function is.
LEMMA AfterIs ==
  ASSUME NEW x \in Word, NEW y \in Word
  PROVE  \E f : /\ f[0] = [q |-> x, r |-> 0] /\ UDivMod(x, y) = f[Width]
                /\ \A i \in 1 .. Width : f[i] = UDivStep(f[i - 1], y)
<1> DEFINE first == [q |-> x, r |-> 0]
           Eq(f) == f = [i \in 0 .. Width |-> IF i = 0 THEN first ELSE UDivStep(f[i - 1], y)]
           after == CHOOSE f : Eq(f)
           back == [i \in 1 .. Width |-> i - 1]
           step == [s \in Pairs |-> UDivStep(s, y)]
           make == [i \in 1 .. Width |-> step]
<1>0. Width \in Nat /\ x \in Nat /\ y \in Nat
  BY PowerRule, WordFacts
<1>1. UDivMod(x, y) = after[Width]
  BY DEF UDivMod
<1>2. first \in Pairs
  BY <1>0 DEF Pairs
<1>3. ASSUME NEW s \in Pairs PROVE UDivStep(s, y) \in Pairs
  <2>1. s.q \in Int /\ s.r \in Int
    BY DEF Pairs
  <2>2. (2 * s.q) % Modulus \in Int /\ (2 * s.r + s.q \div Lowest) % Modulus \in Int
    BY <2>1, WordFacts
  <2> QED
    BY <1>0, <2>2 DEF UDivStep, Pairs
<1>4. step \in [Pairs -> Pairs] /\ \A s \in Pairs : step[s] = UDivStep(s, y)
  BY <1>3
<1>5. make \in [1 .. Width -> [Pairs -> Pairs]] /\ \A i \in 1 .. Width : make[i] = step
  BY <1>4
<1>6. back \in [1 .. Width -> Nat] /\ \A i \in 1 .. Width : back[i] = i - 1 /\ back[i] < i
  BY <1>0
<1> HIDE DEF first, step, make, back
<1>7. \E f : Solves(f, Width, Pairs, first, back, make)
  BY <1>0, <1>2, <1>5, <1>6, Recursion
<1>8. \E f : Eq(f)
  <2>1. PICK f : Solves(f, Width, Pairs, first, back, make)
    BY <1>7
  <2>2. /\ f \in [0 .. Width -> Pairs] /\ f[0] = first
        /\ \A i \in 1 .. Width : f[i] = make[i][f[back[i]]]
    BY <2>1 DEF Solves
  <2>3. ASSUME NEW i \in 0 .. Width, i # 0 PROVE f[i] = UDivStep(f[i - 1], y)
    <3>1. i \in 1 .. Width /\ i - 1 \in 0 .. Width
      BY <1>0, <2>3
    <3>2. f[i] = step[f[i - 1]] /\ f[i - 1] \in Pairs
      BY <1>5, <1>6, <2>2, <3>1
    <3> QED
      BY <1>4, <3>2
  <2>4. \A i \in 0 .. Width : f[i] = IF i = 0 THEN first ELSE UDivStep(f[i - 1], y)
    BY <2>2, <2>3
  <2>5. Eq(f)
    BY <2>2, <2>4
  <2> QED
    BY <2>5
<1>9. Eq(after)
  <2> HIDE DEF Eq
  <2> QED
    BY <1>8
<1> HIDE DEF after
<1>10. \A i \in 0 .. Width : after[i] = IF i = 0 THEN first ELSE UDivStep(after[i - 1], y)
  BY <1>9
<1>11. after[0] = first /\ \A i \in 1 .. Width : after[i] = UDivStep(after[i - 1], y)
  <2>1. ASSUME NEW i \in 1 .. Width PROVE after[i] = UDivStep(after[i - 1], y)
    BY <1>0, <1>10
  <2> QED
    BY <1>0, <1>10, <2>1
<1> QED
  BY <1>1, <1>11 DEF first

\* __udivmod divides, for every pair of words.
LEMMA UDivModDivides ==
  ASSUME NEW x \in Word, NEW y \in Word, y # 0
  PROVE  \E q, r \in Nat : /\ UDivMod(x, y).q = q /\ UDivMod(x, y).r = r
                           /\ x = q * y + r /\ r < y
<1>0. Width \in Nat /\ x \in Nat /\ x < Modulus /\ y \in Nat /\ y > 0
  BY PowerRule, WordFacts
<1>1. PICK f : /\ f[0] = [q |-> x, r |-> 0] /\ UDivMod(x, y) = f[Width]
               /\ \A i \in 1 .. Width : f[i] = UDivStep(f[i - 1], y)
  BY AfterIs
<1> DEFINE Right(i) == \E hi, lo, q : Divided(f[i], x, y, i, hi, lo, q)
           Bad == {i \in 0 .. Width : ~ Right(i)}
<1>2. Right(0)
  <2>1. Divided(f[0], x, y, 0, 0, x, 0)
    <3>1. Power[0] = 1 /\ Power[Width - 0] = Modulus /\ Modulus \in Nat
      BY <1>0, PowerRule, WordFacts DEF Modulus
    <3>2. f[0].q = x /\ f[0].r = 0
      BY <1>1
    <3>3. 0 * Power[Width - 0] + x = x /\ x * 1 + 0 = x /\ 0 * y + 0 = 0
      BY <1>0, <3>1
    <3> QED
      BY <1>0, <3>1, <3>2, <3>3 DEF Divided
  <2> QED
    BY <2>1
<1>3. ASSUME NEW i \in 1 .. Width, Right(i - 1) PROVE Right(i)
  <2>1. i - 1 \in 0 .. Width - 1 /\ i - 1 + 1 = i
    BY <1>0
  <2>2. PICK hi, lo, q : Divided(f[i - 1], x, y, i - 1, hi, lo, q)
    BY <1>3
  <2>3. \E hi2, lo2, q2 : Divided(UDivStep(f[i - 1], y), x, y, i - 1 + 1, hi2, lo2, q2)
    BY <1>0, <2>1, <2>2, StepDivides
  <2>4. f[i] = UDivStep(f[i - 1], y)
    BY <1>1
  <2> QED
    BY <2>1, <2>3, <2>4
<1> HIDE DEF Right
<1>4. Right(Width)
  <2>1. SUFFICES ASSUME Bad # {} PROVE FALSE
    BY <1>0
  <2>2. Bad \in SUBSET Nat
    OBVIOUS
  <2>3. PICK k \in Bad : \A j \in Bad : k <= j
    BY <2>1, <2>2, LeastOf
  <2>4. k \in 0 .. Width /\ ~ Right(k)
    BY <2>3
  <2>5. k # 0
    BY <1>2, <2>4
  <2>6. k \in 1 .. Width /\ k - 1 \in 0 .. Width /\ ~ (k <= k - 1)
    BY <1>0, <2>4, <2>5
  <2>7. k - 1 \notin Bad
    BY <2>3, <2>6
  <2> QED
    BY <1>3, <2>4, <2>6, <2>7
<1>5. PICK hi, lo, q : Divided(f[Width], x, y, Width, hi, lo, q)
  BY <1>4 DEF Right
<1>6. Power[Width - Width] = 1
  BY <1>0, PowerRule
<1>7. PICK r \in Nat : r = f[Width].r
  BY <1>5 DEF Divided
<1>8. /\ hi \in Nat /\ lo \in Nat /\ q \in Nat
      /\ x = hi * 1 + lo /\ lo < 1
      /\ f[Width].q = lo * Power[Width] + q
      /\ hi = q * y + r /\ r < y
  BY <1>5, <1>6, <1>7 DEF Divided
<1>9. lo = 0 /\ x = hi
  BY <1>8
<1>10. f[Width].q = q
  <2>1. 0 * Power[Width] = 0
    BY <1>0, PowerRule
  <2> QED
    BY <1>8, <1>9, <2>1
<1> QED
  BY <1>1, <1>7, <1>8, <1>9, <1>10

-----------------------------------------------------------------------------
(* Signs.                                                                  *)

Magnitude(w) == IF IsNeg(w) THEN Neg(w) ELSE w

LEMMA SignFacts ==
  ASSUME NEW w \in Word
  PROVE  /\ Signed(w) \in Int
         /\ IsNeg(w) <=> Signed(w) < 0
         /\ Magnitude(w) \in Word /\ Magnitude(w) \in Nat /\ Magnitude(w) <= Lowest
         /\ Magnitude(w) = IF Signed(w) < 0 THEN 0 - Signed(w) ELSE Signed(w)
         /\ ~ IsNeg(w) => w < Lowest
         /\ w # 0 => Magnitude(w) > 0
         /\ Signed(w) = 0 - Lowest => w = Lowest
<1>1. /\ w \in Nat /\ w < Modulus /\ Lowest \in Nat /\ Lowest > 0 /\ Modulus = 2 * Lowest
      /\ Modulus \in Nat
  BY WordFacts
<1>2. CASE IsNeg(w)
  <2>1. w >= Lowest /\ Modulus - w \in Nat /\ Modulus - w < Modulus /\ Modulus - w > 0
    BY <1>1, <1>2 DEF IsNeg
  <2>2. (Modulus - w) % Modulus = Modulus - w
    BY <1>1, <2>1
  <2>3. Magnitude(w) = Modulus - w /\ Signed(w) = w - Modulus
    BY <1>2, <2>2 DEF Magnitude, Neg, Signed
  <2>4. Magnitude(w) \in Word
    BY <2>1, <2>3, WordFacts
  <2> QED
    BY <1>1, <1>2, <2>1, <2>3, <2>4
<1>3. CASE ~ IsNeg(w)
  <2>1. w < Lowest
    BY <1>1, <1>3 DEF IsNeg
  <2>2. Magnitude(w) = w /\ Signed(w) = w
    BY <1>3 DEF Magnitude, Signed
  <2> QED
    BY <1>1, <1>3, <2>1, <2>2
<1> QED
  BY <1>2, <1>3

\* neg.l of a magnitude.
LEMMA NegIs ==
  ASSUME NEW n \in Nat, n <= Lowest
  PROVE  Neg(n) \in Word /\ Signed(Neg(n)) = 0 - n
<1>1. Lowest \in Nat /\ Lowest > 0 /\ Modulus = 2 * Lowest /\ Modulus \in Nat
  BY WordFacts
<1>2. CASE n = 0
  <2>1. Neg(n) = 0
    BY <1>1, <1>2 DEF Neg
  <2> QED
    BY <1>1, <1>2, <2>1, WordFacts DEF Signed, IsNeg
<1>3. CASE n > 0
  <2>1. Modulus - n \in Nat /\ Modulus - n < Modulus /\ Modulus - n >= Lowest
    BY <1>1, <1>3
  <2>2. Neg(n) = Modulus - n
    BY <1>1, <2>1 DEF Neg
  <2>3. Signed(Neg(n)) = Modulus - n - Modulus
    BY <2>1, <2>2 DEF Signed, IsNeg
  <2> QED
    BY <1>1, <2>1, <2>2, <2>3, WordFacts
<1> QED
  BY <1>2, <1>3

LEMMA PositiveIs == ASSUME NEW n \in Nat, n < Lowest PROVE n \in Word /\ Signed(n) = n
  BY WordFacts DEF Signed, IsNeg

\* What ArithmeticRight says of a division X by Y.
Divides(X, Y, Q, R, exception) ==
  LET abs(n) == IF n < 0 THEN -n ELSE n
  IN /\ (Q * Y + R - X) % Modulus = 0
     /\ abs(R) < abs(Y)
     /\ R # 0 => (R < 0 <=> X < 0)
     /\ ~ exception => Q * Y + R = X

LEMMA ExactDivides ==
  ASSUME NEW X \in Int, NEW Y \in Int, NEW Q \in Int, NEW R \in Int, NEW exception,
         Q * Y + R = X, NEW r \in Nat, NEW ay \in Nat, r < ay,
         Y = ay \/ Y = 0 - ay, R = IF X < 0 THEN 0 - r ELSE r
  PROVE  Divides(X, Y, Q, R, exception)
<1>1. Q * Y + R - X = 0
  <2>1. Q * Y \in Int
    OBVIOUS
  <2> QED
    BY <2>1
<1>2. 0 % Modulus = 0
  BY WordFacts
<1>3. /\ (IF R < 0 THEN -R ELSE R) < (IF Y < 0 THEN -Y ELSE Y)
      /\ R # 0 => (R < 0 <=> X < 0)
  OBVIOUS
<1> QED
  BY <1>1, <1>2, <1>3 DEF Divides

LEMMA SDivModDivides ==
  ASSUME NEW x \in Word, NEW y \in Word, y # 0
  PROVE  Divides(Signed(x), Signed(y), Signed(SDivMod(x, y).q), Signed(SDivMod(x, y).r),
                 x = Lowest /\ Signed(y) = -1)
<1>0. Lowest \in Nat /\ Lowest > 0 /\ Modulus = 2 * Lowest /\ Modulus \in Nat
  BY WordFacts
<1>1. PICK ax, ay : ax = Magnitude(x) /\ ay = Magnitude(y)
  OBVIOUS
<1>2. PICK X, Y : X = Signed(x) /\ Y = Signed(y)
  OBVIOUS
<1>3. /\ X \in Int /\ ax \in Word /\ ax \in Nat /\ ax <= Lowest
      /\ ax = IF X < 0 THEN 0 - X ELSE X
      /\ IsNeg(x) <=> X < 0
      /\ X = 0 - Lowest => x = Lowest
  BY <1>1, <1>2, SignFacts
<1>4. /\ Y \in Int /\ ay \in Word /\ ay \in Nat /\ ay <= Lowest /\ ay > 0
      /\ ay = IF Y < 0 THEN 0 - Y ELSE Y
      /\ IsNeg(y) <=> Y < 0
  BY <1>1, <1>2, SignFacts
<1>5. PICK q, r \in Nat : /\ UDivMod(ax, ay).q = q /\ UDivMod(ax, ay).r = r
                          /\ ax = q * ay + r /\ r < ay
  <2>1. ax \in Word /\ ay \in Word /\ ay # 0
    BY <1>3, <1>4
  <2> QED
    BY <2>1, UDivModDivides
<1>6. /\ SDivMod(x, y).q = IF IsNeg(x) # IsNeg(y) THEN Neg(q) ELSE q
      /\ SDivMod(x, y).r = IF IsNeg(x) THEN Neg(r) ELSE r
  BY <1>1, <1>5 DEF SDivMod, Magnitude
<1>7. PICK Q, R : Q = Signed(SDivMod(x, y).q) /\ R = Signed(SDivMod(x, y).r)
  OBVIOUS
<1>8. q * ay \in Nat /\ q * ay >= q /\ q * ay <= ax
  <2>1. q * ay = q + q * (ay - 1) /\ q * (ay - 1) \in Nat
    BY <1>4
  <2> QED
    BY <1>3, <1>5, <2>1
<1>9. q <= Lowest /\ r < Lowest /\ r <= Lowest
  <2>1. PICK p \in Nat : p = q * ay
    BY <1>8
  <2>2. p >= q /\ p <= ax /\ r < ay
    BY <1>5, <1>8, <2>1
  <2> QED
    BY <1>0, <1>3, <1>4, <2>2
<1>10. R = IF X < 0 THEN 0 - r ELSE r
  <2>1. Signed(Neg(r)) = 0 - r /\ Signed(r) = r
    BY <1>9, NegIs, PositiveIs
  <2> QED
    BY <1>3, <1>6, <1>7, <2>1
<1>11. Signed(Neg(q)) = 0 - q /\ (q < Lowest => Signed(q) = q)
  BY <1>9, NegIs, PositiveIs
<1>12. SUFFICES Divides(X, Y, Q, R, x = Lowest /\ Y = -1)
  BY <1>2, <1>7
<1>13. R \in Int /\ (Y = ay \/ Y = 0 - ay)
  BY <1>4, <1>10
<1>14. CASE X < 0 /\ Y < 0 /\ q = Lowest
  <2>1. ax = Lowest /\ q * ay = Lowest /\ r = 0
    BY <1>3, <1>5, <1>8, <1>14
  <2>2. ay = 1
    <3>1. CASE ay >= 2
      <4>1. PICK l \in Nat : l = Lowest
        BY <1>0
      <4>2. l * ay = 2 * l + l * (ay - 2) /\ l * (ay - 2) \in Nat
        BY <1>4, <3>1
      <4>3. l * ay = l
        BY <1>14, <2>1, <4>1
      <4> QED
        BY <1>0, <4>1, <4>2, <4>3
    <3> QED
      BY <1>4, <3>1
  <2>3. X = 0 - Lowest /\ Y = -1 /\ x = Lowest
    BY <1>3, <1>4, <1>14, <2>1, <2>2
  <2>4. Q = 0 - Lowest
    <3>1. SDivMod(x, y).q = Lowest
      BY <1>3, <1>4, <1>6, <1>14
    <3>2. Signed(Lowest) = Lowest - Modulus
      BY <1>0 DEF Signed, IsNeg
    <3> QED
      BY <1>0, <1>7, <3>1, <3>2
  <2>5. R = 0
    BY <1>10, <2>1
  <2>6. Q * Y + R - X = Modulus
    BY <1>0, <2>3, <2>4, <2>5
  <2>7. Modulus % Modulus = 0
    BY <1>0
  <2> QED
    BY <2>3, <2>5, <2>6, <2>7 DEF Divides
<1>15. CASE X < 0 /\ Y < 0 /\ q # Lowest
  <2>0. ~ (IsNeg(x) # IsNeg(y)) /\ q < Lowest
    BY <1>0, <1>3, <1>4, <1>9, <1>15 DEF IsNeg
  <2>1. Q = q
    BY <1>6, <1>7, <1>11, <2>0
  <2>2. q * Y = 0 - q * ay
    BY <1>4, <1>15
  <2>3. Q * Y + R = X
    BY <1>3, <1>5, <1>8, <1>10, <1>15, <2>1, <2>2
  <2>4. Q \in Int
    BY <2>1
  <2> QED
    BY <1>3, <1>4, <1>5, <1>10, <1>13, <2>3, <2>4, ExactDivides
<1>16. CASE X < 0 /\ ~ (Y < 0)
  <2>1. Q = 0 - q
    BY <1>3, <1>4, <1>6, <1>7, <1>11, <1>16
  <2>2. (0 - q) * Y = 0 - q * ay
    BY <1>4, <1>16
  <2>3. Q * Y + R = X
    BY <1>3, <1>5, <1>8, <1>10, <1>16, <2>1, <2>2
  <2>4. Q \in Int
    BY <2>1
  <2> QED
    BY <1>3, <1>4, <1>5, <1>10, <1>13, <2>3, <2>4, ExactDivides
<1>17. CASE ~ (X < 0) /\ Y < 0
  <2>1. Q = 0 - q
    BY <1>3, <1>4, <1>6, <1>7, <1>11, <1>17
  <2>2. (0 - q) * Y = q * ay
    <3>1. Y = 0 - ay
      BY <1>4, <1>17
    <3>2. (0 - q) * (0 - ay) = q * ay
      BY <1>4
    <3> QED
      BY <3>1, <3>2
  <2>3. Q * Y + R = X
    BY <1>3, <1>5, <1>8, <1>10, <1>17, <2>1, <2>2
  <2>4. Q \in Int
    BY <2>1
  <2> QED
    BY <1>3, <1>4, <1>5, <1>10, <1>13, <2>3, <2>4, ExactDivides
<1>18. CASE ~ (X < 0) /\ ~ (Y < 0)
  <2>1. q < Lowest
    <3>1. ax < Lowest
      <4>1. ~ IsNeg(x)
        BY <1>3, <1>18
      <4> QED
        BY <1>1, <4>1, SignFacts DEF Magnitude
    <3> QED
      BY <1>0, <1>3, <1>8, <3>1
  <2>2. ~ (IsNeg(x) # IsNeg(y))
    BY <1>3, <1>4, <1>18 DEF IsNeg
  <2>3. Q = q
    BY <1>6, <1>7, <1>11, <2>1, <2>2
  <2>4. q * Y = q * ay /\ R = r /\ X = ax
    BY <1>3, <1>4, <1>10, <1>18
  <2>5. Q * Y + R = X
    BY <1>5, <2>3, <2>4
  <2>6. Q \in Int
    BY <2>3
  <2> QED
    BY <1>3, <1>4, <1>5, <1>10, <1>13, <2>5, <2>6, ExactDivides
<1> QED
  BY <1>14, <1>15, <1>16, <1>17, <1>18

-----------------------------------------------------------------------------
(* Multiplication.                                                         *)

States == [d0 : Word, d1 : Word, d2 : Word]

\* What the loop of __mul32 makes of its registers.
Product(s) == (s.d0 + s.d1 * s.d2) % Modulus

Shifted(s) ==
  [d1 |-> s.d1 \div 2,
   d0 |-> IF s.d1 % 2 = 1 THEN (s.d0 + s.d2) % Modulus ELSE s.d0,
   d2 |-> (2 * s.d2) % Modulus]

\* Multiples of the modulus make no difference.
LEMMA ModLess ==
  ASSUME NEW x \in Nat, NEW k \in Int, x - k * Modulus \in Nat
  PROVE  (x - k * Modulus) % Modulus = x % Modulus
<1>0. Modulus \in Nat \ {0}
  BY WordFacts
<1>1. x % Modulus \in 0 .. Modulus - 1 /\ x \div Modulus \in Int
      /\ x = Modulus * (x \div Modulus) + (x % Modulus)
  BY <1>0, DivMod
<1>2. PICK d \in Int, m \in 0 .. Modulus - 1 : d = x \div Modulus /\ m = x % Modulus
  BY <1>1
<1>3. PICK M \in Nat \ {0} : M = Modulus
  BY <1>0
<1>4. x = M * d + m
  BY <1>1, <1>2, <1>3
<1>5. x - k * M = (d - k) * M + m
  BY <1>2, <1>4
<1>6. d - k \in Int
  OBVIOUS
<1>7. PICK z \in Nat : z = x - k * M
  BY <1>3
<1>8. z % M = m
  <2>1. z = (d - k) * M + m /\ m \in 0 .. M - 1
    BY <1>2, <1>3, <1>5, <1>7
  <2> QED
    BY <1>6, <2>1, ModIs
<1> QED
  BY <1>2, <1>3, <1>7, <1>8

\* One turn of the loop leaves Product alone.
LEMMA TurnKeeps ==
  ASSUME NEW s \in States, s.d1 # 0
  PROVE  Shifted(s) \in States /\ Shifted(s).d1 < s.d1 /\ Product(Shifted(s)) = Product(s)
<1>0. Modulus \in Nat \ {0} /\ \A w \in Word : w \in Nat /\ w < Modulus
  BY WordFacts
<1>1. PICK a, b, c : a = s.d0 /\ b = s.d1 /\ c = s.d2
  OBVIOUS
<1>2. a \in Word /\ b \in Word /\ c \in Word /\ a \in Nat /\ b \in Nat /\ c \in Nat /\ b # 0
      /\ a < Modulus /\ b < Modulus
  BY <1>0, <1>1 DEF States
<1>3. PICK h \in Nat, bit \in {0, 1} : h = b \div 2 /\ bit = b % 2 /\ b = 2 * h + bit /\ h < b
  BY <1>2
<1>4. PICK M \in Nat \ {0} : M = Modulus
  BY <1>0
<1>5. PICK k1 \in Int, a2 \in 0 .. M - 1 :
        a2 = (IF bit = 1 THEN (a + c) % M ELSE a) /\ a2 = a + bit * c - k1 * M
  <2>1. CASE bit = 1
    <3>1. /\ (a + c) % M \in 0 .. M - 1 /\ (a + c) \div M \in Int
          /\ a + c = M * ((a + c) \div M) + ((a + c) % M)
      BY <1>2, DivMod
    <3>2. PICK k \in Int, t \in 0 .. M - 1 : k = (a + c) \div M /\ t = (a + c) % M
      BY <3>1
    <3>3. t = a + c - k * M /\ 1 * c = c
      BY <1>2, <3>1, <3>2
    <3> QED
      BY <2>1, <3>2, <3>3
  <2>2. CASE bit = 0
    <3>1. a = a + bit * c - 0 * M /\ a \in 0 .. M - 1 /\ 0 \in Int
      BY <1>2, <1>4, <2>2
    <3>2. a = IF bit = 1 THEN (a + c) % M ELSE a
      BY <2>2
    <3> QED
      BY <3>1, <3>2
  <2> QED
    BY <2>1, <2>2
<1>6. PICK k2 \in Int, c2 \in 0 .. M - 1 : c2 = (2 * c) % M /\ c2 = 2 * c - k2 * M
  <2>1. PICK z \in Nat : z = 2 * c
    BY <1>2
  <2>2. z % M \in 0 .. M - 1 /\ z \div M \in Int /\ z = M * (z \div M) + (z % M)
    BY DivMod
  <2>3. PICK k \in Int, t \in 0 .. M - 1 : k = z \div M /\ t = z % M
    BY <2>2
  <2>4. t = z - k * M
    BY <2>2, <2>3
  <2> QED
    BY <2>1, <2>3, <2>4
<1>7. Shifted(s) = [d1 |-> h, d0 |-> a2, d2 |-> c2]
  BY <1>1, <1>3, <1>4, <1>5, <1>6 DEF Shifted
<1>8. Shifted(s) \in States
  <2>1. h \in Word /\ a2 \in Word /\ c2 \in Word
    BY <1>2, <1>3, <1>4, WordFacts
  <2> QED
    BY <1>7, <2>1 DEF States
<1>9. a2 + h * c2 = (a + b * c) - (k1 + h * k2) * M
  <2>1. h * c2 = h * (2 * c) - h * (k2 * M)
    BY <1>2, <1>6
  <2>2. b * c = h * (2 * c) + bit * c
    BY <1>2, <1>3
  <2>3. (k1 + h * k2) * M = k1 * M + h * (k2 * M)
    BY <1>4
  <2>4. PICK p, q, r, t \in Int : p = h * (2 * c) /\ q = h * (k2 * M) /\ r = bit * c /\ t = k1 * M
    BY <1>2, <1>4
  <2>5. PICK u, v, w \in Int : u = h * c2 /\ v = b * c /\ w = (k1 + h * k2) * M
    BY <1>2, <1>4, <1>6
  <2>6. u = p - q /\ v = p + r /\ w = t + q /\ a2 = a + r - t
    BY <1>5, <2>1, <2>2, <2>3, <2>4, <2>5
  <2>7. a2 + u = (a + v) - w
    BY <1>2, <2>6
  <2> QED
    BY <2>5, <2>7
<1>10. a + b * c \in Nat /\ a2 + h * c2 \in Nat /\ k1 + h * k2 \in Int
  BY <1>2, <1>5, <1>6
<1>11. (a2 + h * c2) % M = (a + b * c) % M
  <2>1. PICK x \in Nat, z \in Nat, k \in Int : x = a + b * c /\ z = a2 + h * c2 /\ k = k1 + h * k2
    BY <1>10
  <2>2. z = x - k * Modulus
    BY <1>4, <1>9, <2>1
  <2>3. z % Modulus = x % Modulus
    BY <2>2, ModLess
  <2> QED
    BY <1>4, <2>1, <2>3
<1>12. Product(Shifted(s)) = (a2 + h * c2) % M
  BY <1>4, <1>7 DEF Product
<1>13. Product(s) = (a + b * c) % M
  BY <1>1, <1>4 DEF Product
<1>14. Shifted(s).d1 < s.d1
  <2>1. Shifted(s).d1 = h
    BY <1>7
  <2> QED
    BY <1>1, <1>3, <2>1
<1> QED
  BY <1>8, <1>11, <1>12, <1>13, <1>14

\* __mul32 multiplies, for every pair of words.
LEMMA Mul32Is == ASSUME NEW x \in Word, NEW y \in Word PROVE Mul32(x, y) = (x * y) % Modulus
<1> DEFINE Eq(m) == m = [s \in [d0 : Word, d1 : Word, d2 : Word] |->
                          IF s.d1 = 0 THEN s.d0
                          ELSE m[[d1 |-> s.d1 \div 2,
                                  d0 |-> IF s.d1 % 2 = 1 THEN (s.d0 + s.d2) % Modulus ELSE s.d0,
                                  d2 |-> (2 * s.d2) % Modulus]]]
           m == CHOOSE f : Eq(f)
           product == [s \in States |-> Product(s)]
           entry == [d0 |-> 0, d1 |-> y, d2 |-> x]
<1>0. x \in Nat /\ y \in Nat /\ 0 \in Word
  BY WordFacts
<1>1. Mul32(x, y) = m[entry]
  BY DEF Mul32
<1>2. ASSUME NEW s \in States, s.d1 = 0 PROVE Product(s) = s.d0
  <2>1. s.d0 \in Nat /\ s.d0 < Modulus /\ s.d2 \in Nat
    BY WordFacts DEF States
  <2>2. s.d0 + 0 * s.d2 = s.d0
    BY <2>1
  <2> QED
    BY <1>2, <2>1, <2>2, WordFacts DEF Product
<1>3. Eq(product)
  <2>1. ASSUME NEW s \in States
        PROVE  product[s] = IF s.d1 = 0 THEN s.d0 ELSE product[Shifted(s)]
    BY <1>2, TurnKeeps
  <2>2. product = [s \in States |-> IF s.d1 = 0 THEN s.d0 ELSE product[Shifted(s)]]
    BY <2>1
  <2> HIDE DEF product
  <2> QED
    BY <2>2 DEF States, Shifted
<1>4. Eq(m)
  <2> HIDE DEF Eq, product
  <2> QED
    BY <1>3
<1>5. \A s \in States : m[s] = IF s.d1 = 0 THEN s.d0 ELSE m[Shifted(s)]
  <2> HIDE DEF m
  <2> QED
    BY <1>4 DEF States, Shifted
<1> HIDE DEF Eq, m, product
<1> DEFINE Bad == {k \in Nat : \E s \in States : s.d1 = k /\ m[s] # Product(s)}
<1>6. ASSUME NEW s \in States PROVE m[s] = Product(s)
  <2>1. SUFFICES ASSUME m[s] # Product(s) PROVE FALSE
    OBVIOUS
  <2>2. s.d1 \in Nat
    BY WordFacts DEF States
  <2>3. Bad \in SUBSET Nat /\ Bad # {}
    BY <2>1, <2>2
  <2>4. PICK k \in Bad : \A j \in Bad : k <= j
    BY <2>3, LeastOf
  <2>5. PICK t \in States : t.d1 = k /\ m[t] # Product(t)
    BY <2>4
  <2>6. t.d1 # 0
    BY <1>2, <1>5, <2>5
  <2>7. /\ Shifted(t) \in States /\ Shifted(t).d1 < t.d1 /\ Product(Shifted(t)) = Product(t)
        /\ m[t] = m[Shifted(t)]
    BY <1>5, <2>6, TurnKeeps
  <2>8. Shifted(t).d1 \in Nat /\ k \in Nat
    BY <2>3, <2>7, WordFacts DEF States
  <2>9. Shifted(t).d1 \in Bad
    BY <2>5, <2>7, <2>8
  <2> QED
    BY <2>4, <2>5, <2>7, <2>8, <2>9
<1>7. entry \in States /\ Product(entry) = (0 + y * x) % Modulus
  BY <1>0 DEF States, Product
<1>8. 0 + y * x = x * y
  BY <1>0
<1> QED
  BY <1>1, <1>6, <1>7, <1>8

-----------------------------------------------------------------------------
(* Characters.                                                             *)

Digit == {"0", "1", "2", "3", "4", "5", "6", "7", "8", "9", "A", "B", "C", "D", "E", "F"}
Lower == {"a", "b", "c", "d", "e", "f"}
Char  == Digit \cup {"-", "$", " ", "TAB"}

LEMMA CharsAre ==
  /\ DigitChars[1] = "0" /\ DigitChars[2] = "1" /\ DigitChars[3] = "2" /\ DigitChars[4] = "3"
  /\ DigitChars[5] = "4" /\ DigitChars[6] = "5" /\ DigitChars[7] = "6" /\ DigitChars[8] = "7"
  /\ DigitChars[9] = "8" /\ DigitChars[10] = "9" /\ DigitChars[11] = "A" /\ DigitChars[12] = "B"
  /\ DigitChars[13] = "C" /\ DigitChars[14] = "D" /\ DigitChars[15] = "E" /\ DigitChars[16] = "F"
  /\ LowerChars[1] = "a" /\ LowerChars[2] = "b" /\ LowerChars[3] = "c" /\ LowerChars[4] = "d"
  /\ LowerChars[5] = "e" /\ LowerChars[6] = "f"
  BY DEF DigitChars, LowerChars

LEMMA CharsDiffer ==
  ASSUME NEW i \in 0 .. 15, NEW j \in 0 .. 15, DigitChars[i + 1] = DigitChars[j + 1]
  PROVE  i = j
  BY CharsAre

LEMMA ZeroDigit == DigitChars[0 + 1] = "0"
  BY CharsAre

LEMMA OtherDigit ==
  ASSUME NEW r \in 0 .. 15, r # 0
  PROVE  DigitChars[r + 1] # "0"
  BY ZeroDigit, CharsDiffer

LEMMA DigitsAre == \A i \in 0 .. 15 : DigitChars[i + 1] \in Digit
  BY CharsAre DEF Digit

LEMMA LowerAre == \A i \in 10 .. 15 : LowerChars[i - 9] \in Lower
  BY CharsAre DEF Lower

LEMMA KindsApart ==
  /\ Digit \cap Lower = {}
  /\ \A c \in {"-", "$", "%", " ", "TAB", "NUL"} : c \notin Digit /\ c \notin Lower
<1>1. Digit \cap Lower = {}
  BY Zenon DEF Digit, Lower
<1>2. /\ "-" \notin Digit /\ "$" \notin Digit /\ "%" \notin Digit
      /\ " " \notin Digit /\ "TAB" \notin Digit /\ "NUL" \notin Digit
  BY Zenon DEF Digit
<1>3. /\ "-" \notin Lower /\ "$" \notin Lower /\ "%" \notin Lower
      /\ " " \notin Lower /\ "TAB" \notin Lower /\ "NUL" \notin Lower
  BY Zenon DEF Lower
<1> QED
  BY <1>1, <1>2, <1>3, Zenon

DigitValues(c, base) ==
  {i \in 0 .. base - 1 : DigitChars[i + 1] = c \/ (i >= 10 /\ LowerChars[i - 9] = c)}

LEMMA DigitOfDigit ==
  ASSUME NEW base \in {10, 16}, NEW r \in 0 .. base - 1
  PROVE  DigitOf(DigitChars[r + 1], base) = r
<1>1. r \in 0 .. 15 /\ \A i \in 0 .. base - 1 : i \in 0 .. 15 /\ (i >= 10 => i \in 10 .. 15)
  OBVIOUS
<1>2. PICK c : c = DigitChars[r + 1]
  OBVIOUS
<1>3. ASSUME NEW i \in 0 .. base - 1, i >= 10 PROVE LowerChars[i - 9] # c
  <2>1. LowerChars[i - 9] \in Lower /\ c \in Digit
    BY <1>1, <1>2, <1>3, DigitsAre, LowerAre
  <2> QED
    BY <2>1, KindsApart
<1>4. ASSUME NEW i \in 0 .. base - 1, DigitChars[i + 1] = c PROVE i = r
  BY <1>1, <1>2, <1>4, CharsDiffer
<1>5. DigitValues(c, base) = {r}
  BY <1>2, <1>3, <1>4 DEF DigitValues
<1>6. DigitOf(c, base) = IF DigitValues(c, base) = {} THEN -1 ELSE CHOOSE i \in DigitValues(c, base) : TRUE
  BY DEF DigitOf, DigitValues
<1> QED
  BY <1>2, <1>5, <1>6

\* A character that is no digit ends a number.
LEMMA DigitOfOther ==
  ASSUME NEW base \in {10, 16}, NEW c, c \notin Digit, c \notin Lower
  PROVE  DigitOf(c, base) < 0
<1>1. \A i \in 0 .. base - 1 : i \in 0 .. 15 /\ (i >= 10 => i \in 10 .. 15)
  OBVIOUS
<1>2. DigitValues(c, base) = {}
  BY <1>1, DigitsAre, LowerAre DEF DigitValues
<1>3. DigitOf(c, base) = -1
  BY <1>2 DEF DigitOf, DigitValues
<1> QED
  BY <1>3

LEMMA DigitOfRange ==
  ASSUME NEW base \in {10, 16}, NEW c
  PROVE  DigitOf(c, base) \in -1 .. base - 1
<1>1. DigitValues(c, base) \subseteq 0 .. base - 1
  BY DEF DigitValues
<1>2. DigitOf(c, base) = IF DigitValues(c, base) = {} THEN -1 ELSE CHOOSE i \in DigitValues(c, base) : TRUE
  BY DEF DigitOf, DigitValues
<1>3. CASE DigitValues(c, base) = {}
  BY <1>2, <1>3
<1>4. CASE DigitValues(c, base) # {}
  <2>1. DigitOf(c, base) \in DigitValues(c, base)
    BY <1>2, <1>4
  <2> QED
    BY <1>1, <2>1
<1> QED
  BY <1>3, <1>4

-----------------------------------------------------------------------------
(* Numerals.                                                               *)

Makes(v, q, base, r) == v = q * base + r

\* The functions of __itoa and __htoa: a word's digits are those of its quotient by the
\* base and the digit of the remainder.
Numeral(ds, base) ==
  /\ ds \in [Word -> Seq(Digit)] /\ ds[0] = << >>
  /\ \A v \in Word : v # 0 =>
       \E q \in Word, r \in 0 .. base - 1 :
         q < v /\ Makes(v, q, base, r) /\ ds[v] = Append(ds[q], DigitChars[r + 1])

LEMMA WordsAre ==
  /\ Modulus \in Nat /\ Modulus - 1 \in Nat /\ Word = 0 .. Modulus - 1 /\ 0 \in Word
  /\ 10 \in Word /\ 2 \in Word /\ 16 \in Word
<1>1. Width \in Nat /\ Width > 4 /\ 5 \in 0 .. Width
  BY PowerRule
<1>2. Power[1] = 2 /\ Power[2] = 4 /\ Power[3] = 8 /\ Power[4] = 16 /\ Power[5] = 32
  BY <1>1, PowerRule
<1>3. Power[5] <= Modulus
  BY <1>1, PowerPositive
<1> QED
  BY <1>2, <1>3, WordFacts DEF Word

LEMMA BaseIsWord == 10 \in Word /\ 16 \in Word
  BY WordsAre

\* A quotient by 10 or 16 is a smaller word.
LEMMA QuotientSmaller ==
  ASSUME NEW v \in Word, NEW base \in {10, 16}, NEW q \in Nat, NEW r \in Nat, v = q * base + r, v # 0
  PROVE  q \in Word /\ q < v
  BY WordFacts

DivideBy(base, quot, rem) ==
  \A v \in Word : v # 0 =>
    quot[v] \in Nat /\ rem[v] \in 0 .. base - 1 /\ v = quot[v] * base + rem[v]

MadeOf(f, quot, rem) ==
  f = [v \in Word |-> IF v = 0 THEN << >> ELSE Append(f[quot[v]], DigitChars[rem[v] + 1])]

\* Any function that is made in that way from words' quotients and remainders.
LEMMA NumeralExists ==
  ASSUME NEW base \in {10, 16}, NEW quot, NEW rem, DivideBy(base, quot, rem)
  PROVE  \E f : MadeOf(f, quot, rem) /\ Numeral(f, base)
<1> DEFINE n == Modulus - 1
           back == [v \in 1 .. n |-> quot[v]]
           make == [v \in 1 .. n |-> [t \in Seq(Digit) |-> Append(t, DigitChars[rem[v] + 1])]]
<1>0. n \in Nat /\ Word = 0 .. n
  BY WordsAre
<1>1. ASSUME NEW v \in 1 .. n
      PROVE  /\ v \in Word /\ v # 0 /\ quot[v] \in Word /\ quot[v] < v /\ quot[v] \in Nat
             /\ rem[v] \in 0 .. base - 1 /\ v = quot[v] * base + rem[v]
             /\ DigitChars[rem[v] + 1] \in Digit
  <2>1. v \in Word /\ v # 0
    BY <1>0
  <2>2. quot[v] \in Nat /\ rem[v] \in 0 .. base - 1 /\ v = quot[v] * base + rem[v]
    BY <2>1 DEF DivideBy
  <2>3. rem[v] \in Nat /\ rem[v] \in 0 .. 15
    BY <2>2
  <2>4. quot[v] \in Word /\ quot[v] < v
    BY <2>1, <2>2, <2>3, QuotientSmaller
  <2> QED
    BY <2>1, <2>2, <2>3, <2>4, DigitsAre
<1> HIDE DEF n
<1>2. back \in [1 .. n -> Nat] /\ \A v \in 1 .. n : back[v] = quot[v] /\ back[v] < v
  BY <1>1
<1>3. /\ make \in [1 .. n -> [Seq(Digit) -> Seq(Digit)]]
      /\ \A v \in 1 .. n, t \in Seq(Digit) : make[v][t] = Append(t, DigitChars[rem[v] + 1])
  <2>1. \A v \in 1 .. n, t \in Seq(Digit) : Append(t, DigitChars[rem[v] + 1]) \in Seq(Digit)
    BY <1>1
  <2> QED
    BY <2>1
<1> HIDE DEF back, make
<1>4. << >> \in Seq(Digit)
  OBVIOUS
<1>5. PICK f : Solves(f, n, Seq(Digit), << >>, back, make)
  BY <1>0, <1>2, <1>3, <1>4, Recursion
<1>6. /\ f \in [0 .. n -> Seq(Digit)] /\ f[0] = << >>
      /\ \A v \in 1 .. n : f[v] = make[v][f[back[v]]]
  BY <1>5 DEF Solves
<1>7. ASSUME NEW v \in 1 .. n PROVE f[v] = Append(f[quot[v]], DigitChars[rem[v] + 1])
  <2>1. f[quot[v]] \in Seq(Digit)
    BY <1>0, <1>1, <1>6
  <2>2. f[v] = make[v][f[quot[v]]]
    BY <1>2, <1>6
  <2> QED
    BY <1>3, <2>1, <2>2
<1>8. ASSUME NEW v \in Word, v # 0 PROVE v \in 1 .. n
  BY <1>0, <1>8
<1>9. MadeOf(f, quot, rem)
  <2>1. \A v \in Word : f[v] = IF v = 0 THEN << >> ELSE Append(f[quot[v]], DigitChars[rem[v] + 1])
    BY <1>6, <1>7, <1>8
  <2> QED
    BY <1>0, <1>6, <2>1 DEF MadeOf
<1>10. Numeral(f, base)
  <2>1. f \in [Word -> Seq(Digit)] /\ f[0] = << >>
    BY <1>0, <1>6
  <2>2. ASSUME NEW v \in Word, v # 0
        PROVE  \E q \in Word, r \in 0 .. base - 1 :
                 q < v /\ Makes(v, q, base, r) /\ f[v] = Append(f[q], DigitChars[r + 1])
    BY <1>1, <1>7, <1>8, <2>2 DEF Makes
  <2> QED
    BY <2>1, <2>2 DEF Numeral
<1> QED
  BY <1>9, <1>10

\* What a function is by such an equation, it is by the digits.
LEMMA NumeralOf ==
  ASSUME NEW base \in {10, 16}, NEW quot, NEW rem, NEW f,
         DivideBy(base, quot, rem), MadeOf(f, quot, rem)
  PROVE  Numeral(f, base)
<1>1. PICK g : MadeOf(g, quot, rem) /\ Numeral(g, base)
  BY NumeralExists
<1>2. /\ DOMAIN f = Word /\ DOMAIN g = Word
      /\ \A v \in Word : f[v] = IF v = 0 THEN << >> ELSE Append(f[quot[v]], DigitChars[rem[v] + 1])
      /\ \A v \in Word : g[v] = IF v = 0 THEN << >> ELSE Append(g[quot[v]], DigitChars[rem[v] + 1])
  BY <1>1 DEF MadeOf
<1> DEFINE Bad == {v \in Word : f[v] # g[v]}
<1>3. Bad = {}
  <2>1. SUFFICES ASSUME Bad # {} PROVE FALSE
    OBVIOUS
  <2>2. Bad \in SUBSET Nat
    BY WordFacts
  <2>3. PICK v \in Bad : \A j \in Bad : v <= j
    BY <2>1, <2>2, LeastOf
  <2>4. v \in Word /\ f[v] # g[v] /\ v \in Nat
    BY <2>2, <2>3
  <2>5. v # 0
    BY <1>2, <2>4
  <2>6. quot[v] \in Nat /\ rem[v] \in Nat /\ v = quot[v] * base + rem[v]
    BY <2>4, <2>5 DEF DivideBy
  <2>7. quot[v] \in Word /\ quot[v] < v
    BY <2>4, <2>5, <2>6, QuotientSmaller
  <2>8. ~ (v <= quot[v])
    BY <2>4, <2>6, <2>7
  <2>9. f[quot[v]] = g[quot[v]]
    BY <2>3, <2>7, <2>8
  <2>10. /\ f[v] = Append(f[quot[v]], DigitChars[rem[v] + 1])
         /\ g[v] = Append(g[quot[v]], DigitChars[rem[v] + 1])
    BY <1>2, <2>4, <2>5
  <2> QED
    BY <2>4, <2>9, <2>10
<1>4. f = g
  <2>1. \A v \in Word : f[v] = g[v]
    BY <1>3
  <2>2. f = [v \in Word |-> f[v]] /\ g = [v \in Word |-> g[v]]
    BY <1>1 DEF MadeOf
  <2> QED
    BY <2>1, <2>2
<1> QED
  BY <1>1, <1>4

LEMMA DecIsNumeral == \E ds : Numeral(ds, 10) /\ \A x : DecDigits(x) = ds[x]
<1> DEFINE Eq(f) == f = [v \in Word |->
                           IF v = 0 THEN << >>
                           ELSE Append(f[UDivMod(v, 10).q], DigitChars[UDivMod(v, 10).r + 1])]
           ds == CHOOSE f : Eq(f)
           quot == [v \in Word |-> UDivMod(v, 10).q]
           rem == [v \in Word |-> UDivMod(v, 10).r]
<1>1. \A x : DecDigits(x) = ds[x]
  BY DEF DecDigits
<1>2. DivideBy(10, quot, rem)
  <2>1. ASSUME NEW v \in Word
        PROVE  quot[v] \in Nat /\ rem[v] \in 0 .. 10 - 1 /\ v = quot[v] * 10 + rem[v]
    <3>1. PICK q, r \in Nat : UDivMod(v, 10).q = q /\ UDivMod(v, 10).r = r /\ v = q * 10 + r /\ r < 10
      BY WordsAre, UDivModDivides
    <3> QED
      BY <3>1
  <2> QED
    BY <2>1 DEF DivideBy
<1>3. \A f : Eq(f) <=> MadeOf(f, quot, rem)
  BY DEF MadeOf
<1>4. \E f : Eq(f)
  BY <1>2, <1>3, NumeralExists
<1> HIDE DEF Eq, quot, rem
<1>5. Eq(ds)
  BY <1>4
<1>6. Numeral(ds, 10)
  BY <1>2, <1>3, <1>5, NumeralOf
<1> QED
  BY <1>1, <1>6

LEMMA HexIsNumeral == \E ds : Numeral(ds, 16) /\ \A x : HexDigits(x) = ds[x]
<1> DEFINE Eq(f) == f = [v \in Word |->
                           IF v = 0 THEN << >> ELSE Append(f[v \div 16], DigitChars[(v % 16) + 1])]
           ds == CHOOSE f : Eq(f)
           quot == [v \in Word |-> v \div 16]
           rem == [v \in Word |-> v % 16]
<1>1. \A x : HexDigits(x) = ds[x]
  BY DEF HexDigits
<1>2. DivideBy(16, quot, rem)
  <2>1. ASSUME NEW v \in Word
        PROVE  quot[v] \in Nat /\ rem[v] \in 0 .. 16 - 1 /\ v = quot[v] * 16 + rem[v]
    <3>1. v \in Nat
      BY WordFacts
    <3>2. v \div 16 \in Nat /\ v % 16 \in 0 .. 15 /\ v = (v \div 16) * 16 + (v % 16)
      BY <3>1
    <3> QED
      BY <3>2
  <2> QED
    BY <2>1 DEF DivideBy
<1>3. \A f : Eq(f) <=> MadeOf(f, quot, rem)
  BY DEF MadeOf
<1>4. \E f : Eq(f)
  BY <1>2, <1>3, NumeralExists
<1> HIDE DEF Eq, quot, rem
<1>5. Eq(ds)
  BY <1>4
<1>6. Numeral(ds, 16)
  BY <1>2, <1>3, <1>5, NumeralOf
<1> QED
  BY <1>1, <1>6

\* No digits for 0, and no leading zero for anything else.
LEMMA NoLeadingZero ==
  ASSUME NEW base \in {10, 16}, NEW ds, Numeral(ds, base), NEW v \in Word
  PROVE  /\ ds[v] \in Seq(Digit) /\ Len(ds[v]) \in Nat
         /\ (v = 0 <=> Len(ds[v]) = 0)
         /\ v # 0 => ds[v][1] # "0"
<1>0. /\ \A w \in Word : ds[w] \in Seq(Digit)
      /\ ds[0] = << >>
      /\ \A w \in Word : w # 0 =>
           \E q \in Word, r \in 0 .. base - 1 :
             q < w /\ Makes(w, q, base, r) /\ ds[w] = Append(ds[q], DigitChars[r + 1])
  BY DEF Numeral
<1> DEFINE Good(w) == w # 0 => Len(ds[w]) > 0 /\ ds[w][1] # "0"
           Bad == {w \in Word : ~ Good(w)}
<1>1. Good(v)
  <2>1. SUFFICES ASSUME Bad # {} PROVE FALSE
    OBVIOUS
  <2>2. Bad \in SUBSET Nat
    BY WordFacts
  <2>3. PICK w \in Bad : \A j \in Bad : w <= j
    BY <2>1, <2>2, LeastOf
  <2>4. w \in Word /\ w \in Nat /\ w # 0 /\ ~ Good(w)
    BY <2>2, <2>3
  <2>5. PICK q \in Word, r \in 0 .. base - 1 :
          q < w /\ Makes(w, q, base, r) /\ ds[w] = Append(ds[q], DigitChars[r + 1])
    BY <1>0, <2>4
  <2>6. q \in Nat /\ r \in 0 .. 15 /\ ds[q] \in Seq(Digit) /\ DigitChars[r + 1] \in Digit
    <3>1. r \in 0 .. 15
      OBVIOUS
    <3>2. q \in Nat
      BY WordFacts
    <3> QED
      BY <1>0, <3>1, <3>2, DigitsAre
  <2>7. CASE q = 0
    <3>1. r # 0
      BY <2>4, <2>5, <2>7 DEF Makes
    <3>2. DigitChars[r + 1] # "0"
      BY <2>6, <3>1, OtherDigit
    <3>3. ds[q] = << >> /\ ds[w] = Append(ds[q], DigitChars[r + 1])
      BY <1>0, <2>5, <2>7
    <3>4. Len(ds[w]) > 0 /\ ds[w][1] = DigitChars[r + 1]
      BY <3>3
    <3> QED
      BY <2>4, <3>2, <3>4
  <2>8. CASE q # 0
    <3>1. Good(q)
      BY <2>3, <2>4, <2>5, <2>6
    <3>2. Len(ds[q]) > 0 /\ ds[q][1] # "0"
      BY <2>8, <3>1
    <3>3. Len(ds[w]) > 0 /\ ds[w][1] = ds[q][1]
      BY <2>5, <2>6, <3>2
    <3> QED
      BY <2>4, <3>2, <3>3
  <2> QED
    BY <2>7, <2>8
<1> QED
  BY <1>0, <1>1

-----------------------------------------------------------------------------
(* What the routines write: a sign, zeros, and a numeral.                  *)

\* From position at on there are k zeros and the characters of d.
Spells(t, at, k, d) ==
  /\ \A i \in 0 .. k - 1 : t[at + i] = "0"
  /\ \A i \in 1 .. Len(d) : t[at + k + i - 1] = d[i]

\* t is the sign and k zeros and d.
Shape(t, sign, k, d) ==
  /\ t \in Seq(Char) /\ k \in Nat
  /\ Len(t) = sign + k + Len(d)
  /\ Spells(t, sign + 1, k, d)

Joined(st, s, t) ==
  /\ st \in Seq(Char) /\ Len(st) = Len(s) + Len(t) /\ Len(s) \in Nat /\ Len(t) \in Nat
  /\ \A i \in 1 .. Len(s) : st[i] = s[i]
  /\ \A i \in 1 .. Len(t) : st[Len(s) + i] = t[i]

LEMMA JoinFacts ==
  ASSUME NEW s \in Seq(Char), NEW t \in Seq(Char)
  PROVE  Joined(s \o t, s, t)
<1>1. /\ s \o t \in Seq(Char) /\ Len(s \o t) = Len(s) + Len(t)
      /\ \A i \in 1 .. Len(s) + Len(t) :
           (s \o t)[i] = IF i <= Len(s) THEN s[i] ELSE t[i - Len(s)]
  BY ConcatProperties
<1>2. Len(s) \in Nat /\ Len(t) \in Nat
  OBVIOUS
<1>3. ASSUME NEW i \in 1 .. Len(s) PROVE (s \o t)[i] = s[i]
  BY <1>1, <1>2
<1>4. ASSUME NEW i \in 1 .. Len(t) PROVE (s \o t)[Len(s) + i] = t[i]
  <2>1. Len(s) + i \in 1 .. Len(s) + Len(t) /\ ~ (Len(s) + i <= Len(s)) /\ Len(s) + i - Len(s) = i
    BY <1>2
  <2> QED
    BY <1>1, <2>1
<1> QED
  BY <1>1, <1>2, <1>3, <1>4 DEF Joined

LEMMA DigitsAreChars == ASSUME NEW d \in Seq(Digit) PROVE d \in Seq(Char) /\ Len(d) \in Nat
<1>1. Digit \subseteq Char
  BY DEF Char
<1> QED
  BY <1>1, SeqMonotonic

LEMMA OneChar == ASSUME NEW c \in Char PROVE <<c>> \in Seq(Char) /\ Len(<<c>>) = 1 /\ <<c>>[1] = c
  OBVIOUS

LEMMA ZeroChar == "0" \in Char
  BY DEF Char, Digit

LEMMA PadFacts ==
  ASSUME NEW width \in Nat, NEW count \in Nat
  PROVE  /\ Pad(width, count, "0") \in Seq(Char)
         /\ Len(Pad(width, count, "0")) = IF width > count THEN width - count ELSE 0
         /\ \A i \in 1 .. Len(Pad(width, count, "0")) : Pad(width, count, "0")[i] = "0"
<1>0. "0" \in Char
  BY ZeroChar
<1>1. PICK n \in Nat : n = IF width > count THEN width - count ELSE 0
  <2>1. (IF width > count THEN width - count ELSE 0) \in Nat
    OBVIOUS
  <2> QED
    BY <2>1
<1>2. 1 .. (width - count) = 1 .. n
  BY <1>1
<1>3. Pad(width, count, "0") = [i \in 1 .. n |-> "0"]
  BY <1>2 DEF Pad
<1>4. [i \in 1 .. n |-> "0"] \in Seq(Char) /\ Len([i \in 1 .. n |-> "0"]) = n
  BY <1>0
<1> QED
  BY <1>1, <1>3, <1>4

\* The padding in front of what a routine writes for v.
LEMMA PaddedShape ==
  ASSUME NEW d \in Seq(Digit), NEW pad \in Seq(Char), \A i \in 1 .. Len(pad) : pad[i] = "0"
  PROVE  /\ Shape(pad \o d, 0, Len(pad), d)
         /\ Shape(pad \o <<"0">>, 0, Len(pad) + 1, << >>)
<1>0. d \in Seq(Char) /\ <<"0">> \in Seq(Char) /\ Len(pad) \in Nat /\ Len(d) \in Nat
  BY DigitsAreChars, ZeroChar, OneChar
<1>1. Shape(pad \o d, 0, Len(pad), d)
  <2>1. /\ pad \o d \in Seq(Char) /\ Len(pad \o d) = Len(pad) + Len(d)
        /\ \A i \in 1 .. Len(pad) : (pad \o d)[i] = pad[i]
        /\ \A i \in 1 .. Len(d) : (pad \o d)[Len(pad) + i] = d[i]
    BY <1>0, JoinFacts DEF Joined
  <2>2. ASSUME NEW i \in 0 .. Len(pad) - 1 PROVE (pad \o d)[0 + 1 + i] = "0"
    <3>1. 0 + 1 + i \in 1 .. Len(pad)
      BY <1>0
    <3> QED
      BY <2>1, <3>1
  <2>3. ASSUME NEW i \in 1 .. Len(d) PROVE (pad \o d)[0 + 1 + Len(pad) + i - 1] = d[i]
    <3>1. 0 + 1 + Len(pad) + i - 1 = Len(pad) + i
      BY <1>0
    <3> QED
      BY <2>1, <3>1
  <2> QED
    BY <1>0, <2>1, <2>2, <2>3 DEF Shape, Spells
<1>2. Shape(pad \o <<"0">>, 0, Len(pad) + 1, << >>)
  <2>1. /\ pad \o <<"0">> \in Seq(Char) /\ Len(pad \o <<"0">>) = Len(pad) + 1
        /\ \A i \in 1 .. Len(pad) : (pad \o <<"0">>)[i] = pad[i]
        /\ (pad \o <<"0">>)[Len(pad) + 1] = "0"
    <3>1. Joined(pad \o <<"0">>, pad, <<"0">>) /\ Len(<<"0">>) = 1 /\ <<"0">>[1] = "0"
      BY <1>0, JoinFacts, OneChar, ZeroChar
    <3> QED
      BY <3>1 DEF Joined
  <2>2. ASSUME NEW i \in 0 .. Len(pad) + 1 - 1 PROVE (pad \o <<"0">>)[0 + 1 + i] = "0"
    <3>1. 0 + 1 + i = i + 1
      OBVIOUS
    <3>2. CASE i = Len(pad)
      BY <2>1, <3>1, <3>2
    <3>3. CASE i # Len(pad)
      <4>1. i + 1 \in 1 .. Len(pad)
        BY <1>0, <3>3
      <4> QED
        BY <2>1, <3>1, <4>1
    <3> QED
      BY <3>2, <3>3
  <2>3. Len(<< >>) = 0 /\ Len(pad) + 1 \in Nat /\ Len(pad) + 1 = 0 + (Len(pad) + 1) + 0
    BY <1>0
  <2> QED
    BY <2>1, <2>2, <2>3 DEF Shape, Spells
<1> QED
  BY <1>1, <1>2

\* A sign in front.
LEMMA SignedShape ==
  ASSUME NEW t, NEW k, NEW d \in Seq(Digit), Shape(t, 0, k, d), NEW c \in Char
  PROVE  Shape(<<c>> \o t, 1, k, d) /\ (<<c>> \o t)[1] = c
<1>1. t \in Seq(Char) /\ k \in Nat /\ Len(d) \in Nat /\ Len(t) = 0 + k + Len(d) /\ Spells(t, 0 + 1, k, d)
  BY DEF Shape
<1>2. /\ <<c>> \o t \in Seq(Char) /\ Len(<<c>> \o t) = 1 + Len(t)
      /\ (<<c>> \o t)[1] = c
      /\ \A i \in 1 .. Len(t) : (<<c>> \o t)[1 + i] = t[i]
  <2>1. <<c>> \in Seq(Char) /\ Len(<<c>>) = 1 /\ <<c>>[1] = c
    BY OneChar
  <2>2. Joined(<<c>> \o t, <<c>>, t)
    BY <1>1, <2>1, JoinFacts
  <2>3. (<<c>> \o t)[1] = c
    BY <2>1, <2>2 DEF Joined
  <2> QED
    BY <2>1, <2>2, <2>3 DEF Joined
<1>3. ASSUME NEW i \in 0 .. k - 1 PROVE (<<c>> \o t)[1 + 1 + i] = "0"
  <2>1. 1 + i \in 1 .. Len(t) /\ 1 + 1 + i = 1 + (1 + i) /\ 0 + 1 + i = 1 + i
    BY <1>1
  <2>2. t[0 + 1 + i] = "0"
    BY <1>1 DEF Spells
  <2> QED
    BY <1>2, <2>1, <2>2
<1>4. ASSUME NEW i \in 1 .. Len(d) PROVE (<<c>> \o t)[1 + 1 + k + i - 1] = d[i]
  <2>1. k + i \in 1 .. Len(t) /\ 1 + 1 + k + i - 1 = 1 + (k + i) /\ 0 + 1 + k + i - 1 = k + i
    BY <1>1
  <2>2. t[0 + 1 + k + i - 1] = d[i]
    BY <1>1 DEF Spells
  <2> QED
    BY <1>2, <2>1, <2>2
<1>5. Len(<<c>> \o t) = 1 + k + Len(d)
  BY <1>1, <1>2
<1> QED
  BY <1>1, <1>2, <1>3, <1>4, <1>5 DEF Shape, Spells

Count(ds, v) == IF v = 0 THEN 1 ELSE Len(ds[v])

\* Padding, and the digit that 0 is written with.
Zeros(ds, v, width) ==
  (IF width > Count(ds, v) THEN width - Count(ds, v) ELSE 0) + (IF v = 0 THEN 1 ELSE 0)

LEMMA FieldShape ==
  ASSUME NEW base \in {10, 16}, NEW ds, Numeral(ds, base), NEW v \in Word, NEW width \in Nat,
         NEW d, d = IF v = 0 THEN <<"0">> ELSE ds[v]
  PROVE  /\ d \in Seq(Char) /\ Pad(width, Count(ds, v), "0") \in Seq(Char)
         /\ Digits(ds[v]) = Count(ds, v) /\ Len(d) = Count(ds, v)
         /\ Shape(Pad(width, Count(ds, v), "0") \o d, 0, Zeros(ds, v, width), ds[v])
<1>0. /\ ds[v] \in Seq(Digit) /\ Len(ds[v]) \in Nat /\ (v = 0 <=> Len(ds[v]) = 0)
      /\ ds[v] \in Seq(Char) /\ <<"0">> \in Seq(Char) /\ Len(<<"0">>) = 1
  BY NoLeadingZero, DigitsAreChars, ZeroChar, OneChar
<1>1. Count(ds, v) \in Nat
  BY <1>0 DEF Count
<1>2. PICK pad : pad = Pad(width, Count(ds, v), "0")
  OBVIOUS
<1>3. /\ pad \in Seq(Char) /\ \A i \in 1 .. Len(pad) : pad[i] = "0"
      /\ Len(pad) = IF width > Count(ds, v) THEN width - Count(ds, v) ELSE 0
  BY <1>1, <1>2, PadFacts
<1>4. /\ Shape(pad \o ds[v], 0, Len(pad), ds[v])
      /\ Shape(pad \o <<"0">>, 0, Len(pad) + 1, << >>)
  BY <1>0, <1>3, PaddedShape
<1>5. Digits(ds[v]) = Count(ds, v) /\ Len(d) = Count(ds, v)
  BY <1>0 DEF Digits, Count
<1>6. CASE v = 0
  <2>1. Zeros(ds, v, width) = Len(pad) + 1
    BY <1>3, <1>6 DEF Zeros
  <2>2. ds[v] = << >>
    BY <1>6 DEF Numeral
  <2> QED
    BY <1>0, <1>2, <1>3, <1>4, <1>5, <1>6, <2>1, <2>2
<1>7. CASE v # 0
  <2>1. Zeros(ds, v, width) = Len(pad)
    <3>1. Len(pad) \in Nat
      BY <1>3
    <3> QED
      BY <1>3, <1>7, <3>1 DEF Zeros
  <2> QED
    BY <1>0, <1>2, <1>3, <1>4, <1>5, <1>7, <2>1
<1> QED
  BY <1>6, <1>7

\* What a format code prints of a word: with or without its sign.
Base(code) == IF code = "h" THEN 16 ELSE 10
Printed(code, x) == IF code = "d" THEN Magnitude(x) ELSE x
SignLen(code, x) == IF code = "h" \/ (code = "d" /\ IsNeg(x)) THEN 1 ELSE 0

TextIs(t, code, x, width, ds) ==
  /\ Numeral(ds, Base(code))
  /\ Printed(code, x) \in Word
  /\ Shape(t, SignLen(code, x), Zeros(ds, Printed(code, x), width), ds[Printed(code, x)])
  /\ SignLen(code, x) = 1 => t[1] = IF code = "h" THEN "$" ELSE "-"

LEMMA HexText ==
  ASSUME NEW x \in Word, NEW width \in Nat
  PROVE  \E ds : TextIs(Text("h", x, width), "h", x, width, ds)
<1>1. PICK ds : Numeral(ds, 16) /\ HexDigits(x) = ds[x]
  BY HexIsNumeral
<1>2. PICK d : d = IF x = 0 THEN <<"0">> ELSE ds[x]
  OBVIOUS
<1>3. /\ Digits(ds[x]) = Count(ds, x)
      /\ Shape(Pad(width, Count(ds, x), "0") \o d, 0, Zeros(ds, x, width), ds[x])
  BY <1>1, <1>2, FieldShape
<1>4. FormatHex(x, width) = Pad(width, Count(ds, x), "0") \o d
  BY <1>1, <1>2, <1>3 DEF FormatHex, Htoa
<1>5. "$" \in Char /\ ds[x] \in Seq(Digit)
  BY <1>1, NoLeadingZero DEF Char
<1>6. /\ Shape(<<"$">> \o FormatHex(x, width), 1, Zeros(ds, x, width), ds[x])
      /\ (<<"$">> \o FormatHex(x, width))[1] = "$"
  BY <1>3, <1>4, <1>5, SignedShape
<1>7. Text("h", x, width) = <<"$">> \o FormatHex(x, width)
  BY DEF Text
<1>8. Base("h") = 16 /\ Printed("h", x) = x /\ SignLen("h", x) = 1
  BY DEF Base, Printed, SignLen
<1> QED
  BY <1>1, <1>6, <1>7, <1>8 DEF TextIs

LEMMA UnsignedText ==
  ASSUME NEW x \in Word, NEW width \in Nat
  PROVE  \E ds : TextIs(Text("u", x, width), "u", x, width, ds)
<1>1. PICK ds : Numeral(ds, 10) /\ DecDigits(x) = ds[x]
  BY DecIsNumeral
<1>2. PICK d : d = IF x = 0 THEN <<"0">> ELSE ds[x]
  OBVIOUS
<1>3. /\ Len(d) = Count(ds, x)
      /\ Shape(Pad(width, Count(ds, x), "0") \o d, 0, Zeros(ds, x, width), ds[x])
  BY <1>1, <1>2, FieldShape
<1>4. Text("u", x, width) = Pad(width, Count(ds, x), "0") \o d
  BY <1>1, <1>2, <1>3 DEF Text, FormatUnsigned
<1>5. Base("u") = 10 /\ Printed("u", x) = x /\ SignLen("u", x) = 0
  BY DEF Base, Printed, SignLen
<1>6. SignLen("u", x) # 1
  BY <1>5
<1>7. TextIs(Text("u", x, width), "u", x, width, ds)
  BY <1>1, <1>3, <1>4, <1>5, <1>6, Zenon DEF TextIs
<1> QED
  BY <1>7

LEMMA DecText ==
  ASSUME NEW x \in Word, x # Lowest, NEW width \in Nat
  PROVE  \E ds : TextIs(Text("d", x, width), "d", x, width, ds)
<1>0. PICK v \in Word : v = Magnitude(x)
  BY SignFacts
<1>1. PICK ds : Numeral(ds, 10) /\ DecDigits(v) = ds[v]
  BY DecIsNumeral
<1>2. PICK d : d = IF v = 0 THEN <<"0">> ELSE ds[v]
  OBVIOUS
<1>3. PICK pad : pad = Pad(width, Count(ds, v), "0")
  OBVIOUS
<1>4. /\ d \in Seq(Char) /\ pad \in Seq(Char) /\ Digits(ds[v]) = Count(ds, v)
      /\ Shape(pad \o d, 0, Zeros(ds, v, width), ds[v])
  BY <1>1, <1>2, <1>3, FieldShape
<1>5. ~ IsNeg(v)
  <2>1. v <= Lowest /\ v \in Nat /\ Lowest \in Nat
    BY <1>0, SignFacts, WordFacts
  <2>2. v # Lowest
    <3>1. CASE IsNeg(x)
      <4>1. Signed(x) < 0 /\ v = 0 - Signed(x) /\ Signed(x) \in Int /\ Signed(x) # 0 - Lowest
        BY <1>0, <3>1, SignFacts
      <4> QED
        BY <2>1, <4>1
    <3>2. CASE ~ IsNeg(x)
      <4>1. v = x
        BY <1>0, <3>2 DEF Magnitude
      <4> QED
        BY <4>1
    <3> QED
      BY <3>1, <3>2
  <2> QED
    BY <2>1, <2>2 DEF IsNeg
<1>6. Itoa(v) = d
  BY <1>1, <1>2, <1>5 DEF Itoa
<1>7. (IF IsNeg(x) THEN Neg(x) ELSE x) = v
  BY <1>0 DEF Magnitude
<1>8. Text("d", x, width) = ((IF IsNeg(x) THEN <<"-">> ELSE << >>) \o pad) \o d
  BY <1>1, <1>3, <1>4, <1>6, <1>7 DEF Text, FormatDec
<1>9. Base("d") = 10 /\ Printed("d", x) = v /\ SignLen("d", x) = IF IsNeg(x) THEN 1 ELSE 0
  BY <1>0 DEF Base, Printed, SignLen
<1>10. CASE IsNeg(x)
  <2>1. "-" \in Char /\ <<"-">> \in Seq(Char) /\ ds[v] \in Seq(Digit)
    <3>1. "-" \in Char
      BY DEF Char
    <3> QED
      BY <1>1, <3>1, NoLeadingZero, OneChar
  <2>2. (<<"-">> \o pad) \o d = <<"-">> \o (pad \o d)
    BY <1>4, <2>1, ConcatAssociative
  <2>3. Text("d", x, width) = <<"-">> \o (pad \o d)
    BY <1>8, <1>10, <2>2
  <2>4. /\ Shape(<<"-">> \o (pad \o d), 1, Zeros(ds, v, width), ds[v])
        /\ (<<"-">> \o (pad \o d))[1] = "-"
    BY <1>4, <2>1, SignedShape
  <2> QED
    BY <1>1, <1>9, <1>10, <2>3, <2>4 DEF TextIs
<1>11. CASE ~ IsNeg(x)
  <2>1. << >> \o pad = pad
    BY <1>4, ConcatEmptySeq
  <2>2. Text("d", x, width) = pad \o d
    BY <1>8, <1>11, <2>1
  <2>3. SignLen("d", x) = 0 /\ SignLen("d", x) # 1
    BY <1>9, <1>11
  <2>4. TextIs(Text("d", x, width), "d", x, width, ds)
    BY <1>1, <1>4, <1>9, <2>2, <2>3, Zenon DEF TextIs
  <2> QED
    BY <2>4
<1> QED
  BY <1>10, <1>11

\* Every text that is written has this shape, but the most negative number's.
LEMMA TextShape ==
  ASSUME NEW code \in {"d", "u", "h"}, NEW x \in Word, NEW width \in Nat, ~ (code = "d" /\ x = Lowest)
  PROVE  \E ds : TextIs(Text(code, x, width), code, x, width, ds)
  BY HexText, UnsignedText, DecText

\* The field is as wide as asked for, and only wider without leading zeros.
LEMMA FieldIsExact ==
  ASSUME NEW t, NEW code \in {"d", "u", "h"}, NEW x, NEW width \in Nat, NEW ds, TextIs(t, code, x, width, ds)
  PROVE  LET sign == SignLen(code, x)
             digits == Len(t) - sign
         IN /\ digits >= width
            /\ (digits > width /\ digits > 1) => t[sign + 1] # "0"
<1>0. PICK v, sign, d, k : /\ v = Printed(code, x) /\ sign = SignLen(code, x) /\ d = ds[v]
                           /\ k = Zeros(ds, v, width)
  OBVIOUS
<1>1. v \in Word /\ Numeral(ds, Base(code)) /\ Base(code) \in {10, 16} /\ sign \in {0, 1}
  BY <1>0 DEF TextIs, Base, SignLen
<1>2. d \in Seq(Digit) /\ Len(d) \in Nat /\ (v = 0 <=> Len(d) = 0) /\ (v # 0 => d[1] # "0")
  BY <1>0, <1>1, NoLeadingZero
<1>3. k \in Nat /\ Len(t) = sign + k + Len(d) /\ Spells(t, sign + 1, k, d)
  BY <1>0 DEF TextIs, Shape
<1>4. /\ v = 0 => k = IF width > 1 THEN width ELSE 1
      /\ v # 0 => k = IF width > Len(d) THEN width - Len(d) ELSE 0
  <2>1. PICK c : c = Count(ds, v)
    OBVIOUS
  <2>2. c = IF v = 0 THEN 1 ELSE Len(d)
    BY <1>0, <2>1 DEF Count
  <2>3. k = (IF width > c THEN width - c ELSE 0) + (IF v = 0 THEN 1 ELSE 0)
    BY <1>0, <2>1 DEF Zeros
  <2>4. v = 0 => k = IF width > 1 THEN width ELSE 1
    BY <2>2, <2>3
  <2>5. v # 0 => k = IF width > Len(d) THEN width - Len(d) ELSE 0
    <3>1. ASSUME v # 0 PROVE c = Len(d) /\ k = (IF width > c THEN width - c ELSE 0) + 0
      BY <2>2, <2>3, <3>1
    <3> QED
      BY <1>2, <3>1
  <2> QED
    BY <2>4, <2>5
<1>5. Len(t) - sign = k + Len(d)
  BY <1>1, <1>2, <1>3
<1>6. k + Len(d) >= width
  BY <1>2, <1>3, <1>4
<1>7. ASSUME k + Len(d) > width, k + Len(d) > 1 PROVE t[sign + 1] # "0"
  <2>1. v # 0 /\ k = 0
    BY <1>2, <1>3, <1>4, <1>7
  <2>2. 1 \in 1 .. Len(d) /\ sign + 1 + 0 + 1 - 1 = sign + 1
    BY <1>1, <1>2, <2>1
  <2>3. t[sign + 1 + 0 + 1 - 1] = d[1]
    BY <1>3, <2>1, <2>2 DEF Spells
  <2> QED
    BY <1>2, <2>1, <2>2, <2>3
<1> QED
  BY <1>0, <1>5, <1>6, <1>7

-----------------------------------------------------------------------------
(* What __val reads.                                                       *)

Results == [next : Nat, value : Word]
Place(i, v) == [next |-> i, value |-> v]
DigitAt(s, i, base) == DigitOf(At(s, i), base)

Step(s, i, base, v) == (Mul32(v, base) + DigitAt(s, i, base)) % Modulus

\* The loop's equation.
ScanFn(f, s, first, base) ==
  \A i \in first .. Len(s) + 1, v \in Word :
    f[Place(i, v)] = IF DigitAt(s, i, base) < 0 THEN Place(i, v)
                     ELSE f[Place(i + 1, Step(s, i, base, v))]

LEMMA StepWord ==
  ASSUME NEW s, NEW i, NEW base \in {10, 16}, NEW v \in Word, ~ (DigitAt(s, i, base) < 0)
  PROVE  Step(s, i, base, v) \in Word
<1>1. DigitAt(s, i, base) \in Nat
  <2>1. DigitAt(s, i, base) \in -1 .. base - 1
    BY DigitOfRange DEF DigitAt
  <2> QED
    BY <2>1
<1>2. base \in Word
  BY BaseIsWord
<1>3. Mul32(v, base) \in Nat
  <2>1. Mul32(v, base) = (v * base) % Modulus
    BY <1>2, Mul32Is
  <2>2. PICK p \in Nat : p = v * base
    BY WordFacts
  <2> QED
    BY <2>1, <2>2, WordFacts
<1>4. PICK n \in Nat : n = Mul32(v, base) + DigitAt(s, i, base)
  BY <1>1, <1>3
<1>5. n % Modulus \in 0 .. Modulus - 1
  BY WordFacts
<1> QED
  BY <1>4, <1>5, WordsAre DEF Step

ScanEq(f, s, first, base) ==
  f = [r \in [next : first .. Len(s) + 1, value : Word] |->
         IF DigitAt(s, r.next, base) < 0 THEN r
         ELSE f[Place(r.next + 1, Step(s, r.next, base, r.value))]]

LEMMA ScanExists ==
  ASSUME NEW s \in Seq(Char), NEW base \in {10, 16}, NEW first \in 1 .. Len(s) + 1
  PROVE  \E f : ScanEq(f, s, first, base)
<1> DEFINE last == Len(s) + 1
           n == last - first
           T == [Word -> Results]
           start == [v \in Word |-> Place(last, v)]
           back == [k \in 1 .. n |-> k - 1]
           turn(k) == [g \in T |-> [v \in Word |->
                         IF DigitAt(s, last - k, base) < 0 THEN Place(last - k, v)
                         ELSE g[Step(s, last - k, base, v)]]]
           make == [k \in 1 .. n |-> turn(k)]
<1>0. n \in Nat /\ last \in Nat /\ first \in Nat /\ first > 0
  OBVIOUS
<1>1. DigitAt(s, last, base) < 0
  <2>1. ~ (last <= Len(s))
    OBVIOUS
  <2>2. At(s, last) = "NUL"
    BY <2>1 DEF At
  <2> QED
    BY <2>2, KindsApart, DigitOfOther DEF DigitAt
<1> HIDE DEF n, last
<1>2. start \in T
  BY <1>0 DEF Place, Results
<1>3. ASSUME NEW k \in 1 .. n, NEW g \in T, NEW v \in Word
      PROVE  /\ make[k][g][v] = IF DigitAt(s, last - k, base) < 0 THEN Place(last - k, v)
                                ELSE g[Step(s, last - k, base, v)]
             /\ make[k][g][v] \in Results
  <2>1. last - k \in Nat
    BY <1>0 DEF n
  <2>2. Place(last - k, v) \in Results
    BY <2>1 DEF Place, Results
  <2>3. ~ (DigitAt(s, last - k, base) < 0) => g[Step(s, last - k, base, v)] \in Results
    BY StepWord
  <2> QED
    BY <2>2, <2>3
<1>4. make \in [1 .. n -> [T -> T]]
  <2>1. ASSUME NEW k \in 1 .. n PROVE turn(k) \in [T -> T]
    <3>1. ASSUME NEW g \in T PROVE turn(k)[g] \in T
      BY <1>3
    <3> QED
      BY <3>1
  <2> QED
    BY <2>1
<1>5. back \in [1 .. n -> Nat] /\ \A k \in 1 .. n : back[k] = k - 1 /\ back[k] < k
  BY <1>0
<1>6. \A v \in Word : start[v] = Place(last, v)
  OBVIOUS
<1> HIDE DEF make, back, start, T
<1>7. PICK F : Solves(F, n, T, start, back, make)
  BY <1>0, <1>2, <1>4, <1>5, Recursion
<1>8. /\ F \in [0 .. n -> T] /\ F[0] = start
      /\ \A k \in 1 .. n : F[k] = make[k][F[k - 1]]
  BY <1>5, <1>7 DEF Solves
<1> DEFINE D == [next : first .. last, value : Word]
           f == [r \in D |-> F[last - r.next][r.value]]
<1>9. ASSUME NEW r \in D
      PROVE  f[r] = IF DigitAt(s, r.next, base) < 0 THEN r
                    ELSE f[Place(r.next + 1, Step(s, r.next, base, r.value))]
  <2>1. r.next \in first .. last /\ r.value \in Word /\ r = Place(r.next, r.value)
    BY DEF Place
  <2>2. PICK i, v : i = r.next /\ v = r.value
    OBVIOUS
  <2>3. i \in first .. last /\ v \in Word /\ r = Place(i, v) /\ i \in Nat
    BY <1>0, <2>1, <2>2
  <2>4. CASE i = last
    <3>1. f[r] = F[last - i][v] /\ last - i = 0
      BY <1>0, <2>2, <2>3, <2>4
    <3>2. f[r] = Place(last, v)
      BY <1>6, <1>8, <2>3, <3>1
    <3> QED
      BY <1>1, <2>2, <2>3, <2>4, <3>2
  <2>5. CASE i # last
    <3>1. last - i \in 1 .. n /\ i + 1 \in first .. last /\ last - (last - i) = i
          /\ last - i - 1 = last - (i + 1) /\ last - i - 1 \in 0 .. n
      BY <1>0, <2>3, <2>5 DEF n
    <3>2. f[r] = F[last - i][v]
      BY <2>2
    <3>3. F[last - i] = make[last - i][F[last - (i + 1)]] /\ F[last - (i + 1)] \in T
      BY <1>8, <3>1
    <3>4. f[r] = IF DigitAt(s, i, base) < 0 THEN Place(i, v)
                 ELSE F[last - (i + 1)][Step(s, i, base, v)]
      BY <1>3, <2>3, <3>1, <3>2, <3>3
    <3>5. CASE DigitAt(s, i, base) < 0
      BY <2>2, <2>3, <3>4, <3>5
    <3>6. CASE ~ (DigitAt(s, i, base) < 0)
      <4>1. Step(s, i, base, v) \in Word
        BY <2>3, <3>6, StepWord
      <4>2. PICK w \in Word : w = Step(s, i, base, v)
        BY <4>1
      <4>3. Place(i + 1, w) \in D /\ Place(i + 1, w).next = i + 1 /\ Place(i + 1, w).value = w
        BY <3>1 DEF Place
      <4>4. f[Place(i + 1, w)] = F[last - (i + 1)][w]
        BY <4>3
      <4> QED
        BY <2>2, <3>4, <3>6, <4>2, <4>4
    <3> QED
      BY <3>5, <3>6
  <2> QED
    BY <2>4, <2>5
<1>10. f = [r \in D |-> IF DigitAt(s, r.next, base) < 0 THEN r
                        ELSE f[Place(r.next + 1, Step(s, r.next, base, r.value))]]
  <2>1. f = [r \in D |-> f[r]]
    OBVIOUS
  <2> HIDE DEF f
  <2> QED
    BY <1>9, <2>1
<1> QED
  BY <1>10 DEF last, ScanEq

LEMMA ScanIs ==
  ASSUME NEW s \in Seq(Char), NEW base \in {10, 16}, NEW first \in 1 .. Len(s) + 1
  PROVE  \E f : ScanFn(f, s, first, base) /\ Scan(s, first, base) = f[Place(first, 0)]
<1> DEFINE D == [next : first .. Len(s) + 1, value : Word]
           scan == CHOOSE f : ScanEq(f, s, first, base)
<1>1. Scan(s, first, base) = scan[Place(first, 0)]
  BY DEF Scan, ScanEq, Place, Step, DigitAt
<1>2. ScanEq(scan, s, first, base)
  BY ScanExists
<1> HIDE DEF scan
<1>3. ASSUME NEW i \in first .. Len(s) + 1, NEW v \in Word
      PROVE  scan[Place(i, v)] = IF DigitAt(s, i, base) < 0 THEN Place(i, v)
                                 ELSE scan[Place(i + 1, Step(s, i, base, v))]
  <2>1. Place(i, v) \in D /\ Place(i, v).next = i /\ Place(i, v).value = v
    BY DEF Place
  <2> QED
    BY <1>2, <2>1 DEF ScanEq
<1>4. ScanFn(scan, s, first, base)
  BY <1>3 DEF ScanFn
<1> QED
  BY <1>1, <1>4

OneDigit(s, f, base, i, v, w) ==
  (\E r \in 0 .. base - 1 : s[i] = DigitChars[r + 1] /\ Makes(w, v, base, r))
    => f[Place(i, v)] = f[Place(i + 1, w)]

\* One digit.
LEMMA OneStep ==
  ASSUME NEW s, NEW f, NEW base \in {10, 16}, NEW first \in Nat, ScanFn(f, s, first, base), Len(s) \in Nat
  PROVE  \A i \in first .. Len(s), v, w \in Word : OneDigit(s, f, base, i, v, w)
<1>1. SUFFICES ASSUME NEW i \in first .. Len(s), NEW v \in Word, NEW w \in Word,
                      NEW r \in 0 .. base - 1, s[i] = DigitChars[r + 1], Makes(w, v, base, r)
               PROVE  f[Place(i, v)] = f[Place(i + 1, w)]
  BY DEF OneDigit
<1>2. i \in Nat /\ i <= Len(s)
  OBVIOUS
<1>3. f[Place(i, v)] = f[Place(i + 1, w)]
  <2>1. DigitAt(s, i, base) = r
    BY <1>1, <1>2, DigitOfDigit DEF DigitAt, At
  <2>2. Step(s, i, base, v) = w
    <3>1. base \in Word
      BY BaseIsWord
    <3>2. Mul32(v, base) = (v * base) % Modulus
      BY <3>1, Mul32Is
    <3>3. PICK p \in Nat : p = v * base
      <4>1. v \in Nat
        BY WordFacts
      <4> QED
        BY <4>1
    <3>4. w = p + r /\ w \in Nat /\ w < Modulus /\ r \in Nat /\ Modulus \in Nat
      BY <1>1, <3>3, WordFacts DEF Makes
    <3>5. (p % Modulus) = p /\ (w % Modulus) = w
      BY <3>4, ModLess
    <3> QED
      BY <2>1, <3>2, <3>3, <3>4, <3>5 DEF Step
  <2>3. i \in first .. Len(s) + 1 /\ ~ (r < 0)
    OBVIOUS
  <2>4. f[Place(i, v)] = IF DigitAt(s, i, base) < 0 THEN Place(i, v)
                         ELSE f[Place(i + 1, Step(s, i, base, v))]
    BY <2>3 DEF ScanFn
  <2> QED
    BY <2>1, <2>2, <2>3, <2>4
<1> QED
  BY <1>3

ZeroRun(s, at, k) == \A i \in 0 .. k - 1 : s[at + i] = "0"

\* Zeros in front leave the value 0.
LEMMA ZerosRead ==
  ASSUME NEW s, NEW f, NEW base \in {10, 16}, NEW first \in Nat, ScanFn(f, s, first, base),
         NEW k \in Nat, Len(s) \in Nat, first + k <= Len(s) + 1,
         ZeroRun(s, first, k)
  PROVE  f[Place(first, 0)] = f[Place(first + k, 0)]
<1> DEFINE Bad == {j \in 0 .. k : f[Place(first, 0)] # f[Place(first + j, 0)]}
<1>1. Bad = {}
  <2>1. SUFFICES ASSUME Bad # {} PROVE FALSE
    OBVIOUS
  <2>2. Bad \in SUBSET Nat
    OBVIOUS
  <2>3. PICK j \in Bad : \A m \in Bad : j <= m
    BY <2>1, <2>2, LeastOf
  <2>4. j \in 0 .. k /\ f[Place(first, 0)] # f[Place(first + j, 0)]
    BY <2>3
  <2>5. j # 0
    <3>1. first + 0 = first
      OBVIOUS
    <3> QED
      BY <2>4, <3>1
  <2>6. j - 1 \in 0 .. k - 1 /\ j - 1 \in 0 .. k /\ ~ (j <= j - 1) /\ first + (j - 1) + 1 = first + j
    BY <2>4, <2>5
  <2>7. f[Place(first, 0)] = f[Place(first + (j - 1), 0)]
    BY <2>3, <2>6
  <2>8. s[first + (j - 1)] = DigitChars[0 + 1]
    <3>1. s[first + (j - 1)] = "0"
      BY <2>6 DEF ZeroRun
    <3> QED
      BY <3>1, ZeroDigit
  <2>9. /\ first + (j - 1) \in Nat /\ first <= first + (j - 1) /\ first + (j - 1) <= Len(s)
        /\ 0 \in Word /\ 0 \in 0 .. base - 1 /\ Makes(0, 0, base, 0)
    BY <2>6, WordsAre DEF Makes
  <2>10. PICK i : i = first + (j - 1)
    OBVIOUS
  <2>11. OneDigit(s, f, base, i, 0, 0)
    <3>1. i \in first .. Len(s)
      BY <2>9, <2>10
    <3> QED
      BY <2>9, <3>1, OneStep
  <2>12. f[Place(i, 0)] = f[Place(i + 1, 0)]
    BY <2>8, <2>9, <2>10, <2>11 DEF OneDigit
  <2> QED
    BY <2>4, <2>6, <2>7, <2>10, <2>12
<1>2. k \in 0 .. k
  OBVIOUS
<1>3. k \notin Bad
  <2> HIDE DEF Bad
  <2> QED
    BY <1>1
<1> QED
  BY <1>2, <1>3

\* From position p on s has the characters of d, and something behind them.
Has(s, p, d) ==
  /\ p + Len(d) <= Len(s) + 1
  /\ \A i \in 1 .. Len(d) : s[p + i - 1] = d[i]

\* A word's numeral is read as the word.
LEMMA NumeralRead ==
  ASSUME NEW s, NEW f, NEW base \in {10, 16}, NEW first \in Nat, ScanFn(f, s, first, base),
         Len(s) \in Nat, NEW ds, Numeral(ds, base), NEW p \in Nat, first <= p,
         NEW w \in Word, Has(s, p, ds[w])
  PROVE  f[Place(p, 0)] = f[Place(p + Len(ds[w]), w)]
<1>0. /\ \A v \in Word : ds[v] \in Seq(Digit)
      /\ ds[0] = << >>
      /\ \A v \in Word : v # 0 =>
           \E q \in Word, r \in 0 .. base - 1 :
             q < v /\ Makes(v, q, base, r) /\ ds[v] = Append(ds[q], DigitChars[r + 1])
  BY DEF Numeral
<1> DEFINE Bad == {v \in Word : Has(s, p, ds[v]) /\ f[Place(p, 0)] # f[Place(p + Len(ds[v]), v)]}
<1>1. Bad = {}
  <2>1. SUFFICES ASSUME Bad # {} PROVE FALSE
    OBVIOUS
  <2>2. Bad \in SUBSET Nat
    BY WordFacts
  <2>3. PICK v \in Bad : \A m \in Bad : v <= m
    BY <2>1, <2>2, LeastOf
  <2>4. v \in Word /\ v \in Nat /\ Has(s, p, ds[v]) /\ f[Place(p, 0)] # f[Place(p + Len(ds[v]), v)]
    BY <2>2, <2>3
  <2>5. v # 0
    <3>1. Len(<< >>) = 0 /\ p + 0 = p
      OBVIOUS
    <3> QED
      BY <1>0, <2>4, <3>1
  <2>6. PICK q \in Word, r \in 0 .. base - 1 :
          q < v /\ Makes(v, q, base, r) /\ ds[v] = Append(ds[q], DigitChars[r + 1])
    BY <1>0, <2>4, <2>5
  <2>7. PICK n \in Nat : n = Len(ds[q])
    BY <1>0
  <2>8. Len(ds[v]) = n + 1 /\ ds[v][n + 1] = DigitChars[r + 1] /\ \A i \in 1 .. n : ds[v][i] = ds[q][i]
    <3>1. PICK c : c = DigitChars[r + 1]
      OBVIOUS
    <3>2. ds[q] \in Seq(Digit) /\ ds[v] = Append(ds[q], c)
      BY <1>0, <2>6, <3>1
    <3> QED
      BY <2>7, <3>1, <3>2
  <2>9. p + n + 1 <= Len(s) + 1 /\ \A i \in 1 .. n + 1 : s[p + i - 1] = ds[v][i]
    BY <2>4, <2>8 DEF Has
  <2>10. Has(s, p, ds[q])
    <3>1. ASSUME NEW i \in 1 .. n PROVE s[p + i - 1] = ds[q][i]
      <4>1. i \in 1 .. n + 1
        OBVIOUS
      <4> QED
        BY <2>8, <2>9, <4>1
    <3>2. p + n <= Len(s) + 1
      BY <2>9
    <3> QED
      BY <2>7, <3>1, <3>2 DEF Has
  <2>11. ~ (v <= q)
    <3>1. q \in Nat
      BY WordFacts
    <3> QED
      BY <2>4, <2>6, <3>1
  <2>12. f[Place(p, 0)] = f[Place(p + n, q)]
    BY <2>3, <2>7, <2>10, <2>11
  <2>13. s[p + n] = DigitChars[r + 1]
    <3>1. n + 1 \in 1 .. n + 1 /\ p + (n + 1) - 1 = p + n
      OBVIOUS
    <3> QED
      BY <2>8, <2>9, <3>1
  <2>14. p + n \in Nat /\ first <= p + n /\ p + n <= Len(s)
    BY <2>9
  <2>15. f[Place(p + n, q)] = f[Place(p + n + 1, v)]
    <3> HIDE DEF Bad
    <3>1. Makes(v, q, base, r) /\ s[p + n] = DigitChars[r + 1]
      BY <2>6, <2>13
    <3>2. v \in Word
      BY <2>4
    <3>3. PICK i \in Nat : i = p + n
      BY <2>14
    <3>4. s[i] = DigitChars[r + 1] /\ i \in first .. Len(s)
      BY <2>14, <3>1, <3>3
    <3>5. OneDigit(s, f, base, i, q, v)
      BY <3>2, <3>4, OneStep
    <3>6. f[Place(i, q)] = f[Place(i + 1, v)]
      BY <3>1, <3>4, <3>5 DEF OneDigit
    <3> QED
      BY <3>3, <3>6
  <2>16. p + n + 1 = p + Len(ds[v])
    BY <2>8
  <2> QED
    BY <2>4, <2>12, <2>15, <2>16
<1> QED
  BY <1>1

EndOf(at, k, d) == at + k + Len(d)
NoDigit(s, i, base) == DigitAt(s, i, base) < 0

\* Zeros and a numeral, and then a character that is no digit: the loop stops there
\* with the word.
LEMMA ScanReads ==
  ASSUME NEW s \in Seq(Char), NEW base \in {10, 16}, NEW first \in 1 .. Len(s) + 1,
         NEW ds, Numeral(ds, base), NEW v \in Word, NEW k \in Nat, NEW stop \in 1 .. Len(s) + 1,
         stop = EndOf(first, k, ds[v]), Spells(s, first, k, ds[v]), NoDigit(s, stop, base)
  PROVE  Scan(s, first, base) = Place(stop, v)
<1>0. Len(s) \in Nat /\ first \in Nat /\ ds[v] \in Seq(Digit)
  BY DEF Numeral
<1>1. PICK f : ScanFn(f, s, first, base) /\ Scan(s, first, base) = f[Place(first, 0)]
  BY ScanIs
<1>2. PICK d \in Seq(Digit), n \in Nat : d = ds[v] /\ n = Len(d)
  BY <1>0
<1>3. /\ stop = first + k + n
      /\ \A i \in 0 .. k - 1 : s[first + i] = "0"
      /\ \A i \in 1 .. n : s[first + k + i - 1] = d[i]
  BY <1>2 DEF Spells, EndOf
<1>4. PICK p \in Nat : p = first + k
  BY <1>0
<1>5. /\ first + k <= Len(s) + 1 /\ p + n <= Len(s) + 1 /\ stop = p + n /\ first <= p
      /\ stop \in first .. Len(s) + 1
  <2>1. PICK last \in Nat : last = Len(s) + 1
    BY <1>0
  <2>2. stop \in Nat /\ stop <= last
    BY <2>1
  <2>3. stop = p + n /\ first <= p /\ first <= stop
    BY <1>0, <1>3, <1>4, <2>2
  <2>4. p <= last /\ p + n <= last
    BY <2>2, <2>3
  <2> QED
    BY <1>4, <2>1, <2>2, <2>3, <2>4
<1>6. f[Place(first, 0)] = f[Place(p, 0)]
  <2>1. ZeroRun(s, first, k)
    BY <1>3 DEF ZeroRun
  <2>2. f[Place(first, 0)] = f[Place(first + k, 0)]
    BY <1>0, <1>1, <1>5, <2>1, ZerosRead
  <2> QED
    BY <1>4, <2>2
<1>7. Has(s, p, ds[v])
  BY <1>2, <1>3, <1>4, <1>5 DEF Has
<1>8. f[Place(p, 0)] = f[Place(stop, v)]
  <2>1. f[Place(p, 0)] = f[Place(p + Len(ds[v]), v)]
    BY <1>0, <1>1, <1>5, <1>7, NumeralRead
  <2> QED
    BY <1>2, <1>5, <2>1
<1>9. f[Place(stop, v)] = Place(stop, v)
  BY <1>1, <1>5 DEF ScanFn, NoDigit
<1> QED
  BY <1>1, <1>6, <1>8, <1>9

Blanks == {" ", "TAB"}

\* Blanks are skipped up to the first character that is none.
LEMMA SkipIs ==
  ASSUME NEW s, Len(s) \in Nat, NEW j \in 1 .. Len(s), s[j] \notin Blanks,
         \A i \in 1 .. j - 1 : s[i] \in Blanks
  PROVE  SkipBlanks(s, 1) = j
<1> DEFINE First(i) == /\ i \in 1 .. Len(s) + 1 /\ At(s, i) \notin Blanks
                       /\ \A m \in 1 .. i - 1 : s[m] \in Blanks
<1>1. First(j)
  BY DEF At
<1>2. ASSUME NEW i, First(i) PROVE i = j
  <2>1. i \in 1 .. Len(s) + 1 /\ At(s, i) \notin Blanks
    BY <1>2
  <2>2. ~ (i < j)
    <3>1. SUFFICES ASSUME i < j PROVE FALSE
      OBVIOUS
    <3>2. i \in 1 .. j - 1 /\ i <= Len(s)
      BY <2>1, <3>1
    <3> QED
      BY <2>1, <3>2 DEF At
  <2>3. ~ (i > j)
    <3>1. SUFFICES ASSUME i > j PROVE FALSE
      OBVIOUS
    <3>2. j \in 1 .. i - 1
      BY <2>1, <3>1
    <3> QED
      BY <1>2, <3>2
  <2> QED
    BY <2>1, <2>2, <2>3
<1>3. SkipBlanks(s, 1) = CHOOSE i \in 1 .. Len(s) + 1 :
                           At(s, i) \notin Blanks /\ \A m \in 1 .. i - 1 : s[m] \in Blanks
  BY DEF SkipBlanks, Blanks
<1>4. PICK c : c = SkipBlanks(s, 1)
  OBVIOUS
<1>5. First(c)
  BY <1>1, <1>3, <1>4
<1> QED
  BY <1>2, <1>4, <1>5


Ends == {"NUL", " "}
BlankFirst(tail) == tail[1] = " "

\* t stands in s behind l blanks, and what follows it is no part of a number.
Around(s, l, t) ==
  /\ s \in Seq(Char) /\ l \in Nat /\ l + Len(t) <= Len(s)
  /\ \A i \in 1 .. l : s[i] \in Blanks
  /\ \A i \in 1 .. Len(t) : s[l + i] = t[i]
  /\ At(s, l + Len(t) + 1) \in Ends

Leads == {<< >>, <<"TAB">>}
Tails == {<< >>, <<" ", "1">>}

LEMMA SurroundingsAre ==
  /\ \A lead \in Leads : /\ lead \in Seq(Char) /\ Len(lead) \in Nat
                         /\ \A i \in 1 .. Len(lead) : lead[i] \in Blanks
  /\ \A tail \in Tails : /\ tail \in Seq(Char) /\ Len(tail) \in Nat
                         /\ Len(tail) > 0 => BlankFirst(tail)
<1>1. "TAB" \in Char /\ " " \in Char /\ "1" \in Char
  BY Zenon DEF Char, Digit
<1>2. "TAB" \in Blanks
  BY Zenon DEF Blanks
<1>3. ASSUME NEW lead \in Leads
      PROVE  lead \in Seq(Char) /\ Len(lead) \in Nat /\ \A i \in 1 .. Len(lead) : lead[i] \in Blanks
  <2>1. CASE lead = << >>
    BY <2>1
  <2>2. CASE lead = <<"TAB">>
    <3>1. <<"TAB">> \in Seq(Char) /\ Len(<<"TAB">>) = 1 /\ <<"TAB">>[1] = "TAB"
      BY <1>1, OneChar
    <3>2. ASSUME NEW i \in 1 .. Len(lead) PROVE lead[i] \in Blanks
      <4>1. i = 1
        BY <2>2, <3>1
      <4> QED
        BY <1>2, <2>2, <3>1, <4>1
    <3>3. Len(lead) \in Nat /\ lead \in Seq(Char)
      BY <2>2, <3>1
    <3> QED
      BY <3>2, <3>3
  <2> QED
    BY <2>1, <2>2 DEF Leads
<1>4. ASSUME NEW tail \in Tails
      PROVE  tail \in Seq(Char) /\ Len(tail) \in Nat /\ (Len(tail) > 0 => BlankFirst(tail))
  <2>1. CASE tail = << >>
    BY <2>1
  <2>2. CASE tail = <<" ", "1">>
    <3>1. PICK b, c : b = " " /\ c = "1" /\ b \in Char /\ c \in Char /\ tail = <<b, c>>
      BY <1>1, <2>2, Zenon
    <3>2. <<b, c>> \in Seq(Char) /\ Len(<<b, c>>) = 2 /\ <<b, c>>[1] = b
      <4>1. b \in Char /\ c \in Char
        BY <3>1, Zenon
      <4> QED
        BY <4>1
    <3>3. tail = <<b, c>> /\ b = " "
      BY <3>1, Zenon
    <3>4. tail \in Seq(Char) /\ Len(tail) = 2 /\ tail[1] = b
      BY <3>2, <3>3, Zenon
    <3>5. BlankFirst(tail)
      BY <3>3, <3>4, Zenon DEF BlankFirst
    <3>6. 2 \in Nat
      OBVIOUS
    <3> QED
      BY <3>4, <3>5, <3>6, Zenon
  <2> QED
    BY <2>1, <2>2, Zenon DEF Tails
<1> QED
  BY <1>3, <1>4

LEMMA AroundIs ==
  ASSUME NEW lead \in Leads, NEW tail \in Tails, NEW t \in Seq(Char)
  PROVE  Around(lead \o t \o tail, Len(lead), t)
<1>0. /\ lead \in Seq(Char) /\ Len(lead) \in Nat /\ \A i \in 1 .. Len(lead) : lead[i] \in Blanks
      /\ tail \in Seq(Char) /\ Len(tail) \in Nat /\ (Len(tail) > 0 => BlankFirst(tail))
      /\ Len(t) \in Nat
  BY SurroundingsAre
<1>1. PICK a : a = lead \o t
  OBVIOUS
<1>2. /\ a \in Seq(Char) /\ Len(a) = Len(lead) + Len(t) /\ Len(a) \in Nat
      /\ \A i \in 1 .. Len(lead) : a[i] = lead[i]
      /\ \A i \in 1 .. Len(t) : a[Len(lead) + i] = t[i]
  <2>1. Joined(a, lead, t)
    BY <1>0, <1>1, JoinFacts
  <2>2. Len(a) \in Nat
    BY <1>0, <2>1 DEF Joined
  <2> QED
    BY <2>1, <2>2 DEF Joined
<1>3. PICK s : s = a \o tail
  OBVIOUS
<1>4. /\ s \in Seq(Char) /\ Len(s) = Len(a) + Len(tail) /\ Len(s) \in Nat
      /\ \A i \in 1 .. Len(a) : s[i] = a[i]
      /\ \A i \in 1 .. Len(tail) : s[Len(a) + i] = tail[i]
  <2>1. Joined(s, a, tail)
    BY <1>0, <1>2, <1>3, JoinFacts
  <2>2. Len(s) \in Nat
    BY <1>0, <1>2, <2>1 DEF Joined
  <2> QED
    BY <2>1, <2>2 DEF Joined
<1>5. ASSUME NEW i \in 1 .. Len(lead) PROVE s[i] \in Blanks
  <2>1. i \in 1 .. Len(a)
    BY <1>0, <1>2
  <2> QED
    BY <1>0, <1>2, <1>4, <2>1
<1>6. ASSUME NEW i \in 1 .. Len(t) PROVE s[Len(lead) + i] = t[i]
  <2>1. Len(lead) + i \in 1 .. Len(a)
    BY <1>0, <1>2
  <2> QED
    BY <1>2, <1>4, <2>1
<1>7. At(s, Len(lead) + Len(t) + 1) \in Ends
  <2>1. CASE Len(tail) = 0
    <3>1. ~ (Len(a) + 1 <= Len(s))
      BY <1>2, <1>4, <2>1
    <3>2. At(s, Len(a) + 1) = "NUL"
      BY <3>1 DEF At
    <3>3. "NUL" \in Ends
      BY Zenon DEF Ends
    <3> QED
      BY <1>2, <3>2, <3>3
  <2>2. CASE Len(tail) > 0
    <3>1. Len(a) + 1 <= Len(s) /\ 1 \in 1 .. Len(tail)
      BY <1>0, <1>2, <1>4, <2>2
    <3>2. s[Len(a) + 1] = tail[1]
      BY <1>4, <3>1
    <3>3. At(s, Len(a) + 1) = tail[1]
      BY <3>1, <3>2 DEF At
    <3>4. At(s, Len(a) + 1) \in Ends
      BY <1>0, <2>2, <3>3, Zenon DEF BlankFirst, Ends
    <3> QED
      BY <1>2, <3>4
  <2> QED
    BY <1>0, <2>1, <2>2
<1>8. Len(lead) + Len(t) <= Len(s)
  BY <1>0, <1>2, <1>4
<1>9. Around(s, Len(lead), t)
  BY <1>0, <1>4, <1>5, <1>6, <1>7, <1>8 DEF Around
<1> QED
  BY <1>1, <1>3, <1>9

\* The sign, if there is one, and the first digit.
LEMMA TextStarts ==
  ASSUME NEW t, NEW code \in {"d", "u", "h"}, NEW x, NEW width \in Nat, NEW ds, TextIs(t, code, x, width, ds)
  PROVE  /\ SignLen(code, x) \in {0, 1} /\ SignLen(code, x) + 1 \in 1 .. Len(t)
         /\ t[SignLen(code, x) + 1] \in Digit
<1>0. PICK v, sign, d, k : /\ v = Printed(code, x) /\ sign = SignLen(code, x) /\ d = ds[v]
                           /\ k = Zeros(ds, v, width)
  OBVIOUS
<1>1. v \in Word /\ Numeral(ds, Base(code)) /\ Base(code) \in {10, 16} /\ sign \in {0, 1}
  BY <1>0 DEF TextIs, Base, SignLen
<1>2. d \in Seq(Digit) /\ Len(d) \in Nat /\ (v = 0 <=> Len(d) = 0)
  BY <1>0, <1>1, NoLeadingZero
<1>3. k \in Nat /\ Len(t) = sign + k + Len(d) /\ Spells(t, sign + 1, k, d)
  BY <1>0 DEF TextIs, Shape
<1>4. CASE k > 0
  <2>1. 0 \in 0 .. k - 1 /\ sign + 1 + 0 = sign + 1
    BY <1>1, <1>3, <1>4
  <2>2. t[sign + 1 + 0] = "0"
    BY <1>3, <2>1 DEF Spells
  <2>3. "0" \in Digit
    BY DEF Digit
  <2> QED
    <3>1. sign + 1 \in 1 .. Len(t)
      BY <1>1, <1>2, <1>3, <1>4
    <3> QED
      BY <1>0, <1>1, <2>1, <2>2, <2>3, <3>1
<1>5. CASE k = 0
  <2>1. v # 0
    <3>1. ASSUME v = 0 PROVE FALSE
      <4>1. Count(ds, v) = 1
        BY <3>1 DEF Count
      <4>2. k = (IF width > 1 THEN width - 1 ELSE 0) + 1
        BY <1>0, <3>1, <4>1 DEF Zeros
      <4> QED
        BY <1>5, <4>2
    <3> QED
      BY <3>1
  <2>2. 1 \in 1 .. Len(d) /\ sign + 1 + 0 + 1 - 1 = sign + 1 /\ d[1] \in Digit
    BY <1>1, <1>2, <2>1
  <2>3. t[sign + 1 + 0 + 1 - 1] = d[1]
    BY <1>3, <1>5, <2>2 DEF Spells
  <2> QED
    <3>1. sign + 1 \in 1 .. Len(t)
      BY <1>1, <1>2, <1>3, <1>5, <2>2
    <3> QED
      BY <1>0, <1>1, <2>2, <2>3, <3>1
<1> QED
  BY <1>3, <1>4, <1>5


LEMMA StartsApart ==
  /\ \A c \in Digit : c \notin Blanks /\ c # "-" /\ c # "$" /\ c # "%"
  /\ "-" \notin Blanks /\ "$" \notin Blanks /\ "-" # "$"
  /\ \A c \in Ends, base \in {10, 16} : DigitOf(c, base) < 0
<1>1. \A c \in Digit : c \notin Blanks /\ c # "-" /\ c # "$" /\ c # "%"
  BY KindsApart, Zenon DEF Blanks
<1>2. "-" \notin Blanks /\ "$" \notin Blanks /\ "-" # "$"
  BY Zenon DEF Blanks
<1>3. \A c \in Ends : c \notin Digit /\ c \notin Lower
  BY KindsApart, Zenon DEF Ends
<1>4. ASSUME NEW c \in Ends, NEW base \in {10, 16} PROVE DigitOf(c, base) < 0
  BY <1>3, DigitOfOther
<1> QED
  BY <1>1, <1>2, <1>4

\* What __val does with its three kinds of number.
Signed10(s, start) == At(s, start) = "-" /\ At(s, start + 1) \in Digit
Plain10(s, start)  == At(s, start) \in Digit
Hex16(s, start)    == At(s, start) = "$"

LEMMA ValForms ==
  ASSUME NEW s, NEW start, start = SkipBlanks(s, 1)
  PROVE  /\ Hex16(s, start) =>
              Val(s) = [value |-> Scan(s, start + 1, 16).value, consumed |-> Scan(s, start + 1, 16).next - 1]
         /\ Plain10(s, start) =>
              Val(s) = [value |-> Scan(s, start, 10).value, consumed |-> Scan(s, start, 10).next - 1]
         /\ Signed10(s, start) =>
              Val(s) = [value |-> Neg(Scan(s, start + 1, 10).value),
                        consumed |-> Scan(s, start + 1, 10).next - 1]
<1>1. ASSUME Hex16(s, start)
      PROVE  Val(s) = [value |-> Scan(s, start + 1, 16).value, consumed |-> Scan(s, start + 1, 16).next - 1]
  <2>1. At(s, start) = "$" /\ ~ (At(s, start) = "-")
    BY <1>1, StartsApart DEF Hex16
  <2>2. 16 # 10
    OBVIOUS
  <2> QED
    BY <2>1, <2>2 DEF Val
<1>2. ASSUME Plain10(s, start)
      PROVE  Val(s) = [value |-> Scan(s, start, 10).value, consumed |-> Scan(s, start, 10).next - 1]
  <2>1. ~ (At(s, start) = "-") /\ ~ (At(s, start) = "$") /\ ~ (At(s, start) = "%")
    BY <1>2, StartsApart DEF Plain10
  <2> QED
    BY <2>1 DEF Val
<1>3. ASSUME Signed10(s, start)
      PROVE  Val(s) = [value |-> Neg(Scan(s, start + 1, 10).value),
                       consumed |-> Scan(s, start + 1, 10).next - 1]
  <2>1. /\ At(s, start) = "-"
        /\ ~ (At(s, start + 1) = "$") /\ ~ (At(s, start + 1) = "%")
    BY <1>3, StartsApart DEF Signed10
  <2> QED
    BY <2>1 DEF Val
<1> QED
  BY <1>1, <1>2, <1>3


LEMMA NegNeg == ASSUME NEW x \in Word PROVE Neg(Neg(x)) = x
<1>0. x \in Nat /\ x < Modulus /\ Modulus \in Nat
  BY WordFacts
<1>1. CASE x = 0
  <2>1. Neg(0) = 0
    BY <1>0 DEF Neg
  <2> QED
    BY <1>1, <2>1
<1>2. CASE x > 0
  <2>1. PICK n \in Nat : n = Modulus - x
    BY <1>0
  <2>2. n < Modulus /\ n > 0 /\ Modulus - n = x
    BY <1>0, <1>2, <2>1
  <2>3. (n % Modulus) = n /\ (x % Modulus) = x
    BY <1>0, <2>2, ModLess
  <2> QED
    BY <2>1, <2>2, <2>3 DEF Neg
<1> QED
  BY <1>0, <1>1, <1>2

Inside(s, l, t, sign, k, d, base) ==
  \E first \in 1 .. Len(s) + 1, stop \in 1 .. Len(s) + 1 :
    /\ first = l + 1 + sign /\ stop = l + Len(t) + 1
    /\ stop = EndOf(first, k, d)
    /\ Spells(s, first, k, d) /\ NoDigit(s, stop, base)

SignZerosDigits(t, sign, k, d) ==
  Len(t) = sign + k + Len(d) /\ Spells(t, sign + 1, k, d)

\* Behind the sign s has the zeros and the digits of the text, and then their end.
LEMMA SpelledInside ==
  ASSUME NEW s, NEW l, NEW t, Around(s, l, t), NEW sign \in {0, 1}, NEW k \in Nat, NEW d \in Seq(Digit),
         SignZerosDigits(t, sign, k, d), NEW base \in {10, 16}
  PROVE  Inside(s, l, t, sign, k, d, base)
<1>0. PICK n \in Nat, m \in Nat : n = Len(d) /\ m = Len(t) /\ m = sign + k + n
  BY DEF SignZerosDigits
<1>1. /\ Len(s) \in Nat /\ l \in Nat /\ l + m <= Len(s)
      /\ \A i \in 1 .. m : s[l + i] = t[i]
      /\ At(s, l + m + 1) \in Ends
  BY <1>0 DEF Around
<1>2. PICK first \in Nat, stop \in Nat : first = l + 1 + sign /\ stop = l + m + 1
  BY <1>0, <1>1
<1>3. first \in 1 .. Len(s) + 1 /\ stop \in 1 .. Len(s) + 1 /\ stop = first + k + n
  BY <1>0, <1>1, <1>2
<1>4. ASSUME NEW i \in 0 .. k - 1 PROVE s[first + i] = "0"
  <2>1. sign + 1 + i \in 1 .. m /\ first + i = l + (sign + 1 + i)
    BY <1>0, <1>1, <1>2
  <2>2. t[sign + 1 + i] = "0"
    BY DEF SignZerosDigits, Spells
  <2> QED
    BY <1>1, <2>1, <2>2
<1>5. ASSUME NEW i \in 1 .. n PROVE s[first + k + i - 1] = d[i]
  <2>1. sign + 1 + k + i - 1 \in 1 .. m
    BY <1>0
  <2>2. first + k + i - 1 = l + (sign + 1 + k + i - 1)
    BY <1>1, <1>2
  <2>3. t[sign + 1 + k + i - 1] = d[i]
    BY <1>0 DEF SignZerosDigits, Spells
  <2> QED
    BY <1>1, <2>1, <2>2, <2>3
<1>6. Spells(s, first, k, d)
  BY <1>0, <1>4, <1>5 DEF Spells
<1>7. NoDigit(s, stop, base)
  <2>1. At(s, stop) \in Ends
    BY <1>1, <1>2
  <2> QED
    BY <2>1, StartsApart DEF NoDigit, DigitAt
<1>8. stop = EndOf(first, k, d)
  BY <1>0, <1>3 DEF EndOf
<1> QED
  BY <1>0, <1>2, <1>3, <1>6, <1>7, <1>8 DEF Inside

\* __val reads what the routines have written, and stops where it ends.
LEMMA ValReads ==
  ASSUME NEW s, NEW l, NEW t, Around(s, l, t), NEW code \in {"d", "u", "h"}, NEW x \in Word,
         NEW width \in Nat, NEW ds, TextIs(t, code, x, width, ds)
  PROVE  Val(s).value = x /\ Val(s).consumed = l + Len(t)
<1>0. PICK v, sign, d, k, base : /\ v = Printed(code, x) /\ sign = SignLen(code, x) /\ d = ds[v]
                                 /\ k = Zeros(ds, v, width) /\ base = Base(code)
  OBVIOUS
<1>1. v \in Word /\ Numeral(ds, base) /\ base \in {10, 16} /\ sign \in {0, 1}
  BY <1>0 DEF TextIs, Base, SignLen
<1>2. d \in Seq(Digit) /\ Len(d) \in Nat
  BY <1>0, <1>1, NoLeadingZero
<1>3. k \in Nat /\ t \in Seq(Char) /\ Len(t) = sign + k + Len(d) /\ Spells(t, sign + 1, k, d)
  BY <1>0 DEF TextIs, Shape
<1>4. sign + 1 \in 1 .. Len(t) /\ t[sign + 1] \in Digit /\ Len(t) \in Nat
  BY <1>0, <1>3, TextStarts
<1>5. PICK first \in 1 .. Len(s) + 1, stop \in 1 .. Len(s) + 1 :
        /\ first = l + 1 + sign /\ stop = l + Len(t) + 1
        /\ stop = EndOf(first, k, d)
        /\ Spells(s, first, k, d) /\ NoDigit(s, stop, base)
  <2>1. Inside(s, l, t, sign, k, d, base)
    <3>1. SignZerosDigits(t, sign, k, d)
      BY <1>3 DEF SignZerosDigits
    <3> QED
      BY <1>1, <1>2, <1>3, <3>1, SpelledInside
  <2> QED
    BY <2>1 DEF Inside
<1>6. Scan(s, first, base) = Place(stop, v)
  <2>1. s \in Seq(Char)
    BY DEF Around
  <2>2. stop = EndOf(first, k, ds[v]) /\ Spells(s, first, k, ds[v]) /\ NoDigit(s, stop, base)
    BY <1>0, <1>5
  <2> QED
    BY <1>1, <1>3, <2>1, <2>2, ScanReads
<1>7. Scan(s, first, base).value = v /\ Scan(s, first, base).next - 1 = l + Len(t)
  <2>1. l \in Nat
    BY DEF Around
  <2> QED
    BY <1>4, <1>5, <1>6, <2>1 DEF Place
<1>8. /\ Len(s) \in Nat /\ l \in Nat /\ l + Len(t) <= Len(s)
      /\ \A i \in 1 .. l : s[i] \in Blanks
      /\ \A i \in 1 .. Len(t) : s[l + i] = t[i]
  BY DEF Around
<1>9. /\ l + 1 \in 1 .. Len(s) /\ 1 \in 1 .. Len(t) /\ s[l + 1] = t[1] /\ At(s, l + 1) = t[1]
      /\ l + 1 + sign <= Len(s) /\ At(s, l + 1 + sign) = t[sign + 1]
  <2>1. l + 1 \in 1 .. Len(s) /\ 1 \in 1 .. Len(t) /\ l + 1 <= Len(s)
    BY <1>1, <1>4, <1>8
  <2>2. l + 1 + sign <= Len(s) /\ l + 1 + sign = l + (sign + 1)
    BY <1>1, <1>4, <1>8
  <2>3. s[l + 1] = t[1] /\ s[l + 1 + sign] = t[sign + 1]
    BY <1>4, <1>8, <2>1, <2>2
  <2> QED
    BY <2>1, <2>2, <2>3 DEF At
<1>10. sign = 1 => t[1] = IF code = "h" THEN "$" ELSE "-"
  BY <1>0 DEF TextIs
<1>11. SkipBlanks(s, 1) = l + 1
  <2>1. s[l + 1] \notin Blanks
    <3>1. CASE sign = 0
      BY <1>4, <1>9, <3>1, StartsApart
    <3>2. CASE sign = 1
      BY <1>9, <1>10, <3>2, StartsApart
    <3> QED
      BY <1>1, <3>1, <3>2
  <2>2. \A i \in 1 .. (l + 1) - 1 : s[i] \in Blanks
    BY <1>8
  <2> QED
    BY <1>8, <1>9, <2>1, <2>2, SkipIs
<1>12. PICK start : start = l + 1
  OBVIOUS
<1>13. CASE code = "h"
  <2>1. sign = 1 /\ base = 16 /\ v = x
    BY <1>0, <1>13 DEF SignLen, Base, Printed
  <2>2. Hex16(s, start) /\ first = start + 1
    BY <1>5, <1>9, <1>10, <1>12, <1>13, <2>1 DEF Hex16
  <2>3. Val(s) = [value |-> Scan(s, first, 16).value, consumed |-> Scan(s, first, 16).next - 1]
    BY <1>11, <1>12, <2>2, ValForms
  <2> QED
    BY <1>7, <2>1, <2>3
<1>14. CASE code # "h" /\ sign = 0
  <2>1. base = 10 /\ v = x
    BY <1>0, <1>14 DEF SignLen, Base, Printed, Magnitude
  <2>2. Plain10(s, start) /\ first = start
    BY <1>4, <1>5, <1>8, <1>9, <1>12, <1>14 DEF Plain10
  <2>3. Val(s) = [value |-> Scan(s, first, 10).value, consumed |-> Scan(s, first, 10).next - 1]
    BY <1>11, <1>12, <2>2, ValForms
  <2> QED
    BY <1>7, <2>1, <2>3
<1>15. CASE code # "h" /\ sign = 1
  <2>1. base = 10 /\ v = Neg(x)
    BY <1>0, <1>15 DEF SignLen, Base, Printed, Magnitude
  <2>2. Signed10(s, start) /\ first = start + 1
    BY <1>4, <1>5, <1>9, <1>10, <1>12, <1>15 DEF Signed10
  <2>3. Val(s) = [value |-> Neg(Scan(s, first, 10).value), consumed |-> Scan(s, first, 10).next - 1]
    BY <1>11, <1>12, <2>2, ValForms
  <2> QED
    BY <1>7, <2>1, <2>3, NegNeg
<1> QED
  BY <1>1, <1>13, <1>14, <1>15

-----------------------------------------------------------------------------
(* The inductive invariant.                                                *)

\* What has been written is the text of some word, which the call names.
Written ==
  call.name = "Write" =>
    \E code \in {"d", "u", "h"}, x \in Word, width \in FieldWidths :
      /\ call = [name |-> "Write", x |-> x, code |-> code, width |-> width]
      /\ text = Text(code, x, width)

NumbersInv == Written /\ ArithmeticRight /\ ReadsBack

LEMMA InitInv == Init => NumbersInv
  BY DEF Init, NumbersInv, Written, ArithmeticRight, ReadsBack

LEMMA DivideInv == ASSUME Divide PROVE NumbersInv'
<1>1. PICK x, y \in Word : /\ y # 0 /\ call' = [name |-> "Div", x |-> x, y |-> y]
                           /\ d0' = SDivMod(x, y).q /\ d1' = SDivMod(x, y).r
  BY DEF Divide
<1>2. Divides(Signed(x), Signed(y), Signed(d0'), Signed(d1'), x = Lowest /\ Signed(y) = -1)
  BY <1>1, SDivModDivides
<1>3. call'.name = "Div" /\ call'.x = x /\ call'.y = y
  BY <1>1
<1>4. Divides(Signed(call'.x), Signed(call'.y), Signed(d0'), Signed(d1'),
              call'.x = Lowest /\ Signed(call'.y) = -1)
  BY <1>2, <1>3
<1>5. ArithmeticRight'
  BY <1>3, <1>4 DEF ArithmeticRight, Divides, Signed, IsNeg
<1> QED
  BY <1>3, <1>5 DEF NumbersInv, Written, ReadsBack

LEMMA RandomInv == ASSUME Random PROVE NumbersInv'
<1>1. PICK seed, y \in Word : /\ y # 0 /\ call' = [name |-> "Rnd", x |-> seed \div 2, y |-> y]
                              /\ d0' = UDivMod(seed \div 2, y).r
  BY DEF Random
<1>2. PICK x \in Word : x = seed \div 2
  <2>1. seed \in Nat /\ seed < Modulus
    BY WordFacts
  <2>2. seed \div 2 \in Nat /\ seed \div 2 < Modulus
    BY <2>1, WordFacts
  <2> QED
    BY <2>2, WordFacts
<1>3. PICK q, r \in Nat : UDivMod(x, y).r = r /\ x = q * y + r /\ r < y
  BY <1>1, UDivModDivides
<1>4. x % y = r
  <2>1. x \in Nat /\ y \in Nat \ {0} /\ r \in 0 .. y - 1 /\ q \in Int
    BY <1>1, <1>3, WordFacts
  <2> QED
    BY <1>3, <2>1, ModIs
<1>5. call'.name = "Rnd" /\ call'.x = x /\ call'.y = y /\ d0' = x % y
  BY <1>1, <1>2, <1>3, <1>4
<1> QED
  BY <1>5 DEF NumbersInv, Written, ArithmeticRight, ReadsBack

LEMMA MultiplyInv == ASSUME Multiply PROVE NumbersInv'
<1>1. PICK x, y \in Word : call' = [name |-> "Mul", x |-> x, y |-> y] /\ d0' = Mul32(x, y)
  BY DEF Multiply
<1>2. call'.name = "Mul" /\ call'.x = x /\ call'.y = y /\ d0' = (x * y) % Modulus
  BY <1>1, Mul32Is
<1> QED
  BY <1>2 DEF NumbersInv, Written, ArithmeticRight, ReadsBack

LEMMA FormatInv == ASSUME Format PROVE NumbersInv'
<1>1. PICK code \in {"d", "u", "h"}, x \in Word, width \in FieldWidths :
        /\ call' = [name |-> "Write", x |-> x, code |-> code, width |-> width]
        /\ text' = Text(code, x, width)
  BY DEF Format, Write
<1>2. Written'
  BY <1>1 DEF Written
<1>3. call'.name = "Write"
  BY <1>1
<1> QED
  BY <1>2, <1>3 DEF NumbersInv, ArithmeticRight, ReadsBack

\* What Val returns is by ValReads the word that the text was written for.
LEMMA ReadBackInv == ASSUME NumbersInv, ReadBack PROVE NumbersInv'
<1>1. PICK code \in {"d", "u", "h"}, x \in Word, width \in FieldWidths :
        /\ call = [name |-> "Write", x |-> x, code |-> code, width |-> width]
        /\ text = Text(code, x, width)
  BY DEF NumbersInv, Written, ReadBack
<1>2. PICK tail \in Tails, lead \in Leads :
        d0' = Val(lead \o text \o tail).value /\ d1' = Val(lead \o text \o tail).consumed - Len(lead)
  BY DEF ReadBack, Tails, Leads
<1>3. call' = [call EXCEPT !.name = "Val"] /\ text' = text
  BY DEF ReadBack
<1>4. call'.name = "Val" /\ call'.x = x /\ call'.code = code
  BY <1>1, <1>3
<1>5. ASSUME ~ (code = "d" /\ x = Lowest) PROVE d0' = x /\ d1' = Len(text)
  <2>1. width \in Nat
    BY NumbersAssumption
  <2>2. PICK ds : TextIs(text, code, x, width, ds)
    BY <1>1, <1>5, <2>1, TextShape
  <2>3. text \in Seq(Char)
    BY <2>2 DEF TextIs, Shape
  <2>4. PICK s : s = lead \o text \o tail
    OBVIOUS
  <2>5. Around(s, Len(lead), text)
    BY <2>3, <2>4, AroundIs
  <2>6. Val(s).value = x /\ Val(s).consumed = Len(lead) + Len(text)
    BY <2>1, <2>2, <2>5, ValReads
  <2>7. Len(lead) \in Nat /\ Len(text) \in Nat
    <3>1. Len(lead) \in Nat
      BY SurroundingsAre
    <3> QED
      BY <2>3, <3>1
  <2> QED
    BY <1>2, <2>4, <2>6, <2>7
<1>6. ReadsBack'
  BY <1>3, <1>4, <1>5 DEF ReadsBack
<1> QED
  BY <1>4, <1>6 DEF NumbersInv, Written, ArithmeticRight

LEMMA OtherInv == ASSUME NumbersInv, Return \/ UNCHANGED vars PROVE NumbersInv'
<1>1. CASE Return
  BY <1>1 DEF Return, NumbersInv, Written, ArithmeticRight, ReadsBack
<1>2. CASE UNCHANGED vars
  BY <1>2 DEF vars, NumbersInv, Written, ArithmeticRight, ReadsBack, Signed, IsNeg
<1> QED
  BY <1>1, <1>2

THEOREM NumbersInvariant == Spec => []NumbersInv
<1>1. NumbersInv /\ [Next]_vars => NumbersInv'
  BY DivideInv, RandomInv, MultiplyInv, FormatInv, ReadBackInv, OtherInv DEF Next
<1> QED
  BY <1>1, InitInv, PTL DEF Spec

\* For registers of any width, Div, Rnd and Mul are what mathematics says, for every pair
\* of words: __udivmod's bits shifted through two registers never lose one, also for
\* divisors over half the range, and the signs of __sdivmod only go wrong where the
\* quotient does not fit.
THEOREM ArithmeticIsRight == Spec => []ArithmeticRight
<1>1. NumbersInv => ArithmeticRight
  BY DEF NumbersInv
<1> QED
  BY <1>1, NumbersInvariant, PTL

\* WriteF and StringF pad a field to the width that was asked for and no further: the
\* digits that are counted beforehand are those that are written.
THEOREM FieldsAreExact == Spec => []FieldsExact
<1>1. ASSUME Written PROVE FieldsExact
  <2>1. SUFFICES ASSUME call.name = "Write", call.x # Lowest
                 PROVE  LET sign == SignLen(call.code, call.x)
                            digits == Len(text) - sign
                        IN /\ digits >= call.width
                           /\ (digits > call.width /\ digits > 1) => text[sign + 1] # "0"
    BY DEF FieldsExact, SignLen
  <2>2. PICK code \in {"d", "u", "h"}, x \in Word, width \in FieldWidths :
          /\ call = [name |-> "Write", x |-> x, code |-> code, width |-> width]
          /\ text = Text(code, x, width)
    BY <1>1, <2>1 DEF Written
  <2>3. call.code = code /\ call.x = x /\ call.width = width /\ width \in Nat
    BY <2>2, NumbersAssumption
  <2>4. PICK ds : TextIs(text, code, x, width, ds)
    BY <2>1, <2>2, <2>3, TextShape
  <2> QED
    BY <2>3, <2>4, FieldIsExact
<1>2. NumbersInv => FieldsExact
  BY <1>1 DEF NumbersInv
<1> QED
  BY <1>2, NumbersInvariant, PTL

\* Val returns the word that WriteF or StringF wrote, from behind a tab as well, for every
\* width of the registers and of the field, and stops at the NUL or the blank behind it.
THEOREM WrittenReadsBack == Spec => []ReadsBack
<1>1. NumbersInv => ReadsBack
  BY DEF NumbersInv
<1> QED
  BY <1>1, NumbersInvariant, PTL
=============================================================================
