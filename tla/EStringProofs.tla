--------------------------- MODULE EStringProofs ---------------------------
(***************************************************************************)
(* What is proved about E-strings, for any number of strings of any        *)
(* lengths and any characters: no routine writes into another string's     *)
(* header, and between calls every string holds what the program may take  *)
(* it to hold, also when a source lies in its own destination; and what    *)
(* StrCmp, OstrCmp and InStr answer is what the texts say.                 *)
(***************************************************************************)
EXTENDS EString, TLAPS, SequenceTheorems, WellFoundedInduction

-----------------------------------------------------------------------------
(* Where the strings lie.                                                  *)

LEMMA LeastOf ==
  ASSUME NEW T \in SUBSET Nat, T # {}
  PROVE  \E t \in T : \A s \in T : t <= s
<1>1. PICK t \in T : \A s \in T : ~ (<<s, t>> \in OpToRel(<, Nat))
  BY WFMin, NatLessThanWellFounded
<1>2. ASSUME NEW s \in T PROVE t <= s
  <2>1. ~ (s < t)
    BY <1>1 DEF OpToRel
  <2> QED
    BY <2>1
<1> QED
  BY <1>2

\* The equation that defines Data, for the first n strings.
Rule(n, f) == [i \in 1 .. n |-> IF i = 1 THEN 2 ELSE f[i - 1] + EStrings[i - 1] + 3]

LEMMA RuleHasSolution == ASSUME NEW n \in Nat PROVE \E f : f = Rule(n, f)
<1> DEFINE T == {k \in Nat : ~ \E f : f = Rule(k, f)}
<1>1. SUFFICES ASSUME T # {} PROVE FALSE
  OBVIOUS
<1>2. T \in SUBSET Nat
  OBVIOUS
<1>3. PICK k \in T : \A j \in T : k <= j
  BY <1>1, <1>2, LeastOf
<1>4. k \in Nat /\ ~ \E f : f = Rule(k, f)
  BY <1>3
<1>5. CASE k = 0
  <2>1. \A f, g : Rule(0, f) = Rule(0, g)
    BY DEF Rule
  <2>2. Rule(0, Rule(0, 0)) = Rule(0, 0)
    BY <2>1
  <2> QED
    BY <1>4, <1>5, <2>2
<1>6. CASE k # 0
  <2>1. k - 1 \in Nat /\ k - 1 \notin T
    BY <1>3, <1>4, <1>6
  <2>2. PICK f : f = Rule(k - 1, f)
    BY <2>1
  <2> DEFINE g == Rule(k, f)
  <2>3. \A i \in 1 .. k - 1 : f[i] = IF i = 1 THEN 2 ELSE f[i - 1] + EStrings[i - 1] + 3
    BY <2>2 DEF Rule
  <2>4. \A i \in 1 .. k : g[i] = IF i = 1 THEN 2 ELSE f[i - 1] + EStrings[i - 1] + 3
    BY DEF Rule
  <2>5. \A i \in 1 .. k - 1 : i \in 1 .. k /\ g[i] = f[i]
    BY <1>4, <2>3, <2>4
  <2>6. ASSUME NEW i \in 1 .. k, i # 1 PROVE g[i - 1] = f[i - 1]
    BY <1>4, <2>5, <2>6
  <2>7. g = Rule(k, g)
    <3> HIDE DEF g
    <3>1. \A i \in 1 .. k : g[i] = IF i = 1 THEN 2 ELSE g[i - 1] + EStrings[i - 1] + 3
      BY <2>4, <2>6
    <3>2. g = [i \in 1 .. k |-> g[i]]
      BY DEF g, Rule
    <3> QED
      BY <3>1, <3>2 DEF Rule
  <2> QED
    BY <1>4, <2>7
<1> QED
  BY <1>5, <1>6

LEMMA EStringsFacts ==
  /\ Len(EStrings) \in Nat \ {0} /\ Names = 1 .. Len(EStrings)
  /\ \A e \in Names : EStrings[e] \in Nat /\ EStrings[e] > 0 /\ EStrings[e] < SignLimit
  /\ SignLimit \in Nat
  BY EStringAssumption DEF Names

LEMMA DataIs ==
  /\ Data(1) = 2
  /\ \A e \in Names : e # 1 => Data(e) = Data(e - 1) + EStrings[e - 1] + 3
<1> DEFINE n == Len(EStrings)
           at == CHOOSE f : f = Rule(n, f)
<1>1. n \in Nat \ {0} /\ Names = 1 .. n
  BY EStringsFacts
<1>2. at = Rule(n, at)
  BY <1>1, RuleHasSolution
<1>3. \A e : Data(e) = at[e]
  BY <1>1 DEF Data, Rule
<1> HIDE DEF at
<1>4. \A e \in 1 .. n : at[e] = IF e = 1 THEN 2 ELSE at[e - 1] + EStrings[e - 1] + 3
  BY <1>2 DEF Rule
<1> QED
  BY <1>1, <1>3, <1>4

\* The cells of a string, its header included.
First(e) == Data(e) - 2
LastCell(e) == Data(e) + EStrings[e]

LEMMA DataNat == ASSUME NEW e \in Names PROVE Data(e) \in Nat /\ Data(e) >= 2
<1> DEFINE T == {k \in Names : ~ (Data(k) \in Nat /\ Data(k) >= 2)}
<1>1. SUFFICES ASSUME T # {} PROVE FALSE
  OBVIOUS
<1>2. T \in SUBSET Nat
  BY EStringsFacts
<1>3. PICK k \in T : \A j \in T : k <= j
  BY <1>1, <1>2, LeastOf
<1>4. k \in Names /\ k \in Nat /\ k > 0 /\ ~ (Data(k) \in Nat /\ Data(k) >= 2)
  BY <1>3, EStringsFacts
<1>5. k # 1
  BY <1>4, DataIs
<1>6. k - 1 \in Names /\ k - 1 \notin T
  BY <1>3, <1>4, <1>5, EStringsFacts
<1>7. Data(k - 1) \in Nat /\ Data(k - 1) >= 2 /\ EStrings[k - 1] \in Nat
  BY <1>6, EStringsFacts
<1>8. Data(k) = Data(k - 1) + EStrings[k - 1] + 3
  BY <1>4, <1>5, DataIs
<1> QED
  BY <1>4, <1>7, <1>8

\* Each string ends before the next begins.
LEMMA Apart == ASSUME NEW e \in Names, NEW f \in Names, e < f PROVE LastCell(e) < First(f)
<1> DEFINE T == {k \in Names : e < k /\ ~ (LastCell(e) < First(k))}
<1>1. SUFFICES ASSUME T # {} PROVE FALSE
  OBVIOUS
<1>2. T \in SUBSET Nat
  BY EStringsFacts
<1>3. PICK k \in T : \A j \in T : k <= j
  BY <1>1, <1>2, LeastOf
<1>4. k \in Names /\ k \in Nat /\ e \in Nat /\ e > 0 /\ e < k /\ ~ (LastCell(e) < First(k))
  BY <1>3, EStringsFacts
<1>5. /\ k - 1 \in Names /\ Data(k) = Data(k - 1) + EStrings[k - 1] + 3
      /\ Data(k - 1) \in Nat /\ Data(e) \in Nat /\ EStrings[e] \in Nat /\ EStrings[k - 1] \in Nat
  <2>1. k - 1 \in Names /\ k # 1
    BY <1>4, EStringsFacts
  <2>2. Data(k) = Data(k - 1) + EStrings[k - 1] + 3
    BY <1>4, <2>1, DataIs
  <2>3. Data(k - 1) \in Nat /\ Data(e) \in Nat
    BY <2>1, DataNat
  <2>4. EStrings[e] \in Nat /\ EStrings[k - 1] \in Nat
    BY <2>1, EStringsFacts
  <2> QED
    BY <2>1, <2>2, <2>3, <2>4
<1>6. CASE k - 1 = e
  BY <1>4, <1>5, <1>6 DEF LastCell, First
<1>7. CASE k - 1 # e
  <2>1. LastCell(e) < First(k - 1)
    <3>1. e < k - 1 /\ k - 1 \notin T
      BY <1>3, <1>4, <1>5, <1>7
    <3> QED
      BY <1>5, <3>1
  <2> QED
    BY <1>4, <1>5, <2>1 DEF LastCell, First
<1> QED
  BY <1>6, <1>7

LEMMA CellsFacts ==
  ASSUME NEW e \in Names
  PROVE  /\ Data(e) \in Nat /\ Data(e) >= 2
         /\ EStrings[e] \in Nat /\ EStrings[e] > 0 /\ EStrings[e] < SignLimit /\ SignLimit \in Nat
         /\ \A x \in Int : First(e) <= x /\ x <= LastCell(e) => x \in Cells
<1> DEFINE n == Len(EStrings)
<1>1. n \in Names /\ n \in Nat /\ e \in Nat /\ e <= n
  BY EStringsFacts
<1>2. /\ Data(e) \in Nat /\ Data(e) >= 2 /\ Data(n) \in Nat
      /\ EStrings[e] \in Nat /\ EStrings[e] > 0 /\ EStrings[e] < SignLimit /\ SignLimit \in Nat
      /\ EStrings[n] \in Nat
  BY <1>1, DataNat, EStringsFacts
<1>3. LastCell(e) <= LastCell(n)
  <2>1. CASE e = n
    BY <1>2, <2>1 DEF LastCell
  <2>2. CASE e < n
    BY <1>1, <1>2, <2>2, Apart DEF LastCell, First
  <2> QED
    BY <1>1, <2>1, <2>2
<1>4. Cells = 0 .. LastCell(n)
  BY DEF Cells, LastCell
<1>5. LastCell(e) \in Nat /\ LastCell(n) \in Nat /\ First(e) \in Nat
  <2>1. LastCell(e) \in Nat /\ First(e) \in Nat
    <3>1. LastCell(e) = Data(e) + EStrings[e] /\ First(e) = Data(e) - 2
      BY DEF LastCell, First
    <3> QED
      BY <1>2, <3>1
  <2>2. LastCell(n) \in Nat
    <3>1. LastCell(n) = Data(n) + EStrings[n]
      BY DEF LastCell
    <3> HIDE DEF n
    <3> QED
      BY <1>2, <3>1
  <2> QED
    BY <2>1, <2>2
<1> QED
  BY <1>2, <1>3, <1>4, <1>5

-----------------------------------------------------------------------------
(* The inductive invariant.                                                *)

Bytes == 1 .. 255

HeaderRight(m, e) == m[MaxAt(Data(e))] = EStrings[e] /\ m[LenAt(Data(e))] \in 0 .. EStrings[e]

\* The text t is in the cells of string e, from the first on.
Begins(m, e, t, n) == \A i \in 1 .. n : m[Data(e) + i - 1] = t[i]

Holds(m, e, t) ==
  /\ Begins(m, e, t, Len(t))
  /\ m[Data(e) + Len(t)] = NUL
  /\ m[LenAt(Data(e))] = Len(t)

OthersHold(e) == \A f \in Names \ {e} : Holds(mem, f, str[f])

\* What __strcore still has to copy lies ahead of it, where it will not write before
\* it has read: in another string, or further on in the same one ...
Ahead(s, m) ==
  /\ \A j \in 0 .. m - 1 : reg.a1 + j \in Cells /\ mem[reg.a1 + j] = s[reg.d4 + j + 1]
  /\ reg.a1 >= reg.a0 \/ reg.a1 + m < reg.a0
  /\ \/ reg.d4 + m = reg.d3
     \/ reg.d2 = m
     \/ reg.a1 + m \in Cells /\ mem[reg.a1 + m] = NUL

\* ... or it is what it has just written, q characters back.
Behind(s, m) ==
  /\ \E q \in 1 .. reg.d4 :
       /\ reg.a1 = reg.a0 - q
       /\ \A i \in reg.d4 + 1 .. reg.d4 + m : s[i] = s[i - q]
  /\ reg.d4 + m = reg.d3 \/ reg.d2 = m

Copying(e) ==
  /\ DOMAIN reg = {"d0", "a0", "a1", "d2", "d3", "d4"}
  /\ reg.d0 = Data(e) /\ reg.d3 = EStrings[e]
  /\ reg.d4 \in 0 .. Len(str[e]) /\ reg.a0 = Data(e) + reg.d4
  /\ reg.a1 \in Int /\ reg.d2 \in Int
  /\ Begins(mem, e, str[e], reg.d4)
  /\ LET m == Len(str[e]) - reg.d4
     IN (reg.d2 < 0 \/ reg.d2 >= m) /\ (Ahead(str[e], m) \/ Behind(str[e], m))

Reading(e) ==
  /\ DOMAIN reg = {"a3", "d5", "d6", "e"}
  /\ reg.e = e /\ reg.a3 = Data(e) /\ reg.d5 = EStrings[e]
  /\ reg.d6 = Len(str[e])
  /\ Begins(mem, e, str[e], reg.d6)

StrOK == \A e \in Names : str[e] \in Seq(Bytes) /\ Len(str[e]) <= EStrings[e]

EStringInv ==
  /\ DOMAIN mem = Cells /\ DOMAIN str = Names
  /\ StrOK
  /\ \A e \in Names : HeaderRight(mem, e)
  /\ pc \in {"idle", "answered", "strcore", "readstr"}
  /\ pc \in {"idle", "answered"} => \A e \in Names : Holds(mem, e, str[e])
  /\ pc = "strcore" => \E e \in Names : Copying(e) /\ OthersHold(e)
  /\ pc = "readstr" => \E e \in Names : Reading(e) /\ OthersHold(e)

-----------------------------------------------------------------------------
(* Cells and texts.                                                        *)

LEMMA BlockApart ==
  ASSUME NEW e \in Names, NEW f \in Names, e # f,
         NEW x \in Int, First(f) <= x, x <= LastCell(f)
  PROVE  x \in Cells /\ (x < First(e) \/ x > LastCell(e))
<1>1. x \in Cells
  BY CellsFacts
<1>2. /\ Data(e) \in Nat /\ Data(f) \in Nat /\ EStrings[e] \in Nat /\ EStrings[f] \in Nat
      /\ e \in Int /\ f \in Int
  BY CellsFacts, EStringsFacts
<1>3. LastCell(e) < First(f) \/ LastCell(f) < First(e)
  BY <1>2, Apart
<1> QED
  BY <1>1, <1>2, <1>3 DEF First, LastCell

\* m becomes n, and only the length, the characters and the NUL of e change.
OnlyIn(m, n, e) == \A x \in Cells : x < LenAt(Data(e)) \/ x > LastCell(e) => n[x] = m[x]

LEMMA OthersKept ==
  ASSUME NEW m, NEW n, NEW e \in Names, OnlyIn(m, n, e), NEW f \in Names, f # e
  PROVE  /\ HeaderRight(m, f) => HeaderRight(n, f)
         /\ \A t \in Seq(Bytes) : Len(t) <= EStrings[f] /\ Holds(m, f, t) => Holds(n, f, t)
<1>1. /\ Data(e) \in Nat /\ Data(f) \in Nat /\ EStrings[e] \in Nat /\ EStrings[f] \in Nat
  BY CellsFacts
<1>2. ASSUME NEW x \in Int, First(f) <= x, x <= LastCell(f) PROVE n[x] = m[x]
  <2>1. x \in Cells /\ (x < First(e) \/ x > LastCell(e))
    BY <1>2, BlockApart
  <2>2. x < LenAt(Data(e)) \/ x > LastCell(e)
    BY <1>1, <2>1 DEF First, LenAt
  <2> QED
    BY <2>1, <2>2 DEF OnlyIn
<1>3. n[MaxAt(Data(f))] = m[MaxAt(Data(f))] /\ n[LenAt(Data(f))] = m[LenAt(Data(f))]
  BY <1>1, <1>2 DEF First, LastCell, MaxAt, LenAt
<1>4. ASSUME NEW i \in 0 .. EStrings[f] PROVE n[Data(f) + i] = m[Data(f) + i]
  BY <1>1, <1>2 DEF First, LastCell
<1>5. ASSUME NEW t \in Seq(Bytes), Len(t) <= EStrings[f], Holds(m, f, t) PROVE Holds(n, f, t)
  <2>1. Len(t) \in 0 .. EStrings[f]
    BY <1>1, <1>5
  <2>2. ASSUME NEW i \in 1 .. Len(t) PROVE n[Data(f) + i - 1] = t[i]
    <3>1. i - 1 \in 0 .. EStrings[f] /\ Data(f) + i - 1 = Data(f) + (i - 1)
      BY <1>1, <2>1
    <3>2. m[Data(f) + i - 1] = t[i]
      BY <1>5 DEF Holds, Begins
    <3> QED
      BY <1>4, <3>1, <3>2
  <2> QED
    BY <1>3, <1>4, <1>5, <2>1, <2>2 DEF Holds, Begins
<1> QED
  BY <1>3, <1>5 DEF HeaderRight

\* t is what is in s behind the first p characters, up to the q-th.
IsPart(t, s, p, q) == t = SubSeq(s, p + 1, q)

Part(t, s, p, q) ==
  t \in Seq(Bytes) /\ Len(t) = q - p /\ \A i \in 1 .. q - p : t[i] = s[p + i]

LEMMA SubSeqFacts ==
  ASSUME NEW s \in Seq(Bytes), NEW p \in Nat, NEW q \in Nat, p <= q, q <= Len(s),
         NEW t, IsPart(t, s, p, q)
  PROVE  Part(t, s, p, q)
<1>1. Len(s) \in Nat /\ \A i \in 1 .. Len(s) : s[i] \in Bytes
  OBVIOUS
<1>2. \A i \in p + 1 .. q : s[i] \in Bytes
  BY <1>1
<1>3. PICK m : m = p + 1
  OBVIOUS
<1>4. m \in Int /\ q \in Int /\ \A i \in m .. q : s[i] \in Bytes
  BY <1>2, <1>3
<1>5. /\ SubSeq(s, m, q) \in Seq(Bytes)
      /\ Len(SubSeq(s, m, q)) = IF m <= q THEN q - m + 1 ELSE 0
      /\ \A i \in 1 .. q - m + 1 : SubSeq(s, m, q)[i] = s[m + i - 1]
  <2> HIDE DEF Bytes
  <2> QED
    BY <1>4, SubSeqProperties
<1>6. q - m + 1 = q - p /\ \A i \in 1 .. q - p : m + i - 1 = p + i
  BY <1>3
<1>7. (IF m <= q THEN q - m + 1 ELSE 0) = q - p
  BY <1>3
<1> QED
  BY <1>3, <1>5, <1>6, <1>7 DEF IsPart, Part

LEMMA PrefixFacts ==
  ASSUME NEW s \in Seq(Bytes), NEW n \in Int, n >= ALL, NEW max \in Nat,
         NEW t, t = Prefix(s, n, max)
  PROVE  /\ t \in Seq(Bytes) /\ Len(t) \in Nat /\ Len(t) <= Len(s) /\ Len(t) <= max
         /\ n # ALL => Len(t) <= n
         /\ Len(t) = max \/ Len(t) = n \/ Len(t) = Len(s)
         /\ \A i \in 1 .. Len(t) : t[i] = s[i]
<1> DEFINE k == Least(max, IF n = ALL THEN Len(s) ELSE Least(n, Len(s)))
<1>1. /\ k \in Nat /\ k <= Len(s) /\ k <= max /\ Len(s) \in Nat
      /\ n # ALL => k <= n
      /\ k = max \/ k = n \/ k = Len(s)
  BY DEF Least, ALL
<1>2. t = SubSeq(s, 1, k)
  BY DEF Prefix
<1> HIDE DEF k
<1>3. t \in Seq(Bytes) /\ Len(t) = k /\ \A i \in 1 .. k : t[i] = s[i]
  <2>1. IsPart(t, s, 0, k)
    BY <1>2 DEF IsPart
  <2>2. Len(t) = k - 0 /\ t \in Seq(Bytes) /\ \A i \in 1 .. k - 0 : t[i] = s[0 + i]
    BY <1>1, <2>1, SubSeqFacts DEF Part
  <2> QED
    BY <1>1, <2>2
<1> QED
  BY <1>1, <1>3

LEMMA SuffixFacts ==
  ASSUME StrOK, NEW f \in Names, NEW p \in 0 .. Len(str[f]),
         NEW t, t = Suffix(<<f, p>>)
  PROVE  Part(t, str[f], p, Len(str[f]))
<1>1. str[f] \in Seq(Bytes) /\ Len(str[f]) \in Nat /\ p \in Nat
  BY DEF StrOK
<1>2. t = SubSeq(str[f], p + 1, Len(str[f]))
  BY DEF Suffix
<1>3. p \in Nat /\ Len(str[f]) \in Nat /\ p <= Len(str[f]) /\ Len(str[f]) <= Len(str[f])
  BY <1>1
<1>4. PICK s : s = str[f]
  OBVIOUS
<1>5. PICK q : q = Len(s)
  OBVIOUS
<1>6. s \in Seq(Bytes) /\ q \in Nat /\ p <= q /\ q <= Len(s) /\ IsPart(t, s, p, q)
  BY <1>1, <1>2, <1>3, <1>4, <1>5 DEF IsPart
<1>7. Part(t, s, p, q)
  BY <1>3, <1>6, SubSeqFacts
<1> QED
  BY <1>4, <1>5, <1>7

\* The text of a string is found where it is, to the NUL.
LEMMA TextAt ==
  ASSUME StrOK, NEW f \in Names, Holds(mem, f, str[f])
  PROVE  /\ \A i \in 0 .. Len(str[f]) : Data(f) + i \in Cells
         /\ \A i \in 0 .. Len(str[f]) - 1 : mem[Data(f) + i] = str[f][i + 1]
         /\ mem[Data(f) + Len(str[f])] = NUL
         /\ CurLen(Data(f)) = Len(str[f])
<1>1. /\ str[f] \in Seq(Bytes) /\ Len(str[f]) \in Nat /\ Len(str[f]) <= EStrings[f]
      /\ Data(f) \in Nat /\ EStrings[f] < SignLimit /\ EStrings[f] \in Nat /\ SignLimit \in Nat
  BY CellsFacts DEF StrOK
<1>2. ASSUME NEW i \in 0 .. Len(str[f]) - 1 PROVE mem[Data(f) + i] = str[f][i + 1]
  <2>1. i + 1 \in 1 .. Len(str[f]) /\ Data(f) + (i + 1) - 1 = Data(f) + i
    BY <1>1
  <2> QED
    BY <2>1 DEF Holds, Begins
<1>4. ASSUME NEW i \in 0 .. Len(str[f]) PROVE Data(f) + i \in Cells
  <2>1. Data(f) + i \in Int /\ First(f) <= Data(f) + i /\ Data(f) + i <= LastCell(f)
    BY <1>1 DEF First, LastCell
  <2> QED
    BY <2>1, CellsFacts
<1>3. CurLen(Data(f)) = Len(str[f])
  <2>1. mem[LenAt(Data(f))] = Len(str[f]) /\ ~ Len(str[f]) >= SignLimit
    BY <1>1 DEF Holds
  <2> QED
    BY <2>1 DEF CurLen, Ext
<1> QED
  BY <1>2, <1>3, <1>4 DEF Holds

LEMMA MaxLenIs == ASSUME NEW e \in Names, HeaderRight(mem, e) PROVE MaxLen(Data(e)) = EStrings[e]
  BY CellsFacts DEF HeaderRight, MaxLen, Ext

LEMMA InitInv == Init => EStringInv
<1> SUFFICES ASSUME Init PROVE EStringInv
  OBVIOUS
<1>1. DOMAIN mem = Cells /\ DOMAIN str = Names /\ pc = "idle"
  BY DEF Init
<1>2. \A e \in Names : str[e] = << >>
  BY DEF Init
<1>3. StrOK
  <2>1. << >> \in Seq(Bytes) /\ Len(<< >>) = 0
    OBVIOUS
  <2>2. \A e \in Names : EStrings[e] \in Nat
    BY CellsFacts
  <2>3. ASSUME NEW e \in Names PROVE str[e] \in Seq(Bytes) /\ Len(str[e]) <= EStrings[e]
    <3>1. str[e] = << >> /\ EStrings[e] \in Nat
      BY <1>2, <2>2
    <3> QED
      BY <2>1, <3>1
  <2> QED
    BY <2>3 DEF StrOK
<1>4. ASSUME NEW e \in Names
      PROVE  /\ mem[MaxAt(Data(e))] = EStrings[e]
             /\ mem[LenAt(Data(e))] = 0 /\ mem[Data(e)] = 0
  <2>1. /\ Data(e) \in Nat /\ EStrings[e] \in Nat
        /\ MaxAt(Data(e)) \in Cells /\ LenAt(Data(e)) \in Cells /\ Data(e) \in Cells
    BY CellsFacts DEF First, LastCell, MaxAt, LenAt
  <2>2. ASSUME NEW f \in Names, f # e
        PROVE  /\ MaxAt(Data(f)) # MaxAt(Data(e)) /\ MaxAt(Data(f)) # LenAt(Data(e))
               /\ MaxAt(Data(f)) # Data(e)
    <3>1. Data(f) \in Nat /\ EStrings[f] \in Nat /\ MaxAt(Data(f)) \in Int
          /\ First(f) <= MaxAt(Data(f)) /\ MaxAt(Data(f)) <= LastCell(f)
      BY CellsFacts DEF First, LastCell, MaxAt
    <3>2. MaxAt(Data(f)) < First(e) \/ MaxAt(Data(f)) > LastCell(e)
      BY <2>2, <3>1, BlockApart
    <3> QED
      BY <2>1, <3>1, <3>2 DEF First, LastCell, MaxAt, LenAt
  <2>3. (CHOOSE f \in Names : MaxAt(Data(e)) = MaxAt(Data(f))) = e
    BY <2>2
  <2>4. mem[MaxAt(Data(e))] = EStrings[e]
    BY <2>1, <2>3 DEF Init
  <2>5. ~ \E f \in Names : LenAt(Data(e)) = MaxAt(Data(f))
    BY <2>1, <2>2 DEF LenAt, MaxAt
  <2>6. ~ \E f \in Names : Data(e) = MaxAt(Data(f))
    BY <2>1, <2>2 DEF MaxAt
  <2> QED
    BY <2>1, <2>4, <2>5, <2>6 DEF Init
<1>5. \A e \in Names : HeaderRight(mem, e)
  BY <1>4, CellsFacts DEF HeaderRight
<1>6. ASSUME NEW e \in Names PROVE Holds(mem, e, str[e])
  <2>1. Len(str[e]) = 0 /\ Data(e) + 0 = Data(e)
    BY <1>2, CellsFacts
  <2> QED
    BY <1>4, <2>1 DEF Holds, Begins, NUL
<1> QED
  BY <1>1, <1>3, <1>5, <1>6 DEF EStringInv

LEMMA SmallQuotient ==
  ASSUME NEW q \in Nat, NEW d \in Int, q > 0, q * d < q, q * d > 0 - q
  PROVE  d = 0
<1>1. CASE d >= 1
  <2>1. q * d = q * (d - 1) + q /\ q * (d - 1) >= 0
    BY <1>1
  <2> QED
    BY <2>1
<1>2. CASE d <= -1
  <2>1. q * d = 0 - (q * (0 - d - 1)) - q /\ q * (0 - d - 1) >= 0
    BY <1>2
  <2> QED
    BY <2>1
<1> QED
  BY <1>1, <1>2

LEMMA ModPeriod == ASSUME NEW x \in Nat, NEW q \in Nat \ {0} PROVE (x + q) % q = x % q
<1>1. x % q \in 0 .. q - 1 /\ x \div q \in Int /\ x = q * (x \div q) + (x % q)
  OBVIOUS
<1>2. /\ (x + q) % q \in 0 .. q - 1 /\ (x + q) \div q \in Int
      /\ x + q = q * ((x + q) \div q) + ((x + q) % q)
  OBVIOUS
<1>3. PICK r, k, r2, k2 : /\ r = x % q /\ k = x \div q
                          /\ r2 = (x + q) % q /\ k2 = (x + q) \div q
  OBVIOUS
<1>4. q * (k + 1 - k2) = r2 - r
  <2>1. q * (k + 1 - k2) = q * k + q - q * k2
    BY <1>1, <1>2, <1>3
  <2> QED
    BY <1>1, <1>2, <1>3, <2>1
<1>5. PICK d \in Int : d = k + 1 - k2
  BY <1>1, <1>2, <1>3
<1>6. q * d < q /\ q * d > 0 - q
  BY <1>1, <1>2, <1>3, <1>4, <1>5
<1>7. d = 0
  BY <1>6, SmallQuotient
<1> QED
  BY <1>1, <1>2, <1>3, <1>4, <1>5, <1>7

LEMMA ModSmall == ASSUME NEW x \in Nat, NEW q \in Nat, x < q PROVE x % q = x
  OBVIOUS

LEMMA ModRange == ASSUME NEW x \in Nat, NEW q \in Nat \ {0} PROVE x % q \in 0 .. q - 1
  OBVIOUS

-----------------------------------------------------------------------------
(* The routines that enter __strcore.                                      *)

LEMMA EnterInv ==
  ASSUME EStringInv, pc = "idle", NEW e \in Names,
         NEW t \in Seq(Bytes), Len(t) <= EStrings[e], str' = [str EXCEPT ![e] = t],
         pc' = "strcore", mem' = mem, Copying(e)'
  PROVE  EStringInv'
<1>1. str'[e] = t /\ DOMAIN str' = Names /\ \A f \in Names \ {e} : str'[f] = str[f]
  BY DEF EStringInv
<1>2. StrOK'
  BY <1>1 DEF EStringInv, StrOK
<1>3. OthersHold(e)'
  BY <1>1 DEF EStringInv, OthersHold, Holds, Begins
<1> QED
  BY <1>1, <1>2, <1>3 DEF EStringInv, HeaderRight

\* t has the first l characters of string e and m of src behind them, as many as
\* the maximum, the count and src allow.
Joins(t, e, l, src, m, n) ==
  /\ t \in Seq(Bytes) /\ Len(t) <= EStrings[e] /\ Len(t) = l + m
  /\ m <= Len(src) /\ (n # ALL => m <= n)
  /\ l + m = EStrings[e] \/ n = m \/ m = Len(src)
  /\ \A i \in 1 .. l : t[i] = str[e][i]
  /\ \A i \in 1 .. m : t[l + i] = src[i]

Registers(e, l, from, n) ==
  [d0 |-> Data(e), a0 |-> Data(e) + l, a1 |-> from, d2 |-> n, d3 |-> EStrings[e], d4 |-> l]

Plan(e, f, p, src, n, l, m, t) ==
  /\ src = Suffix(<<f, p>>) /\ p \in 0 .. Len(str[f])
  /\ n \in Int /\ n >= ALL
  /\ l \in 0 .. Len(str[e]) /\ m \in Nat
  /\ Joins(t, e, l, src, m, n)
  /\ f = e => p >= l

\* What is to be copied, the first m characters of what is at f from p on, lies ahead.
LEMMA EnterAhead ==
  ASSUME EStringInv, pc = "idle", NEW e \in Names, NEW f \in Names, NEW p, NEW src, NEW n, NEW l,
         NEW m, NEW t, Plan(e, f, p, src, n, l, m, t),
         reg' = Registers(e, l, Data(f) + p, n),
         pc' = "strcore", mem' = mem, str' = [str EXCEPT ![e] = t]
  PROVE  EStringInv'
<1>30. p \in 0 .. Len(str[f]) /\ n \in Int /\ n >= ALL /\ l \in 0 .. Len(str[e]) /\ m \in Nat
  BY DEF Plan
<1>0. src = Suffix(<<f, p>>) /\ Joins(t, e, l, src, m, n) /\ (f = e => p >= l)
  BY DEF Plan
<1>1. StrOK /\ Holds(mem, f, str[f]) /\ Holds(mem, e, str[e])
  BY DEF EStringInv
<1>2. /\ src \in Seq(Bytes) /\ Len(src) = Len(str[f]) - p /\ Len(src) \in Nat
      /\ \A i \in 1 .. Len(src) : src[i] = str[f][p + i]
  <2>1. Part(src, str[f], p, Len(str[f]))
    BY <1>0, <1>1, <1>30, SuffixFacts
  <2> QED
    BY <1>1, <2>1 DEF Part, StrOK
<1>3. /\ Data(e) \in Nat /\ EStrings[e] \in Nat /\ Data(f) \in Nat /\ EStrings[f] \in Nat
      /\ Len(str[f]) \in Nat /\ Len(str[f]) <= EStrings[f] /\ p \in Nat /\ p <= Len(str[f])
      /\ Len(str[e]) \in Nat /\ Len(str[e]) <= EStrings[e] /\ l \in Nat /\ l <= Len(str[e])
      /\ e \in Int /\ f \in Int
  <2>1. /\ Len(str[f]) \in Nat /\ Len(str[f]) <= EStrings[f]
        /\ Len(str[e]) \in Nat /\ Len(str[e]) <= EStrings[e]
    BY <1>1 DEF StrOK
  <2>2. Data(e) \in Nat /\ EStrings[e] \in Nat /\ Data(f) \in Nat /\ EStrings[f] \in Nat
    BY CellsFacts
  <2>3. e \in Int /\ f \in Int
    BY EStringsFacts
  <2>4. p \in Nat /\ p <= Len(str[f]) /\ l \in Nat /\ l <= Len(str[e])
    BY <1>30, <2>1
  <2> QED
    BY <2>1, <2>2, <2>3, <2>4
<1>20. /\ t \in Seq(Bytes) /\ Len(t) <= EStrings[e] /\ Len(t) = l + m
       /\ m <= Len(src) /\ (n # ALL => m <= n)
       /\ l + m = EStrings[e] \/ n = m \/ m = Len(src)
       /\ \A i \in 1 .. l : t[i] = str[e][i]
       /\ \A i \in 1 .. m : t[l + i] = src[i]
  BY <1>0 DEF Joins
<1>4. str'[e] = t
  BY DEF EStringInv
<1>5. /\ reg'.d0 = Data(e) /\ reg'.a0 = Data(e) + l /\ reg'.a1 = Data(f) + p /\ reg'.d2 = n
      /\ reg'.d3 = EStrings[e] /\ reg'.d4 = l
      /\ DOMAIN reg' = {"d0", "a0", "a1", "d2", "d3", "d4"}
  BY DEF Registers
<1>6. ASSUME NEW j \in 0 .. m - 1
      PROVE  (Data(f) + p) + j \in Cells /\ mem[(Data(f) + p) + j] = t[l + j + 1]
  <2>1. j \in Int /\ 0 <= j /\ j < m /\ m <= Len(src) /\ Len(src) = Len(str[f]) - p
    BY <1>2, <1>20, <1>30
  <2>2. j + 1 \in 1 .. m /\ j + 1 \in 1 .. Len(src) /\ l + j + 1 = l + (j + 1)
    <3>1. PICK n2 : n2 = Len(src)
      OBVIOUS
    <3>2. n2 \in Nat /\ l \in Nat /\ m \in Nat /\ j \in Int /\ 0 <= j /\ j < m /\ m <= n2
      BY <1>2, <1>3, <1>30, <2>1, <3>1
    <3>3. j + 1 \in 1 .. m /\ j + 1 \in 1 .. n2 /\ l + j + 1 = l + (j + 1)
      BY <3>2
    <3> QED
      BY <3>1, <3>3
  <2>3. p + j \in Int /\ 0 <= p + j /\ p + j <= Len(str[f]) - 1
    <3>1. PICK n1 : n1 = Len(str[f])
      OBVIOUS
    <3>2. n1 \in Nat /\ p \in Nat /\ j \in Int /\ 0 <= j /\ j < n1 - p
      BY <1>2, <1>3, <1>30, <2>1, <3>1
    <3> QED
      BY <3>1, <3>2
  <2>4. (Data(f) + p) + j = Data(f) + (p + j) /\ p + (j + 1) = (p + j) + 1
    BY <1>3, <2>1
  <2>5. PICK k : k = p + j
    OBVIOUS
  <2>6. k \in 0 .. Len(str[f]) - 1 /\ k \in 0 .. Len(str[f])
    <3>1. k \in Int /\ 0 <= k /\ k <= Len(str[f]) - 1 /\ Len(str[f]) \in Int
      BY <1>3, <2>3, <2>5
    <3> QED
      BY <3>1
  <2>7. Data(f) + k \in Cells /\ mem[Data(f) + k] = str[f][k + 1]
    BY <1>1, <2>6, TextAt
  <2>8. t[l + (j + 1)] = src[j + 1] /\ src[j + 1] = str[f][p + (j + 1)]
    BY <1>2, <1>20, <2>2
  <2> QED
    BY <2>2, <2>4, <2>5, <2>7, <2>8
<1>7. Data(f) + p >= Data(e) + l \/ Data(f) + p + m < Data(e) + l
  <2>1. PICK d, g : d = Data(e) /\ g = Data(f)
    OBVIOUS
  <2>2. d \in Nat /\ g \in Nat /\ p \in Nat /\ l \in Nat /\ EStrings[e] \in Nat /\ EStrings[f] \in Nat
    BY <1>3, <2>1
  <2>3. CASE e = f
    BY <1>0, <2>1, <2>2, <2>3
  <2>4. CASE e < f
    <3>1. LastCell(e) < First(f)
      BY <2>4, Apart
    <3>2. d + EStrings[e] < g - 2
      BY <2>1, <3>1 DEF First, LastCell
    <3>3. l <= EStrings[e]
      BY <1>3
    <3>4. m \in Nat
      BY <1>30
    <3> QED
      BY <2>1, <2>2, <3>2, <3>3, <3>4
  <2>5. CASE f < e
    <3>1. LastCell(f) < First(e)
      BY <2>5, Apart
    <3>2. g + EStrings[f] < d - 2
      BY <2>1, <3>1 DEF First, LastCell
    <3>3. p + m <= EStrings[f]
      <4>1. PICK n1 : n1 = Len(str[f])
        OBVIOUS
      <4>2. n1 \in Nat /\ m <= n1 - p /\ n1 <= EStrings[f]
        BY <1>2, <1>3, <1>20, <4>1
      <4> QED
        BY <1>30, <2>2, <4>2
    <3>4. m \in Nat
      BY <1>30
    <3> QED
      BY <2>1, <2>2, <3>2, <3>3, <3>4
  <2> QED
    BY <1>3, <2>3, <2>4, <2>5
<1>8. \/ l + m = EStrings[e]
      \/ n = m
      \/ (Data(f) + p) + m \in Cells /\ mem[(Data(f) + p) + m] = NUL
  <2>1. Data(f) + Len(str[f]) \in Cells /\ mem[Data(f) + Len(str[f])] = NUL
    <3>1. Len(str[f]) \in 0 .. Len(str[f])
      BY <1>3
    <3> QED
      BY <1>1, <3>1, TextAt
  <2>2. m = Len(src) => (Data(f) + p) + m = Data(f) + Len(str[f])
    <3>1. m = Len(src) => p + m = Len(str[f])
      BY <1>2, <1>3
    <3>2. (Data(f) + p) + m = Data(f) + (p + m)
      BY <1>3, <1>30
    <3> QED
      BY <3>1, <3>2
  <2> QED
    BY <1>20, <2>1, <2>2
<1>9. Ahead(t, m)'
  BY <1>5, <1>6, <1>7, <1>8 DEF Ahead
<1>10. Copying(e)'
  <2>1. Begins(mem', e, str'[e], reg'.d4)
    <3>1. ASSUME NEW i \in 1 .. l PROVE mem'[Data(e) + i - 1] = t[i]
      <4>1. i \in 1 .. Len(str[e])
        BY <1>3
      <4> QED
        BY <1>1, <1>20, <4>1 DEF Holds, Begins
    <3> QED
      BY <1>4, <1>5, <3>1 DEF Begins
  <2>2. Len(str'[e]) - reg'.d4 = m /\ reg'.d4 \in 0 .. Len(str'[e]) /\ reg'.a0 = Data(e) + reg'.d4
        /\ reg'.a1 \in Int /\ reg'.d2 \in Int
    <3>1. Len(t) - l = m /\ l \in 0 .. Len(t)
      BY <1>3, <1>20, <1>30
    <3>2. Data(f) + p \in Int
      BY <1>3
    <3> QED
      BY <1>4, <1>5, <1>30, <3>1, <3>2
  <2>3. reg'.d2 < 0 \/ reg'.d2 >= m
    BY <1>5, <1>20 DEF ALL
  <2>4. Ahead(str[e], m)' \/ Behind(str[e], m)'
    BY <1>4, <1>9 DEF Ahead
  <2> QED
    BY <1>5, <2>1, <2>2, <2>3, <2>4 DEF Copying
<1> QED
  BY <1>10, <1>20, EnterInv

LEMMA CopyInv ==
  ASSUME EStringInv, pc = "idle", NEW e \in Names, NEW f \in Names, NEW p \in 0 .. Len(str[f]),
         NEW n \in Int, n >= ALL,
         StrCore(Data(e), Data(e), Data(f) + p, n, 0),
         str' = [str EXCEPT ![e] = Prefix(Suffix(<<f, p>>), n, EStrings[e])]
  PROVE  EStringInv'
<1>1. PICK src : src = Suffix(<<f, p>>)
  OBVIOUS
<1>2. PICK t : t = Prefix(src, n, EStrings[e])
  OBVIOUS
<1>3. StrOK
  BY DEF EStringInv
<1>4. src \in Seq(Bytes)
  BY <1>1, <1>3, SuffixFacts DEF Part
<1>5. Data(e) \in Nat /\ EStrings[e] \in Nat /\ Len(str[e]) \in Nat /\ p \in Nat
  BY <1>3, CellsFacts DEF StrOK
<1>6. PICK max : max = EStrings[e]
  OBVIOUS
<1>7. max \in Nat /\ t = Prefix(src, n, max)
  BY <1>2, <1>5, <1>6
<1>8. /\ t \in Seq(Bytes) /\ Len(t) \in Nat /\ Len(t) <= Len(src) /\ Len(t) <= max
      /\ n # ALL => Len(t) <= n
      /\ Len(t) = max \/ Len(t) = n \/ Len(t) = Len(src)
      /\ \A i \in 1 .. Len(t) : t[i] = src[i]
  BY <1>4, <1>7, PrefixFacts
<1>9. /\ reg' = [d0 |-> Data(e), a0 |-> Data(e), a1 |-> Data(f) + p, d2 |-> n, d3 |-> EStrings[e], d4 |-> 0]
      /\ pc' = "strcore" /\ mem' = mem
  BY MaxLenIs DEF StrCore, EStringInv
<1>10. PICK m : m = Len(t)
  OBVIOUS
<1>11. PICK l : l = 0
  OBVIOUS
<1>12. l \in 0 .. Len(str[e]) /\ m \in Nat /\ (f = e => p >= l)
  BY <1>5, <1>8, <1>10, <1>11
<1>13. Joins(t, e, l, src, m, n)
  <2>1. \A i \in 1 .. l : t[i] = str[e][i]
    BY <1>11
  <2>2. \A i \in 1 .. m : t[l + i] = src[i]
    BY <1>8, <1>10, <1>11
  <2>3. Len(t) = l + m
    BY <1>8, <1>10, <1>11
  <2> QED
    BY <1>6, <1>8, <1>10, <2>1, <2>2, <2>3 DEF Joins
<1>14. reg' = Registers(e, l, Data(f) + p, n)
  <2>1. Data(e) + l = Data(e)
    BY <1>5, <1>11
  <2> QED
    BY <1>9, <1>11, <2>1 DEF Registers
<1>15. str' = [str EXCEPT ![e] = t]
  BY <1>1, <1>2
<1> QED
  <2>1. Plan(e, f, p, src, n, l, m, t)
    BY <1>1, <1>12, <1>13 DEF Plan
  <2> QED
    BY <1>9, <1>14, <1>15, <2>1, EnterAhead

LEMMA CountsInt == ASSUME NEW n \in Counts PROVE n \in Int /\ n >= ALL
<1>1. 1 \in Names
  BY EStringsFacts
<1> QED
  BY <1>1, CellsFacts DEF Counts, ALL

LEMMA StrCopyInv ==
  ASSUME EStringInv, NEW e \in Names, NEW src \in Places, NEW n \in Counts, StrCopy(e, src, n)
  PROVE  EStringInv'
<1>1. PICK f, p : src = <<f, p>> /\ f \in Names /\ p \in Nat /\ p <= Len(str[f])
  BY EStringsFacts DEF Places
<1>2. f \in Names /\ p \in 0 .. Len(str[f])
  BY <1>1 DEF EStringInv, StrOK
<1>3. n \in Int /\ n >= ALL
  BY CountsInt
<1>4. /\ pc = "idle" /\ StrCore(Data(e), Data(e), Data(f) + p, n, 0)
      /\ str' = [str EXCEPT ![e] = Prefix(Suffix(<<f, p>>), n, EStrings[e])]
  BY <1>1 DEF StrCopy, Place
<1> QED
  BY <1>2, <1>3, <1>4, CopyInv

LEMMA MidStrInv ==
  ASSUME EStringInv, NEW e \in Names, NEW f \in Names, NEW p \in 0 .. SignLimit, p <= Len(str[f]),
         NEW n \in Counts, MidStr(e, f, p, n)
  PROVE  EStringInv'
<1>1. f \in Names /\ p \in 0 .. Len(str[f])
  BY EStringsFacts DEF EStringInv, StrOK
<1>2. n \in Int /\ n >= ALL
  BY CountsInt
<1>3. /\ pc = "idle" /\ StrCore(Data(e), Data(e), Data(f) + p, n, 0)
      /\ str' = [str EXCEPT ![e] = Prefix(Suffix(<<f, p>>), n, EStrings[e])]
  BY DEF MidStr
<1> QED
  BY <1>1, <1>2, <1>3, CopyInv

LEMMA RightStrInv ==
  ASSUME EStringInv, NEW e \in Names, NEW f \in Names, NEW n \in Counts \ {ALL}, RightStr(e, f, n)
  PROVE  EStringInv'
<1>1. n \in Int /\ n >= 0
  BY CountsInt DEF ALL
<1>2. pc = "idle" /\ StrOK /\ Holds(mem, f, str[f])
  BY DEF RightStr, EStringInv
<1>3. CurLen(Data(f)) = Len(str[f]) /\ Len(str[f]) \in Nat
  BY <1>2, TextAt DEF StrOK
<1>4. PICK l : l = Len(str[f])
  OBVIOUS
<1>5. PICK p : p = IF l - n < 0 THEN 0 ELSE l - n
  OBVIOUS
<1>6. /\ p \in 0 .. l
      /\ l - Least(n, l) + 1 = p + 1
  <2>1. l \in Nat
    BY <1>3, <1>4
  <2>2. CASE n < l
    BY <1>1, <1>5, <2>1, <2>2 DEF Least
  <2>3. CASE ~ n < l
    BY <1>1, <1>5, <2>1, <2>3 DEF Least
  <2> QED
    BY <2>2, <2>3
<1>7. StrCore(Data(e), Data(e), Data(f) + p, ALL, 0)
  BY <1>3, <1>4, <1>5 DEF RightStr
<1>8. str' = [str EXCEPT ![e] = Prefix(SubSeq(str[f], l - Least(n, l) + 1, l), ALL, EStrings[e])]
  BY <1>4 DEF RightStr
<1>9. SubSeq(str[f], l - Least(n, l) + 1, l) = Suffix(<<f, p>>)
  BY <1>4, <1>6 DEF Suffix
<1>10. str' = [str EXCEPT ![e] = Prefix(Suffix(<<f, p>>), ALL, EStrings[e])]
  BY <1>8, <1>9
<1>11. ALL \in Int /\ ALL >= ALL
  BY DEF ALL
<1> QED
  BY <1>2, <1>4, <1>6, <1>7, <1>10, <1>11, CopyInv

Joined(t, s, r) ==
  /\ t \in Seq(Bytes) /\ Len(t) = Len(s) + Len(r)
  /\ \A i \in 1 .. Len(s) + Len(r) : t[i] = IF i <= Len(s) THEN s[i] ELSE r[i - Len(s)]

LEMMA JoinFacts ==
  ASSUME NEW s \in Seq(Bytes), NEW r \in Seq(Bytes), NEW t, t = s \o r
  PROVE  Joined(t, s, r)
  BY ConcatProperties DEF Joined

\* t is string e with count characters of src behind it; src comes round again when
\* it is the string's own.
Appends(t, e, own, src, n, count) ==
  /\ Len(str[e]) + count <= EStrings[e]
  /\ t \in Seq(Bytes) /\ Len(t) = Len(str[e]) + count
  /\ \A i \in 1 .. Len(str[e]) : t[i] = str[e][i]
  /\ \A i \in 1 .. count : /\ ((i - 1) % Len(src)) + 1 \in 1 .. Len(src)
                           /\ t[Len(str[e]) + i] = src[((i - 1) % Len(src)) + 1]
  /\ n # ALL => count <= n
  /\ IF own THEN Len(str[e]) + count = EStrings[e] \/ count = n
     ELSE /\ count <= Len(src)
          /\ Len(str[e]) + count = EStrings[e] \/ count = n \/ count = Len(src)

LEMMA AppendedFacts ==
  ASSUME StrOK, NEW e \in Names, NEW f \in Names, NEW p \in 0 .. Len(str[f]),
         NEW n \in Int, n >= ALL, NEW src, src = Suffix(<<f, p>>),
         NEW t, t = Appended(e, <<f, p>>, n)
  PROVE  \E count \in Nat : Appends(t, e, f = e /\ src # << >>, src, n, count)
<1> DEFINE old == str[e]
           own == f = e /\ src # << >>
           room == EStrings[e] - Len(old)
           count == Least(room, IF n = ALL THEN (IF own THEN room ELSE Len(src))
                                ELSE IF own THEN n ELSE Least(n, Len(src)))
           new == [i \in 1 .. count |-> src[((i - 1) % Len(src)) + 1]]
<1>1. old \in Seq(Bytes) /\ Len(old) \in Nat /\ room \in Nat
  BY CellsFacts DEF StrOK
<1>2. src \in Seq(Bytes) /\ Len(src) \in Nat
  BY SuffixFacts DEF Part
<1>3. t = old \o new
  BY DEF Appended
<1>4. /\ count \in Nat /\ count <= room /\ (n # ALL => count <= n)
      /\ IF own THEN count = room \/ count = n
         ELSE count <= Len(src) /\ (count = room \/ count = n \/ count = Len(src))
  BY <1>1, <1>2 DEF Least, ALL
<1>5. count > 0 => Len(src) > 0
  <2>1. src # << >> => Len(src) > 0
    BY <1>2
  <2> HIDE DEF count
  <2> QED
    BY <1>2, <1>4, <2>1
<1> HIDE DEF count
<1>6. ASSUME NEW i \in 1 .. count
      PROVE  /\ ((i - 1) % Len(src)) + 1 \in 1 .. Len(src)
             /\ new[i] = src[((i - 1) % Len(src)) + 1] /\ new[i] \in Bytes
  <2>1. i - 1 \in Nat /\ Len(src) \in Nat \ {0}
    BY <1>2, <1>4, <1>5
  <2>2. PICK r : r = (i - 1) % Len(src)
    OBVIOUS
  <2>3. r \in 0 .. Len(src) - 1
    BY <2>1, <2>2, ModRange
  <2>4. r + 1 \in 1 .. Len(src)
    BY <2>1, <2>3
  <2>5. new[i] = src[r + 1]
    BY <2>2
  <2>6. src[r + 1] \in Bytes
    BY <1>2, <2>4
  <2> QED
    BY <2>2, <2>4, <2>5, <2>6
<1>7. new \in Seq(Bytes) /\ Len(new) = count
  <2>1. new \in [1 .. count -> Bytes]
    BY <1>6
  <2> HIDE DEF new
  <2> QED
    BY <1>4, <2>1
<1>8. \A i \in 1 .. count : new[i] = src[((i - 1) % Len(src)) + 1]
  BY <1>6
<1> HIDE DEF new
<1>9. /\ t \in Seq(Bytes) /\ Len(t) = Len(old) + count
      /\ \A i \in 1 .. Len(old) : t[i] = old[i]
      /\ \A i \in 1 .. count : t[Len(old) + i] = new[i]
  <2>0. PICK s : s = old
    OBVIOUS
  <2>10. s \in Seq(Bytes) /\ new \in Seq(Bytes) /\ t = s \o new
    BY <1>1, <1>3, <1>7, <2>0
  <2>11. Joined(t, s, new)
    BY <2>10, JoinFacts
  <2>1. t \in Seq(Bytes) /\ Len(t) = Len(old) + Len(new)
    BY <2>0, <2>11 DEF Joined
  <2>2. \A i \in 1 .. Len(old) + Len(new) :
          t[i] = IF i <= Len(old) THEN old[i] ELSE new[i - Len(old)]
    BY <2>0, <2>11 DEF Joined
  <2>3. ASSUME NEW i \in 1 .. Len(old) PROVE t[i] = old[i]
    <3>1. i \in 1 .. Len(old) + Len(new) /\ i <= Len(old)
      BY <1>1, <1>4, <1>7
    <3> QED
      BY <2>2, <3>1
  <2>4. ASSUME NEW i \in 1 .. count PROVE t[Len(old) + i] = new[i]
    <3>1. PICK k : k = Len(old) + i
      OBVIOUS
    <3>2. k \in 1 .. Len(old) + Len(new) /\ ~ k <= Len(old) /\ k - Len(old) = i
      BY <1>1, <1>4, <1>7, <3>1
    <3> QED
      BY <2>2, <3>1, <3>2
  <2> QED
    BY <1>7, <2>1, <2>3, <2>4
<1>10. Len(old) + count <= EStrings[e] /\ (count = room => Len(old) + count = EStrings[e])
  <2>1. PICK n1 : n1 = Len(old)
    OBVIOUS
  <2>2. EStrings[e] \in Nat
    BY CellsFacts
  <2>3. n1 \in Nat /\ count \in Nat /\ count <= EStrings[e] - n1
    BY <1>1, <1>4, <2>1
  <2>4. n1 + count <= EStrings[e] /\ (count = EStrings[e] - n1 => n1 + count = EStrings[e])
    BY <2>2, <2>3
  <2> QED
    BY <2>1, <2>4
<1>11. count = room => Len(old) + count = EStrings[e]
  BY <1>10
<1>12. ASSUME NEW i \in 1 .. count
       PROVE  /\ ((i - 1) % Len(src)) + 1 \in 1 .. Len(src)
              /\ t[Len(str[e]) + i] = src[((i - 1) % Len(src)) + 1]
  BY <1>6, <1>8, <1>9
<1>13. IF f = e /\ src # << >>
       THEN Len(str[e]) + count = EStrings[e] \/ count = n
       ELSE /\ count <= Len(src)
            /\ Len(str[e]) + count = EStrings[e] \/ count = n \/ count = Len(src)
  <2>1. CASE own
    BY <1>4, <1>11, <2>1
  <2>2. CASE ~ own
    BY <1>4, <1>11, <2>2
  <2> QED
    BY <2>1, <2>2
<1>14. count \in Nat /\ (n # ALL => count <= n)
  BY <1>4
<1>15. t \in Seq(Bytes) /\ Len(t) = Len(str[e]) + count /\ \A i \in 1 .. Len(str[e]) : t[i] = str[e][i]
  BY <1>9
<1>16. Appends(t, e, f = e /\ src # << >>, src, n, count)
  BY <1>10, <1>12, <1>13, <1>14, <1>15 DEF Appends
<1> QED
  BY <1>14, <1>16

\* A string that takes from itself: what it has written is what it reads.
LEMMA EnterBehind ==
  ASSUME EStringInv, pc = "idle", NEW e \in Names, NEW p \in 0 .. Len(str[e]),
         NEW src, src = Suffix(<<e, p>>), src # << >>, NEW n \in Int, n >= ALL,
         NEW t, NEW m \in Nat, Appends(t, e, TRUE, src, n, m),
         reg' = Registers(e, Len(str[e]), Data(e) + p, n),
         pc' = "strcore", mem' = mem, str' = [str EXCEPT ![e] = t]
  PROVE  EStringInv'
<1>1. StrOK /\ Holds(mem, e, str[e])
  BY DEF EStringInv
<1>2. PICK old, l, q : old = str[e] /\ l = Len(old) /\ q = l - p
  OBVIOUS
<1>3. old \in Seq(Bytes) /\ l \in Nat /\ p \in Nat /\ p <= l
  BY <1>1, <1>2 DEF StrOK
<1>4. src \in Seq(Bytes) /\ Len(src) = q /\ \A i \in 1 .. q : src[i] = old[p + i]
  <2>1. Part(src, str[e], p, Len(str[e]))
    BY <1>1, SuffixFacts
  <2> QED
    BY <1>2, <2>1 DEF Part
<1>5. q \in Nat /\ q > 0 /\ q <= l
  BY <1>2, <1>3, <1>4
<1>6. /\ t \in Seq(Bytes) /\ Len(t) = l + m /\ l + m <= EStrings[e]
      /\ \A i \in 1 .. l : t[i] = old[i]
      /\ \A i \in 1 .. m : t[l + i] = src[((i - 1) % q) + 1]
      /\ l + m = EStrings[e] \/ m = n
      /\ n # ALL => m <= n
  BY <1>2, <1>4 DEF Appends
<1>7. ASSUME NEW k \in 1 .. m PROVE t[l + k] = t[l + k - q]
  <2>1. k \in Nat /\ k > 0 /\ k <= m
    OBVIOUS
  <2>2. PICK x : x = k - 1
    OBVIOUS
  <2>3. x \in Nat
    BY <2>1, <2>2
  <2>4. t[l + k] = src[(x % q) + 1]
    BY <1>6, <2>2
  <2>5. CASE x < q
    <3>1. x % q = x
      BY <1>5, <2>3, <2>5, ModSmall
    <3>2. k \in 1 .. q /\ x + 1 = k
      BY <1>5, <2>1, <2>2, <2>5
    <3>3. t[l + k] = old[p + k]
      BY <1>4, <2>4, <3>1, <3>2
    <3>4. l + k - q = p + k /\ p + k \in 1 .. l
      BY <1>2, <1>3, <1>5, <3>2
    <3> QED
      BY <1>6, <3>3, <3>4
  <2>6. CASE ~ x < q
    <3>1. PICK y : y = x - q
      OBVIOUS
    <3>2. y \in Nat /\ x = y + q
      BY <1>5, <2>3, <2>6, <3>1
    <3>3. x % q = y % q
      <4>1. q \in Nat \ {0}
        BY <1>5
      <4> QED
        BY <3>2, <4>1, ModPeriod
    <3>4. PICK i : i = k - q
      OBVIOUS
    <3>5. i \in 1 .. m /\ i - 1 = y
      BY <1>5, <2>1, <2>2, <3>1, <3>2, <3>4
    <3>6. t[l + i] = src[(y % q) + 1]
      BY <1>6, <3>5
    <3>7. l + i = l + k - q
      BY <1>3, <1>5, <2>1, <3>4
    <3> QED
      BY <2>4, <3>3, <3>6, <3>7
  <2> QED
    BY <2>5, <2>6
<1>8. str'[e] = t
  BY DEF EStringInv
<1>9. /\ reg'.d0 = Data(e) /\ reg'.a0 = Data(e) + l /\ reg'.a1 = Data(e) + p /\ reg'.d2 = n
      /\ reg'.d3 = EStrings[e] /\ reg'.d4 = l
      /\ DOMAIN reg' = {"d0", "a0", "a1", "d2", "d3", "d4"}
  BY <1>2 DEF Registers
<1>10. Data(e) \in Nat
  BY CellsFacts
<1>11. Behind(t, m)'
  <2>1. q \in 1 .. reg'.d4
    BY <1>3, <1>5, <1>9
  <2>2. reg'.a1 = reg'.a0 - q
    BY <1>2, <1>3, <1>9, <1>10
  <2>3. ASSUME NEW i \in reg'.d4 + 1 .. reg'.d4 + m PROVE t[i] = t[i - q]
    <3>1. PICK k : k = i - l
      OBVIOUS
    <3>2. i \in Int /\ l + 1 <= i /\ i <= l + m
      BY <1>3, <1>9
    <3>3. k \in 1 .. m /\ l + k = i
      BY <1>3, <3>1, <3>2
    <3>4. PICK x, y : x = l + k /\ y = l + k - q
      OBVIOUS
    <3>5. t[x] = t[y]
      BY <1>7, <3>3, <3>4
    <3>6. x = i /\ y = i - q
      BY <1>3, <1>5, <3>2, <3>3, <3>4
    <3> QED
      BY <3>5, <3>6
  <2>4. reg'.d4 + m = reg'.d3 \/ reg'.d2 = m
    BY <1>6, <1>9
  <2> QED
    BY <2>1, <2>2, <2>3, <2>4 DEF Behind
<1>12. Copying(e)'
  <2>1. Begins(mem', e, str'[e], reg'.d4)
    <3>1. ASSUME NEW i \in 1 .. l PROVE mem'[Data(e) + i - 1] = t[i]
      BY <1>1, <1>2, <1>6 DEF Holds, Begins
    <3> QED
      BY <1>8, <1>9, <3>1 DEF Begins
  <2>2. Len(str'[e]) - reg'.d4 = m /\ reg'.d4 \in 0 .. Len(str'[e]) /\ reg'.a0 = Data(e) + reg'.d4
        /\ reg'.a1 \in Int /\ reg'.d2 \in Int
    BY <1>3, <1>6, <1>8, <1>9, <1>10
  <2>3. reg'.d2 < 0 \/ reg'.d2 >= m
    BY <1>6, <1>9 DEF ALL
  <2>4. Ahead(str[e], m)' \/ Behind(str[e], m)'
    BY <1>8, <1>11 DEF Behind
  <2> QED
    BY <1>9, <2>1, <2>2, <2>3, <2>4 DEF Copying
<1>13. Len(t) <= EStrings[e]
  BY <1>6
<1> QED
  BY <1>6, <1>12, <1>13, EnterInv

LEMMA StrAddInv ==
  ASSUME EStringInv, NEW e \in Names, NEW place \in Places, NEW n \in Counts, StrAdd(e, place, n)
  PROVE  EStringInv'
<1>1. PICK f, p : place = <<f, p>> /\ f \in Names /\ p \in Nat /\ p <= Len(str[f])
  BY EStringsFacts DEF Places
<1>2. pc = "idle" /\ StrOK /\ Holds(mem, e, str[e])
  BY DEF StrAdd, EStringInv
<1>3. f \in Names /\ p \in 0 .. Len(str[f])
  BY <1>1, <1>2 DEF StrOK
<1>4. n \in Int /\ n >= ALL
  BY CountsInt
<1>5. PICK src, t : src = Suffix(<<f, p>>) /\ t = Appended(e, <<f, p>>, n)
  OBVIOUS
<1>6. PICK m \in Nat : Appends(t, e, f = e /\ src # << >>, src, n, m)
  BY <1>2, <1>3, <1>4, <1>5, AppendedFacts
<1>7. CurLen(Data(e)) = Len(str[e]) /\ Len(str[e]) \in Nat
  BY <1>2, TextAt DEF StrOK
<1>8. MaxLen(Data(e)) = EStrings[e]
  BY MaxLenIs DEF EStringInv
<1>9. /\ reg' = Registers(e, Len(str[e]), Data(f) + p, n)
      /\ pc' = "strcore" /\ mem' = mem
  BY <1>1, <1>7, <1>8 DEF StrAdd, StrCore, Place, Registers
<1>10. str' = [str EXCEPT ![e] = t]
  BY <1>1, <1>5 DEF StrAdd
<1>11. CASE f = e /\ src # << >>
  <2>1. Appends(t, e, TRUE, src, n, m)
    BY <1>6, <1>11 DEF Appends
  <2>2. p \in 0 .. Len(str[e]) /\ src = Suffix(<<e, p>>) /\ src # << >>
        /\ reg' = Registers(e, Len(str[e]), Data(e) + p, n)
    BY <1>3, <1>5, <1>9, <1>11
  <2> QED
    BY <1>2, <1>4, <1>9, <1>10, <2>1, <2>2, EnterBehind
<1>12. CASE ~ (f = e /\ src # << >>)
  <2>1. /\ Len(str[e]) + m <= EStrings[e]
        /\ t \in Seq(Bytes) /\ Len(t) = Len(str[e]) + m
        /\ \A i \in 1 .. Len(str[e]) : t[i] = str[e][i]
        /\ \A i \in 1 .. m : t[Len(str[e]) + i] = src[((i - 1) % Len(src)) + 1]
        /\ n # ALL => m <= n
        /\ m <= Len(src)
        /\ Len(str[e]) + m = EStrings[e] \/ m = n \/ m = Len(src)
    BY <1>6, <1>12 DEF Appends
  <2>2. src \in Seq(Bytes) /\ Len(src) \in Nat /\ Len(src) = Len(str[f]) - p
    <3>1. Part(src, str[f], p, Len(str[f]))
      BY <1>2, <1>3, <1>5, SuffixFacts
    <3> QED
      BY <3>1 DEF Part
  <2>3. ASSUME NEW i \in 1 .. m PROVE t[Len(str[e]) + i] = src[i]
    <3>1. PICK x, q : x = i - 1 /\ q = Len(src)
      OBVIOUS
    <3>2. x \in Nat /\ q \in Nat /\ x < q /\ x + 1 = i
      BY <2>1, <2>2, <3>1
    <3>3. x % q = x
      BY <3>2, ModSmall
    <3>4. t[Len(str[e]) + i] = src[(x % q) + 1]
      BY <2>1, <3>1
    <3> QED
      BY <3>2, <3>3, <3>4
  <2>4. Joins(t, e, Len(str[e]), src, m, n)
    BY <2>1, <2>3 DEF Joins
  <2>5. f = e => p >= Len(str[e])
    <3>1. src = << >> => Len(src) = 0
      OBVIOUS
    <3> QED
      BY <1>1, <1>7, <1>12, <2>2, <3>1
  <2>6. Plan(e, f, p, src, n, Len(str[e]), m, t)
    BY <1>3, <1>4, <1>5, <1>7, <2>4, <2>5 DEF Plan
  <2> QED
    BY <1>2, <1>3, <1>9, <1>10, <2>6, EnterAhead
<1> QED
  BY <1>11, <1>12

-----------------------------------------------------------------------------
(* The copying loop.                                                       *)

\* A character is what the loop finds while there is something left to copy.
LEMMA NextChar ==
  ASSUME EStringInv, NEW e \in Names, Copying(e),
         NEW m, m = Len(str[e]) - reg.d4, m > 0
  PROVE  /\ mem[reg.a1] = str[e][reg.d4 + 1] /\ str[e][reg.d4 + 1] \in Bytes
         /\ reg.d4 < reg.d3 /\ reg.d2 # 0
<1>1. /\ str[e] \in Seq(Bytes) /\ Len(str[e]) \in Nat /\ Len(str[e]) <= EStrings[e]
      /\ Data(e) \in Nat /\ EStrings[e] \in Nat
  BY CellsFacts DEF EStringInv, StrOK
<1>2. /\ reg.d4 \in Nat /\ reg.d3 = EStrings[e] /\ m \in Nat
      /\ reg.a0 = Data(e) + reg.d4 /\ reg.a1 \in Int /\ reg.d2 \in Int
      /\ reg.d2 < 0 \/ reg.d2 >= m
      /\ Begins(mem, e, str[e], reg.d4)
      /\ Ahead(str[e], m) \/ Behind(str[e], m)
  BY <1>1 DEF Copying
<1>3. PICK l : l = reg.d4
  OBVIOUS
<1>4. l \in Nat /\ l + 1 \in 1 .. Len(str[e]) /\ l + m = Len(str[e])
  <2>1. PICK n : n = Len(str[e])
    OBVIOUS
  <2>2. n \in Nat /\ l \in Nat /\ m = n - l /\ m > 0
    BY <1>1, <1>2, <1>3, <2>1
  <2>3. l + 1 \in 1 .. n /\ l + m = n
    BY <2>2
  <2> QED
    BY <2>1, <2>2, <2>3
<1>5. str[e][l + 1] \in Bytes
  BY <1>1, <1>4
<1>6. mem[reg.a1] = str[e][l + 1]
  <2>1. CASE Ahead(str[e], m)
    <3>1. 0 \in 0 .. m - 1 /\ reg.a1 + 0 = reg.a1 /\ reg.d4 + 0 + 1 = l + 1
      BY <1>2, <1>3
    <3>2. mem[reg.a1 + 0] = str[e][reg.d4 + 0 + 1]
      BY <2>1, <3>1 DEF Ahead
    <3> QED
      BY <3>1, <3>2
  <2>2. CASE Behind(str[e], m)
    <3>1. PICK q \in 1 .. l : /\ reg.a1 = reg.a0 - q
                              /\ \A i \in l + 1 .. l + m : str[e][i] = str[e][i - q]
      BY <1>3, <2>2 DEF Behind
    <3>2. PICK i : i = l + 1 - q
      OBVIOUS
    <3>3. i \in 1 .. l /\ reg.a1 = Data(e) + i - 1
      <4>1. q \in Int /\ 1 <= q /\ q <= l
        BY <1>4
      <4>2. reg.a1 = Data(e) + l - q
        <5>1. reg.a1 = reg.a0 - q /\ reg.a0 = Data(e) + l
          BY <1>2, <1>3, <3>1
        <5> QED
          BY <1>1, <1>4, <4>1, <5>1
      <4> QED
        BY <1>1, <1>4, <3>2, <4>1, <4>2
    <3>4. mem[reg.a1] = str[e][i]
      BY <1>2, <1>3, <3>3 DEF Begins
    <3>5. str[e][l + 1] = str[e][l + 1 - q]
      <4>1. PICK x, y : x = l + 1 /\ y = l + 1 - q
        OBVIOUS
      <4>2. x \in l + 1 .. l + m /\ x - q = y
        BY <1>2, <1>4, <4>1
      <4>3. str[e][x] = str[e][y]
        BY <3>1, <4>2
      <4> QED
        BY <4>1, <4>3
    <3>6. PICK x : x = l + 1
      OBVIOUS
    <3>7. str[e][x] = str[e][i]
      BY <3>2, <3>5, <3>6
    <3> QED
      BY <3>4, <3>6, <3>7
  <2> QED
    BY <1>2, <2>1, <2>2
<1>7. reg.d4 < reg.d3 /\ reg.d2 # 0
  BY <1>1, <1>2, <1>3, <1>4
<1> QED
  BY <1>3, <1>5, <1>6, <1>7

\* With nothing left to copy the loop stops.
LEMMA NothingLeft ==
  ASSUME EStringInv, NEW e \in Names, Copying(e), reg.d4 = Len(str[e])
  PROVE  reg.d4 >= reg.d3 \/ reg.d2 = 0 \/ mem[reg.a1] = NUL
<1>1. Len(str[e]) \in Nat /\ EStrings[e] \in Nat
  BY CellsFacts DEF EStringInv, StrOK
<1>2. PICK m : m = Len(str[e]) - reg.d4
  OBVIOUS
<1>3. /\ m = 0 /\ reg.d4 + m = reg.d4 /\ reg.d4 \in Nat
      /\ Ahead(str[e], m) \/ Behind(str[e], m)
      /\ reg.d3 \in Nat /\ reg.a1 \in Int /\ reg.a1 + m = reg.a1
  BY <1>1, <1>2 DEF Copying
<1>4. CASE Ahead(str[e], m)
  BY <1>3, <1>4 DEF Ahead
<1>5. CASE Behind(str[e], m)
  BY <1>3, <1>5 DEF Behind
<1> QED
  BY <1>3, <1>4, <1>5

\* A byte is written where the text of e goes on.
LEMMA PutChar ==
  ASSUME EStringInv, NEW e \in Names, OthersHold(e), NEW l \in Nat, l < EStrings[e], NEW c,
         NEW t, Begins(mem, e, t, l), t[l + 1] = c,
         mem' = [mem EXCEPT ![Data(e) + l] = c]
  PROVE  /\ Data(e) + l \in Cells /\ mem'[Data(e) + l] = c /\ DOMAIN mem' = Cells
         /\ \A x \in Cells : x # Data(e) + l => mem'[x] = mem[x]
         /\ Begins(mem', e, t, l + 1)
         /\ \A f \in Names : HeaderRight(mem', f)
         /\ \A f \in Names \ {e} : Holds(mem', f, str[f])
<1>1. Data(e) \in Nat /\ Data(e) >= 2 /\ EStrings[e] \in Nat /\ DOMAIN mem = Cells
  BY CellsFacts DEF EStringInv
<1>2. PICK a : a = Data(e) + l
  OBVIOUS
<1>3. a \in Int /\ First(e) <= a /\ a <= LastCell(e) /\ LenAt(Data(e)) < a
  BY <1>1, <1>2 DEF First, LastCell, LenAt
<1>4. a \in Cells
  BY <1>3, CellsFacts
<1>5. mem' = [mem EXCEPT ![a] = c]
  BY <1>2
<1>6. mem'[a] = c /\ DOMAIN mem' = Cells /\ \A x \in Cells : x # a => mem'[x] = mem[x]
  BY <1>1, <1>4, <1>5
<1>7. OnlyIn(mem, mem', e)
  BY <1>1, <1>3, <1>6 DEF OnlyIn, LenAt, LastCell
<1>8. ASSUME NEW f \in Names, f # e PROVE HeaderRight(mem', f) /\ Holds(mem', f, str[f])
  <2>1. HeaderRight(mem, f) /\ Holds(mem, f, str[f]) /\ str[f] \in Seq(Bytes) /\ Len(str[f]) <= EStrings[f]
    BY <1>8 DEF EStringInv, OthersHold, StrOK
  <2>2. PICK n : n = mem'
    OBVIOUS
  <2>3. OnlyIn(mem, n, e)
    BY <1>7, <2>2
  <2>4. HeaderRight(n, f) /\ Holds(n, f, str[f])
    BY <1>8, <2>1, <2>3, OthersKept
  <2> QED
    BY <2>2, <2>4
<1>9. HeaderRight(mem', e)
  <2>1. MaxAt(Data(e)) \in Cells /\ LenAt(Data(e)) \in Cells
    BY <1>1, CellsFacts DEF First, LastCell, MaxAt, LenAt
  <2>2. MaxAt(Data(e)) # a /\ LenAt(Data(e)) # a
    BY <1>1, <1>3 DEF MaxAt, LenAt
  <2>3. HeaderRight(mem, e)
    BY DEF EStringInv
  <2> QED
    BY <1>6, <2>1, <2>2, <2>3 DEF HeaderRight
<1>10. Begins(mem', e, t, l + 1)
  <2>1. ASSUME NEW i \in 1 .. l + 1 PROVE mem'[Data(e) + i - 1] = t[i]
    <3>1. CASE i = l + 1
      BY <1>1, <1>2, <1>6, <3>1
    <3>2. CASE i # l + 1
      <4>1. i \in 1 .. l
        BY <3>2
      <4>2. PICK x : x = Data(e) + i - 1
        OBVIOUS
      <4>3. x \in Int /\ First(e) <= x /\ x <= LastCell(e) /\ x # a
        BY <1>1, <1>2, <4>1, <4>2 DEF First, LastCell
      <4>4. x \in Cells
        BY <4>3, CellsFacts
      <4>5. mem[x] = t[i]
        BY <4>1, <4>2 DEF Begins
      <4> QED
        BY <1>6, <4>2, <4>3, <4>4, <4>5
    <3> QED
      BY <3>1, <3>2
  <2> QED
    BY <2>1 DEF Begins
<1> QED
  BY <1>2, <1>4, <1>6, <1>8, <1>9, <1>10

LEMMA CopyCharInv == ASSUME EStringInv, CopyChar PROVE EStringInv'
<1>1. PICK e \in Names : Copying(e) /\ OthersHold(e)
  BY DEF EStringInv, CopyChar
<1>2. PICK l, m, t : l = reg.d4 /\ m = Len(str[e]) - l /\ t = str[e]
  OBVIOUS
<1>3. /\ t \in Seq(Bytes) /\ Len(t) \in Nat /\ Len(t) <= EStrings[e]
      /\ Data(e) \in Nat /\ EStrings[e] \in Nat
  BY <1>2, CellsFacts DEF EStringInv, StrOK
<1>4. l \in Nat /\ l < EStrings[e] /\ m \in Nat /\ m > 0 /\ m = Len(t) - l
  <2>1. l # Len(str[e])
    <3>1. SUFFICES ASSUME reg.d4 = Len(str[e]) PROVE FALSE
      BY <1>2
    <3>2. reg.d4 >= reg.d3 \/ reg.d2 = 0 \/ mem[reg.a1] = NUL
      BY <1>1, <3>1, NothingLeft
    <3>3. reg.d4 < reg.d3 /\ reg.d2 # 0 /\ mem[reg.a1] # NUL
      BY DEF CopyChar
    <3>4. reg.d4 \in Int /\ reg.d3 \in Int
      BY <1>1, <1>2, <1>3, <3>1 DEF Copying
    <3> QED
      BY <3>2, <3>3, <3>4
  <2> QED
    BY <1>1, <1>2, <1>3, <2>1 DEF Copying
<1>5. mem[reg.a1] = t[l + 1] /\ reg.a0 = Data(e) + l
  BY <1>1, <1>2, <1>4, NextChar DEF Copying
<1>6. mem' = [mem EXCEPT ![Data(e) + l] = t[l + 1]]
  BY <1>5 DEF CopyChar
<1>7. Begins(mem, e, t, l)
  BY <1>1, <1>2 DEF Copying
<1>8. PICK a : a = Data(e) + l
  OBVIOUS
<1>9. /\ a \in Cells /\ mem'[a] = t[l + 1] /\ DOMAIN mem' = Cells
      /\ \A x \in Cells : x # a => mem'[x] = mem[x]
      /\ Begins(mem', e, t, l + 1)
      /\ \A f \in Names : HeaderRight(mem', f)
      /\ \A f \in Names \ {e} : Holds(mem', f, str[f])
  BY <1>1, <1>4, <1>6, <1>7, <1>8, PutChar
<1>10. /\ DOMAIN reg = {"d0", "a0", "a1", "d2", "d3", "d4"}
       /\ reg.d0 = Data(e) /\ reg.d3 = EStrings[e] /\ reg.a0 = a /\ reg.d4 = l
       /\ reg.a1 \in Int /\ reg.d2 \in Int
       /\ reg.d2 < 0 \/ reg.d2 >= m
       /\ Ahead(t, m) \/ Behind(t, m)
  BY <1>1, <1>2, <1>5, <1>8 DEF Copying
<1>11. /\ reg' = [reg EXCEPT !.a0 = @ + 1, !.a1 = @ + 1, !.d4 = @ + 1, !.d2 = @ - 1]
       /\ str' = str /\ pc' = "strcore"
  BY DEF CopyChar
<1>12. /\ DOMAIN reg' = {"d0", "a0", "a1", "d2", "d3", "d4"}
       /\ reg'.d0 = Data(e) /\ reg'.d3 = EStrings[e] /\ reg'.a0 = a + 1 /\ reg'.d4 = l + 1
       /\ reg'.a1 = reg.a1 + 1 /\ reg'.d2 = reg.d2 - 1
  BY <1>10, <1>11
<1>13. PICK k : k = m - 1
  OBVIOUS
<1>14. k \in Nat /\ m = k + 1 /\ a \in Int
  BY <1>3, <1>4, <1>8, <1>13
<1>15. Ahead(t, m) => Ahead(t, k)'
  <2> SUFFICES ASSUME Ahead(t, m) PROVE Ahead(t, k)'
    OBVIOUS
  <2>1. /\ \A j \in 0 .. m - 1 : reg.a1 + j \in Cells /\ mem[reg.a1 + j] = t[l + j + 1]
        /\ reg.a1 >= a \/ reg.a1 + m < a
        /\ l + m = EStrings[e] \/ reg.d2 = m \/ (reg.a1 + m \in Cells /\ mem[reg.a1 + m] = NUL)
    BY <1>10 DEF Ahead
  <2>2. ASSUME NEW j \in 0 .. k - 1 PROVE reg'.a1 + j \in Cells /\ mem'[reg'.a1 + j] = t[reg'.d4 + j + 1]
    <3>1. PICK i : i = j + 1
      OBVIOUS
    <3>2. i \in 0 .. m - 1 /\ i > 0 /\ i < m /\ i \in Int
      BY <1>14, <3>1
    <3>3. reg'.a1 + j = reg.a1 + i /\ reg'.d4 + j + 1 = l + i + 1
      BY <1>4, <1>10, <1>12, <3>1
    <3>4. reg.a1 + i \in Cells /\ mem[reg.a1 + i] = t[l + i + 1]
      BY <2>1, <3>2
    <3>5. reg.a1 + i # a
      BY <1>4, <1>10, <1>14, <2>1, <3>2
    <3> QED
      BY <1>9, <3>3, <3>4, <3>5
  <2>3. reg'.a1 >= reg'.a0 \/ reg'.a1 + k < reg'.a0
    BY <1>4, <1>10, <1>12, <1>14, <2>1
  <2>4. reg'.d4 + k = l + m /\ reg'.a1 + k = reg.a1 + m /\ (reg.d2 = m => reg'.d2 = k)
    <3>1. reg'.d4 + k = l + m
      BY <1>4, <1>12, <1>14
    <3>2. reg'.a1 + k = reg.a1 + m
      <4>1. PICK x, y : x = reg.a1 /\ y = reg'.a1
        OBVIOUS
      <4>2. x \in Int /\ y = x + 1
        BY <1>10, <1>12, <4>1
      <4>3. y + k = x + m
        BY <1>14, <4>2
      <4> QED
        BY <4>1, <4>3
    <3>3. reg.d2 = m => reg'.d2 = k
      BY <1>4, <1>12, <1>14
    <3> QED
      BY <3>1, <3>2, <3>3
  <2>5. reg.a1 + m # a
    BY <1>4, <1>10, <1>14, <2>1
  <2>6. \/ reg'.d4 + k = reg'.d3 \/ reg'.d2 = k
        \/ reg'.a1 + k \in Cells /\ mem'[reg'.a1 + k] = NUL
    BY <1>9, <1>12, <2>1, <2>4, <2>5
  <2> QED
    BY <2>2, <2>3, <2>6 DEF Ahead
<1>16. Behind(t, m) => Behind(t, k)'
  <2> SUFFICES ASSUME Behind(t, m) PROVE Behind(t, k)'
    OBVIOUS
  <2>1. PICK q \in 1 .. l : /\ reg.a1 = a - q
                            /\ \A i \in l + 1 .. l + m : t[i] = t[i - q]
    BY <1>10 DEF Behind
  <2>2. l + m = EStrings[e] \/ reg.d2 = m
    BY <1>10 DEF Behind
  <2>3. q \in 1 .. reg'.d4 /\ reg'.a1 = reg'.a0 - q
    BY <1>4, <1>12, <1>14, <2>1
  <2>4. \A i \in reg'.d4 + 1 .. reg'.d4 + k : i \in l + 1 .. l + m
    BY <1>4, <1>12, <1>14
  <2>5. reg'.d4 + k = reg'.d3 \/ reg'.d2 = k
    BY <1>4, <1>10, <1>12, <1>14, <2>2
  <2> QED
    BY <2>1, <2>3, <2>4, <2>5 DEF Behind
<1>17. Copying(e)'
  <2>1. Len(str'[e]) - reg'.d4 = k /\ reg'.d4 \in 0 .. Len(str'[e]) /\ reg'.a0 = Data(e) + reg'.d4
    <3>1. str'[e] = t
      BY <1>2, <1>11
    <3>2. Len(t) - (l + 1) = k /\ l + 1 \in 0 .. Len(t)
      BY <1>3, <1>4, <1>14
    <3>3. a + 1 = Data(e) + (l + 1)
      BY <1>3, <1>4, <1>8
    <3> QED
      BY <1>12, <3>1, <3>2, <3>3
  <2>2. reg'.a1 \in Int /\ reg'.d2 \in Int /\ (reg'.d2 < 0 \/ reg'.d2 >= k)
    BY <1>10, <1>12, <1>14
  <2>3. Begins(mem', e, str'[e], reg'.d4)
    BY <1>2, <1>9, <1>11, <1>12
  <2>4. Ahead(str[e], k)' \/ Behind(str[e], k)'
    <3>1. str'[e] = t
      BY <1>2, <1>11
    <3> QED
      BY <1>10, <1>15, <1>16, <3>1 DEF Ahead, Behind
  <2> QED
    BY <1>12, <2>1, <2>2, <2>3, <2>4 DEF Copying
<1>18. OthersHold(e)'
  BY <1>9, <1>11 DEF OthersHold
<1> QED
  BY <1>9, <1>11, <1>17, <1>18 DEF EStringInv, StrOK

\* The routine is done with string e: NUL and length are stored.
LEMMA Terminated ==
  ASSUME EStringInv, NEW e \in Names, OthersHold(e),
         NEW t, t = str[e], Begins(mem, e, t, Len(t)),
         mem' = [mem EXCEPT ![Data(e) + Len(t)] = NUL, ![LenAt(Data(e))] = Low(Len(t))]
  PROVE  /\ DOMAIN mem' = Cells
         /\ \A f \in Names : HeaderRight(mem', f)
         /\ \A f \in Names : Holds(mem', f, str[f])
<1>1. /\ Data(e) \in Nat /\ Data(e) >= 2 /\ EStrings[e] \in Nat /\ EStrings[e] < SignLimit
      /\ SignLimit \in Nat /\ DOMAIN mem = Cells
  BY CellsFacts DEF EStringInv
<1>2. t \in Seq(Bytes) /\ Len(t) \in Nat /\ Len(t) <= EStrings[e]
  BY DEF EStringInv, StrOK
<1>3. PICK l, a, b : l = Len(t) /\ a = Data(e) + l /\ b = LenAt(Data(e))
  OBVIOUS
<1>4. /\ a \in Int /\ First(e) <= a /\ a <= LastCell(e)
      /\ b \in Int /\ First(e) <= b /\ b <= LastCell(e) /\ b < a
  <2>1. PICK d : d = Data(e)
    OBVIOUS
  <2>2. a = d + l /\ b = d - 1 /\ d \in Nat /\ l \in Nat /\ l <= EStrings[e]
    BY <1>1, <1>2, <1>3, <2>1 DEF LenAt
  <2>3. First(e) = d - 2 /\ LastCell(e) = d + EStrings[e]
    BY <2>1 DEF First, LastCell
  <2> QED
    BY <1>1, <2>2, <2>3
<1>5. a \in Cells /\ b \in Cells
  BY <1>4, CellsFacts
<1>6. Low(l) = l
  <2>1. PICK w : w = 2 * SignLimit
    OBVIOUS
  <2>2. l \in Nat /\ w \in Nat /\ l < w
    BY <1>1, <1>2, <1>3, <2>1
  <2> QED
    BY <2>1, <2>2, ModSmall DEF Low
<1>7. mem' = [mem EXCEPT ![a] = NUL, ![b] = l]
  BY <1>3, <1>6
<1>8. /\ mem'[a] = NUL /\ mem'[b] = l /\ DOMAIN mem' = Cells
      /\ \A x \in Cells : x # a /\ x # b => mem'[x] = mem[x]
  BY <1>1, <1>4, <1>5, <1>7
<1>9. OnlyIn(mem, mem', e)
  <2>1. ASSUME NEW x \in Cells, x < LenAt(Data(e)) \/ x > LastCell(e) PROVE mem'[x] = mem[x]
    <3>1. x # a /\ x # b
      <4>1. LastCell(e) \in Int
        BY <1>1 DEF LastCell
      <4>2. x < b \/ x > LastCell(e)
        BY <1>3, <2>1
      <4> QED
        BY <1>4, <4>1, <4>2
    <3> QED
      BY <1>8, <3>1
  <2> QED
    BY <2>1 DEF OnlyIn
<1>10. ASSUME NEW f \in Names, f # e PROVE HeaderRight(mem', f) /\ Holds(mem', f, str[f])
  <2>1. HeaderRight(mem, f) /\ Holds(mem, f, str[f]) /\ str[f] \in Seq(Bytes) /\ Len(str[f]) <= EStrings[f]
    BY <1>10 DEF EStringInv, OthersHold, StrOK
  <2>2. PICK n : n = mem'
    OBVIOUS
  <2>3. OnlyIn(mem, n, e)
    BY <1>9, <2>2
  <2>4. HeaderRight(n, f) /\ Holds(n, f, str[f])
    BY <1>10, <2>1, <2>3, OthersKept
  <2> QED
    BY <2>2, <2>4
<1>11. HeaderRight(mem', e)
  <2>1. MaxAt(Data(e)) \in Cells
    BY <1>1, CellsFacts DEF First, LastCell, MaxAt
  <2>2. MaxAt(Data(e)) # a /\ MaxAt(Data(e)) # b
    BY <1>1, <1>2, <1>3 DEF MaxAt, LenAt
  <2>3. mem[MaxAt(Data(e))] = EStrings[e]
    BY DEF EStringInv, HeaderRight
  <2>4. l \in 0 .. EStrings[e]
    BY <1>1, <1>2, <1>3
  <2> QED
    BY <1>3, <1>8, <2>1, <2>2, <2>3, <2>4 DEF HeaderRight
<1>12. Holds(mem', e, t)
  <2>1. ASSUME NEW i \in 1 .. Len(t) PROVE mem'[Data(e) + i - 1] = t[i]
    <3>1. PICK x : x = Data(e) + i - 1
      OBVIOUS
    <3>2. x \in Int /\ First(e) <= x /\ x <= LastCell(e) /\ x # a /\ x # b
      <4>1. i \in Int /\ 1 <= i /\ i <= l
        BY <1>2, <1>3
      <4>2. l \in Nat /\ l <= EStrings[e] /\ b = Data(e) - 1
        BY <1>2, <1>3 DEF LenAt
      <4>3. PICK d, j : d = Data(e) /\ j = i - 1
        OBVIOUS
      <4>4. x = d + j /\ j \in Nat /\ j < l /\ a = d + l /\ b = d - 1 /\ d \in Nat
        BY <1>1, <1>3, <3>1, <4>1, <4>2, <4>3
      <4>5. First(e) = d - 2 /\ LastCell(e) = d + EStrings[e]
        BY <4>3 DEF First, LastCell
      <4> QED
        BY <1>1, <4>2, <4>4, <4>5
    <3>3. x \in Cells
      BY <3>2, CellsFacts
    <3>4. mem[x] = t[i]
      BY <3>1 DEF Begins
    <3> QED
      BY <1>8, <3>1, <3>2, <3>3, <3>4
  <2>2. Begins(mem', e, t, Len(t))
    BY <2>1 DEF Begins
  <2> QED
    BY <1>3, <1>8, <2>2 DEF Holds
<1> QED
  BY <1>8, <1>10, <1>11, <1>12

LEMMA CopyDoneInv == ASSUME EStringInv, CopyDone PROVE EStringInv'
<1>1. PICK e \in Names : Copying(e) /\ OthersHold(e)
  BY DEF EStringInv, CopyDone
<1>2. PICK m, t : m = Len(str[e]) - reg.d4 /\ t = str[e]
  OBVIOUS
<1>3. Len(t) \in Nat /\ Len(t) <= EStrings[e] /\ EStrings[e] \in Nat
  BY <1>2, CellsFacts DEF EStringInv, StrOK
<1>4. reg.d4 \in Nat /\ reg.d4 <= Len(t) /\ reg.d3 = EStrings[e] /\ m \in Nat /\ m = Len(t) - reg.d4
  BY <1>1, <1>2, <1>3 DEF Copying
<1>5. m = 0
  <2>1. SUFFICES ASSUME m > 0 PROVE FALSE
    BY <1>4
  <2>2. m = Len(str[e]) - reg.d4
    BY <1>2
  <2>3. /\ mem[reg.a1] = str[e][reg.d4 + 1] /\ str[e][reg.d4 + 1] \in Bytes
        /\ reg.d4 < reg.d3 /\ reg.d2 # 0
    BY <1>1, <2>1, <2>2, NextChar
  <2>4. reg.d4 >= reg.d3 \/ reg.d2 = 0 \/ mem[reg.a1] = NUL
    BY DEF CopyDone
  <2>5. mem[reg.a1] # NUL
    BY <2>3 DEF Bytes, NUL
  <2>6. ~ reg.d4 >= reg.d3
    BY <1>3, <1>4, <2>3
  <2> QED
    BY <2>3, <2>4, <2>5, <2>6
<1>6. /\ reg.d4 = Len(t) /\ reg.a0 = Data(e) + Len(t) /\ reg.d0 = Data(e)
      /\ Begins(mem, e, t, Len(t))
  <2>1. reg.d4 = Len(t)
    BY <1>3, <1>4, <1>5
  <2> QED
    BY <1>1, <1>2, <2>1 DEF Copying
<1>7. /\ mem' = [mem EXCEPT ![Data(e) + Len(t)] = NUL, ![LenAt(Data(e))] = Low(Len(t))]
      /\ pc' = "idle" /\ str' = str
  BY <1>6 DEF CopyDone
<1>8. /\ DOMAIN mem' = Cells
      /\ \A f \in Names : HeaderRight(mem', f)
      /\ \A f \in Names : Holds(mem', f, str[f])
  BY <1>1, <1>2, <1>6, <1>7, Terminated
<1> QED
  BY <1>7, <1>8 DEF EStringInv, StrOK

-----------------------------------------------------------------------------
(* Reading a line.                                                         *)

LEMMA ReadStrInv == ASSUME EStringInv, NEW e \in Names, ReadStr(e) PROVE EStringInv'
<1>1. /\ pc = "idle" /\ pc' = "readstr" /\ mem' = mem /\ str' = [str EXCEPT ![e] = << >>]
      /\ reg' = [a3 |-> Data(e), d5 |-> MaxLen(Data(e)), d6 |-> 0, e |-> e]
  BY DEF ReadStr
<1>2. /\ str'[e] = << >> /\ DOMAIN str' = Names
      /\ \A f \in Names \ {e} : str'[f] = str[f]
  BY <1>1 DEF EStringInv
<1>3. << >> \in Seq(Bytes) /\ Len(<< >>) = 0 /\ EStrings[e] \in Nat
  BY CellsFacts
<1>4. StrOK'
  <2>1. ASSUME NEW f \in Names PROVE str'[f] \in Seq(Bytes) /\ Len(str'[f]) <= EStrings[f]
    <3>1. CASE f = e
      BY <1>2, <1>3, <3>1
    <3>2. CASE f # e
      BY <1>2, <3>2 DEF EStringInv, StrOK
    <3> QED
      BY <3>1, <3>2
  <2> QED
    BY <2>1 DEF StrOK
<1>5. OthersHold(e)'
  BY <1>1, <1>2 DEF EStringInv, OthersHold, Holds, Begins
<1>6. MaxLen(Data(e)) = EStrings[e]
  BY MaxLenIs DEF EStringInv
<1>7. Reading(e)'
  <2>1. /\ DOMAIN reg' = {"a3", "d5", "d6", "e"}
        /\ reg'.e = e /\ reg'.a3 = Data(e) /\ reg'.d5 = EStrings[e] /\ reg'.d6 = 0
    BY <1>1, <1>6
  <2>2. Begins(mem', e, str'[e], 0)
    BY DEF Begins
  <2> QED
    BY <1>2, <1>3, <2>1, <2>2 DEF Reading
<1> QED
  BY <1>1, <1>2, <1>4, <1>5, <1>7 DEF EStringInv, HeaderRight

LEMMA ReadCharInv == ASSUME EStringInv, NEW c \in Chars, ReadChar(c) PROVE EStringInv'
<1>1. PICK e \in Names : Reading(e) /\ OthersHold(e)
  BY DEF EStringInv, ReadChar
<1>2. PICK s, l, max : s = str[e] /\ l = Len(s) /\ max = EStrings[e]
  OBVIOUS
<1>3. s \in Seq(Bytes) /\ l \in Nat /\ l <= max /\ max \in Nat /\ Data(e) \in Nat
  BY <1>2, CellsFacts DEF EStringInv, StrOK
<1>4. c \in Bytes
  BY EStringAssumption DEF Bytes
<1>5. /\ DOMAIN reg = {"a3", "d5", "d6", "e"}
      /\ reg.e = e /\ reg.a3 = Data(e) /\ reg.d5 = max /\ reg.d6 = l
      /\ Begins(mem, e, s, l)
  BY <1>1, <1>2 DEF Reading
<1>6. PICK u, t : u = Append(s, c) /\ t = Prefix(u, ALL, max)
  OBVIOUS
<1>7. u \in Seq(Bytes) /\ Len(u) = l + 1 /\ u[l + 1] = c /\ \A i \in 1 .. l : u[i] = s[i]
  BY <1>2, <1>3, <1>4, <1>6
<1>8. /\ t \in Seq(Bytes) /\ Len(t) \in Nat /\ Len(t) <= l + 1 /\ Len(t) <= max
      /\ Len(t) = max \/ Len(t) = l + 1
      /\ \A i \in 1 .. Len(t) : t[i] = u[i]
  <2>3. PICK n : n = ALL
    OBVIOUS
  <2>1. n \in Int /\ n >= ALL /\ t = Prefix(u, n, max) /\ u \in Seq(Bytes) /\ max \in Nat
    BY <1>3, <1>6, <1>7, <2>3 DEF ALL
  <2>2. /\ t \in Seq(Bytes) /\ Len(t) \in Nat /\ Len(t) <= Len(u) /\ Len(t) <= max
        /\ Len(t) = max \/ Len(t) = n \/ Len(t) = Len(u)
        /\ \A i \in 1 .. Len(t) : t[i] = u[i]
    BY <2>1, PrefixFacts
  <2> QED
    BY <1>7, <2>2, <2>3 DEF ALL
<1>9. str' = [str EXCEPT ![e] = t] /\ pc' = "readstr"
  <2>1. str' = [str EXCEPT ![reg.e] = Prefix(Append(@, c), ALL, EStrings[reg.e])] /\ pc' = pc /\ pc = "readstr"
    BY DEF ReadChar
  <2> QED
    BY <1>2, <1>5, <1>6, <2>1
<1>10. /\ str'[e] = t /\ DOMAIN str' = Names /\ \A f \in Names \ {e} : str'[f] = str[f]
  BY <1>9 DEF EStringInv
<1>11. StrOK'
  <2>1. ASSUME NEW f \in Names PROVE str'[f] \in Seq(Bytes) /\ Len(str'[f]) <= EStrings[f]
    <3>1. CASE f = e
      BY <1>2, <1>8, <1>10, <3>1
    <3>2. CASE f # e
      BY <1>10, <3>2 DEF EStringInv, StrOK
    <3> QED
      BY <3>1, <3>2
  <2> QED
    BY <2>1 DEF StrOK
<1>12. CASE reg.d6 >= reg.d5
  <2>1. mem' = mem /\ reg' = reg
    BY <1>12 DEF ReadChar
  <2>2. Len(t) = l
    BY <1>3, <1>5, <1>8, <1>12
  <2>3. Begins(mem', e, t, l)
    BY <1>5, <1>7, <1>8, <2>1, <2>2 DEF Begins
  <2>4. Reading(e)'
    BY <1>2, <1>5, <1>10, <2>1, <2>2, <2>3 DEF Reading
  <2>5. OthersHold(e)'
    BY <1>1, <1>10, <2>1 DEF OthersHold, Holds, Begins
  <2> QED
    BY <1>9, <1>10, <1>11, <2>1, <2>4, <2>5 DEF EStringInv, HeaderRight
<1>13. CASE ~ reg.d6 >= reg.d5
  <2>1. /\ mem' = [mem EXCEPT ![Data(e) + l] = c]
        /\ reg' = [reg EXCEPT !.d6 = @ + 1]
    BY <1>5, <1>13 DEF ReadChar
  <2>2. l < max /\ Len(t) = l + 1
    BY <1>3, <1>5, <1>8, <1>13
  <2>3. t[l + 1] = c /\ \A i \in 1 .. l : t[i] = s[i]
    <3>1. l + 1 \in 1 .. Len(t) /\ \A i \in 1 .. l : i \in 1 .. Len(t)
      BY <1>3, <2>2
    <3> QED
      BY <1>7, <1>8, <3>1
  <2>4. Begins(mem, e, t, l)
    BY <1>5, <2>3 DEF Begins
  <2>5. /\ DOMAIN mem' = Cells
        /\ Begins(mem', e, t, l + 1)
        /\ \A f \in Names : HeaderRight(mem', f)
        /\ \A f \in Names \ {e} : Holds(mem', f, str[f])
    <3>1. l \in Nat /\ l < EStrings[e]
      BY <1>2, <1>3, <2>2
    <3> QED
      BY <1>1, <2>1, <2>3, <2>4, <3>1, PutChar
  <2>6. /\ DOMAIN reg' = {"a3", "d5", "d6", "e"}
        /\ reg'.e = e /\ reg'.a3 = Data(e) /\ reg'.d5 = max /\ reg'.d6 = l + 1
    BY <1>5, <2>1
  <2>7. Reading(e)'
    BY <1>2, <1>10, <2>2, <2>5, <2>6 DEF Reading
  <2>8. OthersHold(e)'
    BY <1>10, <2>5 DEF OthersHold
  <2> QED
    BY <1>9, <1>10, <1>11, <2>5, <2>7, <2>8 DEF EStringInv
<1> QED
  BY <1>12, <1>13

LEMMA ReadDoneInv == ASSUME EStringInv, NEW c, ReadDone(c) PROVE EStringInv'
<1>1. PICK e \in Names : Reading(e) /\ OthersHold(e)
  BY DEF EStringInv, ReadDone
<1>2. PICK t : t = str[e]
  OBVIOUS
<1>3. reg.a3 = Data(e) /\ reg.d6 = Len(t) /\ Begins(mem, e, t, Len(t))
  BY <1>1, <1>2 DEF Reading
<1>4. LenAt(Data(e)) # Data(e) + Len(t)
  <2>1. Data(e) \in Nat /\ Len(t) \in Nat
    BY <1>2, CellsFacts DEF EStringInv, StrOK
  <2> QED
    BY <2>1 DEF LenAt
<1>5. /\ mem' = [mem EXCEPT ![LenAt(Data(e))] = Low(Len(t)), ![Data(e) + Len(t)] = NUL]
      /\ pc' = "idle" /\ str' = str
  BY <1>3 DEF ReadDone
<1>6. mem' = [mem EXCEPT ![Data(e) + Len(t)] = NUL, ![LenAt(Data(e))] = Low(Len(t))]
  BY <1>4, <1>5
<1>7. /\ DOMAIN mem' = Cells
      /\ \A f \in Names : HeaderRight(mem', f)
      /\ \A f \in Names : Holds(mem', f, str[f])
  BY <1>1, <1>2, <1>3, <1>6, Terminated
<1> QED
  BY <1>5, <1>7 DEF EStringInv, StrOK

-----------------------------------------------------------------------------
(* The routines without a loop of their own here.                          *)

\* A routine that gives string e the text t and touches nothing else.
LEMMA WholeTextInv ==
  ASSUME EStringInv, pc = "idle", NEW e \in Names,
         NEW t \in Seq(Bytes), Len(t) <= EStrings[e],
         str' = [str EXCEPT ![e] = t], pc' = "idle",
         DOMAIN mem' = Cells, OnlyIn(mem, mem', e), Holds(mem', e, t)
  PROVE  EStringInv'
<1>1. /\ str'[e] = t /\ DOMAIN str' = Names
      /\ \A f \in Names \ {e} : str'[f] = str[f]
  BY DEF EStringInv
<1>2. StrOK'
  <2>1. ASSUME NEW f \in Names PROVE str'[f] \in Seq(Bytes) /\ Len(str'[f]) <= EStrings[f]
    <3>1. CASE f = e
      BY <1>1, <3>1
    <3>2. CASE f # e
      BY <1>1, <3>2 DEF EStringInv, StrOK
    <3> QED
      BY <3>1, <3>2
  <2> QED
    BY <2>1 DEF StrOK
<1>3. PICK n : n = mem'
  OBVIOUS
<1>4. ASSUME NEW f \in Names, f # e PROVE HeaderRight(mem', f) /\ Holds(mem', f, str'[f])
  <2>1. HeaderRight(mem, f) /\ Holds(mem, f, str[f]) /\ str[f] \in Seq(Bytes) /\ Len(str[f]) <= EStrings[f]
    BY DEF EStringInv, StrOK
  <2>2. OnlyIn(mem, n, e)
    BY <1>3
  <2>3. HeaderRight(n, f) /\ Holds(n, f, str[f])
    BY <1>4, <2>1, <2>2, OthersKept
  <2> QED
    BY <1>1, <1>3, <1>4, <2>3
<1>5. HeaderRight(mem', e)
  <2>1. Data(e) \in Nat /\ Data(e) >= 2 /\ EStrings[e] \in Nat /\ Len(t) \in Nat
    BY CellsFacts
  <2>2. MaxAt(Data(e)) \in Cells /\ MaxAt(Data(e)) < LenAt(Data(e))
    BY <2>1, CellsFacts DEF First, LastCell, MaxAt, LenAt
  <2>3. mem'[MaxAt(Data(e))] = mem[MaxAt(Data(e))]
    BY <2>2 DEF OnlyIn
  <2>4. mem[MaxAt(Data(e))] = EStrings[e]
    BY DEF EStringInv, HeaderRight
  <2>5. mem'[LenAt(Data(e))] = Len(t) /\ Len(t) \in 0 .. EStrings[e]
    BY <2>1 DEF Holds
  <2> QED
    BY <2>3, <2>4, <2>5 DEF HeaderRight
<1> QED
  BY <1>1, <1>2, <1>4, <1>5 DEF EStringInv

LEMMA StringFInv ==
  ASSUME EStringInv, NEW e \in Names, NEW text \in Texts(EStrings[e]), StringF(e, text)
  PROVE  EStringInv'
<1>1. PICK k : k \in 0 .. EStrings[e] /\ text \in [1 .. k -> Chars]
  BY DEF Texts
<1>2. /\ Data(e) \in Nat /\ Data(e) >= 2 /\ EStrings[e] \in Nat /\ EStrings[e] < SignLimit
      /\ SignLimit \in Nat
  BY CellsFacts
<1>3. k \in Nat /\ k <= EStrings[e]
  BY <1>1, <1>2
<1>4. text \in Seq(Bytes) /\ Len(text) = k
  <2>1. Chars \subseteq Bytes
    BY EStringAssumption DEF Bytes
  <2>2. text \in [1 .. k -> Bytes]
    BY <1>1, <2>1
  <2> QED
    BY <1>3, <2>2
<1>5. PICK a : a = Data(e)
  OBVIOUS
<1>6. /\ pc = "idle" /\ pc' = "idle" /\ str' = [str EXCEPT ![e] = text]
      /\ mem' = [c \in Cells |->
                   IF c \in a .. a + k - 1 THEN text[c - a + 1]
                   ELSE IF c = a + k THEN NUL
                   ELSE IF c = LenAt(a) THEN Low(k) ELSE mem[c]]
  BY <1>4, <1>5 DEF StringF
<1>7. Low(k) = k
  <2>1. PICK w : w = 2 * SignLimit
    OBVIOUS
  <2>2. w \in Nat /\ k < w
    BY <1>2, <1>3, <2>1
  <2> QED
    BY <1>3, <2>1, <2>2, ModSmall DEF Low
<1>8. DOMAIN mem' = Cells
  BY <1>6
<1>9. OnlyIn(mem, mem', e)
  <2>1. ASSUME NEW x \in Cells, x < LenAt(Data(e)) \/ x > LastCell(e) PROVE mem'[x] = mem[x]
    <3>1. x \notin a .. a + k - 1 /\ x # a + k /\ x # LenAt(a)
      <4>1. LenAt(Data(e)) = a - 1 /\ LastCell(e) = a + EStrings[e] /\ LenAt(a) = a - 1 /\ a \in Nat
        BY <1>2, <1>5 DEF LenAt, LastCell
      <4> QED
        BY <1>2, <1>3, <2>1, <4>1
    <3> QED
      BY <1>6, <3>1
  <2> QED
    BY <2>1 DEF OnlyIn
<1>10. Holds(mem', e, text)
  <2>1. ASSUME NEW i \in 1 .. k PROVE mem'[Data(e) + i - 1] = text[i]
    <3>1. PICK x : x = a + i - 1
      OBVIOUS
    <3>2. i \in Int /\ 1 <= i /\ i <= k
      BY <1>3
    <3>3. x \in Int /\ x \in a .. a + k - 1 /\ x - a + 1 = i
      BY <1>2, <1>3, <1>5, <3>1, <3>2
    <3>4. First(e) <= x /\ x <= LastCell(e)
      BY <1>2, <1>3, <1>5, <3>1, <3>2 DEF First, LastCell
    <3>5. x \in Cells
      BY <3>3, <3>4, CellsFacts
    <3> QED
      BY <1>5, <1>6, <3>1, <3>3, <3>5
  <2>2. mem'[Data(e) + k] = NUL
    <3>1. PICK x : x = a + k
      OBVIOUS
    <3>2. x \in Int /\ x \notin a .. a + k - 1 /\ First(e) <= x /\ x <= LastCell(e)
      BY <1>2, <1>3, <1>5, <3>1 DEF First, LastCell
    <3>3. x \in Cells
      BY <3>2, CellsFacts
    <3> QED
      BY <1>5, <1>6, <3>1, <3>2, <3>3
  <2>3. mem'[LenAt(Data(e))] = k
    <3>1. PICK x : x = LenAt(a)
      OBVIOUS
    <3>2. x \in Int /\ x \notin a .. a + k - 1 /\ x # a + k /\ First(e) <= x /\ x <= LastCell(e)
      BY <1>2, <1>3, <1>5, <3>1 DEF First, LastCell, LenAt
    <3>3. x \in Cells
      BY <3>2, CellsFacts
    <3> QED
      BY <1>5, <1>6, <1>7, <3>1, <3>2, <3>3
  <2> QED
    BY <1>4, <2>1, <2>2, <2>3 DEF Holds, Begins
<1>11. Len(text) <= EStrings[e]
  BY <1>3, <1>4
<1> QED
  BY <1>4, <1>6, <1>8, <1>9, <1>10, <1>11, WholeTextInv

LEMMA SetStrInv ==
  ASSUME EStringInv, NEW e \in Names, NEW n \in 0 .. Len(str[e]), SetStr(e, n)
  PROVE  EStringInv'
<1>1. PICK s, t : s = str[e] /\ t = SubSeq(s, 1, n)
  OBVIOUS
<1>2. /\ Data(e) \in Nat /\ Data(e) >= 2 /\ EStrings[e] \in Nat /\ EStrings[e] < SignLimit
      /\ SignLimit \in Nat
  BY CellsFacts
<1>3. s \in Seq(Bytes) /\ Len(s) \in Nat /\ Len(s) <= EStrings[e] /\ n \in Nat /\ n <= Len(s)
  BY <1>1 DEF EStringInv, StrOK
<1>4. t \in Seq(Bytes) /\ Len(t) = n /\ \A i \in 1 .. n : t[i] = s[i]
  <2>1. IsPart(t, s, 0, n)
    BY <1>1 DEF IsPart
  <2>2. Len(t) = n - 0 /\ t \in Seq(Bytes) /\ \A i \in 1 .. n - 0 : t[i] = s[0 + i]
    BY <1>3, <2>1, SubSeqFacts DEF Part
  <2> QED
    BY <1>3, <2>2
<1>5. PICK a, b : a = Data(e) + n /\ b = LenAt(Data(e))
  OBVIOUS
<1>6. Low(n) = n
  <2>1. PICK w : w = 2 * SignLimit
    OBVIOUS
  <2>2. w \in Nat /\ n < w
    BY <1>2, <1>3, <2>1
  <2> QED
    BY <1>3, <2>1, <2>2, ModSmall DEF Low
<1>7. /\ pc = "idle" /\ pc' = "idle" /\ str' = [str EXCEPT ![e] = t]
      /\ mem' = [mem EXCEPT ![b] = n, ![a] = NUL]
  BY <1>1, <1>5, <1>6 DEF SetStr
<1>8. /\ a \in Int /\ First(e) <= a /\ a <= LastCell(e)
      /\ b \in Int /\ First(e) <= b /\ b <= LastCell(e) /\ b < a
  <2>1. PICK d : d = Data(e)
    OBVIOUS
  <2>2. a = d + n /\ b = d - 1 /\ d \in Nat /\ n \in Nat /\ n <= EStrings[e]
    BY <1>2, <1>3, <1>5, <2>1 DEF LenAt
  <2>3. First(e) = d - 2 /\ LastCell(e) = d + EStrings[e]
    BY <2>1 DEF First, LastCell
  <2> QED
    BY <1>2, <2>2, <2>3
<1>9. a \in Cells /\ b \in Cells
  BY <1>8, CellsFacts
<1>10. /\ mem'[a] = NUL /\ mem'[b] = n /\ DOMAIN mem' = Cells
       /\ \A x \in Cells : x # a /\ x # b => mem'[x] = mem[x]
  BY <1>7, <1>8, <1>9 DEF EStringInv
<1>11. OnlyIn(mem, mem', e)
  <2>1. ASSUME NEW x \in Cells, x < LenAt(Data(e)) \/ x > LastCell(e) PROVE mem'[x] = mem[x]
    <3>1. x # a /\ x # b
      <4>1. LastCell(e) \in Int
        BY <1>2 DEF LastCell
      <4>2. x < b \/ x > LastCell(e)
        BY <1>5, <2>1
      <4> QED
        BY <1>8, <4>1, <4>2
    <3> QED
      BY <1>10, <3>1
  <2> QED
    BY <2>1 DEF OnlyIn
<1>12. Holds(mem', e, t)
  <2>1. ASSUME NEW i \in 1 .. n PROVE mem'[Data(e) + i - 1] = t[i]
    <3>1. PICK x : x = Data(e) + i - 1
      OBVIOUS
    <3>2. i \in Int /\ 1 <= i /\ i <= n
      BY <1>3
    <3>3. x \in Int /\ x < a /\ b < x /\ First(e) <= x /\ x <= LastCell(e)
      <4>1. PICK d, j : d = Data(e) /\ j = i - 1
        OBVIOUS
      <4>2. x = d + j /\ j \in Nat /\ j < n /\ a = d + n /\ b = d - 1 /\ d \in Nat
        BY <1>2, <1>3, <1>5, <3>1, <3>2, <4>1 DEF LenAt
      <4>3. First(e) = d - 2 /\ LastCell(e) = d + EStrings[e] /\ n <= EStrings[e]
        BY <1>2, <1>3, <4>1 DEF First, LastCell
      <4> QED
        BY <1>2, <1>3, <4>2, <4>3
    <3>4. x \in Cells /\ x # a /\ x # b
      BY <1>8, <3>3, CellsFacts
    <3>5. i \in 1 .. Len(s)
      BY <1>3, <3>2
    <3>6. mem[x] = s[i]
      BY <1>1, <1>7, <3>1, <3>5 DEF EStringInv, Holds, Begins
    <3> QED
      BY <1>4, <1>10, <3>1, <3>4, <3>6
  <2> QED
    BY <1>4, <1>5, <1>10, <2>1 DEF Holds, Begins
<1>13. Len(t) <= EStrings[e]
  BY <1>2, <1>3, <1>4
<1> QED
  BY <1>4, <1>7, <1>10, <1>11, <1>12, <1>13, WholeTextInv

\* Read as a C string, a string is what the program takes it to hold.
LEMMA CStringIs ==
  ASSUME StrOK, NEW e \in Names, Holds(mem, e, str[e])
  PROVE  CString(Data(e)) = str[e]
<1>1. PICK a, s, l : a = Data(e) /\ s = str[e] /\ l = Len(s)
  OBVIOUS
<1>2. /\ s \in Seq(Bytes) /\ l \in Nat /\ l <= EStrings[e] /\ EStrings[e] < SignLimit
      /\ EStrings[e] \in Nat /\ SignLimit \in Nat /\ a \in Nat
  BY <1>1, CellsFacts DEF StrOK
<1>3. /\ \A i \in 0 .. l - 1 : mem[a + i] = s[i + 1]
      /\ mem[a + l] = NUL
  BY <1>1, TextAt
<1>4. ASSUME NEW z \in a .. a + l - 1 PROVE mem[z] # NUL
  <2>1. PICK i : i = z - a
    OBVIOUS
  <2>2. i \in 0 .. l - 1 /\ a + i = z /\ i + 1 \in 1 .. l
    BY <1>2, <2>1
  <2>3. mem[z] = s[i + 1]
    BY <1>3, <2>2
  <2>4. s[i + 1] \in Bytes
    BY <1>1, <1>2, <2>2
  <2> QED
    BY <2>3, <2>4 DEF Bytes, NUL
<1> DEFINE Ends(z) == mem[z] = NUL /\ \A i \in a .. z - 1 : mem[i] # NUL
           end == CHOOSE z \in a .. a + SignLimit : Ends(z)
<1>5. a + l \in a .. a + SignLimit /\ Ends(a + l)
  BY <1>2, <1>3, <1>4
<1>6. ASSUME NEW z \in a .. a + SignLimit, Ends(z) PROVE z = a + l
  <2>1. CASE z < a + l
    <3>1. z \in a .. a + l - 1
      BY <1>2, <2>1
    <3> QED
      BY <1>4, <1>6, <3>1
  <2>2. CASE z > a + l
    <3>1. a + l \in a .. z - 1
      BY <1>2, <2>2
    <3> QED
      BY <1>3, <1>6, <3>1
  <2> QED
    BY <1>2, <2>1, <2>2
<1>7. CString(a) = [i \in 1 .. end - a |-> mem[a + i - 1]]
  BY DEF CString
<1>8. end = a + l
  <2> HIDE DEF Ends
  <2> QED
    BY <1>5, <1>6
<1> HIDE DEF end
<1>9. CString(a) = [i \in 1 .. l |-> mem[a + i - 1]]
  BY <1>2, <1>7, <1>8
<1>10. ASSUME NEW i \in 1 .. l PROVE mem[a + i - 1] = s[i]
  BY <1>1 DEF Holds, Begins
<1>11. s = [i \in 1 .. l |-> s[i]]
  BY <1>1, <1>2
<1> QED
  BY <1>1, <1>9, <1>10, <1>11

LEMMA ChangeCaseInv ==
  ASSUME EStringInv, NEW e \in Names, NEW case \in [Bytes -> Bytes], ChangeCase(e, case)
  PROVE  EStringInv'
<1>1. PICK a, s, l : a = Data(e) /\ s = str[e] /\ l = Len(s)
  OBVIOUS
<1>2. /\ s \in Seq(Bytes) /\ l \in Nat /\ l <= EStrings[e]
      /\ EStrings[e] \in Nat /\ a \in Nat /\ a >= 2
  BY <1>1, CellsFacts DEF EStringInv, StrOK
<1>3. pc = "idle" /\ StrOK /\ Holds(mem, e, s)
  BY <1>1 DEF ChangeCase, EStringInv
<1>4. CString(a) = s
  BY <1>1, <1>3, CStringIs
<1>5. PICK t : t = [i \in DOMAIN s |-> case[s[i]]]
  OBVIOUS
<1>6. t \in Seq(Bytes) /\ Len(t) = l /\ \A i \in 1 .. l : t[i] = case[s[i]]
  <2>1. DOMAIN s = 1 .. l /\ \A i \in 1 .. l : s[i] \in Bytes
    BY <1>1, <1>2
  <2>2. t \in [1 .. l -> Bytes] /\ \A i \in 1 .. l : t[i] = case[s[i]]
    BY <1>5, <2>1
  <2> QED
    BY <1>2, <2>2
<1>7. /\ mem' = [c \in Cells |-> IF c \in a .. a + l - 1 THEN case[mem[c]] ELSE mem[c]]
      /\ str' = [str EXCEPT ![e] = t] /\ pc' = "idle"
  <2>1. /\ mem' = [c \in Cells |-> IF c \in a .. a + Len(CString(a)) - 1 THEN case[mem[c]] ELSE mem[c]]
        /\ str' = [str EXCEPT ![e] = [i \in DOMAIN @ |-> case[@[i]]]] /\ pc' = pc
    BY <1>1 DEF ChangeCase
  <2> QED
    BY <1>1, <1>3, <1>4, <1>5, <2>1
<1>8. DOMAIN mem' = Cells
  BY <1>7
<1>9. OnlyIn(mem, mem', e)
  <2>1. ASSUME NEW x \in Cells, x < LenAt(Data(e)) \/ x > LastCell(e) PROVE mem'[x] = mem[x]
    <3>1. x \notin a .. a + l - 1
      <4>1. LenAt(Data(e)) = a - 1 /\ LastCell(e) = a + EStrings[e]
        BY <1>1 DEF LenAt, LastCell
      <4> QED
        BY <1>2, <2>1, <4>1
    <3> QED
      BY <1>7, <3>1
  <2> QED
    BY <2>1 DEF OnlyIn
<1>10. Holds(mem', e, t)
  <2>1. ASSUME NEW i \in 1 .. l PROVE mem'[a + i - 1] = t[i]
    <3>1. PICK x : x = a + i - 1
      OBVIOUS
    <3>2. i \in Int /\ 1 <= i /\ i <= l
      BY <1>2
    <3>3. x \in Int /\ x \in a .. a + l - 1 /\ First(e) <= x /\ x <= LastCell(e)
      <4>1. First(e) = a - 2 /\ LastCell(e) = a + EStrings[e]
        BY <1>1 DEF First, LastCell
      <4> QED
        BY <1>2, <3>1, <3>2, <4>1
    <3>4. x \in Cells
      BY <3>3, CellsFacts
    <3>5. mem[x] = s[i]
      BY <1>1, <1>3, <3>1 DEF Holds, Begins
    <3> QED
      BY <1>6, <1>7, <3>1, <3>3, <3>4, <3>5
  <2>2. mem'[a + l] = NUL
    <3>1. PICK x : x = a + l
      OBVIOUS
    <3>2. x \in Int /\ x \notin a .. a + l - 1 /\ First(e) <= x /\ x <= LastCell(e)
      <4>1. First(e) = a - 2 /\ LastCell(e) = a + EStrings[e]
        BY <1>1 DEF First, LastCell
      <4> QED
        BY <1>2, <3>1, <4>1
    <3>3. x \in Cells
      BY <3>2, CellsFacts
    <3>4. mem[x] = NUL
      BY <1>1, <1>3, <3>1 DEF Holds
    <3> QED
      BY <1>7, <3>1, <3>2, <3>3, <3>4
  <2>3. mem'[LenAt(a)] = l
    <3>1. PICK x : x = LenAt(a)
      OBVIOUS
    <3>2. x \in Int /\ x \notin a .. a + l - 1 /\ First(e) <= x /\ x <= LastCell(e)
      BY <1>1, <1>2, <3>1 DEF First, LastCell, LenAt
    <3>3. x \in Cells
      BY <3>2, CellsFacts
    <3>4. mem[x] = l
      BY <1>1, <1>3, <3>1 DEF Holds
    <3> QED
      BY <1>7, <3>1, <3>2, <3>3, <3>4
  <2> QED
    BY <1>1, <1>6, <2>1, <2>2, <2>3 DEF Holds, Begins
<1>11. Len(t) <= EStrings[e]
  BY <1>2, <1>6
<1> QED
  BY <1>3, <1>6, <1>7, <1>8, <1>9, <1>10, <1>11, WholeTextInv

LEMMA CasesAreBytes == Upper \in [Bytes -> Bytes] /\ Lower \in [Bytes -> Bytes]
  BY DEF Upper, Lower, Bytes

\* The routines that only look leave the strings as they are.
LEMMA AskInv ==
  ASSUME EStringInv, pc = "idle" \/ pc = "answered",
         pc' \in {"idle", "answered"}, mem' = mem, str' = str
  PROVE  EStringInv'
<1>1. \A e \in Names : Holds(mem, e, str[e])
  BY DEF EStringInv
<1> QED
  BY <1>1 DEF EStringInv, StrOK, HeaderRight, Holds, Begins

-----------------------------------------------------------------------------
(* Every step keeps the invariant.                                         *)

LEMMA NextInv == ASSUME EStringInv, [Next]_vars PROVE EStringInv'
<1>1. ASSUME NEW e \in Names, NEW src \in Places, NEW n \in Counts,
             \/ StrCopy(e, src, n) \/ StrAdd(e, src, n)
             \/ Compare(e, src, n) \/ Order(e, src, n)
      PROVE  EStringInv'
  <2>1. CASE StrCopy(e, src, n)
    BY <2>1, StrCopyInv
  <2>2. CASE StrAdd(e, src, n)
    BY <2>2, StrAddInv
  <2>3. CASE Compare(e, src, n) \/ Order(e, src, n)
    BY <2>3, AskInv DEF Compare, Order, Ask
  <2> QED
    BY <1>1, <2>1, <2>2, <2>3
<1>2. ASSUME NEW e \in Names, NEW f \in Names, NEW pos \in 0 .. SignLimit, NEW n \in Counts,
             pos <= Len(str[f]), MidStr(e, f, pos, n)
      PROVE  EStringInv'
  BY <1>2, MidStrInv
<1>3. ASSUME NEW e \in Names, NEW f \in Names, NEW n \in Counts \ {ALL}, RightStr(e, f, n)
      PROVE  EStringInv'
  BY <1>3, RightStrInv
<1>4. ASSUME NEW e, NEW src, NEW start, Find(e, src, start) PROVE EStringInv'
  BY <1>4, AskInv DEF Find, Ask
<1>5. ASSUME NEW e \in Names,
             \/ ReadStr(e)
             \/ \E text \in Texts(EStrings[e]) : StringF(e, text)
             \/ \E n \in 0 .. Len(str[e]) : SetStr(e, n)
             \/ ChangeCase(e, Upper) \/ ChangeCase(e, Lower)
      PROVE  EStringInv'
  <2>1. CASE ReadStr(e)
    BY <2>1, ReadStrInv
  <2>2. CASE \E text \in Texts(EStrings[e]) : StringF(e, text)
    BY <2>2, StringFInv
  <2>3. CASE \E n \in 0 .. Len(str[e]) : SetStr(e, n)
    BY <2>3, SetStrInv
  <2>4. CASE ChangeCase(e, Upper) \/ ChangeCase(e, Lower)
    BY <2>4, CasesAreBytes, ChangeCaseInv
  <2> QED
    BY <1>5, <2>1, <2>2, <2>3, <2>4
<1>6. CASE Answered
  BY <1>6, AskInv DEF Answered
<1>7. CASE Step
  <2>1. CASE \E c \in Chars : ReadChar(c)
    BY <2>1, ReadCharInv
  <2>2. CASE \E c \in {EOF, Newline} : ReadDone(c)
    BY <2>2, ReadDoneInv
  <2> QED
    BY <1>7, <2>1, <2>2, CopyCharInv, CopyDoneInv DEF Step
<1>8. CASE UNCHANGED vars
  BY <1>8 DEF vars, EStringInv, StrOK, HeaderRight, Holds, Begins, OthersHold,
              Copying, Reading, Ahead, Behind
<1> QED
  BY <1>1, <1>2, <1>3, <1>4, <1>5, <1>6, <1>7, <1>8 DEF Next

-----------------------------------------------------------------------------
(* The properties.                                                         *)

\* The header words and the texts are where and what they have to be: the
\* invariant of everything that emitRuntime's string routines do.
THEOREM EStringInvariant == Spec => []EStringInv
<1>1. Init => EStringInv
  BY InitInv
<1>2. EStringInv /\ [Next]_vars => EStringInv'
  BY NextInv
<1> QED
  BY <1>1, <1>2, PTL DEF Spec

\* No routine writes into the header of another string, and no length passes its
\* maximum, not even between two characters of a copy.
THEOREM HeadersStayIntact == Spec => []HeadersIntact
<1>1. EStringInv => HeadersIntact
  <2> SUFFICES ASSUME EStringInv, NEW e \in Names
               PROVE  MaxLen(Data(e)) = EStrings[e] /\ CurLen(Data(e)) \in 0 .. EStrings[e]
    BY DEF HeadersIntact
  <2>1. HeaderRight(mem, e)
    BY DEF EStringInv
  <2>2. MaxLen(Data(e)) = EStrings[e]
    BY <2>1, MaxLenIs
  <2>3. PICK w : w = mem[LenAt(Data(e))]
    OBVIOUS
  <2>4. w \in 0 .. EStrings[e] /\ ~ w >= SignLimit
    <3>1. w \in 0 .. EStrings[e]
      BY <2>1, <2>3 DEF HeaderRight
    <3> QED
      BY <3>1, CellsFacts
  <2>5. CurLen(Data(e)) = w
    BY <2>3, <2>4 DEF CurLen, Ext
  <2> QED
    BY <2>2, <2>4, <2>5
<1> QED
  BY <1>1, EStringInvariant, PTL

\* Between calls every string holds, up to its NUL and by its length word, what the
\* program may take it to hold: also when it was copied or appended from itself.
THEOREM ContentsStayRight == Spec => []ContentsRight
<1>1. EStringInv => ContentsRight
  <2> SUFFICES ASSUME EStringInv, pc = "idle", NEW e \in Names
               PROVE  CString(Data(e)) = str[e] /\ CurLen(Data(e)) = Len(str[e])
    BY DEF ContentsRight
  <2>1. StrOK /\ Holds(mem, e, str[e])
    BY DEF EStringInv
  <2> QED
    BY <2>1, CStringIs, TextAt
<1> QED
  BY <1>1, EStringInvariant, PTL

-----------------------------------------------------------------------------
(* The routines that only look.                                            *)

\* A loop that goes on until it comes to one of the places in stops.
ScanEq(f, stops, val) == f = [i \in Nat |-> IF i \in stops THEN val[i] ELSE f[i + 1]]

LEMMA ScanExists ==
  ASSUME NEW stops \in SUBSET Nat, NEW val
  PROVE  \E f : ScanEq(f, stops, val)
<1> DEFINE From(i) == {k \in stops : k >= i}
           IsLeast(k, i) == k \in From(i) /\ \A l \in From(i) : k <= l
           least(i) == CHOOSE k : IsLeast(k, i)
           f == [i \in Nat |-> IF From(i) = {} THEN TRUE ELSE val[least(i)]]
<1>1. ASSUME NEW i \in Nat, From(i) # {} PROVE IsLeast(least(i), i)
  <2>1. From(i) \in SUBSET Nat
    OBVIOUS
  <2>2. \E k : IsLeast(k, i)
    BY <1>1, <2>1, LeastOf
  <2> HIDE DEF IsLeast
  <2> QED
    BY <2>2
<1> HIDE DEF least
<1>2. ASSUME NEW i \in Nat, i \in stops PROVE f[i] = val[i]
  <2>1. i \in From(i)
    BY <1>2
  <2>2. IsLeast(least(i), i)
    BY <1>1, <2>1
  <2>3. least(i) \in Nat /\ least(i) >= i /\ least(i) <= i
    BY <2>1, <2>2
  <2>4. least(i) = i
    BY <2>3
  <2>5. f[i] = val[least(i)]
    BY <2>1
  <2> QED
    BY <2>4, <2>5
<1>3. ASSUME NEW i \in Nat, i \notin stops PROVE f[i] = f[i + 1]
  <2>1. From(i) = From(i + 1) /\ i + 1 \in Nat
    <3>1. ASSUME NEW k \in stops PROVE k >= i <=> k >= i + 1
      <4>1. k \in Nat /\ k # i
        BY <1>3
      <4> QED
        BY <4>1
    <3>2. ASSUME NEW k PROVE k \in From(i) <=> k \in From(i + 1)
      BY <3>1
    <3> HIDE DEF From
    <3>3. From(i) = From(i + 1)
      BY <3>2
    <3> QED
      BY <3>3
  <2>2. \A k : IsLeast(k, i) <=> IsLeast(k, i + 1)
    BY <2>1
  <2> HIDE DEF From, IsLeast
  <2>3. least(i) = least(i + 1)
    BY <2>2 DEF least
  <2> QED
    BY <2>1, <2>3
<1>4. f = [i \in Nat |-> f[i]]
  OBVIOUS
<1> HIDE DEF f
<1>5. ScanEq(f, stops, val)
  BY <1>2, <1>3, <1>4 DEF ScanEq
<1> QED
  BY <1>5

\* The first place from i on where a loop stops.
IsStop(k, i, stops) == k \in stops /\ k >= i /\ \A l \in i .. k - 1 : l \notin stops

LEMMA StopExists ==
  ASSUME NEW stops \in SUBSET Nat, NEW i \in Nat, NEW z \in stops, z >= i
  PROVE  \E k \in Nat : IsStop(k, i, stops) /\ k <= z
<1> DEFINE T == {k \in stops : k >= i}
<1>1. T \in SUBSET Nat /\ T # {} /\ z \in T
  OBVIOUS
<1>2. PICK k \in T : \A l \in T : k <= l
  BY <1>1, LeastOf
<1>3. \A l \in i .. k - 1 : l \notin stops
  BY <1>2
<1>4. k \in Nat /\ IsStop(k, i, stops) /\ k <= z
  BY <1>1, <1>2, <1>3 DEF IsStop
<1> QED
  BY <1>4

LEMMA ScanGives ==
  ASSUME NEW stops \in SUBSET Nat, NEW val, NEW f, ScanEq(f, stops, val),
         NEW i \in Nat, NEW k \in Nat, IsStop(k, i, stops)
  PROVE  f[i] = val[k]
<1> DEFINE Bad == {d \in Nat : d <= k - i /\ f[k - d] # val[k]}
<1>1. \A j \in Nat : f[j] = IF j \in stops THEN val[j] ELSE f[j + 1]
  BY DEF ScanEq
<1>2. k \in stops /\ k >= i /\ \A l \in i .. k - 1 : l \notin stops
  BY DEF IsStop
<1>3. ASSUME Bad # {} PROVE FALSE
  <2>1. PICK d \in Bad : \A c \in Bad : d <= c
    BY <1>3, LeastOf
  <2>2. d # 0
    <3>1. f[k] = val[k] /\ k - 0 = k
      BY <1>1, <1>2
    <3> QED
      BY <2>1, <3>1
  <2>3. d - 1 \in Nat /\ d - 1 <= k - i /\ ~ (d <= d - 1)
    BY <1>2, <2>1, <2>2
  <2>4. f[k - (d - 1)] = val[k]
    BY <2>1, <2>3
  <2>5. k - d \in i .. k - 1 /\ k - d \in Nat /\ (k - d) + 1 = k - (d - 1)
    BY <1>2, <2>1, <2>2
  <2>6. f[k - d] = f[(k - d) + 1]
    BY <1>1, <1>2, <2>5
  <2> QED
    BY <2>1, <2>4, <2>5, <2>6
<1>4. PICK d \in Nat : d = k - i /\ k - d = i
  BY <1>2
<1>5. d \notin Bad
  BY <1>3
<1> QED
  BY <1>4, <1>5

\* Where the comparisons stop: at the count, at a difference or at the NUL.
Same(a0, a1, i) == mem[a0 + i] = mem[a1 + i]
Stops(a0, a1, d2) == {i \in Nat : i = d2 \/ ~Same(a0, a1, i) \/ mem[a0 + i] = NUL}

LEMMA StrCmpIs ==
  ASSUME NEW a0, NEW a1, NEW d2, NEW k \in Nat, IsStop(k, 0, Stops(a0, a1, d2))
  PROVE  StrCmp(a0, a1, d2) = (k = d2 \/ Same(a0, a1, k))
<1> DEFINE stops == Stops(a0, a1, d2)
           val == [i \in Nat |-> IF i = d2 \/ Same(a0, a1, i) THEN TRUE ELSE FALSE]
           Eq(f) == f = [i \in Nat |-> IF i = d2 THEN TRUE
                                       ELSE IF mem[a0 + i] # mem[a1 + i] THEN FALSE
                                       ELSE IF mem[a0 + i] = NUL THEN TRUE ELSE f[i + 1]]
           cmp == CHOOSE f : Eq(f)
<1>1. StrCmp(a0, a1, d2) = cmp[0]
  BY DEF StrCmp
<1>2. stops \in SUBSET Nat
  BY DEF Stops
<1>3. \A f : Eq(f) <=> ScanEq(f, stops, val)
  <2>1. ASSUME NEW f, NEW i \in Nat
        PROVE  (IF i = d2 THEN TRUE
                ELSE IF mem[a0 + i] # mem[a1 + i] THEN FALSE
                ELSE IF mem[a0 + i] = NUL THEN TRUE ELSE f[i + 1])
                 = IF i \in stops THEN val[i] ELSE f[i + 1]
    BY DEF Stops, Same
  <2>2. ASSUME NEW f
        PROVE  [i \in Nat |-> IF i = d2 THEN TRUE
                              ELSE IF mem[a0 + i] # mem[a1 + i] THEN FALSE
                              ELSE IF mem[a0 + i] = NUL THEN TRUE ELSE f[i + 1]]
                 = [i \in Nat |-> IF i \in stops THEN val[i] ELSE f[i + 1]]
    BY <2>1
  <2> HIDE DEF val, stops
  <2> QED
    BY <2>2 DEF ScanEq
<1>4. val[k] = (k = d2 \/ Same(a0, a1, k))
  OBVIOUS
<1> HIDE DEF Eq, val, stops
<1>5. \E f : ScanEq(f, stops, val)
  BY <1>2, ScanExists
<1>6. Eq(cmp)
  BY <1>3, <1>5
<1> HIDE DEF cmp
<1>7. cmp[0] = val[k]
  BY <1>2, <1>3, <1>6, ScanGives DEF stops
<1> QED
  BY <1>1, <1>4, <1>7

LEMMA OstrCmpIs ==
  ASSUME NEW a0, NEW a1, NEW d2, NEW k \in Nat, IsStop(k, 0, Stops(a0, a1, d2)),
         \A l \in 0 .. k : mem[a0 + l] \in Int /\ mem[a1 + l] \in Int
  PROVE  OstrCmp(a0, a1, d2) = IF k = d2 \/ Same(a0, a1, k) THEN 0
                               ELSE IF mem[a0 + k] < mem[a1 + k] THEN 1 ELSE -1
<1> DEFINE cmpval(i) == IF i = d2 THEN 0
                        ELSE IF mem[a0 + i] < mem[a1 + i] THEN 1
                        ELSE IF mem[a0 + i] > mem[a1 + i] THEN -1 ELSE 0
           on == {i \in Nat : ~ (i = d2) /\ ~ (mem[a0 + i] < mem[a1 + i])
                              /\ ~ (mem[a0 + i] > mem[a1 + i]) /\ mem[a0 + i] # NUL}
           stops == Nat \ on
           val == [i \in Nat |-> cmpval(i)]
           Eq(f) == f = [i \in Nat |-> IF i = d2 THEN 0
                                       ELSE IF mem[a0 + i] < mem[a1 + i] THEN 1
                                       ELSE IF mem[a0 + i] > mem[a1 + i] THEN -1
                                       ELSE IF mem[a0 + i] = NUL THEN 0 ELSE f[i + 1]]
           cmp == CHOOSE f : Eq(f)
<1>1. OstrCmp(a0, a1, d2) = cmp[0]
  BY DEF OstrCmp
<1>2. \A f : Eq(f) <=> ScanEq(f, stops, val)
  <2>1. ASSUME NEW f, NEW i \in Nat
        PROVE  (IF i = d2 THEN 0
                ELSE IF mem[a0 + i] < mem[a1 + i] THEN 1
                ELSE IF mem[a0 + i] > mem[a1 + i] THEN -1
                ELSE IF mem[a0 + i] = NUL THEN 0 ELSE f[i + 1])
                 = IF i \in stops THEN val[i] ELSE f[i + 1]
    OBVIOUS
  <2>2. ASSUME NEW f
        PROVE  [i \in Nat |-> IF i = d2 THEN 0
                              ELSE IF mem[a0 + i] < mem[a1 + i] THEN 1
                              ELSE IF mem[a0 + i] > mem[a1 + i] THEN -1
                              ELSE IF mem[a0 + i] = NUL THEN 0 ELSE f[i + 1]]
                 = [i \in Nat |-> IF i \in stops THEN val[i] ELSE f[i + 1]]
    BY <2>1
  <2> HIDE DEF val, stops
  <2> QED
    BY <2>2 DEF ScanEq
<1> HIDE DEF Eq
<1>3. Eq(cmp)
  <2> HIDE DEF val
  <2>1. \E f : ScanEq(f, stops, val)
    BY ScanExists
  <2> QED
    BY <1>2, <2>1
<1> HIDE DEF cmp
<1>4. IsStop(k, 0, stops)
  <2>1. k \in Stops(a0, a1, d2) /\ k >= 0 /\ \A l \in 0 .. k - 1 : l \notin Stops(a0, a1, d2)
    BY DEF IsStop
  <2>2. k \in stops
    BY <2>1 DEF Stops, Same
  <2>3. ASSUME NEW l \in 0 .. k - 1 PROVE l \in on
    BY <2>1 DEF Stops, Same
  <2> QED
    BY <2>1, <2>2, <2>3 DEF IsStop
<1>5. cmp[0] = val[k]
  <2> HIDE DEF val
  <2>1. stops \in SUBSET Nat
    OBVIOUS
  <2> HIDE DEF stops
  <2> QED
    BY <1>2, <1>3, <1>4, <2>1, ScanGives
<1>6. val[k] = cmpval(k)
  OBVIOUS
<1> QED
  BY <1>1, <1>5, <1>6 DEF Same

\* The text t is in memory at a.
Text(a, t) ==
  /\ t \in Seq(Bytes)
  /\ \A i \in 0 .. Len(t) - 1 : mem[a + i] = t[i + 1]
  /\ mem[a + Len(t)] = NUL

LEMMA TextIs ==
  ASSUME NEW a, NEW t, Text(a, t)
  PROVE  /\ Len(t) \in Nat /\ \A i \in 1 .. Len(t) : t[i] \in Int /\ t[i] > NUL
         /\ \A i \in 0 .. Len(t) - 1 : mem[a + i] = t[i + 1] /\ mem[a + i] \in Int /\ mem[a + i] > NUL
         /\ mem[a + Len(t)] = NUL
<1>1. Len(t) \in Nat /\ \A i \in 1 .. Len(t) : t[i] \in Bytes
  BY DEF Text
<1>2. \A i \in 1 .. Len(t) : t[i] \in Int /\ t[i] > NUL
  <2>1. \A x \in Bytes : x \in Int /\ x > NUL
    BY DEF Bytes, NUL
  <2> QED
    BY <1>1, <2>1
<1>3. ASSUME NEW i \in 0 .. Len(t) - 1 PROVE mem[a + i] = t[i + 1] /\ mem[a + i] \in Int /\ mem[a + i] > NUL
  <2>1. mem[a + i] = t[i + 1] /\ i + 1 \in 1 .. Len(t)
    BY <1>1 DEF Text
  <2> QED
    BY <1>2, <2>1
<1> QED
  BY <1>1, <1>2, <1>3 DEF Text

LEMMA StringIsText ==
  ASSUME StrOK, NEW e \in Names, Holds(mem, e, str[e])
  PROVE  Text(Data(e), str[e])
BY TextAt DEF StrOK, Text

LEMMA PlaceIsText ==
  ASSUME StrOK, NEW f \in Names, NEW p \in 0 .. Len(str[f]), Holds(mem, f, str[f])
  PROVE  Text(Place(<<f, p>>), Suffix(<<f, p>>))
<1> DEFINE a == Data(f)
           s == str[f]
           t == Suffix(<<f, p>>)
<1>1. Text(a, s) /\ a \in Nat
  BY StringIsText, DataNat
<1>2. Len(s) \in Nat /\ mem[a + Len(s)] = NUL /\ \A i \in 0 .. Len(s) - 1 : mem[a + i] = s[i + 1]
  BY <1>1, TextIs
<1>3. t \in Seq(Bytes) /\ Len(t) = Len(s) - p /\ \A i \in 1 .. Len(s) - p : t[i] = s[p + i]
  BY SuffixFacts DEF Part
<1>4. Place(<<f, p>>) = a + p
  BY DEF Place
<1> HIDE DEF a, s, t
<1>5. p \in 0 .. Len(s)
  BY DEF s
<1>6. ASSUME NEW i \in 0 .. Len(t) - 1 PROVE mem[(a + p) + i] = t[i + 1]
  <2>1. p + i \in 0 .. Len(s) - 1 /\ i + 1 \in 1 .. Len(s) - p /\ (a + p) + i = a + (p + i)
        /\ (p + i) + 1 = p + (i + 1)
    BY <1>1, <1>2, <1>3, <1>5
  <2>2. mem[a + (p + i)] = s[(p + i) + 1] /\ t[i + 1] = s[p + (i + 1)]
    BY <1>2, <1>3, <2>1
  <2> QED
    BY <2>1, <2>2
<1>7. (a + p) + Len(t) = a + Len(s)
  BY <1>1, <1>2, <1>3, <1>5
<1> QED
  BY <1>2, <1>3, <1>4, <1>6, <1>7 DEF Text, t

\* Two texts are the same up to the k-th character, and may differ in the next one,
\* where the first is the lesser.
Agree(s, t, k) == k <= Len(s) /\ k <= Len(t) /\ \A i \in 1 .. k : s[i] = t[i]
Differ(s, t, k) == \/ k < Len(s) /\ k < Len(t) /\ s[k + 1] # t[k + 1]
                   \/ k < Len(s) /\ k = Len(t)
                   \/ k = Len(s) /\ k < Len(t)
Lesser(s, t, k) == k < Len(t) /\ (k = Len(s) \/ (k < Len(s) /\ s[k + 1] < t[k + 1]))

\* What a comparison finds where it stops.
Stopped(a0, a1, d2, s, t, k) ==
  /\ IsStop(k, 0, Stops(a0, a1, d2))
  /\ \A l \in 0 .. k : mem[a0 + l] \in Int /\ mem[a1 + l] \in Int
  /\ Agree(s, t, k)
  /\ d2 >= 0 => k <= d2
  /\ k # d2 /\ Same(a0, a1, k) => k = Len(s) /\ k = Len(t)
  /\ ~Same(a0, a1, k) => Differ(s, t, k) /\ (mem[a0 + k] < mem[a1 + k] <=> Lesser(s, t, k))

LEMMA StopIs ==
  ASSUME NEW a0, NEW a1, NEW s, NEW t, Text(a0, s), Text(a1, t), NEW d2 \in Int
  PROVE  \E k \in Nat : Stopped(a0, a1, d2, s, t, k)
<1> DEFINE stops == Stops(a0, a1, d2)
           m == Len(s)
           n == Len(t)
<1>1. /\ m \in Nat /\ \A i \in 0 .. m - 1 : mem[a0 + i] = s[i + 1] /\ mem[a0 + i] \in Int /\ mem[a0 + i] > NUL
      /\ mem[a0 + m] = NUL
  BY TextIs
<1>2. /\ n \in Nat /\ \A i \in 0 .. n - 1 : mem[a1 + i] = t[i + 1] /\ mem[a1 + i] \in Int /\ mem[a1 + i] > NUL
      /\ mem[a1 + n] = NUL
  BY TextIs
<1>3. stops \in SUBSET Nat /\ m \in stops
  BY <1>1 DEF Stops
<1>4. PICK k \in Nat : IsStop(k, 0, stops) /\ k <= m
  <2> HIDE DEF stops, m
  <2> QED
    BY <1>1, <1>3, StopExists
<1>5. \A l \in 0 .. k - 1 : l # d2 /\ Same(a0, a1, l) /\ mem[a0 + l] # NUL
  <2>1. \A l \in 0 .. k - 1 : l \in Nat /\ l \notin stops
    BY <1>4 DEF IsStop
  <2> QED
    BY <2>1 DEF Stops
<1>6. k = d2 \/ ~Same(a0, a1, k) \/ mem[a0 + k] = NUL
  BY <1>4 DEF IsStop, Stops
<1> HIDE DEF m, n, stops
<1>7. k <= n
  <2>1. ASSUME n < k PROVE FALSE
    <3>1. n \in 0 .. k - 1
      BY <1>2, <2>1
    <3> QED
      BY <1>2, <1>5, <3>1 DEF Same
  <2> QED
    BY <1>2, <2>1
<1>8. ASSUME NEW i \in 1 .. k PROVE s[i] = t[i]
  <2>1. i - 1 \in 0 .. k - 1 /\ i - 1 \in 0 .. m - 1 /\ i - 1 \in 0 .. n - 1 /\ (i - 1) + 1 = i
    BY <1>1, <1>2, <1>4, <1>7
  <2>2. mem[a0 + (i - 1)] = s[(i - 1) + 1] /\ mem[a1 + (i - 1)] = t[(i - 1) + 1]
    BY <1>1, <1>2, <2>1
  <2>3. mem[a0 + (i - 1)] = mem[a1 + (i - 1)]
    BY <1>5, <2>1 DEF Same
  <2> QED
    BY <2>1, <2>2, <2>3
<1>9. /\ k < m => k \in 0 .. m - 1
      /\ k < n => k \in 0 .. n - 1
      /\ k = m \/ k < m
      /\ k = n \/ k < n
  BY <1>1, <1>2, <1>4, <1>7
<1>10. /\ k < m => mem[a0 + k] = s[k + 1] /\ mem[a0 + k] \in Int /\ mem[a0 + k] > NUL
       /\ k < n => mem[a1 + k] = t[k + 1] /\ mem[a1 + k] \in Int /\ mem[a1 + k] > NUL
       /\ k = m => mem[a0 + k] = NUL
       /\ k = n => mem[a1 + k] = NUL
  BY <1>1, <1>2, <1>9
<1>11. ASSUME NEW l \in 0 .. k PROVE mem[a0 + l] \in Int /\ mem[a1 + l] \in Int
  <2>1. CASE l = k
    BY <1>9, <1>10, <2>1 DEF NUL
  <2>2. CASE l # k
    <3>1. l \in 0 .. m - 1 /\ l \in 0 .. n - 1
      BY <1>1, <1>2, <1>4, <1>7, <2>2
    <3> QED
      BY <1>1, <1>2, <3>1
  <2> QED
    BY <2>1, <2>2
<1>12. ASSUME d2 >= 0 PROVE k <= d2
  <2>1. ASSUME d2 < k PROVE FALSE
    <3>1. d2 \in 0 .. k - 1
      BY <1>12, <2>1
    <3> QED
      BY <1>5, <3>1
  <2> QED
    BY <2>1
<1>13. ASSUME k # d2, Same(a0, a1, k) PROVE k = m /\ k = n
  <2>1. mem[a0 + k] = NUL /\ mem[a1 + k] = NUL
    BY <1>6, <1>13 DEF Same
  <2> QED
    BY <1>9, <1>10, <2>1 DEF NUL
<1>14. ASSUME ~Same(a0, a1, k)
       PROVE  Differ(s, t, k) /\ (mem[a0 + k] < mem[a1 + k] <=> Lesser(s, t, k))
  <2>1. mem[a0 + k] # mem[a1 + k]
    BY <1>14 DEF Same
  <2>2. CASE k < m /\ k < n
    <3>1. mem[a0 + k] = s[k + 1] /\ mem[a1 + k] = t[k + 1] /\ k # m
      BY <1>10, <2>2, <1>1
    <3> QED
      BY <2>1, <2>2, <3>1 DEF Differ, Lesser, m, n
  <2>3. CASE k < m /\ k = n
    <3>1. mem[a1 + k] = NUL /\ mem[a0 + k] > NUL /\ mem[a0 + k] \in Int
      BY <1>10, <2>3
    <3>2. ~ (mem[a0 + k] < mem[a1 + k]) /\ ~ (k < n)
      BY <1>2, <2>3, <3>1 DEF NUL
    <3> QED
      BY <2>3, <3>2 DEF Differ, Lesser, m, n
  <2>4. CASE k = m /\ k < n
    <3>1. mem[a0 + k] = NUL /\ mem[a1 + k] > NUL /\ mem[a1 + k] \in Int
      BY <1>10, <2>4
    <3>2. mem[a0 + k] < mem[a1 + k]
      BY <3>1 DEF NUL
    <3> QED
      BY <2>4, <3>2 DEF Differ, Lesser, m, n
  <2>5. CASE k = m /\ k = n
    BY <1>10, <2>1, <2>5
  <2> QED
    BY <1>9, <2>2, <2>3, <2>4, <2>5
<1>15. Agree(s, t, k)
  BY <1>4, <1>7, <1>8 DEF Agree, m, n
<1>16. Stopped(a0, a1, d2, s, t, k)
  BY <1>4, <1>11, <1>12, <1>13, <1>14, <1>15 DEF Stopped, m, n, stops
<1> QED
  BY <1>16

\* The first n characters of a text.
Cut(s, n) == Prefix(s, n, n)

LEMMA CutIs ==
  ASSUME NEW s \in Seq(Bytes), NEW n \in Nat
  PROVE  /\ Cut(s, n) \in Seq(Bytes) /\ Len(Cut(s, n)) \in Nat /\ Len(s) \in Nat
         /\ n <= Len(s) => Len(Cut(s, n)) = n
         /\ n >= Len(s) => Len(Cut(s, n)) = Len(s)
         /\ \A i \in 1 .. Len(Cut(s, n)) : Cut(s, n)[i] = s[i]
<1> DEFINE c == Cut(s, n)
<1>0. n \in Int /\ n >= ALL /\ n # ALL /\ c = Prefix(s, n, n) /\ Len(s) \in Nat
  BY DEF ALL, Cut
<1> HIDE DEF c
<1>1. /\ c \in Seq(Bytes) /\ Len(c) \in Nat /\ Len(c) <= Len(s) /\ Len(c) <= n
      /\ Len(c) = n \/ Len(c) = Len(s)
      /\ \A i \in 1 .. Len(c) : c[i] = s[i]
  BY <1>0, PrefixFacts
<1> QED
  BY <1>0, <1>1 DEF c

LEMMA CutsEqual ==
  ASSUME NEW s \in Seq(Bytes), NEW t \in Seq(Bytes), NEW n \in Nat, NEW k \in Nat, Agree(s, t, k),
         k = n \/ (k <= n /\ k = Len(s) /\ k = Len(t))
  PROVE  Cut(s, n) = Cut(t, n)
<1> DEFINE c == Cut(s, n)
           d == Cut(t, n)
<1>1. c \in Seq(Bytes) /\ Len(c) = k /\ \A i \in 1 .. k : c[i] = s[i]
  BY CutIs DEF Agree
<1>2. d \in Seq(Bytes) /\ Len(d) = k /\ \A i \in 1 .. k : d[i] = t[i]
  BY CutIs DEF Agree
<1> HIDE DEF c, d
<1>3. Len(c) = Len(d) /\ \A i \in 1 .. Len(c) : c[i] = d[i]
  BY <1>1, <1>2 DEF Agree
<1>4. c = d
  <2> HIDE DEF Bytes
  <2> QED
    BY <1>1, <1>2, <1>3, SeqEqual
<1> QED
  BY <1>4 DEF c, d

\* The order of texts goes by the first difference.
LEMMA OrderIs ==
  ASSUME NEW c \in Seq(Bytes), NEW d \in Seq(Bytes), NEW k \in Nat, Agree(c, d, k), Differ(c, d, k)
  PROVE  c # d /\ (Precedes(c, d) <=> Lesser(c, d, k))
<1>0. Bytes \subseteq Int
  BY DEF Bytes
<1>1. Len(c) \in Nat /\ Len(d) \in Nat /\ \A i \in 1 .. Len(c) : c[i] \in Int
  <2>1. Len(c) \in Nat /\ Len(d) \in Nat /\ \A i \in 1 .. Len(c) : c[i] \in Bytes
    OBVIOUS
  <2> QED
    BY <1>0, <2>1
<1>2. \A i \in 1 .. Len(d) : d[i] \in Int
  <2>1. \A i \in 1 .. Len(d) : d[i] \in Bytes
    OBVIOUS
  <2> QED
    BY <1>0, <2>1
<1>3. k <= Len(c) /\ k <= Len(d) /\ \A i \in 1 .. k : c[i] = d[i]
  BY DEF Agree
<1>4. c # d
  BY <1>1 DEF Differ
<1>5. Least(Len(c), Len(d)) \in Nat /\ \A j \in Nat : j <= Least(Len(c), Len(d)) <=> j <= Len(c) /\ j <= Len(d)
  BY <1>1 DEF Least
<1>6. ASSUME Lesser(c, d, k) PROVE Precedes(c, d)
  <2>1. k \in 0 .. Least(Len(c), Len(d))
    BY <1>3, <1>5
  <2> QED
    BY <1>3, <1>6, <2>1 DEF Precedes, Lesser
<1>7. ASSUME Precedes(c, d) PROVE Lesser(c, d, k)
  <2>1. PICK j \in 0 .. Least(Len(c), Len(d)) :
          /\ \A i \in 1 .. j : c[i] = d[i]
          /\ j < Len(d)
          /\ j = Len(c) \/ (j < Len(c) /\ c[j + 1] < d[j + 1])
    BY <1>7 DEF Precedes
  <2>2. j \in Nat /\ j <= Len(c) /\ j <= Len(d)
    BY <1>5, <2>1
  <2>3. CASE j < k
    <3>1. j + 1 \in 1 .. k /\ j + 1 \in 1 .. Len(c) /\ j # Len(c)
      BY <1>1, <1>3, <2>2, <2>3
    <3>2. c[j + 1] = d[j + 1] /\ c[j + 1] \in Int
      BY <1>1, <1>3, <3>1
    <3>3. c[j + 1] < d[j + 1]
      BY <2>1, <3>1
    <3> QED
      BY <3>2, <3>3
  <2>4. CASE j > k
    <3>1. k + 1 \in 1 .. j /\ k < Len(c) /\ k < Len(d)
      BY <1>1, <2>2, <2>4
    <3>2. c[k + 1] = d[k + 1]
      BY <2>1, <3>1
    <3> QED
      BY <1>1, <3>1, <3>2 DEF Differ
  <2>5. CASE j = k
    BY <2>1, <2>5 DEF Lesser
  <2> QED
    BY <2>2, <2>3, <2>4, <2>5
<1> QED
  BY <1>4, <1>6, <1>7

LEMMA CutsDiffer ==
  ASSUME NEW s \in Seq(Bytes), NEW t \in Seq(Bytes), NEW n \in Nat, NEW k \in Nat, k < n,
         Agree(s, t, k), Differ(s, t, k)
  PROVE  Cut(s, n) # Cut(t, n) /\ (Precedes(Cut(s, n), Cut(t, n)) <=> Lesser(s, t, k))
<1> DEFINE c == Cut(s, n)
           d == Cut(t, n)
<1>1. /\ c \in Seq(Bytes) /\ Len(c) \in Nat /\ Len(s) \in Nat
      /\ n <= Len(s) => Len(c) = n
      /\ n >= Len(s) => Len(c) = Len(s)
      /\ \A i \in 1 .. Len(c) : c[i] = s[i]
  BY CutIs
<1>2. /\ d \in Seq(Bytes) /\ Len(d) \in Nat /\ Len(t) \in Nat
      /\ n <= Len(t) => Len(d) = n
      /\ n >= Len(t) => Len(d) = Len(t)
      /\ \A i \in 1 .. Len(d) : d[i] = t[i]
  BY CutIs
<1> HIDE DEF c, d
<1>3. k <= Len(s) /\ k <= Len(t) /\ \A i \in 1 .. k : s[i] = t[i]
  BY DEF Agree
<1>4. /\ k <= Len(c) /\ k <= Len(d)
      /\ k < Len(c) <=> k < Len(s)
      /\ k < Len(d) <=> k < Len(t)
      /\ k = Len(c) <=> k = Len(s)
      /\ k = Len(d) <=> k = Len(t)
  BY <1>1, <1>2, <1>3
<1>5. /\ k < Len(c) => c[k + 1] = s[k + 1]
      /\ k < Len(d) => d[k + 1] = t[k + 1]
  <2>1. k < Len(c) => k + 1 \in 1 .. Len(c)
    BY <1>1
  <2>2. k < Len(d) => k + 1 \in 1 .. Len(d)
    BY <1>2
  <2> QED
    BY <1>1, <1>2, <2>1, <2>2
<1>6. \A i \in 1 .. k : c[i] = d[i]
  BY <1>1, <1>2, <1>3, <1>4
<1>7. Agree(c, d, k) /\ Differ(c, d, k) /\ (Lesser(c, d, k) <=> Lesser(s, t, k))
  BY <1>4, <1>5, <1>6 DEF Agree, Differ, Lesser
<1>8. c # d /\ (Precedes(c, d) <=> Lesser(c, d, k))
  BY <1>1, <1>2, <1>7, OrderIs
<1> QED
  BY <1>7, <1>8 DEF c, d

\* What the program counts as compared: the characters up to the count.
Counted(s, t, d2) == IF d2 = ALL THEN Len(s) + Len(t) ELSE d2

LEMMA ComparesRight ==
  ASSUME NEW a0, NEW a1, NEW s, NEW t, Text(a0, s), Text(a1, t), NEW d2 \in Int, d2 >= ALL
  PROVE  LET n == Counted(s, t, d2)
         IN /\ StrCmp(a0, a1, d2) = (Cut(s, n) = Cut(t, n))
            /\ OstrCmp(a0, a1, d2) = IF Cut(s, n) = Cut(t, n) THEN 0
                                     ELSE IF Precedes(Cut(s, n), Cut(t, n)) THEN 1 ELSE -1
<1> DEFINE n == Counted(s, t, d2)
           c == Cut(s, n)
           d == Cut(t, n)
<1>1. PICK k \in Nat : Stopped(a0, a1, d2, s, t, k)
  BY StopIs
<1>2. s \in Seq(Bytes) /\ t \in Seq(Bytes) /\ Len(s) \in Nat /\ Len(t) \in Nat
  BY DEF Text
<1>3. n \in Nat
  BY <1>2 DEF Counted, ALL
<1>4. /\ IsStop(k, 0, Stops(a0, a1, d2))
      /\ \A l \in 0 .. k : mem[a0 + l] \in Int /\ mem[a1 + l] \in Int
      /\ Agree(s, t, k)
      /\ d2 >= 0 => k <= d2
      /\ k # d2 /\ Same(a0, a1, k) => k = Len(s) /\ k = Len(t)
      /\ ~Same(a0, a1, k) => Differ(s, t, k) /\ (mem[a0 + k] < mem[a1 + k] <=> Lesser(s, t, k))
  BY <1>1 DEF Stopped
<1>5. StrCmp(a0, a1, d2) = (k = d2 \/ Same(a0, a1, k))
  BY <1>4, StrCmpIs
<1>6. OstrCmp(a0, a1, d2) = IF k = d2 \/ Same(a0, a1, k) THEN 0
                            ELSE IF mem[a0 + k] < mem[a1 + k] THEN 1 ELSE -1
  BY <1>4, OstrCmpIs
<1>7. ASSUME k = d2 \/ Same(a0, a1, k) PROVE c = d
  <2>1. CASE k = d2
    <3>1. k = n
      BY <2>1 DEF Counted, ALL
    <3> HIDE DEF n
    <3> QED
      BY <1>2, <1>3, <1>4, <3>1, CutsEqual
  <2>2. CASE k # d2
    <3>1. k = Len(s) /\ k = Len(t)
      BY <1>4, <1>7, <2>2
    <3>2. k <= n
      BY <1>2, <1>4, <3>1 DEF Counted, ALL
    <3> HIDE DEF n
    <3> QED
      BY <1>2, <1>3, <1>4, <3>1, <3>2, CutsEqual
  <2> QED
    BY <2>1, <2>2
<1>8. ASSUME ~ (k = d2 \/ Same(a0, a1, k))
      PROVE  c # d /\ (Precedes(c, d) <=> mem[a0 + k] < mem[a1 + k])
  <2>1. Differ(s, t, k) /\ (mem[a0 + k] < mem[a1 + k] <=> Lesser(s, t, k))
    BY <1>4, <1>8
  <2>2. k < n
    <3>1. CASE d2 = ALL
      BY <1>2, <2>1, <3>1 DEF Counted, Differ
    <3>2. CASE d2 # ALL
      <4>1. d2 >= 0 /\ n = d2
        BY <3>2 DEF Counted, ALL
      <4> QED
        BY <1>4, <1>8, <4>1
    <3> QED
      BY <3>1, <3>2
  <2> HIDE DEF n
  <2> QED
    BY <1>2, <1>3, <1>4, <2>1, <2>2, CutsDiffer
<1> HIDE DEF c, d, n
<1>9. StrCmp(a0, a1, d2) = (c = d)
  BY <1>5, <1>7, <1>8
<1>10. OstrCmp(a0, a1, d2) = IF c = d THEN 0 ELSE IF Precedes(c, d) THEN 1 ELSE -1
  BY <1>6, <1>7, <1>8
<1> QED
  BY <1>9, <1>10 DEF c, d, n

LEMMA FoundAtIs ==
  ASSUME NEW s \in Seq(Bytes), NEW t \in Seq(Bytes), NEW i \in Nat
  PROVE  FoundAt(s, t, i) <=> /\ i < Len(s) /\ i + Len(t) <= Len(s)
                              /\ \A j \in 1 .. Len(t) : s[i + j] = t[j]
<1>1. Len(s) \in Nat /\ Len(t) \in Nat
  OBVIOUS
<1> SUFFICES ASSUME i < Len(s), i + Len(t) <= Len(s)
             PROVE  SubSeq(s, i + 1, i + Len(t)) = t <=> \A j \in 1 .. Len(t) : s[i + j] = t[j]
  BY DEF FoundAt
<1>2. PICK u, q : q = i + Len(t) /\ u = SubSeq(s, i + 1, q)
  OBVIOUS
<1>3. q \in Nat /\ i <= q /\ q <= Len(s) /\ q - i = Len(t) /\ IsPart(u, s, i, q)
  BY <1>1, <1>2 DEF IsPart
<1>4. u \in Seq(Bytes) /\ Len(u) = Len(t) /\ \A j \in 1 .. Len(t) : u[j] = s[i + j]
  BY <1>3, SubSeqFacts DEF Part
<1>5. (\A j \in 1 .. Len(t) : s[i + j] = t[j]) => u = t
  <2> HIDE DEF Bytes
  <2>1. ASSUME \A j \in 1 .. Len(t) : s[i + j] = t[j] PROVE \A j \in 1 .. Len(u) : u[j] = t[j]
    BY <1>4, <2>1
  <2> QED
    BY <1>4, <2>1, SeqEqual
<1>6. u = t => \A j \in 1 .. Len(t) : s[i + j] = t[j]
  BY <1>4
<1> QED
  BY <1>2, <1>5, <1>6

\* One place of a search: its loop stops at the needle's NUL or at a difference.
LEMMA MatchesIs ==
  ASSUME NEW a \in Nat, NEW b, NEW s, NEW t, Text(a, s), Text(b, t), NEW i \in Nat, i < Len(s)
  PROVE  Matches(a + i, b) = FoundAt(s, t, i)
<1> DEFINE h == a + i
           m == Len(s)
           n == Len(t)
           stops == {j \in Nat : mem[b + j] = NUL \/ mem[h + j] # mem[b + j]}
           val == [j \in Nat |-> IF mem[b + j] = NUL THEN TRUE ELSE FALSE]
           Eq(f) == f = [j \in Nat |-> IF mem[b + j] = NUL THEN TRUE
                                       ELSE IF mem[h + j] # mem[b + j] THEN FALSE ELSE f[j + 1]]
           same == CHOOSE f : Eq(f)
<1>1. Matches(h, b) = same[0]
  BY DEF Matches
<1>2. stops \in SUBSET Nat
  OBVIOUS
<1>3. \A f : Eq(f) <=> ScanEq(f, stops, val)
  <2>1. ASSUME NEW f, NEW j \in Nat
        PROVE  (IF mem[b + j] = NUL THEN TRUE
                ELSE IF mem[h + j] # mem[b + j] THEN FALSE ELSE f[j + 1])
                 = IF j \in stops THEN val[j] ELSE f[j + 1]
    <3> HIDE DEF h
    <3> QED
      OBVIOUS
  <2>2. ASSUME NEW f
        PROVE  [j \in Nat |-> IF mem[b + j] = NUL THEN TRUE
                              ELSE IF mem[h + j] # mem[b + j] THEN FALSE ELSE f[j + 1]]
                 = [j \in Nat |-> IF j \in stops THEN val[j] ELSE f[j + 1]]
    BY <2>1
  <2> HIDE DEF val, stops
  <2> QED
    BY <2>2 DEF ScanEq
<1>4. /\ m \in Nat /\ \A j \in 0 .. m - 1 : mem[a + j] = s[j + 1] /\ mem[a + j] > NUL /\ mem[a + j] \in Int
      /\ mem[a + m] = NUL
  BY TextIs
<1>5. /\ n \in Nat /\ \A j \in 0 .. n - 1 : mem[b + j] = t[j + 1] /\ mem[b + j] > NUL /\ mem[b + j] \in Int
      /\ mem[b + n] = NUL
  BY TextIs
<1>6. n \in stops
  BY <1>5
<1>7. \A j \in Nat : val[j] = (mem[b + j] = NUL)
  OBVIOUS
<1>8. \A j \in Nat : j \in stops <=> mem[b + j] = NUL \/ mem[h + j] # mem[b + j]
  OBVIOUS
<1>9. \A j \in Nat : mem[h + j] = mem[a + (i + j)]
  <2>1. \A j \in Nat : h + j = a + (i + j)
    OBVIOUS
  <2> QED
    BY <2>1
<1> HIDE DEF Eq, val, stops, h, m, n
<1>10. Eq(same)
  BY <1>2, <1>3, ScanExists
<1> HIDE DEF same
<1>11. PICK k \in Nat : IsStop(k, 0, stops) /\ k <= n
  BY <1>2, <1>5, <1>6, StopExists
<1>12. same[0] = (mem[b + k] = NUL)
  BY <1>2, <1>3, <1>7, <1>10, <1>11, ScanGives
<1>13. ASSUME NEW j \in 0 .. k - 1 PROVE mem[b + j] # NUL /\ mem[a + (i + j)] = mem[b + j]
  <2>1. j \in Nat /\ j \notin stops
    BY <1>11 DEF IsStop
  <2> QED
    BY <1>8, <1>9, <2>1
<1>14. mem[b + k] = NUL \/ mem[a + (i + k)] # mem[b + k]
  BY <1>8, <1>9, <1>11 DEF IsStop
<1>15. FoundAt(s, t, i) <=> i + n <= m /\ \A j \in 1 .. n : s[i + j] = t[j]
  BY FoundAtIs DEF Text, m, n
<1>16. CASE k = n
  <2>1. mem[b + k] = NUL
    BY <1>5, <1>16
  <2>2. i + n <= m
    <3>1. ASSUME i + n > m PROVE FALSE
      <4>1. m - i \in 0 .. k - 1 /\ m - i \in 0 .. n - 1 /\ i + (m - i) = m
        BY <1>4, <1>5, <1>16, <3>1 DEF m
      <4>2. mem[a + (i + (m - i))] = mem[b + (m - i)]
        BY <1>13, <4>1
      <4> QED
        BY <1>4, <1>13, <4>1, <4>2
    <3> QED
      BY <1>4, <1>5, <3>1
  <2>3. ASSUME NEW j \in 1 .. n PROVE s[i + j] = t[j]
    <3>1. j - 1 \in 0 .. k - 1 /\ j - 1 \in 0 .. n - 1 /\ i + (j - 1) \in 0 .. m - 1
          /\ (j - 1) + 1 = j /\ (i + (j - 1)) + 1 = i + j
      BY <1>4, <1>5, <1>16, <2>2
    <3>2. mem[a + (i + (j - 1))] = mem[b + (j - 1)]
      BY <1>13, <3>1
    <3>3. mem[a + (i + (j - 1))] = s[(i + (j - 1)) + 1]
      BY <1>4, <3>1
    <3>4. mem[b + (j - 1)] = t[(j - 1) + 1]
      BY <1>5, <3>1
    <3> QED
      BY <3>1, <3>2, <3>3, <3>4
  <2>4. FoundAt(s, t, i) = TRUE
    BY <1>15, <2>2, <2>3 DEF FoundAt
  <2> QED
    BY <1>1, <1>12, <2>1, <2>4 DEF h
<1>17. CASE k # n
  <2>1. k \in 0 .. n - 1 /\ k + 1 \in 1 .. n
    BY <1>5, <1>11, <1>17
  <2>2. mem[b + k] # NUL /\ mem[b + k] = t[k + 1] /\ mem[a + (i + k)] # mem[b + k]
    BY <1>5, <1>14, <2>1 DEF NUL
  <2>3. ASSUME FoundAt(s, t, i) PROVE FALSE
    <3>1. i + n <= m /\ s[i + (k + 1)] = t[k + 1]
      BY <1>15, <2>1, <2>3
    <3>2. i + k \in 0 .. m - 1 /\ (i + k) + 1 = i + (k + 1)
      BY <1>4, <1>5, <2>1, <3>1
    <3>3. mem[a + (i + k)] = s[(i + k) + 1]
      BY <1>4, <3>2
    <3> QED
      BY <2>2, <3>1, <3>2, <3>3
  <2>4. FoundAt(s, t, i) = FALSE
    BY <2>3 DEF FoundAt
  <2> QED
    BY <1>1, <1>12, <2>2, <2>4 DEF h
<1> QED
  BY <1>16, <1>17

\* The search's answer: the first place from start on, or -1.
Finds(value, s, t, start) ==
  IF \E i \in start .. Len(s) : FoundAt(s, t, i)
  THEN FoundAt(s, t, value) /\ \A i \in start .. value - 1 : ~FoundAt(s, t, i)
  ELSE value = -1

LEMMA FindsRight ==
  ASSUME NEW a \in Nat, NEW b, NEW s, NEW t, Text(a, s), Text(b, t), NEW start \in Nat, start <= Len(s)
  PROVE  Finds(InStr(a, b, start), s, t, start)
<1> DEFINE m == Len(s)
           ends(i) == mem[a + i] = NUL
           stops == {i \in Nat : ends(i) \/ Matches(a + i, b)}
           val == [i \in Nat |-> IF ends(i) THEN -1 ELSE i]
           Eq(f) == f = [i \in Nat |-> IF mem[a + i] = NUL THEN -1
                                       ELSE IF Matches(a + i, b) THEN i ELSE f[i + 1]]
           from == CHOOSE f : Eq(f)
<1>1. InStr(a, b, start) = from[start]
  BY DEF InStr
<1>2. stops \in SUBSET Nat
  OBVIOUS
<1>3. \A f : Eq(f) <=> ScanEq(f, stops, val)
  <2>1. ASSUME NEW f, NEW i \in Nat
        PROVE  (IF mem[a + i] = NUL THEN -1 ELSE IF Matches(a + i, b) THEN i ELSE f[i + 1])
                 = IF i \in stops THEN val[i] ELSE f[i + 1]
    OBVIOUS
  <2>2. ASSUME NEW f
        PROVE  [i \in Nat |-> IF mem[a + i] = NUL THEN -1 ELSE IF Matches(a + i, b) THEN i ELSE f[i + 1]]
                 = [i \in Nat |-> IF i \in stops THEN val[i] ELSE f[i + 1]]
    BY <2>1
  <2> HIDE DEF val, stops
  <2> QED
    BY <2>2 DEF ScanEq
<1>4. m \in Nat /\ ends(m) /\ \A i \in 0 .. m - 1 : ~ends(i)
  <2>1. m \in Nat /\ mem[a + m] = NUL /\ \A i \in 0 .. m - 1 : mem[a + i] \in Int /\ mem[a + i] > NUL
    BY TextIs
  <2>2. \A x \in Int : x > NUL => x # NUL
    BY DEF NUL
  <2> QED
    BY <2>1, <2>2
<1>5. \A i \in Nat : i < m => Matches(a + i, b) = FoundAt(s, t, i)
  BY MatchesIs
<1>6. \A i \in Nat : val[i] = IF ends(i) THEN -1 ELSE i
  OBVIOUS
<1>7. m \in stops /\ \A i \in Nat : i \in stops <=> ends(i) \/ Matches(a + i, b)
  BY <1>4
<1>8. \A i : FoundAt(s, t, i) => i < m
  BY DEF FoundAt
<1> HIDE DEF Eq, val, stops, ends, m
<1>9. Eq(from)
  BY <1>2, <1>3, ScanExists
<1> HIDE DEF from
<1>10. PICK k \in Nat : IsStop(k, start, stops) /\ k <= m
  BY <1>2, <1>7, StopExists DEF m
<1>11. from[start] = val[k]
  BY <1>2, <1>3, <1>9, <1>10, ScanGives
<1>12. ASSUME NEW i \in start .. k - 1 PROVE ~FoundAt(s, t, i)
  <2>1. i \in Nat /\ i \notin stops /\ i < m
    BY <1>4, <1>10 DEF IsStop
  <2> QED
    BY <1>5, <1>7, <2>1
<1>13. CASE ends(k)
  <2>1. k = m
    <3>1. k \notin 0 .. m - 1
      BY <1>4, <1>13
    <3> QED
      BY <1>4, <1>10, <3>1
  <2>2. ASSUME NEW i \in start .. m PROVE ~FoundAt(s, t, i)
    <3>1. i = m \/ i \in start .. k - 1
      BY <1>4, <2>1
    <3> QED
      BY <1>4, <1>8, <1>12, <3>1
  <2>3. from[start] = -1
    BY <1>6, <1>11, <1>13
  <2> QED
    BY <1>1, <2>2, <2>3 DEF Finds, m
<1>14. CASE ~ends(k)
  <2>1. k < m /\ Matches(a + k, b)
    <3>1. k # m
      BY <1>4, <1>14
    <3> QED
      BY <1>4, <1>7, <1>10, <1>14, <3>1 DEF IsStop
  <2>2. FoundAt(s, t, k)
    BY <1>5, <2>1
  <2>3. from[start] = k
    BY <1>6, <1>11, <1>14
  <2>4. k \in start .. m
    BY <1>4, <1>10 DEF IsStop
  <2> QED
    BY <1>1, <1>12, <2>2, <2>3, <2>4 DEF Finds, m
<1> QED
  BY <1>13, <1>14

\* What is asked about, as the routines find it in memory.
LEMMA AskedIs ==
  ASSUME EStringInv, pc \in {"idle", "answered"}, NEW e \in Names, NEW src \in Places
  PROVE  /\ Text(Data(e), str[e]) /\ Text(Place(src), Suffix(src)) /\ Data(e) \in Nat
<1>1. PICK f \in Names, p \in 0 .. SignLimit : src = <<f, p>> /\ p <= Len(str[f])
  BY DEF Places
<1>2. StrOK /\ Holds(mem, e, str[e]) /\ Holds(mem, f, str[f])
  BY DEF EStringInv
<1>3. p \in 0 .. Len(str[f])
  <2>1. Len(str[f]) \in Nat
    BY <1>2 DEF StrOK
  <2> QED
    BY <1>1, <2>1
<1>4. Text(Place(<<f, p>>), Suffix(<<f, p>>))
  BY <1>2, <1>3, PlaceIsText
<1> QED
  BY <1>1, <1>2, <1>4, StringIsText, DataNat

Query(of, e, src, n, value) == [of |-> of, e |-> e, src |-> src, n |-> n, value |-> value]

\* An answer is right if it is what the texts say.
Right(s, t, of, n, value) ==
  LET c == Cut(s, Counted(s, t, n))
      d == Cut(t, Counted(s, t, n))
  IN CASE of = "StrCmp" -> value = (c = d)
       [] of = "OstrCmp" -> value = (IF c = d THEN 0 ELSE IF Precedes(c, d) THEN 1 ELSE -1)
       [] of = "InStr" -> Finds(value, s, t, n)

AnswerInv ==
  answer.of # "none" =>
    /\ pc = "answered"
    /\ Right(str[answer.e], Suffix(answer.src), answer.of, answer.n, answer.value)

LEMMA RightIs == AnswerInv => AnswersRight
BY DEF AnswerInv, AnswersRight, Right, Finds, Cut, Counted

LEMMA AskedRight ==
  ASSUME NEW of, NEW e, NEW src, NEW n, NEW value,
         Right(str[e], Suffix(src), of, n, value),
         answer' = Query(of, e, src, n, value), str' = str, pc' = "answered"
  PROVE  AnswerInv'
<1>1. /\ answer'.of = of /\ answer'.e = e /\ answer'.src = src /\ answer'.n = n /\ answer'.value = value
  BY DEF Query
<1> QED
  BY <1>1 DEF AnswerInv, Suffix

LEMMA AnswersKept ==
  ASSUME EStringInv, AnswerInv, [Next]_vars
  PROVE  AnswerInv'
<1>1. ASSUME pc # "answered", answer' = answer PROVE AnswerInv'
  BY <1>1 DEF AnswerInv
<1>2. ASSUME NEW e \in Names, NEW src \in Places, NEW n \in Counts, Compare(e, src, n)
      PROVE  AnswerInv'
  <2> DEFINE value == StrCmp(Data(e), Place(src), n)
  <2>1. /\ pc = "idle" /\ pc' = "answered" /\ str' = str
        /\ answer' = Query("StrCmp", e, src, n, value)
    BY <1>2 DEF Compare, Ask, Query
  <2>2. Right(str[e], Suffix(src), "StrCmp", n, value)
    BY <2>1, AskedIs, CountsInt, ComparesRight DEF Right
  <2> HIDE DEF value
  <2> QED
    BY <2>1, <2>2, AskedRight
<1>3. ASSUME NEW e \in Names, NEW src \in Places, NEW n \in Counts, Order(e, src, n)
      PROVE  AnswerInv'
  <2> DEFINE value == OstrCmp(Data(e), Place(src), n)
  <2>1. /\ pc = "idle" /\ pc' = "answered" /\ str' = str
        /\ answer' = Query("OstrCmp", e, src, n, value)
    BY <1>3 DEF Order, Ask, Query
  <2>2. Right(str[e], Suffix(src), "OstrCmp", n, value)
    BY <2>1, AskedIs, CountsInt, ComparesRight DEF Right
  <2> HIDE DEF value
  <2> QED
    BY <2>1, <2>2, AskedRight
<1>4. ASSUME NEW e \in Names, NEW src \in Places, NEW start \in 0 .. SignLimit, start <= Len(str[e]),
             Find(e, src, start)
      PROVE  AnswerInv'
  <2> DEFINE value == InStr(Data(e), Place(src), start)
  <2>1. /\ pc = "idle" /\ pc' = "answered" /\ str' = str
        /\ answer' = Query("InStr", e, src, start, value)
    BY <1>4 DEF Find, Ask, Query
  <2>2. Right(str[e], Suffix(src), "InStr", start, value)
    BY <1>4, <2>1, AskedIs, FindsRight DEF Right
  <2> HIDE DEF value
  <2> QED
    BY <2>1, <2>2, AskedRight
<1>5. CASE Answered
  BY <1>5 DEF Answered, AnswerInv
<1>6. ASSUME NEW e \in Names, NEW src, NEW n, StrCopy(e, src, n) \/ StrAdd(e, src, n)
      PROVE  AnswerInv'
  BY <1>1, <1>6 DEF StrCopy, StrAdd, StrCore
<1>7. ASSUME NEW e, NEW f, NEW pos, NEW n, MidStr(e, f, pos, n) \/ RightStr(e, f, n)
      PROVE  AnswerInv'
  BY <1>1, <1>7 DEF MidStr, RightStr, StrCore
<1>8. ASSUME NEW e \in Names,
             \/ ReadStr(e)
             \/ \E text \in Texts(EStrings[e]) : StringF(e, text)
             \/ \E n \in 0 .. Len(str[e]) : SetStr(e, n)
             \/ ChangeCase(e, Upper) \/ ChangeCase(e, Lower)
      PROVE  AnswerInv'
  BY <1>1, <1>8 DEF ReadStr, StringF, SetStr, ChangeCase
<1>9. CASE Step
  BY <1>1, <1>9 DEF Step, CopyChar, CopyDone, ReadChar, ReadDone
<1>10. CASE UNCHANGED vars
  BY <1>10 DEF vars, AnswerInv, Suffix
<1> QED
  BY <1>2, <1>3, <1>4, <1>5, <1>6, <1>7, <1>8, <1>9, <1>10 DEF Next

\* StrCmp, OstrCmp and InStr answer what their names promise, for any texts, places
\* and counts, and look at nothing behind a NUL (codegen.js, __strcmp, __ostrcmp, __instr).
THEOREM AnswersStayRight == Spec => []AnswersRight
<1>1. Init => AnswerInv
  BY DEF Init, AnswerInv
<1>2. EStringInv /\ AnswerInv /\ [Next]_vars => AnswerInv'
  BY AnswersKept
<1>3. AnswerInv => AnswersRight
  BY RightIs
<1> QED
  BY <1>1, <1>2, <1>3, EStringInvariant, PTL DEF Spec
=============================================================================
