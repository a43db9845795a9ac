---------------------------- MODULE ProgramProofs ----------------------------
(***************************************************************************)
(* What is proved about a compiled program as a whole: where its data lie   *)
(* (Layout), for objects, variables and classes of any number and size,     *)
(* and that its startup and exit (Lifecycle) give back what they take.      *)
(***************************************************************************)
EXTENDS Layout, Lifecycle, TLAPS, SequenceTheorems, WellFoundedInduction

-----------------------------------------------------------------------------
(* Recursive functions, each value made from the one before.               *)

LEMMA LeastOf ==
  ASSUME NEW T \in SUBSET Nat, T # {}
  PROVE  \E t \in T : \A s \in T : t <= s
<1>1. PICK t \in T : \A s \in T : ~ (<<s, t>> \in OpToRel(<, Nat))
  BY WFMin, NatLessThanWellFounded
<1>2. ASSUME NEW s \in T PROVE t <= s
  <2>1. ~ (s < t)
    BY <1>1 DEF OpToRel
  <2> QED
    BY <2>1
<1> QED
  BY <1>2

Solves(f, n, T, start, make) ==
  /\ f \in [0 .. n -> T] /\ f[0] = start
  /\ \A k \in 1 .. n : f[k] = make[k][f[k - 1]]

LEMMA Recursion ==
  ASSUME NEW n \in Nat, NEW T, NEW start \in T, NEW make \in [1 .. n -> [T -> T]]
  PROVE  \E f : Solves(f, n, T, start, make)
<1> DEFINE Bad == {k \in 0 .. n : ~ \E f : Solves(f, k, T, start, make)}
<1>0. n \in 0 .. n
  OBVIOUS
<1>1. SUFFICES ASSUME Bad # {} PROVE FALSE
  BY <1>0
<1>2. Bad \in SUBSET Nat
  OBVIOUS
<1>3. PICK k \in Bad : \A j \in Bad : k <= j
  BY <1>1, <1>2, LeastOf
<1>4. k \in 0 .. n /\ ~ \E f : Solves(f, k, T, start, make)
  BY <1>3
<1>5. CASE k = 0
  <2> DEFINE g == [v \in 0 .. 0 |-> start]
  <2>1. g \in [0 .. 0 -> T] /\ g[0] = start
    OBVIOUS
  <2>2. Solves(g, 0, T, start, make)
    BY <2>1 DEF Solves
  <2> QED
    BY <1>4, <1>5, <2>2
<1>6. CASE k # 0
  <2>1. k - 1 \in 0 .. n /\ k - 1 \notin Bad
    <3>1. k - 1 \in 0 .. n /\ ~ (k <= k - 1)
      BY <1>4, <1>6
    <3> QED
      BY <1>3, <3>1
  <2>2. PICK f : Solves(f, k - 1, T, start, make)
    BY <2>1
  <2>3. f \in [0 .. k - 1 -> T] /\ f[0] = start /\ \A v \in 1 .. k - 1 : f[v] = make[v][f[v - 1]]
    BY <2>2 DEF Solves
  <2>4. k \in 1 .. n /\ k - 1 \in 0 .. k - 1
    BY <1>4, <1>6
  <2>5. PICK last \in T : last = make[k][f[k - 1]]
    BY <2>3, <2>4
  <2> DEFINE g == [v \in 0 .. k |-> IF v = k THEN last ELSE f[v]]
  <2>6. g \in [0 .. k -> T] /\ g[k] = last /\ \A v \in 0 .. k - 1 : g[v] = f[v]
    BY <1>4, <2>3
  <2> HIDE DEF g
  <2>7. g[0] = start
    BY <2>3, <2>4, <2>6
  <2>8. ASSUME NEW v \in 1 .. k PROVE g[v] = make[v][g[v - 1]]
    <3>1. v - 1 \in 0 .. k - 1 /\ g[v - 1] = f[v - 1]
      BY <1>4, <2>6
    <3>2. CASE v = k
      BY <2>5, <2>6, <3>1, <3>2
    <3>3. CASE v # k
      <4>1. v \in 1 .. k - 1 /\ v \in 0 .. k - 1
        BY <1>4, <3>3
      <4> QED
        BY <2>3, <2>6, <3>1, <4>1
    <3> QED
      BY <3>2, <3>3
  <2>9. Solves(g, k, T, start, make)
    BY <2>6, <2>7, <2>8 DEF Solves
  <2> QED
    BY <1>4, <2>9
<1> QED
  BY <1>5, <1>6

-----------------------------------------------------------------------------
(* The elements of an array.                                               *)

LEMMA Multiplying ==
  ASSUME NEW a \in Nat, NEW b \in Nat, NEW d \in Nat, NEW x \in Nat, x < d
  PROVE  /\ a * d \in Nat /\ a * d + x \in Nat
         /\ a < b => a * d + x < b * d
<1>1. a * d \in Nat /\ b * d \in Nat /\ a * d + x \in Nat
  OBVIOUS
<1>2. ASSUME a < b PROVE a * d + x < b * d
  <2>1. PICK c \in Nat : b = a + 1 + c
    <3>1. b - a - 1 \in Nat /\ b = a + 1 + (b - a - 1)
      BY <1>2
    <3> QED
      BY <3>1
  <2>2. c * d \in Nat
    OBVIOUS
  <2>3. b * d = a * d + d + c * d
    BY <2>1
  <2> QED
    BY <1>1, <2>2, <2>3
<1> QED
  BY <1>1, <1>2

\* The product of the first k dimensions.
ProductEq(f, dims) == f = [k \in 0 .. Len(dims) |-> IF k = 0 THEN 1 ELSE f[k - 1] * dims[k]]

LEMMA ProductIs ==
  ASSUME NEW dims \in Seq(Nat)
  PROVE  \E f \in [0 .. Len(dims) -> Nat] :
            /\ f[0] = 1 /\ \A k \in 1 .. Len(dims) : f[k] = f[k - 1] * dims[k]
            /\ Product(dims) = f[Len(dims)]
<1> DEFINE n == Len(dims)
           make == [k \in 1 .. n |-> [x \in Nat |-> x * dims[k]]]
           f == CHOOSE f : ProductEq(f, dims)
<1>1. n \in Nat /\ \A k \in 1 .. n : dims[k] \in Nat
  OBVIOUS
<1>2. make \in [1 .. n -> [Nat -> Nat]]
  <2>1. ASSUME NEW k \in 1 .. n PROVE [x \in Nat |-> x * dims[k]] \in [Nat -> Nat]
    BY <1>1
  <2> QED
    BY <2>1
<1> HIDE DEF n
<1>3. PICK g : Solves(g, n, Nat, 1, make)
  BY <1>1, <1>2, Recursion
<1>4. g \in [0 .. n -> Nat] /\ g[0] = 1 /\ \A k \in 1 .. n : g[k] = g[k - 1] * dims[k]
  <2>1. g \in [0 .. n -> Nat] /\ g[0] = 1 /\ \A k \in 1 .. n : g[k] = make[k][g[k - 1]]
    BY <1>3 DEF Solves
  <2>2. ASSUME NEW k \in 1 .. n PROVE g[k] = g[k - 1] * dims[k]
    <3>1. g[k - 1] \in Nat
      BY <1>1, <2>1
    <3> QED
      BY <2>1, <3>1
  <2> QED
    BY <2>1, <2>2
<1>5. ProductEq(g, dims)
  <2>1. \A k \in 0 .. n : g[k] = IF k = 0 THEN 1 ELSE g[k - 1] * dims[k]
    BY <1>1, <1>4
  <2>2. g = [k \in 0 .. n |-> g[k]]
    BY <1>4
  <2> QED
    BY <2>1, <2>2 DEF ProductEq, n
<1>6. ProductEq(f, dims)
  BY <1>5
<1>7. Product(dims) = f[n]
  BY DEF Product, ProductEq, n
<1> HIDE DEF f
<1>8. \A k \in 0 .. n : f[k] = IF k = 0 THEN 1 ELSE f[k - 1] * dims[k]
  BY <1>6 DEF ProductEq, n
<1> DEFINE Bad == {k \in 0 .. n : f[k] \notin Nat}
<1>9. Bad = {}
  <2>1. SUFFICES ASSUME Bad # {} PROVE FALSE
    OBVIOUS
  <2>2. Bad \in SUBSET Nat
    OBVIOUS
  <2>3. PICK k \in Bad : \A j \in Bad : k <= j
    BY <2>1, <2>2, LeastOf
  <2>4. k \in 0 .. n /\ f[k] \notin Nat
    BY <2>3
  <2>5. k # 0
    BY <2>4, <1>8
  <2>6. k - 1 \in 0 .. n /\ ~ (k <= k - 1) /\ k \in 1 .. n
    BY <1>1, <2>4, <2>5
  <2>7. f[k - 1] \in Nat
    BY <2>3, <2>6
  <2> QED
    BY <1>1, <1>8, <2>4, <2>5, <2>6, <2>7
<1>10. f = [k \in 0 .. n |-> f[k]]
  BY <1>6 DEF ProductEq, n
<1>11. f \in [0 .. n -> Nat]
  BY <1>9, <1>10
<1>12. f[0] = 1 /\ \A k \in 1 .. n : f[k] = f[k - 1] * dims[k]
  BY <1>1, <1>8
<1> QED
  BY <1>7, <1>11, <1>12 DEF n

IsPlace(dims, place) == \A k \in 1 .. Len(dims) : place[k] \in Nat /\ place[k] < dims[k]

LEMMA PlacesAre ==
  ASSUME NEW dims \in Seq(Nat), NEW p \in Places(dims)
  PROVE  IsPlace(dims, p) /\ DOMAIN p = 1 .. Len(dims)
<1>1. /\ DOMAIN p = DOMAIN dims /\ DOMAIN dims = 1 .. Len(dims)
      /\ \A k \in DOMAIN dims : p[k] < dims[k] /\ p[k] \in UNION {0 .. dims[l] - 1 : l \in DOMAIN dims}
  BY DEF Places
<1>2. ASSUME NEW k \in 1 .. Len(dims) PROVE p[k] \in Nat /\ p[k] < dims[k]
  <2>1. PICK l \in DOMAIN dims : p[k] \in 0 .. dims[l] - 1
    BY <1>1
  <2>2. p[k] \in Nat
    BY <2>1
  <2> QED
    BY <1>1, <2>2
<1> QED
  BY <1>1, <1>2 DEF IsPlace

LinearEq(f, dims, place) ==
  f = [k \in 0 .. Len(dims) |-> IF k = 0 THEN 0 ELSE f[k - 1] * dims[k] + place[k]]

LinearFacts(f, dims, place) ==
  /\ f \in [0 .. Len(dims) -> Nat] /\ f[0] = 0
  /\ \A k \in 1 .. Len(dims) : f[k] = f[k - 1] * dims[k] + place[k]

LEMMA LinearIs ==
  ASSUME NEW dims \in Seq(Nat), NEW p, IsPlace(dims, p)
  PROVE  \E f : LinearFacts(f, dims, p) /\ Linear(dims, p) = f[Len(dims)]
<1> DEFINE n == Len(dims)
           make == [k \in 1 .. n |-> [x \in Nat |-> x * dims[k] + p[k]]]
           f == CHOOSE f : LinearEq(f, dims, p)
<1>1. n \in Nat /\ \A k \in 1 .. n : dims[k] \in Nat /\ p[k] \in Nat
  BY DEF IsPlace
<1>2. make \in [1 .. n -> [Nat -> Nat]]
  <2>1. ASSUME NEW k \in 1 .. n PROVE [x \in Nat |-> x * dims[k] + p[k]] \in [Nat -> Nat]
    <3>1. ASSUME NEW x \in Nat PROVE x * dims[k] + p[k] \in Nat
      <4>1. x * dims[k] \in Nat
        BY <1>1
      <4> QED
        BY <1>1, <4>1
    <3> QED
      BY <3>1
  <2> QED
    BY <2>1
<1> HIDE DEF n
<1>3. PICK g : Solves(g, n, Nat, 0, make)
  BY <1>1, <1>2, Recursion
<1>4. g \in [0 .. n -> Nat] /\ g[0] = 0 /\ \A k \in 1 .. n : g[k] = g[k - 1] * dims[k] + p[k]
  <2>1. g \in [0 .. n -> Nat] /\ g[0] = 0 /\ \A k \in 1 .. n : g[k] = make[k][g[k - 1]]
    BY <1>3 DEF Solves
  <2>2. ASSUME NEW k \in 1 .. n PROVE g[k] = g[k - 1] * dims[k] + p[k]
    <3>1. g[k - 1] \in Nat
      BY <1>1, <2>1
    <3> QED
      BY <2>1, <3>1
  <2> QED
    BY <2>1, <2>2
<1>5. LinearEq(g, dims, p)
  <2>1. \A k \in 0 .. n : g[k] = IF k = 0 THEN 0 ELSE g[k - 1] * dims[k] + p[k]
    BY <1>1, <1>4
  <2>2. g = [k \in 0 .. n |-> g[k]]
    BY <1>4
  <2> QED
    BY <2>1, <2>2 DEF LinearEq, n
<1>6. LinearEq(f, dims, p)
  BY <1>5
<1>7. Linear(dims, p) = f[n]
  BY DEF Linear, LinearEq, n
<1> HIDE DEF f
<1>8. \A k \in 0 .. n : f[k] = IF k = 0 THEN 0 ELSE f[k - 1] * dims[k] + p[k]
  BY <1>6 DEF LinearEq, n
<1> DEFINE Bad == {k \in 0 .. n : f[k] \notin Nat}
<1>9. Bad = {}
  <2>1. SUFFICES ASSUME Bad # {} PROVE FALSE
    OBVIOUS
  <2>2. Bad \in SUBSET Nat
    OBVIOUS
  <2>3. PICK k \in Bad : \A j \in Bad : k <= j
    BY <2>1, <2>2, LeastOf
  <2>4. k \in 0 .. n /\ f[k] \notin Nat
    BY <2>3
  <2>5. k # 0
    BY <2>4, <1>8
  <2>6. k - 1 \in 0 .. n /\ ~ (k <= k - 1) /\ k \in 1 .. n
    BY <1>1, <2>4, <2>5
  <2>7. f[k - 1] \in Nat
    BY <2>3, <2>6
  <2>8. f[k - 1] * dims[k] \in Nat
    BY <1>1, <2>6, <2>7
  <2> QED
    BY <1>1, <1>8, <2>4, <2>5, <2>6, <2>8
<1>10. f = [k \in 0 .. n |-> f[k]]
  BY <1>6 DEF LinearEq, n
<1>11. f \in [0 .. n -> Nat]
  BY <1>9, <1>10
<1>12. f[0] = 0 /\ \A k \in 1 .. n : f[k] = f[k - 1] * dims[k] + p[k]
  BY <1>1, <1>8
<1> QED
  BY <1>7, <1>11, <1>12 DEF n, LinearFacts

\* Each element has a number of its own, below the number of elements.
LEMMA LinearInside ==
  ASSUME NEW dims \in Seq(Nat), NEW p, IsPlace(dims, p)
  PROVE  Linear(dims, p) \in Nat /\ Product(dims) \in Nat /\ Linear(dims, p) < Product(dims)
<1> DEFINE n == Len(dims)
<1>1. n \in Nat /\ \A k \in 1 .. n : dims[k] \in Nat /\ p[k] \in Nat /\ p[k] < dims[k]
  BY DEF IsPlace
<1>2. PICK f : LinearFacts(f, dims, p) /\ Linear(dims, p) = f[n]
  BY LinearIs
<1>3. PICK g \in [0 .. n -> Nat] :
         g[0] = 1 /\ (\A k \in 1 .. n : g[k] = g[k - 1] * dims[k]) /\ Product(dims) = g[n]
  BY ProductIs
<1>4. f \in [0 .. n -> Nat] /\ f[0] = 0 /\ \A k \in 1 .. n : f[k] = f[k - 1] * dims[k] + p[k]
  BY <1>2 DEF LinearFacts
<1> HIDE DEF n
<1> DEFINE Bad == {k \in 0 .. n : ~ (f[k] < g[k])}
<1>5. Bad = {}
  <2>1. SUFFICES ASSUME Bad # {} PROVE FALSE
    OBVIOUS
  <2>2. Bad \in SUBSET Nat
    OBVIOUS
  <2>3. PICK k \in Bad : \A j \in Bad : k <= j
    BY <2>1, <2>2, LeastOf
  <2>4. k \in 0 .. n /\ ~ (f[k] < g[k])
    BY <2>3
  <2>5. k # 0
    BY <2>4, <1>3, <1>4
  <2>6. k - 1 \in 0 .. n /\ ~ (k <= k - 1) /\ k \in 1 .. n
    BY <1>1, <2>4, <2>5
  <2>7. f[k - 1] < g[k - 1] /\ f[k - 1] \in Nat /\ g[k - 1] \in Nat
    BY <2>3, <2>6, <1>3, <1>4
  <2>8. f[k - 1] * dims[k] + p[k] < g[k - 1] * dims[k]
    BY <1>1, <2>6, <2>7, Multiplying
  <2> QED
    BY <1>3, <1>4, <2>4, <2>6, <2>8
<1>6. n \in 0 .. n
  BY <1>1
<1>7. f[n] \in Nat /\ g[n] \in Nat /\ f[n] < g[n]
  BY <1>3, <1>4, <1>5, <1>6
<1> QED
  BY <1>2, <1>3, <1>7 DEF n

LEMMA LinearApart ==
  ASSUME NEW dims \in Seq(Nat), NEW p \in Places(dims), NEW q \in Places(dims), p # q
  PROVE  Linear(dims, p) # Linear(dims, q)
<1> DEFINE n == Len(dims)
<1>1. /\ IsPlace(dims, p) /\ IsPlace(dims, q)
      /\ DOMAIN p = 1 .. n /\ DOMAIN q = 1 .. n
  BY PlacesAre
<1>2. /\ n \in Nat
      /\ \A k \in 1 .. n : dims[k] \in Nat /\ p[k] \in Nat /\ p[k] < dims[k] /\ q[k] \in Nat /\ q[k] < dims[k]
  BY <1>1 DEF IsPlace
<1>3. PICK f : LinearFacts(f, dims, p) /\ Linear(dims, p) = f[n]
  BY <1>1, LinearIs
<1>4. PICK g : LinearFacts(g, dims, q) /\ Linear(dims, q) = g[n]
  BY <1>1, LinearIs
<1>5. /\ f \in [0 .. n -> Nat] /\ \A k \in 1 .. n : f[k] = f[k - 1] * dims[k] + p[k]
      /\ g \in [0 .. n -> Nat] /\ \A k \in 1 .. n : g[k] = g[k - 1] * dims[k] + q[k]
  BY <1>3, <1>4 DEF LinearFacts
<1> HIDE DEF n
<1>6. PICK j \in 1 .. n : p[j] # q[j]
  <2>1. p = [k \in 1 .. n |-> p[k]] /\ q = [k \in 1 .. n |-> q[k]]
    BY <1>1, PlacesAre DEF Places, n
  <2> QED
    BY <2>1
\* The numbers of the first k indices: once different, always different.
<1> DEFINE Bad == {k \in 0 .. n : k >= j /\ f[k] = g[k]}
<1>7. Bad = {}
  <2>1. SUFFICES ASSUME Bad # {} PROVE FALSE
    OBVIOUS
  <2>2. Bad \in SUBSET Nat
    OBVIOUS
  <2>3. PICK k \in Bad : \A i \in Bad : k <= i
    BY <2>1, <2>2, LeastOf
  <2>4. k \in 1 .. n /\ k \in Nat /\ k >= j /\ f[k] = g[k] /\ k - 1 \in 0 .. n /\ ~ (k <= k - 1)
    BY <1>2, <2>3
  <2> DEFINE a == f[k - 1]
             b == g[k - 1]
             d == dims[k]
  <2>5. /\ a \in Nat /\ b \in Nat /\ d \in Nat /\ p[k] \in Nat /\ q[k] \in Nat /\ p[k] < d /\ q[k] < d
        /\ a * d + p[k] = b * d + q[k]
    BY <1>2, <1>5, <2>4
  <2> HIDE DEF a, b, d
  <2>6. a * d \in Nat /\ b * d \in Nat
    BY <2>5
  <2>7. ~ (a < b)
    <3>1. a < b => a * d + p[k] < b * d
      BY <2>5, Multiplying
    <3> QED
      BY <2>5, <2>6, <3>1
  <2>8. ~ (b < a)
    <3>1. b < a => b * d + q[k] < a * d
      BY <2>5, Multiplying
    <3> QED
      BY <2>5, <2>6, <3>1
  <2>9. a = b
    BY <2>5, <2>7, <2>8
  <2>10. p[k] = q[k]
    BY <2>5, <2>6, <2>9
  <2>11. k # j
    BY <1>6, <2>10
  <2>12. k - 1 \in Bad
    BY <2>4, <2>9, <2>11 DEF a, b
  <2> QED
    BY <2>3, <2>4, <2>12
<1>8. n \in 0 .. n /\ n >= j
  BY <1>2
<1>9. f[n] # g[n]
  BY <1>7, <1>8
<1> QED
  BY <1>3, <1>4, <1>9 DEF n

-----------------------------------------------------------------------------
(* What a variable uses lies in the variable and in its buffer.            *)

\* An array of several dimensions has elements of four bytes at most where it is
\* indexed, but of the object's size where it is reserved.
PlainMatrices == \A v \in Variables : Len(v.dims) > 1 => Base(Of(v)) # "OBJECT"

SizesKnown == \A n \in DOMAIN objects : objects[n].size \in Nat

Width(v) == IF Len(v.dims) = 1 THEN Stride(v.type, objects) ELSE TypeSize(Of(v))

Declared(v) == IsVariable(v) /\ (Len(v.dims) > 1 => Base(Of(v)) # "OBJECT")

LEMMA WidthFits ==
  ASSUME SizesKnown, NEW v, Declared(v), IsArray(v)
  PROVE  Width(v) \in Nat /\ Element(v) \in Nat /\ Width(v) <= Element(v)
<1>1. Base(v.type) \in {"none", "ARRAY"} /\ v.dims \in Seq(Nat)
  BY DEF Declared, IsVariable, IsArray, Buffered
<1>2. Element(v) \in Nat
  BY DEF SizesKnown, Element, ElemSize
<1>3. CASE Len(v.dims) = 1
  <2>1. Width(v) = ElemSize(Indexed(v.type), objects)
    BY <1>3 DEF Width, Stride
  <2>2. CASE Base(v.type) = "none"
    <3>1. Indexed(v.type) = <<"none">> /\ Of(v) = <<"none">>
      BY <2>2 DEF Indexed, Of, Base
    <3> QED
      BY <1>2, <2>1, <3>1 DEF Element
  <2>3. CASE Base(v.type) = "ARRAY" /\ v.type[2] # <<"none">>
    <3>1. Indexed(v.type) = v.type[2] /\ Of(v) = v.type[2]
      BY <2>3 DEF Indexed, Of
    <3> QED
      BY <1>2, <2>1, <3>1 DEF Element
  <2>4. CASE Base(v.type) = "ARRAY" /\ v.type[2] = <<"none">>
    <3>1. Indexed(v.type) = <<"CHAR">> /\ Of(v) = <<"none">>
      BY <2>4 DEF Indexed, Of, Base
    <3>2. ElemSize(<<"CHAR">>, objects) = 1 /\ ElemSize(<<"none">>, objects) = 4
      BY DEF ElemSize, Base
    <3> QED
      BY <2>1, <3>1, <3>2 DEF Element
  <2> QED
    BY <1>1, <2>2, <2>3, <2>4
<1>4. CASE Len(v.dims) # 1
  <2>1. Len(v.dims) > 1
    <3>1. Len(v.dims) \in Nat
      BY <1>1
    <3>2. Len(v.dims) # 0
      BY <1>1, EmptySeq DEF IsArray, Buffered
    <3>3. \A n \in Nat : n # 0 /\ n # 1 => n > 1
      OBVIOUS
    <3> QED
      BY <1>4, <3>1, <3>2, <3>3
  <2>2. Base(Of(v)) # "OBJECT" /\ Width(v) = TypeSize(Of(v)) /\ Element(v) = ElemSize(Of(v), objects)
    BY <1>4, <2>1 DEF Declared, Width, Element
  <2>3. TypeSize(Of(v)) \in Nat /\ TypeSize(Of(v)) <= ElemSize(Of(v), objects)
    BY <2>2 DEF TypeSize, ElemSize
  <2> QED
    BY <1>2, <2>2, <2>3
<1> QED
  BY <1>3, <1>4

LEMMA ElementFits ==
  ASSUME NEW k \in Nat, NEW n \in Nat, k < n, NEW w \in Nat, NEW e \in Nat, w <= e
  PROVE  k * w \in Nat /\ n * e \in Nat /\ k * w + w <= n * e
<1>1. PICK c \in Nat : n = k + 1 + c
  <2>1. n - k - 1 \in Nat /\ n = k + 1 + (n - k - 1)
    OBVIOUS
  <2> QED
    BY <2>1
<1>2. PICK d \in Nat : e = w + d
  <2>1. e - w \in Nat /\ e = w + (e - w)
    OBVIOUS
  <2> QED
    BY <2>1
<1>3. k * w \in Nat /\ k * d \in Nat /\ c * w \in Nat /\ c * d \in Nat
  OBVIOUS
<1>4. n * e = k * w + w + k * d + d + c * w + c * d
  BY <1>1, <1>2
<1> QED
  BY <1>2, <1>3, <1>4

\* Different elements of one width do not overlap.
LEMMA ElementsApart ==
  ASSUME NEW k \in Nat, NEW l \in Nat, k # l, NEW w \in Nat, NEW at \in Int
  PROVE  Disjoint(<<at + k * w, w>>, <<at + l * w, w>>)
<1>1. k * w \in Nat /\ l * w \in Nat
  OBVIOUS
<1>2. CASE k < l
  <2>1. k * w + w <= l * w
    BY <1>2, ElementFits
  <2> QED
    BY <1>1, <2>1 DEF Disjoint
<1>3. CASE l < k
  <2>1. l * w + w <= k * w
    BY <1>3, ElementFits
  <2> QED
    BY <1>1, <2>1 DEF Disjoint
<1> QED
  BY <1>2, <1>3

\* Enough bytes for what is to lie in them.
Holds(v, inline, n) ==
  /\ Buffered(v) /\ Base(v.type) = "STRING" => n >= Header + Product(v.dims) + 1
  /\ Buffered(v) /\ Base(v.type) = "LIST" => n >= Header + 4 * Product(v.dims)
  /\ IsArray(v) => n >= Product(v.dims) * Element(v)
  /\ inline => ~Buffered(v) /\ objects[v.type[2]].size \in 0 .. n

InBuffer(r, v, n) == r[1] \in Int /\ r[2] \in Nat /\ Inside(r, v.buf, v.buf + n)

LEMMA ProductNat == ASSUME NEW dims \in Seq(Nat) PROVE Product(dims) \in Nat
<1>1. PICK f \in [0 .. Len(dims) -> Nat] : Product(dims) = f[Len(dims)]
  BY ProductIs
<1>2. Len(dims) \in 0 .. Len(dims)
  OBVIOUS
<1> QED
  BY <1>1, <1>2

LEMMA AtIs ==
  ASSUME SizesKnown, NEW v, Declared(v), IsArray(v), NEW p \in Places(v.dims)
  PROVE  /\ Linear(v.dims, p) \in Nat /\ Linear(v.dims, p) < Product(v.dims)
         /\ Width(v) \in Nat
         /\ At(v, p) = <<v.buf + Linear(v.dims, p) * Width(v), Width(v)>>
<1>1. v.dims \in Seq(Nat)
  BY DEF Declared, IsVariable
<1>2. IsPlace(v.dims, p)
  BY <1>1, PlacesAre
<1> QED
  BY <1>1, <1>2, LinearInside, WidthFits DEF At, Width

LEMMA UsedInBuffer ==
  ASSUME SizesKnown, NEW v, Declared(v), NEW inline, NEW n \in Nat, Holds(v, inline, n), v.buf \in Int,
         NEW r \in Used(v, inline), r # <<v.slot, 4>>
  PROVE  InBuffer(r, v, n)
<1>1. v.dims \in Seq(Nat) /\ Product(v.dims) \in Nat
  BY ProductNat DEF Declared, IsVariable
<1>2. CASE Base(v.type) = "STRING" /\ Buffered(v)
  <2>1. r = <<v.buf, Header + Product(v.dims) + 1>>
    BY <1>2 DEF Used, Holds, IsArray
  <2>2. n >= Header + Product(v.dims) + 1
    BY <1>2 DEF Holds
  <2> QED
    BY <1>1, <2>1, <2>2 DEF InBuffer, Inside, Header
<1>3. CASE Base(v.type) = "LIST" /\ Buffered(v)
  <2>1. r = <<v.buf, Header + 4 * Product(v.dims)>>
    BY <1>3 DEF Used, Holds, IsArray
  <2>2. n >= Header + 4 * Product(v.dims)
    BY <1>3 DEF Holds
  <2> QED
    BY <1>1, <2>1, <2>2 DEF InBuffer, Inside, Header
<1>4. CASE IsArray(v)
  <2>1. r \in {At(v, place) : place \in Places(v.dims)}
    <3>1. inline => ~Buffered(v)
      BY DEF Holds
    <3> QED
      BY <1>4, <3>1 DEF Used, IsArray
  <2>2. PICK p \in Places(v.dims) : r = At(v, p)
    BY <2>1
  <2> DEFINE k == Linear(v.dims, p)
             w == Width(v)
             e == Element(v)
             m == Product(v.dims)
  <2>3. k \in Nat /\ k < m /\ w \in Nat /\ r = <<v.buf + k * w, w>>
    BY <1>4, <2>2, AtIs
  <2>4. e \in Nat /\ w <= e /\ n >= m * e /\ m \in Nat
    BY <1>1, <1>4, WidthFits DEF Holds
  <2> HIDE DEF k, w, e, m
  <2>5. k * w \in Nat /\ m * e \in Nat /\ k * w + w <= m * e
    BY <2>3, <2>4, ElementFits
  <2> QED
    BY <2>3, <2>4, <2>5 DEF InBuffer, Inside
<1>5. CASE inline
  <2>1. ~Buffered(v) /\ objects[v.type[2]].size \in 0 .. n
    BY <1>5 DEF Holds
  <2>2. r = <<v.buf, objects[v.type[2]].size>>
    BY <1>5, <2>1 DEF Used, IsArray
  <2> QED
    BY <2>1, <2>2 DEF InBuffer, Inside
<1>6. CASE ~inline /\ ~Buffered(v)
  BY <1>6 DEF Used, IsArray
<1> QED
  BY <1>2, <1>3, <1>4, <1>5, <1>6 DEF IsArray

LEMMA VariableApart ==
  ASSUME SizesKnown, NEW v, Declared(v), NEW inline, NEW n \in Nat, Holds(v, inline, n), v.buf \in Int,
         v.slot = v.buf + n \/ v.buf = v.slot + 4, v.slot \in Int
  PROVE  ApartIn(v, inline)
<1>1. ASSUME NEW r \in Used(v, inline), NEW s \in Used(v, inline), r # s PROVE Disjoint(r, s)
  <2>1. CASE r = <<v.slot, 4>>
    <3>1. InBuffer(s, v, n)
      BY <1>1, <2>1, UsedInBuffer
    <3> QED
      BY <2>1, <3>1 DEF InBuffer, Inside, Disjoint
  <2>2. CASE s = <<v.slot, 4>>
    <3>1. InBuffer(r, v, n)
      BY <1>1, <2>2, UsedInBuffer
    <3> QED
      BY <2>2, <3>1 DEF InBuffer, Inside, Disjoint
  <2>3. CASE r # <<v.slot, 4>> /\ s # <<v.slot, 4>>
    <3>1. IsArray(v) /\ ~inline
      BY <1>1, <2>3 DEF Used, IsArray, Holds
    <3>2. PICK p \in Places(v.dims), q \in Places(v.dims) : r = At(v, p) /\ s = At(v, q)
      BY <2>3, <3>1 DEF Used, IsArray
    <3>3. Linear(v.dims, p) # Linear(v.dims, q)
      BY <1>1, <3>1, <3>2, AtIs
    <3> QED
      BY <3>1, <3>2, <3>3, AtIs, ElementsApart
  <2> QED
    BY <2>1, <2>2, <2>3
<1>2. ASSUME IsArray(v), NEW p \in Places(v.dims), NEW q \in Places(v.dims), p # q
      PROVE  Disjoint(At(v, p), At(v, q))
  <2>1. Linear(v.dims, p) # Linear(v.dims, q)
    BY <1>2, LinearApart DEF Declared, IsVariable
  <2> QED
    BY <1>2, <2>1, AtIs, ElementsApart
<1> QED
  BY <1>1, <1>2 DEF ApartIn

-----------------------------------------------------------------------------
(* Members: where PlaceMember puts one.                                    *)

\* A member of no bytes has its word read and written all the same, and the elements
\* of an array of objects are given four bytes each, whatever their object's size.
SimpleMembers ==
  \A body \in Bodies : \A i \in DOMAIN body :
    /\ body[i].count = 0 => Base(body[i].type) = "ARRAY"
    /\ Base(body[i].type) = "ARRAY" => Base(body[i].type[2]) # "OBJECT"

Declarations == UNION {{body[i] : i \in DOMAIN body} : body \in Bodies}
Placements ==
  [name : {m.name : m \in Declarations}, type : {m.type : m \in Declarations}, count : Nat,
   union : Nat, group : Nat, offset : Nat, base : Nat, width : Nat]
States == [members : Seq(Placements), size : Nat, union : Nat, group : Nat, base : Nat, at : Nat]

LEMMA DeclarationsAre ==
  ASSUME NEW m \in Declarations
  PROVE  m.count \in Nat /\ m.union \in Nat /\ m.group \in Nat
<1>1. PICK body \in Bodies : \E i \in DOMAIN body : m = body[i]
  BY DEF Declarations
<1>2. IsBody(body)
  BY LayoutAssumption
<1> QED
  BY <1>1, <1>2 DEF IsBody

Taken(m) == SemSize(m.type) * m.count
End(m) == m.offset + Taken(m)

LEMMA Sizes ==
  /\ \A t : SemSize(t) \in {1, 2, 4}
  /\ \A n \in Nat : Even(n) \in Nat /\ Even(n) >= n /\ Even(n) % 2 = 0
  /\ \A t : \A n \in Nat : /\ Start(t, n) \in Nat /\ Start(t, n) >= n
                           /\ SemSize(t) > 1 => Start(t, n) % 2 = 0
  /\ \A a, b \in Nat : Larger(a, b) \in Nat /\ Larger(a, b) >= a /\ Larger(a, b) >= b
<1>1. \A t : SemSize(t) \in {1, 2, 4}
  BY DEF SemSize
<1>2. \A n \in Nat : Even(n) \in Nat /\ Even(n) >= n /\ Even(n) % 2 = 0
  <2>1. ASSUME NEW n \in Nat PROVE Even(n) \in Nat /\ Even(n) >= n /\ Even(n) % 2 = 0
    <3>1. n % 2 = 0 \/ n % 2 = 1
      OBVIOUS
    <3>2. n % 2 = 1 => (n + 1) % 2 = 0
      OBVIOUS
    <3> QED
      BY <3>1, <3>2 DEF Even
  <2> QED
    BY <2>1
<1>3. \A a, b \in Nat : Larger(a, b) \in Nat /\ Larger(a, b) >= a /\ Larger(a, b) >= b
  BY DEF Larger
<1>4. ASSUME NEW t, NEW n \in Nat
      PROVE  Start(t, n) \in Nat /\ Start(t, n) >= n /\ (SemSize(t) > 1 => Start(t, n) % 2 = 0)
  <2>1. CASE SemSize(t) > 1
    BY <1>2, <2>1 DEF Start
  <2>2. CASE ~ (SemSize(t) > 1)
    BY <2>2 DEF Start
  <2> QED
    BY <2>1, <2>2
<1> QED
  BY <1>1, <1>2, <1>3, <1>4

\* The base of the union that a member belongs to, and where a member is put.
BaseOf(s, m) == IF m.union = s.union THEN s.base ELSE Even(s.size)
OffsetOf(s, m) == Start(m.type, IF m.union = 0 THEN s.size ELSE UnionFrom(s, BaseOf(s, m), m))
PlacementOf(s, m) ==
  [name |-> m.name, type |-> m.type, count |-> m.count,
   union |-> m.union, group |-> m.group, offset |-> OffsetOf(s, m),
   base |-> IF m.union = 0 THEN 0 ELSE BaseOf(s, m),
   width |-> IF Embedded(m.type) THEN 0 ELSE SemSize(m.type)]
EndOf(s, m) == OffsetOf(s, m) + SemSize(m.type) * m.count
Same(s, m) == {i \in DOMAIN s.members : s.members[i].name = m.name}

LEMMA PlaceMemberIs ==
  ASSUME NEW s, NEW m
  PROVE  PlaceMember(s, m) =
           [members |-> IF Same(s, m) = {} THEN Append(s.members, PlacementOf(s, m))
                        ELSE [s.members EXCEPT ![CHOOSE i \in Same(s, m) : TRUE] = PlacementOf(s, m)],
            size |-> IF m.union = 0 THEN EndOf(s, m) ELSE UnionEnd(s, BaseOf(s, m), EndOf(s, m)),
            union |-> m.union, group |-> m.group, base |-> BaseOf(s, m), at |-> EndOf(s, m)]
  BY DEF PlaceMember, PlacementOf, EndOf, OffsetOf, BaseOf, Same

LEMMA PlaceFacts ==
  ASSUME NEW s \in States, NEW m \in Declarations
  PROVE  /\ BaseOf(s, m) \in Nat /\ OffsetOf(s, m) \in Nat /\ EndOf(s, m) \in Nat
         /\ OffsetOf(s, m) <= EndOf(s, m)
         /\ SemSize(m.type) > 1 => OffsetOf(s, m) % 2 = 0
         /\ m.union = 0 => OffsetOf(s, m) >= s.size
         /\ m.union # 0 => OffsetOf(s, m) >= UnionFrom(s, BaseOf(s, m), m)
         /\ m.union # s.union => BaseOf(s, m) >= s.size
         /\ PlacementOf(s, m) \in Placements
         /\ End(PlacementOf(s, m)) = EndOf(s, m)
<1>1. /\ s.size \in Nat /\ s.base \in Nat /\ s.at \in Nat
      /\ m.count \in Nat /\ m.union \in Nat /\ m.group \in Nat
  BY DeclarationsAre DEF States
<1>2. BaseOf(s, m) \in Nat /\ (m.union # s.union => BaseOf(s, m) >= s.size)
  BY <1>1, Sizes DEF BaseOf
<1>3. UnionFrom(s, BaseOf(s, m), m) \in Nat
  BY <1>1, <1>2 DEF UnionFrom
<1>4. /\ OffsetOf(s, m) \in Nat
      /\ SemSize(m.type) > 1 => OffsetOf(s, m) % 2 = 0
      /\ m.union = 0 => OffsetOf(s, m) >= s.size
      /\ m.union # 0 => OffsetOf(s, m) >= UnionFrom(s, BaseOf(s, m), m)
  BY <1>1, <1>3, Sizes DEF OffsetOf
<1>5. SemSize(m.type) * m.count \in Nat /\ SemSize(m.type) \in Nat
  <2>1. SemSize(m.type) = 1 \/ SemSize(m.type) = 2 \/ SemSize(m.type) = 4
    BY Sizes
  <2> QED
    BY <1>1, <2>1
<1>6. EndOf(s, m) \in Nat /\ OffsetOf(s, m) <= EndOf(s, m)
  BY <1>4, <1>5 DEF EndOf
<1>7. PlacementOf(s, m) \in Placements
  <2>1. (IF m.union = 0 THEN 0 ELSE BaseOf(s, m)) \in Nat
    BY <1>2
  <2>2. (IF Embedded(m.type) THEN 0 ELSE SemSize(m.type)) \in Nat
    BY <1>5
  <2> QED
    BY <1>1, <1>4, <2>1, <2>2 DEF PlacementOf, Placements
<1>8. End(PlacementOf(s, m)) = EndOf(s, m)
  BY DEF PlacementOf, End, EndOf, Taken
<1> QED
  BY <1>2, <1>4, <1>6, <1>7, <1>8

\* The new member takes the place of one of its name or comes last.
LEMMA MembersAre ==
  ASSUME NEW s \in States, NEW m \in Declarations
  PROVE  LET t == PlaceMember(s, m) IN
         /\ t.members \in Seq(Placements)
         /\ \E z \in DOMAIN t.members :
              /\ t.members[z] = PlacementOf(s, m)
              /\ \A i \in DOMAIN t.members \ {z} : i \in DOMAIN s.members /\ t.members[i] = s.members[i]
<1> DEFINE t == PlaceMember(s, m)
           p == PlacementOf(s, m)
<1>1. s.members \in Seq(Placements) /\ p \in Placements
  BY PlaceFacts DEF States
<1>2. CASE Same(s, m) = {}
  <2>1. t.members = Append(s.members, p)
    BY <1>2, PlaceMemberIs
  <2> HIDE DEF t, p
  <2>2. /\ t.members \in Seq(Placements) /\ Len(s.members) \in Nat
        /\ DOMAIN t.members = 1 .. Len(s.members) + 1 /\ DOMAIN s.members = 1 .. Len(s.members)
        /\ t.members[Len(s.members) + 1] = p
        /\ \A i \in 1 .. Len(s.members) : t.members[i] = s.members[i]
    BY <1>1, <2>1
  <2>3. Len(s.members) + 1 \in DOMAIN t.members
    BY <2>2
  <2> QED
    BY <2>2, <2>3 DEF t, p
<1>3. CASE Same(s, m) # {}
  <2> DEFINE z == CHOOSE i \in Same(s, m) : TRUE
  <2>1. z \in Same(s, m)
    BY <1>3
  <2>2. z \in DOMAIN s.members
    BY <2>1 DEF Same
  <2>3. t.members = [s.members EXCEPT ![z] = p]
    BY <1>3, PlaceMemberIs
  <2> HIDE DEF t, p, z
  <2>4. t.members \in Seq(Placements) /\ DOMAIN t.members = DOMAIN s.members
    BY <1>1, <2>2, <2>3, ExceptSeq
  <2>5. t.members[z] = p /\ \A i \in DOMAIN t.members \ {z} : t.members[i] = s.members[i]
    BY <2>2, <2>3, <2>4
  <2> QED
    BY <2>2, <2>4, <2>5 DEF t, p
<1> QED
  BY <1>2, <1>3

LEMMA PlaceTyped ==
  ASSUME NEW s \in States, NEW m \in Declarations
  PROVE  PlaceMember(s, m) \in States
<1> DEFINE t == PlaceMember(s, m)
<1>1. t.members \in Seq(Placements)
  BY MembersAre
<1>2. m.union \in Nat /\ m.group \in Nat /\ BaseOf(s, m) \in Nat /\ EndOf(s, m) \in Nat /\ s.size \in Nat
  BY DeclarationsAre, PlaceFacts DEF States
<1>3. UnionEnd(s, BaseOf(s, m), EndOf(s, m)) \in Nat
  BY <1>2, Sizes DEF UnionEnd
<1>4. t = [members |-> t.members, size |-> t.size, union |-> t.union, group |-> t.group,
           base |-> t.base, at |-> t.at]
  BY PlaceMemberIs
<1>5. t.size \in Nat /\ t.union \in Nat /\ t.group \in Nat /\ t.base \in Nat /\ t.at \in Nat
  BY <1>2, <1>3, PlaceMemberIs
<1> HIDE DEF t
<1>6. t \in States
  BY <1>1, <1>4, <1>5 DEF States
<1> QED
  BY <1>6 DEF t

-----------------------------------------------------------------------------
(* Members of an object lie apart.                                         *)

Clear(a, b) == End(a) <= b.offset \/ End(b) <= a.offset

MemberSound(m) ==
  /\ m.width = IF Embedded(m.type) THEN 0 ELSE SemSize(m.type)
  /\ SemSize(m.type) > 1 => m.offset % 2 = 0
  /\ m.offset <= End(m) /\ End(m) \in Nat
  /\ m.count = 0 => Base(m.type) = "ARRAY"
  /\ Base(m.type) = "ARRAY" => Base(m.type[2]) # "OBJECT"

MembersSound(members, size) ==
  /\ \A i \in DOMAIN members : MemberSound(members[i]) /\ End(members[i]) <= size
  /\ \A i, j \in DOMAIN members :
       i # j => Alternatives(members[i], members[j]) \/ Clear(members[i], members[j])

\* While a union is filled: a member lies before it, in an earlier group or in this one.
InUnion(m, s) ==
  \/ End(m) <= s.base
  \/ /\ m.union = s.union /\ m.base = s.base
     /\ m.group < s.group \/ (m.group = s.group /\ End(m) <= s.at)

Placing(s) ==
  /\ s \in States
  /\ MembersSound(s.members, s.size)
  /\ s.union # 0 => /\ s.base <= s.at /\ s.at <= s.size
                    /\ \A i \in DOMAIN s.members : InUnion(s.members[i], s)

\* What the parser's numbering gives for the next member.
Follows(m, s) == s.union = m.union => s.group <= m.group

LEMMA NewMemberSound ==
  ASSUME SimpleMembers, NEW s \in States, NEW m \in Declarations
  PROVE  MemberSound(PlacementOf(s, m))
<1>1. /\ EndOf(s, m) \in Nat /\ OffsetOf(s, m) <= EndOf(s, m)
      /\ SemSize(m.type) > 1 => OffsetOf(s, m) % 2 = 0
      /\ End(PlacementOf(s, m)) = EndOf(s, m)
  BY PlaceFacts
<1>2. /\ m.count = 0 => Base(m.type) = "ARRAY"
      /\ Base(m.type) = "ARRAY" => Base(m.type[2]) # "OBJECT"
  <2>1. PICK body \in Bodies : \E i \in DOMAIN body : m = body[i]
    BY DEF Declarations
  <2> QED
    BY <2>1 DEF SimpleMembers
<1>3. /\ PlacementOf(s, m).width = (IF Embedded(m.type) THEN 0 ELSE SemSize(m.type))
      /\ PlacementOf(s, m).type = m.type /\ PlacementOf(s, m).count = m.count
      /\ PlacementOf(s, m).offset = OffsetOf(s, m)
  BY DEF PlacementOf
<1> QED
  BY <1>1, <1>2, <1>3 DEF MemberSound

\* What the member before the new one leaves room for.
LEMMA NewMemberApart ==
  ASSUME NEW s, Placing(s), NEW m \in Declarations, Follows(m, s), NEW i \in DOMAIN s.members
  PROVE  LET p == PlacementOf(s, m)
             o == s.members[i]
         IN End(o) <= p.offset \/ (Alternatives(o, p) /\ Alternatives(p, o))
<1> DEFINE p == PlacementOf(s, m)
           o == s.members[i]
<1> SUFFICES End(o) <= p.offset \/ (Alternatives(o, p) /\ Alternatives(p, o))
  OBVIOUS
<1>1. /\ s \in States /\ s.size \in Nat /\ s.base \in Nat /\ s.at \in Nat /\ s.group \in Nat
      /\ m.union \in Nat /\ m.group \in Nat
  BY DeclarationsAre DEF Placing, States
<1>2. End(o) \in Nat /\ End(o) <= s.size
  BY DEF Placing, MembersSound, MemberSound
<1>3. /\ p.offset = OffsetOf(s, m) /\ p.union = m.union /\ p.group = m.group
      /\ m.union # 0 => p.base = BaseOf(s, m)
  BY DEF PlacementOf
<1>4. /\ OffsetOf(s, m) \in Nat /\ BaseOf(s, m) \in Nat
      /\ m.union = 0 => OffsetOf(s, m) >= s.size
      /\ m.union # 0 => OffsetOf(s, m) >= UnionFrom(s, BaseOf(s, m), m)
      /\ m.union # s.union => BaseOf(s, m) >= s.size
  BY <1>1, PlaceFacts
<1> HIDE DEF p
<1>5. CASE m.union = 0
  BY <1>1, <1>2, <1>3, <1>4, <1>5
<1>6. CASE m.union # 0 /\ m.union # s.union
  <2>1. UnionFrom(s, BaseOf(s, m), m) = BaseOf(s, m)
    BY <1>6 DEF UnionFrom
  <2> QED
    BY <1>1, <1>2, <1>3, <1>4, <1>6, <2>1
<1>7. CASE m.union # 0 /\ m.union = s.union
  <2>1. BaseOf(s, m) = s.base /\ s.base <= s.at /\ InUnion(o, s) /\ s.group <= m.group
    BY <1>7 DEF BaseOf, Placing, Follows
  <2>2. UnionFrom(s, BaseOf(s, m), m) = IF m.group = s.group THEN s.at ELSE s.base
    BY <1>7, <2>1 DEF UnionFrom
  <2>3. CASE End(o) <= s.base
    BY <1>1, <1>2, <1>3, <1>4, <1>7, <2>1, <2>2, <2>3
  <2>4. CASE ~ (End(o) <= s.base)
    <3>1. /\ o.union = s.union /\ o.base = s.base
          /\ o.group < s.group \/ (o.group = s.group /\ End(o) <= s.at)
      BY <2>1, <2>4 DEF InUnion
    <3>2. o.group \in Nat
      <4>1. s.members \in Seq(Placements)
        BY <1>1 DEF States
      <4>2. o \in Placements
        BY <4>1
      <4> QED
        BY <4>2 DEF Placements
    <3>3. CASE o.group = m.group
      <4>1. m.group = s.group /\ End(o) <= s.at
        BY <1>1, <2>1, <3>1, <3>2, <3>3
      <4> QED
        BY <1>1, <1>2, <1>3, <1>4, <1>7, <2>2, <4>1
    <3>4. CASE o.group # m.group
      BY <1>3, <1>7, <2>1, <3>1, <3>4 DEF Alternatives
    <3> QED
      BY <3>3, <3>4
  <2> QED
    BY <2>3, <2>4
<1> QED
  BY <1>5, <1>6, <1>7

LEMMA PlacingKept ==
  ASSUME SimpleMembers, NEW s, Placing(s), NEW m \in Declarations, Follows(m, s)
  PROVE  Placing(PlaceMember(s, m))
<1> DEFINE t == PlaceMember(s, m)
           p == PlacementOf(s, m)
<1>1. s \in States /\ t \in States
  BY PlaceTyped DEF Placing
<1>2. PICK z \in DOMAIN t.members :
        /\ t.members[z] = p
        /\ \A i \in DOMAIN t.members \ {z} : i \in DOMAIN s.members /\ t.members[i] = s.members[i]
  BY <1>1, MembersAre
<1>3. /\ t.union = m.union /\ t.group = m.group /\ t.base = BaseOf(s, m) /\ t.at = EndOf(s, m)
      /\ t.size = IF m.union = 0 THEN EndOf(s, m) ELSE UnionEnd(s, BaseOf(s, m), EndOf(s, m))
  BY PlaceMemberIs
<1>4. /\ p.offset = OffsetOf(s, m) /\ p.union = m.union /\ p.group = m.group
      /\ m.union # 0 => p.base = BaseOf(s, m)
  BY DEF PlacementOf
<1>5. /\ BaseOf(s, m) \in Nat /\ OffsetOf(s, m) \in Nat /\ EndOf(s, m) \in Nat
      /\ OffsetOf(s, m) <= EndOf(s, m) /\ End(p) = EndOf(s, m)
      /\ m.union = 0 => OffsetOf(s, m) >= s.size
      /\ m.union # 0 => OffsetOf(s, m) >= UnionFrom(s, BaseOf(s, m), m)
      /\ m.union # s.union => BaseOf(s, m) >= s.size
  BY <1>1, PlaceFacts
<1>6. /\ s.size \in Nat /\ s.base \in Nat /\ s.at \in Nat /\ s.group \in Nat
      /\ m.union \in Nat /\ m.group \in Nat
  BY <1>1, DeclarationsAre DEF States
<1>7. \A i \in DOMAIN s.members : MemberSound(s.members[i]) /\ End(s.members[i]) \in Nat /\ End(s.members[i]) <= s.size
  BY DEF Placing, MembersSound, MemberSound
<1>8. s.size <= t.size /\ End(p) <= t.size /\ t.size \in Nat
  <2>1. CASE m.union = 0
    BY <1>3, <1>5, <1>6, <2>1
  <2>2. CASE m.union # 0
    <3>1. t.size = Larger(Larger(BaseOf(s, m), s.size), EndOf(s, m))
      BY <1>3, <2>2 DEF UnionEnd
    <3>2. /\ Larger(BaseOf(s, m), s.size) \in Nat /\ Larger(BaseOf(s, m), s.size) >= s.size
      BY <1>5, <1>6, Sizes
    <3>3. t.size \in Nat /\ t.size >= Larger(BaseOf(s, m), s.size) /\ t.size >= EndOf(s, m)
      BY <1>5, <3>1, <3>2, Sizes
    <3> QED
      BY <1>5, <1>6, <3>2, <3>3
  <2> QED
    BY <2>1, <2>2
<1>9. MemberSound(p)
  BY <1>1, NewMemberSound
<1>10. \A i \in DOMAIN s.members :
         End(s.members[i]) <= p.offset \/ (Alternatives(s.members[i], p) /\ Alternatives(p, s.members[i]))
  BY NewMemberApart
<1> HIDE DEF t, p
<1>11. MembersSound(t.members, t.size)
  <2>1. ASSUME NEW i \in DOMAIN t.members PROVE MemberSound(t.members[i]) /\ End(t.members[i]) <= t.size
    <3>1. CASE i = z
      BY <1>2, <1>8, <1>9, <3>1
    <3>2. CASE i # z
      <4>1. i \in DOMAIN s.members /\ t.members[i] = s.members[i]
        BY <1>2, <3>2
      <4>2. MemberSound(s.members[i]) /\ End(s.members[i]) \in Nat /\ End(s.members[i]) <= s.size
        BY <1>7, <4>1
      <4> QED
        BY <1>6, <1>8, <4>1, <4>2
    <3> QED
      BY <3>1, <3>2
  <2>2. ASSUME NEW i \in DOMAIN t.members, NEW j \in DOMAIN t.members, i # j
        PROVE  Alternatives(t.members[i], t.members[j]) \/ Clear(t.members[i], t.members[j])
    <3>1. CASE i = z
      <4>1. j \in DOMAIN s.members /\ t.members[j] = s.members[j]
        BY <1>2, <2>2, <3>1
      <4> QED
        BY <1>2, <1>10, <3>1, <4>1 DEF Clear
    <3>2. CASE j = z
      <4>1. i \in DOMAIN s.members /\ t.members[i] = s.members[i]
        BY <1>2, <2>2, <3>2
      <4> QED
        BY <1>2, <1>10, <3>2, <4>1 DEF Clear
    <3>3. CASE i # z /\ j # z
      <4>1. /\ i \in DOMAIN s.members /\ t.members[i] = s.members[i]
            /\ j \in DOMAIN s.members /\ t.members[j] = s.members[j]
        BY <1>2, <3>3
      <4> QED
        BY <2>2, <4>1 DEF Placing, MembersSound
    <3> QED
      BY <3>1, <3>2, <3>3
  <2> QED
    BY <2>1, <2>2 DEF MembersSound
<1>12. ASSUME t.union # 0 PROVE t.base <= t.at /\ t.at <= t.size
  <2>1. m.union # 0 /\ t.base = BaseOf(s, m) /\ t.at = EndOf(s, m)
    BY <1>3, <1>12
  <2>2. UnionFrom(s, BaseOf(s, m), m) >= BaseOf(s, m) /\ UnionFrom(s, BaseOf(s, m), m) \in Nat
    <3>1. CASE m.union = s.union /\ m.group = s.group
      <4>1. BaseOf(s, m) = s.base /\ s.base <= s.at
        BY <2>1, <3>1 DEF BaseOf, Placing
      <4> QED
        BY <1>6, <3>1, <4>1 DEF UnionFrom
    <3>2. CASE ~ (m.union = s.union /\ m.group = s.group)
      BY <1>5, <3>2 DEF UnionFrom
    <3> QED
      BY <3>1, <3>2
  <2> QED
    BY <1>5, <1>8, <2>1, <2>2
<1>13. ASSUME t.union # 0, NEW i \in DOMAIN t.members PROVE InUnion(t.members[i], t)
  <2>1. m.union # 0 /\ t.union = m.union /\ t.group = m.group /\ t.base = BaseOf(s, m) /\ t.at = EndOf(s, m)
    BY <1>3, <1>13
  <2>2. CASE i = z
    <3>1. p.union = t.union /\ p.base = t.base /\ p.group = t.group /\ End(p) <= t.at
      BY <1>4, <1>5, <2>1
    <3> QED
      BY <1>2, <2>2, <3>1 DEF InUnion
  <2>3. CASE i # z
    <3>1. i \in DOMAIN s.members /\ t.members[i] = s.members[i]
      BY <1>2, <2>3
    <3> DEFINE o == s.members[i]
    <3>2. End(o) \in Nat /\ End(o) <= s.size
      BY <1>7, <3>1
    <3>3. CASE m.union # s.union
      BY <1>5, <1>6, <2>1, <3>1, <3>2, <3>3 DEF InUnion
    <3>4. CASE m.union = s.union
      <4>1. BaseOf(s, m) = s.base /\ InUnion(o, s) /\ s.group <= m.group /\ s.base <= s.at
        BY <2>1, <3>1, <3>4 DEF BaseOf, Placing, Follows
      <4>2. CASE End(o) <= s.base
        BY <2>1, <3>1, <4>1, <4>2 DEF InUnion
      <4>3. CASE ~ (End(o) <= s.base)
        <5>1. /\ o.union = s.union /\ o.base = s.base
              /\ o.group < s.group \/ (o.group = s.group /\ End(o) <= s.at)
          BY <4>1, <4>3 DEF InUnion
        <5>2. o.group \in Nat
          <6>1. s.members \in Seq(Placements)
            BY <1>1 DEF States
          <6>2. o \in Placements
            BY <3>1, <6>1
          <6> QED
            BY <6>2 DEF Placements
        <5>3. o.group < m.group \/ (o.group = m.group /\ End(o) <= EndOf(s, m))
          <6>1. CASE o.group < s.group \/ s.group < m.group
            BY <1>6, <4>1, <5>1, <5>2, <6>1
          <6>2. CASE o.group = s.group /\ s.group = m.group
            <7>1. UnionFrom(s, BaseOf(s, m), m) = s.at
              BY <3>4, <6>2 DEF UnionFrom
            <7> QED
              BY <1>5, <1>6, <2>1, <3>2, <5>1, <5>2, <6>2, <7>1
          <6> QED
            BY <1>6, <4>1, <5>1, <5>2, <6>1, <6>2
        <5> QED
          BY <2>1, <3>1, <3>4, <4>1, <5>1, <5>3 DEF InUnion
      <4> QED
        BY <4>2, <4>3
    <3> QED
      BY <3>3, <3>4
  <2> QED
    BY <2>2, <2>3
<1>14. Placing(t)
  BY <1>1, <1>11, <1>12, <1>13 DEF Placing, t
<1> QED
  BY <1>14 DEF t

ObjectSound(o) ==
  /\ o \in [members : Seq(Placements), size : Nat]
  /\ o.size % 2 = 0
  /\ MembersSound(o.members, o.size)

LEMMA NothingSound == ObjectSound(Nothing)
<1>1. Nothing.members = << >> /\ Nothing.size = 0
  BY DEF Nothing
<1>2. Nothing \in [members : Seq(Placements), size : Nat]
  <2>1. << >> \in Seq(Placements)
    OBVIOUS
  <2> QED
    BY <2>1 DEF Nothing
<1>3. DOMAIN << >> = {}
  OBVIOUS
<1>4. MembersSound(<< >>, 0)
  BY <1>3 DEF MembersSound
<1> QED
  BY <1>1, <1>2, <1>4 DEF ObjectSound

Beginning(parent) ==
  [members |-> parent.members, size |-> parent.size, union |-> 0, group |-> 0, base |-> 0, at |-> 0]
PlacedEq(f, parent, body) ==
  f = [n \in 0 .. Len(body) |-> IF n = 0 THEN Beginning(parent) ELSE PlaceMember(f[n - 1], body[n])]

LEMMA BodyIs ==
  ASSUME NEW body \in Bodies
  PROVE  /\ Len(body) \in Nat /\ DOMAIN body = 1 .. Len(body)
         /\ \A i \in 1 .. Len(body) : body[i] \in Declarations
         /\ \A i \in 2 .. Len(body) : body[i - 1].union = body[i].union => body[i - 1].group <= body[i].group
<1>1. IsBody(body)
  BY LayoutAssumption
<1>2. body \in Seq({body[i] : i \in DOMAIN body})
  BY <1>1 DEF IsBody
<1>3. Len(body) \in Nat /\ DOMAIN body = 1 .. Len(body)
  BY <1>2
<1>4. \A i \in 1 .. Len(body) : body[i] \in Declarations
  BY <1>3 DEF Declarations
<1> QED
  BY <1>1, <1>3, <1>4 DEF IsBody

LEMMA PlacedIs ==
  ASSUME NEW body \in Bodies, NEW parent, ObjectSound(parent)
  PROVE  \E f \in [0 .. Len(body) -> States] :
            /\ f[0] = Beginning(parent)
            /\ \A k \in 1 .. Len(body) : f[k] = PlaceMember(f[k - 1], body[k])
            /\ DefObject(parent, body) = [members |-> f[Len(body)].members, size |-> Even(f[Len(body)].size)]
<1> DEFINE n == Len(body)
           b == Beginning(parent)
           make == [k \in 1 .. n |-> [x \in States |-> PlaceMember(x, body[k])]]
           f == CHOOSE f : PlacedEq(f, parent, body)
<1>1. n \in Nat /\ \A k \in 1 .. n : body[k] \in Declarations
  BY BodyIs
<1>2. b \in States
  BY DEF Beginning, States, ObjectSound
<1>3. make \in [1 .. n -> [States -> States]]
  <2>1. ASSUME NEW k \in 1 .. n PROVE [x \in States |-> PlaceMember(x, body[k])] \in [States -> States]
    <3>1. \A x \in States : PlaceMember(x, body[k]) \in States
      BY <1>1, PlaceTyped
    <3> QED
      BY <3>1
  <2> QED
    BY <2>1
<1> HIDE DEF n, b
<1>4. PICK g : Solves(g, n, States, b, make)
  BY <1>1, <1>2, <1>3, Recursion
<1>5. g \in [0 .. n -> States] /\ g[0] = b /\ \A k \in 1 .. n : g[k] = PlaceMember(g[k - 1], body[k])
  <2>1. g \in [0 .. n -> States] /\ g[0] = b /\ \A k \in 1 .. n : g[k] = make[k][g[k - 1]]
    BY <1>4 DEF Solves
  <2>2. ASSUME NEW k \in 1 .. n PROVE g[k] = PlaceMember(g[k - 1], body[k])
    <3>1. g[k - 1] \in States
      BY <1>1, <2>1
    <3> QED
      BY <2>1, <3>1
  <2> QED
    BY <2>1, <2>2
<1>6. PlacedEq(g, parent, body)
  <2>1. \A k \in 0 .. n : g[k] = IF k = 0 THEN b ELSE PlaceMember(g[k - 1], body[k])
    BY <1>1, <1>5
  <2>2. g = [k \in 0 .. n |-> g[k]]
    BY <1>5
  <2> QED
    BY <2>1, <2>2 DEF PlacedEq, n, b
<1>7. PlacedEq(f, parent, body)
  BY <1>6
<1>8. DefObject(parent, body) = [members |-> f[n].members, size |-> Even(f[n].size)]
  BY DEF DefObject, PlacedEq, Beginning, n
<1> HIDE DEF f
<1>9. \A k \in 0 .. n : f[k] = IF k = 0 THEN b ELSE PlaceMember(f[k - 1], body[k])
  BY <1>7 DEF PlacedEq, n, b
<1> DEFINE Bad == {k \in 0 .. n : f[k] \notin States}
<1>10. Bad = {}
  <2>1. SUFFICES ASSUME Bad # {} PROVE FALSE
    OBVIOUS
  <2>2. Bad \in SUBSET Nat
    OBVIOUS
  <2>3. PICK k \in Bad : \A j \in Bad : k <= j
    BY <2>1, <2>2, LeastOf
  <2>4. k \in 0 .. n /\ f[k] \notin States
    BY <2>3
  <2>5. k # 0
    BY <2>4, <1>2, <1>9
  <2>6. k - 1 \in 0 .. n /\ ~ (k <= k - 1) /\ k \in 1 .. n
    BY <1>1, <2>4, <2>5
  <2>7. f[k - 1] \in States
    BY <2>3, <2>6
  <2> QED
    BY <1>1, <1>9, <2>4, <2>5, <2>6, <2>7, PlaceTyped
<1>11. f = [k \in 0 .. n |-> f[k]]
  BY <1>7 DEF PlacedEq, n
<1>12. f \in [0 .. n -> States]
  BY <1>10, <1>11
<1>13. f[0] = b /\ \A k \in 1 .. n : f[k] = PlaceMember(f[k - 1], body[k])
  BY <1>1, <1>9
<1> QED
  BY <1>8, <1>12, <1>13 DEF n, b

LEMMA DefObjectSound ==
  ASSUME SimpleMembers, NEW body \in Bodies, NEW parent, ObjectSound(parent)
  PROVE  ObjectSound(DefObject(parent, body))
<1> DEFINE n == Len(body)
<1>1. PICK f \in [0 .. n -> States] :
        /\ f[0] = Beginning(parent)
        /\ \A k \in 1 .. n : f[k] = PlaceMember(f[k - 1], body[k])
        /\ DefObject(parent, body) = [members |-> f[n].members, size |-> Even(f[n].size)]
  BY PlacedIs
<1>2. /\ n \in Nat /\ \A i \in 1 .. n : body[i] \in Declarations
      /\ \A i \in 2 .. n : body[i - 1].union = body[i].union => body[i - 1].group <= body[i].group
  BY BodyIs
<1> HIDE DEF n
<1> DEFINE Good(k) == Placing(f[k]) /\ (k # 0 => f[k].union = body[k].union /\ f[k].group = body[k].group)
           Bad == {k \in 0 .. n : ~ Good(k)}
<1>3. Good(0)
  <2>1. /\ f[0].members = parent.members /\ f[0].size = parent.size /\ f[0].union = 0 /\ f[0] \in States
    BY <1>1, <1>2 DEF Beginning
  <2> QED
    BY <2>1 DEF Placing, ObjectSound
<1>4. ASSUME NEW k \in 1 .. n, Good(k - 1) PROVE Good(k)
  <2>1. body[k] \in Declarations /\ f[k] = PlaceMember(f[k - 1], body[k])
    BY <1>1, <1>2
  <2>2. Follows(body[k], f[k - 1])
    <3>1. CASE k = 1
      <4>1. f[k - 1].group = 0 /\ body[k].group \in Nat
        BY <1>1, <2>1, <3>1, DeclarationsAre DEF Beginning
      <4> QED
        BY <4>1 DEF Follows
    <3>2. CASE k # 1
      <4>1. k \in 2 .. n /\ k - 1 # 0
        BY <1>2, <3>2
      <4> QED
        BY <1>2, <1>4, <4>1 DEF Follows
    <3> QED
      BY <3>1, <3>2
  <2>3. Placing(f[k])
    BY <1>4, <2>1, <2>2, PlacingKept
  <2>4. f[k].union = body[k].union /\ f[k].group = body[k].group
    <3>1. /\ PlaceMember(f[k - 1], body[k]).union = body[k].union
          /\ PlaceMember(f[k - 1], body[k]).group = body[k].group
      BY PlaceMemberIs
    <3> QED
      BY <2>1, <3>1
  <2> QED
    BY <2>3, <2>4
<1>5. Bad = {}
  <2>1. SUFFICES ASSUME Bad # {} PROVE FALSE
    OBVIOUS
  <2>2. Bad \in SUBSET Nat
    OBVIOUS
  <2>3. PICK k \in Bad : \A j \in Bad : k <= j
    BY <2>1, <2>2, LeastOf
  <2>4. k \in 0 .. n /\ ~ Good(k)
    BY <2>3
  <2> HIDE DEF Good
  <2>5. k # 0
    BY <2>4, <1>3
  <2>6. k - 1 \in 0 .. n /\ ~ (k <= k - 1) /\ k \in 1 .. n
    BY <1>2, <2>4, <2>5
  <2>7. Good(k - 1)
    BY <2>3, <2>6
  <2> QED
    BY <1>4, <2>4, <2>6, <2>7
<1>6. Placing(f[n])
  <2>1. n \in 0 .. n
    BY <1>2
  <2> QED
    BY <1>5, <2>1
<1> DEFINE o == DefObject(parent, body)
           t == f[n]
<1>7. t \in States /\ MembersSound(t.members, t.size)
  BY <1>6 DEF Placing
<1>8. o.members = t.members /\ o.size = Even(t.size) /\ o = [members |-> o.members, size |-> o.size]
  BY <1>1
<1>9. t.members \in Seq(Placements) /\ t.size \in Nat
  BY <1>7 DEF States
<1>10. o.size \in Nat /\ o.size >= t.size /\ o.size % 2 = 0
  BY <1>8, <1>9, Sizes
<1> HIDE DEF o, t
<1>11. MembersSound(o.members, o.size)
  <2>1. ASSUME NEW i \in DOMAIN t.members PROVE MemberSound(t.members[i]) /\ End(t.members[i]) <= o.size
    <3>1. MemberSound(t.members[i]) /\ End(t.members[i]) <= t.size
      BY <1>7 DEF MembersSound
    <3>2. End(t.members[i]) \in Nat
      BY <3>1 DEF MemberSound
    <3> QED
      BY <1>9, <1>10, <3>1, <3>2
  <2> QED
    BY <1>7, <1>8, <2>1 DEF MembersSound
<1>12. o \in [members : Seq(Placements), size : Nat]
  BY <1>8, <1>9, <1>10
<1> QED
  BY <1>10, <1>11, <1>12 DEF ObjectSound, o

-----------------------------------------------------------------------------
(* The objects of a program.                                               *)

LEMMA AppendIs ==
  ASSUME NEW S, NEW q \in Seq(S), NEW e \in S
  PROVE  /\ Append(q, e) \in Seq(S)
         /\ Len(q) \in Nat /\ \A i \in DOMAIN Append(q, e) : i \in Nat
         /\ \A i \in DOMAIN Append(q, e) : i # Len(q) + 1 => i \in DOMAIN q /\ i <= Len(q) /\ Append(q, e)[i] = q[i]
         /\ Append(q, e)[Len(q) + 1] = e
<1> DEFINE a == Append(q, e)
           n == Len(q)
<1>1. /\ a \in Seq(S) /\ Len(a) = n + 1 /\ n \in Nat
      /\ (\A i \in 1 .. n : a[i] = q[i]) /\ a[n + 1] = e
  BY AppendProperties
<1>2. DOMAIN a = 1 .. n + 1 /\ DOMAIN q = 1 .. n
  BY <1>1
<1> HIDE DEF a, n
<1>3. \A i \in 1 .. n + 1 : i \in Nat /\ (i # n + 1 => i \in 1 .. n /\ i <= n)
  BY <1>1
<1>4. \A i \in DOMAIN a : i \in Nat /\ (i # n + 1 => i \in DOMAIN q /\ i <= n /\ a[i] = q[i])
  BY <1>1, <1>2, <1>3
<1> QED
  BY <1>1, <1>4 DEF a, n

LEMMA LastIs ==
  ASSUME NEW S, NEW q \in Seq(S), NEW i \in {0, Len(q)}, i # 0
  PROVE  i \in DOMAIN q
<1>1. Len(q) \in Nat /\ DOMAIN q = 1 .. Len(q)
  OBVIOUS
<1>2. \A n \in Nat : n # 0 => n \in 1 .. n
  OBVIOUS
<1> QED
  BY <1>1, <1>2

ObjectRecords == [members : Seq(Placements), size : Nat]

ObjectsInv ==
  /\ objects \in Seq(ObjectRecords)
  /\ \A n \in DOMAIN objects : ObjectSound(objects[n])

LEMMA ObjectsKnown == ASSUME ObjectsInv PROVE SizesKnown
  BY DEF ObjectsInv, ObjectSound, SizesKnown

LEMMA ObjectsInit == Init => ObjectsInv
<1>1. << >> \in Seq(ObjectRecords) /\ DOMAIN << >> = {}
  OBVIOUS
<1> QED
  BY <1>1 DEF Init, ObjectsInv

LEMMA ObjectsNext ==
  ASSUME SimpleMembers, ObjectsInv, [Next]_vars
  PROVE  ObjectsInv'
<1>1. CASE objects' = objects
  BY <1>1 DEF ObjectsInv
<1>2. ASSUME NEW body \in Bodies, NEW parent \in {0, Len(objects)}, DefineObject(body, parent)
      PROVE  ObjectsInv'
  <2> DEFINE p == IF parent = 0 THEN Nothing ELSE objects[parent]
             o == DefObject(p, body)
  <2>1. objects \in Seq(ObjectRecords)
    BY DEF ObjectsInv
  <2>2. ObjectSound(p)
    <3>1. CASE parent = 0
      BY <3>1, NothingSound
    <3>2. CASE parent # 0
      <4>1. parent \in DOMAIN objects
        BY <1>2, <2>1, <3>2, LastIs
      <4> QED
        BY <3>2, <4>1 DEF ObjectsInv
    <3> QED
      BY <3>1, <3>2
  <2>3. objects' = Append(objects, o)
    BY <1>2 DEF DefineObject
  <2> HIDE DEF p
  <2>4. ObjectSound(o) /\ o \in ObjectRecords
    BY <2>2, DefObjectSound DEF ObjectSound, ObjectRecords
  <2> HIDE DEF o
  <2>5. /\ objects' \in Seq(ObjectRecords)
        /\ \A n \in DOMAIN objects' : (n \in DOMAIN objects /\ objects'[n] = objects[n]) \/ objects'[n] = o
    BY <2>1, <2>3, <2>4, AppendIs
  <2>6. ASSUME NEW n \in DOMAIN objects' PROVE ObjectSound(objects'[n])
    BY <2>4, <2>5 DEF ObjectsInv
  <2>7. (\A n \in DOMAIN objects : ObjectSound(objects[n]))'
    BY <2>6 DEF ObjectSound, MembersSound, MemberSound
  <2> QED
    BY <2>5, <2>7 DEF ObjectsInv
<1> QED
  BY <1>1, <1>2 DEF Next, vars, DefineGlobal, DefineLocal, UseClass, Handle

LEMMA BytesTaken ==
  ASSUME NEW m \in Placements, MemberSound(m), Base(m.type) # "OBJECT"
  PROVE  Bytes(m, objects) \in Nat /\ Bytes(m, objects) <= Taken(m)
<1>1. m.count \in Nat
  BY DEF Placements
<1>2. CASE Base(m.type) = "ARRAY"
  <2>1. SemSize(m.type) = 4
    BY <1>2 DEF SemSize
  <2>2. ElemSize(m.type[2], objects) \in {1, 2, 4}
    BY <1>2 DEF MemberSound, ElemSize
  <2>3. Bytes(m, objects) = m.count * ElemSize(m.type[2], objects)
    BY <1>2 DEF Bytes
  <2> QED
    BY <1>1, <2>1, <2>2, <2>3 DEF Taken
<1>3. CASE Base(m.type) # "ARRAY"
  <2>1. Bytes(m, objects) = SemSize(m.type) /\ m.count > 0
    BY <1>1, <1>3 DEF Bytes, MemberSound, Embedded
  <2>2. SemSize(m.type) = 1 \/ SemSize(m.type) = 2 \/ SemSize(m.type) = 4
    BY Sizes
  <2>3. SemSize(m.type) * m.count >= SemSize(m.type)
    BY <1>1, <2>1, <2>2
  <2> QED
    BY <2>1, <2>2, <2>3 DEF Taken
<1> QED
  BY <1>2, <1>3

LEMMA ObjectsApart == ASSUME ObjectsInv PROVE MembersApart
<1> SUFFICES ASSUME NEW n \in DOMAIN objects, NEW m \in MembersOf(objects[n])
             PROVE  /\ objects[n].size % 2 = 0
                    /\ m.width > 1 => m.offset % 2 = 0
                    /\ Inside(RangeOf(m), 0, objects[n].size)
                    /\ \A other \in MembersOf(objects[n]) \ {m} :
                         Alternatives(m, other) \/ Disjoint(RangeOf(m), RangeOf(other))
  <2>1. \A n \in DOMAIN objects : objects[n].size % 2 = 0
    BY DEF ObjectsInv, ObjectSound
  <2> QED
    BY <2>1 DEF MembersApart
<1>1. /\ ObjectSound(objects[n]) /\ objects[n].members \in Seq(Placements) /\ objects[n].size \in Nat
      /\ MembersSound(objects[n].members, objects[n].size)
  BY DEF ObjectsInv, ObjectSound
<1>2. ASSUME NEW o \in MembersOf(objects[n])
      PROVE  /\ \E i \in DOMAIN objects[n].members : o = objects[n].members[i]
             /\ MemberSound(o) /\ End(o) <= objects[n].size /\ o.offset \in Nat
             /\ Bytes(o, objects) \in Nat /\ o.offset + Bytes(o, objects) <= End(o) /\ End(o) \in Nat
  <2>1. PICK i \in DOMAIN objects[n].members : o = objects[n].members[i] /\ Base(o.type) # "OBJECT"
    BY DEF MembersOf
  <2>2. MemberSound(o) /\ End(o) <= objects[n].size
    BY <1>1, <2>1 DEF MembersSound
  <2>3. o \in Placements
    BY <1>1, <2>1
  <2>4. o.offset \in Nat /\ End(o) \in Nat
    BY <2>2, <2>3 DEF Placements, MemberSound
  <2>5. Bytes(o, objects) \in Nat /\ Bytes(o, objects) <= Taken(o)
    BY <2>1, <2>2, <2>3, BytesTaken
  <2>6. Taken(o) \in Nat
    <3>1. o.count \in Nat
      BY <2>3 DEF Placements
    <3>2. SemSize(o.type) = 1 \/ SemSize(o.type) = 2 \/ SemSize(o.type) = 4
      BY Sizes
    <3> QED
      BY <3>1, <3>2 DEF Taken
  <2>7. o.offset + Bytes(o, objects) <= End(o)
    BY <2>4, <2>5, <2>6 DEF End
  <2> QED
    BY <2>1, <2>2, <2>4, <2>5, <2>7
<1>3. objects[n].size % 2 = 0
  BY <1>1 DEF ObjectSound
<1>4. ASSUME m.width > 1 PROVE m.offset % 2 = 0
  <2>1. m.width = IF Embedded(m.type) THEN 0 ELSE SemSize(m.type)
    BY <1>2 DEF MemberSound
  <2>2. SemSize(m.type) > 1
    BY <1>4, <2>1
  <2> QED
    BY <1>2, <2>2 DEF MemberSound
<1>5. Inside(RangeOf(m), 0, objects[n].size)
  BY <1>1, <1>2 DEF Inside, RangeOf
<1>6. ASSUME NEW other \in MembersOf(objects[n]) \ {m}
      PROVE  Alternatives(m, other) \/ Disjoint(RangeOf(m), RangeOf(other))
  <2>1. PICK i \in DOMAIN objects[n].members, j \in DOMAIN objects[n].members :
           m = objects[n].members[i] /\ other = objects[n].members[j]
    BY <1>2
  <2>2. i # j
    BY <2>1
  <2>3. Alternatives(m, other) \/ Clear(m, other)
    BY <1>1, <2>1, <2>2 DEF MembersSound
  <2>4. CASE Clear(m, other)
    <3>1. /\ m.offset \in Nat /\ Bytes(m, objects) \in Nat /\ m.offset + Bytes(m, objects) <= End(m) /\ End(m) \in Nat
          /\ other.offset \in Nat /\ Bytes(other, objects) \in Nat
          /\ other.offset + Bytes(other, objects) <= End(other) /\ End(other) \in Nat
      BY <1>2
    <3> QED
      BY <2>4, <3>1 DEF Clear, Disjoint, RangeOf
  <2> QED
    BY <2>3, <2>4
<1> QED
  BY <1>3, <1>4, <1>5, <1>6

\* Whatever objects a program declares, with whatever members, unions and parents, what is
\* written through one member changes no other, and words lie at even addresses.
THEOREM MembersStayApart == ASSUME SimpleMembers PROVE Spec => []MembersApart
<1>1. ObjectsInv /\ [Next]_vars => ObjectsInv'
  BY ObjectsNext
<1>2. ObjectsInv => MembersApart
  BY ObjectsApart
<1> QED
  BY <1>1, <1>2, ObjectsInit, PTL DEF Spec

-----------------------------------------------------------------------------
(* The frame and the globals, variable by variable.                        *)

Stored == [type : {v.type : v \in Variables}, dims : Seq(Nat), slot : Int, buf : Int]

\* What DefineLocal and DefineGlobal reserve besides the variable itself.
LocalRoom(v) == IF Buffered(v) THEN LocalBytes(v)
                ELSE IF Inline(v) THEN Even(objects[v.type[2]].size) ELSE 0
GlobalRoom(v) == IF Buffered(v) THEN GlobalBytes(v) ELSE 0
GlobalEnd(v) == v.buf + GlobalRoom(v)

LocalSound(v) ==
  /\ Declared(v) /\ Known(v.type)
  /\ LocalRoom(v) \in Nat /\ v.slot = v.buf + LocalRoom(v) /\ v.slot + 4 <= 0
  /\ -frame <= v.buf
  /\ handler # 0 => handler + 16 <= v.buf

FrameInv ==
  /\ frame \in Nat /\ locals \in Seq(Stored)
  /\ handler # 0 => handler = -frame /\ frame >= 16
  /\ \A i \in DOMAIN locals : LocalSound(locals[i])
  /\ \A i, j \in DOMAIN locals : i < j => locals[j].slot + 4 <= locals[i].buf

GlobalSound(v) ==
  /\ Declared(v)
  /\ GlobalRoom(v) \in Nat /\ 32 <= v.slot /\ v.buf = v.slot + 4
  /\ GlobalEnd(v) <= globalSize
  /\ \A s \in DOMAIN regions : GlobalEnd(v) <= regions[s].slot

RegionSound(s) ==
  /\ s \in Nat /\ regions[s].slot \in Int /\ 32 <= regions[s].slot
  /\ regions[s].region = regions[s].slot + 4
  /\ regions[s].region + s <= globalSize

GlobalsInv ==
  /\ globalSize \in Nat /\ 32 <= globalSize /\ globals \in Seq(Stored)
  /\ \A i \in DOMAIN globals : GlobalSound(globals[i])
  /\ \A i, j \in DOMAIN globals :
       i < j => GlobalEnd(globals[i]) <= globals[j].slot
  /\ \A s \in DOMAIN regions : RegionSound(s)
  /\ \A s, t \in DOMAIN regions : s # t =>
       regions[s].region + s <= regions[t].slot \/ regions[t].region + t <= regions[s].slot

LayoutInv == ObjectsInv /\ FrameInv /\ GlobalsInv

LEMMA Rounded ==
  /\ \A n \in Nat : 2 * ((n + 2) \div 2) \in Nat /\ 2 * ((n + 2) \div 2) >= n + 1
<1>1. ASSUME NEW n \in Nat PROVE 2 * ((n + 2) \div 2) \in Nat /\ 2 * ((n + 2) \div 2) >= n + 1
  OBVIOUS
<1> QED
  BY <1>1

LEMMA BytesHold ==
  ASSUME SizesKnown, NEW v, Declared(v), Buffered(v), NEW n, n \in {LocalBytes(v), GlobalBytes(v)}
  PROVE  n \in Nat /\ Holds(v, FALSE, n)
<1> DEFINE p == Product(v.dims)
           e == Element(v)
<1>1. p \in Nat /\ Header = 4
  BY ProductNat DEF Declared, IsVariable, Header
<1>2. e \in Nat
  BY DEF SizesKnown, Element, ElemSize
<1>3. p * e \in Nat
  BY <1>1, <1>2
<1>4. Header + p \in Nat /\ Header + 4 * p \in Nat
  BY <1>1
<1> HIDE DEF p, e
<1>5. CASE Base(v.type) = "STRING"
  <2>1. n = 2 * ((Header + p + 2) \div 2)
    BY <1>5 DEF LocalBytes, GlobalBytes, p
  <2>2. n \in Nat /\ n >= Header + p + 1
    BY <1>4, <2>1, Rounded
  <2> QED
    BY <1>5, <2>2 DEF Holds, IsArray, p
<1>6. CASE Base(v.type) = "LIST"
  <2>1. n = Header + 4 * p \/ n = 2 * ((Header + 4 * p + 2) \div 2)
    BY <1>6 DEF LocalBytes, GlobalBytes, p
  <2>2. /\ 2 * ((Header + 4 * p + 2) \div 2) \in Nat
        /\ 2 * ((Header + 4 * p + 2) \div 2) >= Header + 4 * p + 1
    BY <1>4, Rounded
  <2>3. n \in Nat /\ n >= Header + 4 * p
    BY <1>4, <2>1, <2>2
  <2> QED
    BY <1>6, <2>3 DEF Holds, IsArray, p
<1>7. CASE Base(v.type) \notin {"STRING", "LIST"}
  <2>1. n = Even(p * e)
    BY <1>7 DEF LocalBytes, GlobalBytes, p, e
  <2>2. n \in Nat /\ n >= p * e
    BY <1>3, <2>1, Sizes
  <2> QED
    BY <1>7, <2>2 DEF Holds, p, e
<1> QED
  BY <1>5, <1>6, <1>7

LEMMA LocalHolds ==
  ASSUME SizesKnown, NEW v, Declared(v), Known(v.type)
  PROVE  LocalRoom(v) \in Nat /\ Holds(v, Inline(v), LocalRoom(v))
<1>1. CASE Buffered(v)
  <2>1. LocalRoom(v) = LocalBytes(v) /\ Inline(v) = FALSE
    BY <1>1 DEF LocalRoom, Inline
  <2> QED
    BY <1>1, <2>1, BytesHold
<1>2. CASE ~Buffered(v) /\ Inline(v)
  <2>1. v.type[2] \in DOMAIN objects
    BY <1>2 DEF Known, Inline
  <2>2. objects[v.type[2]].size \in Nat /\ LocalRoom(v) = Even(objects[v.type[2]].size)
    BY <1>2, <2>1 DEF SizesKnown, LocalRoom
  <2>3. LocalRoom(v) \in Nat /\ LocalRoom(v) >= objects[v.type[2]].size
    BY <2>2, Sizes
  <2> QED
    BY <1>2, <2>2, <2>3 DEF Holds, IsArray
<1>3. CASE ~Buffered(v) /\ ~Inline(v)
  BY <1>3 DEF LocalRoom, Holds, IsArray
<1> QED
  BY <1>1, <1>2, <1>3

LEMMA GlobalHolds ==
  ASSUME SizesKnown, NEW v, Declared(v)
  PROVE  GlobalRoom(v) \in Nat /\ Holds(v, FALSE, GlobalRoom(v))
<1>1. CASE Buffered(v)
  BY <1>1, BytesHold DEF GlobalRoom
<1>2. CASE ~Buffered(v)
  BY <1>2 DEF GlobalRoom, Holds, IsArray
<1> QED
  BY <1>1, <1>2

\* From the invariant to the property.
LEMMA FrameIsApart == ASSUME ObjectsInv, FrameInv PROVE FrameApart
<1> DEFINE used(i) == Used(locals[i], Inline(locals[i]))
<1>0. SizesKnown
  BY ObjectsKnown
<1>1. ASSUME NEW i \in DOMAIN locals
      PROVE  /\ Declared(locals[i]) /\ locals[i].slot \in Int /\ locals[i].buf \in Int
             /\ LocalSound(locals[i]) /\ LocalRoom(locals[i]) \in Nat /\ i \in Nat
             /\ Holds(locals[i], Inline(locals[i]), LocalRoom(locals[i]))
             /\ locals[i].slot = locals[i].buf + LocalRoom(locals[i])
  <2>1. LocalSound(locals[i])
    BY DEF FrameInv
  <2>2. locals \in Seq(Stored)
    BY DEF FrameInv
  <2>3. locals[i] \in Stored /\ i \in Nat
    BY <2>2
  <2>4. locals[i].slot \in Int /\ locals[i].buf \in Int
    BY <2>3 DEF Stored
  <2> QED
    BY <1>0, <2>1, <2>3, <2>4, LocalHolds DEF LocalSound
<1>2. ASSUME NEW i \in DOMAIN locals, NEW r \in used(i)
      PROVE  /\ r[1] \in Int /\ r[2] \in Nat
             /\ locals[i].buf <= r[1] /\ r[1] + r[2] <= locals[i].slot + 4
  <2>1. CASE r = <<locals[i].slot, 4>>
    BY <1>1, <2>1
  <2>2. CASE r # <<locals[i].slot, 4>>
    <3>1. InBuffer(r, locals[i], LocalRoom(locals[i]))
      BY <1>0, <1>1, <2>2, UsedInBuffer
    <3> QED
      BY <1>1, <3>1 DEF InBuffer, Inside
  <2> QED
    BY <2>1, <2>2
<1>3. frame \in Nat
  BY DEF FrameInv
<1> HIDE DEF used
<1>4. ASSUME NEW i \in DOMAIN locals
      PROVE  /\ ApartIn(locals[i], Inline(locals[i]))
             /\ \A r \in used(i) : Inside(r, -frame, 0)
             /\ \A j \in DOMAIN locals \ {i} : Apart(used(i), used(j))
  <2>1. ApartIn(locals[i], Inline(locals[i]))
    BY <1>0, <1>1, VariableApart
  <2>2. ASSUME NEW r \in used(i) PROVE Inside(r, -frame, 0)
    <3>1. -frame <= locals[i].buf /\ locals[i].slot + 4 <= 0
      BY <1>1 DEF LocalSound
    <3> QED
      BY <1>1, <1>2, <1>3, <3>1 DEF Inside
  <2>3. ASSUME NEW j \in DOMAIN locals \ {i}, NEW r \in used(i), NEW s \in used(j) PROVE Disjoint(r, s)
    <3>1. i \in Nat /\ j \in Nat /\ i # j /\ j \in DOMAIN locals
      BY <1>1
    <3>2. CASE i < j
      <4>1. locals[j].slot + 4 <= locals[i].buf
        BY <3>1, <3>2 DEF FrameInv
      <4> QED
        BY <1>1, <1>2, <2>3, <3>1, <4>1 DEF Disjoint
    <3>3. CASE j < i
      <4>1. locals[i].slot + 4 <= locals[j].buf
        BY <3>1, <3>3 DEF FrameInv
      <4> QED
        BY <1>1, <1>2, <2>3, <3>1, <4>1 DEF Disjoint
    <3> QED
      BY <3>1, <3>2, <3>3
  <2> QED
    BY <2>1, <2>2, <2>3 DEF Apart
<1>5. ASSUME handler # 0
      PROVE  Inside(<<handler, 16>>, -frame, 0) /\ \A i \in DOMAIN locals : Apart({<<handler, 16>>}, used(i))
  <2>1. handler = -frame /\ frame >= 16
    BY <1>5 DEF FrameInv
  <2>2. Inside(<<handler, 16>>, -frame, 0)
    BY <1>3, <2>1 DEF Inside
  <2>3. ASSUME NEW i \in DOMAIN locals, NEW r \in used(i) PROVE Disjoint(<<handler, 16>>, r)
    <3>1. handler + 16 <= locals[i].buf
      BY <1>1, <1>5 DEF LocalSound
    <3> QED
      BY <1>1, <1>2, <1>3, <2>1, <2>3, <3>1 DEF Disjoint
  <2> QED
    BY <2>2, <2>3 DEF Apart
<1> QED
  BY <1>4, <1>5 DEF FrameApart, used

LEMMA GlobalsAreApart == ASSUME ObjectsInv, GlobalsInv PROVE GlobalsApart
<1> DEFINE used(i) == Used(globals[i], FALSE)
           region(s) == {<<regions[s].slot, 4>>, <<regions[s].region, s>>}
<1>0. SizesKnown /\ globalSize \in Nat
  BY ObjectsKnown DEF GlobalsInv
<1>1. ASSUME NEW i \in DOMAIN globals
      PROVE  /\ Declared(globals[i]) /\ globals[i].slot \in Int /\ globals[i].buf \in Int
             /\ GlobalSound(globals[i]) /\ GlobalRoom(globals[i]) \in Nat /\ i \in Nat
             /\ Holds(globals[i], FALSE, GlobalRoom(globals[i]))
             /\ globals[i].buf = globals[i].slot + 4
             /\ GlobalEnd(globals[i]) \in Int
             /\ GlobalEnd(globals[i]) = globals[i].buf + GlobalRoom(globals[i])
  <2>1. GlobalSound(globals[i])
    BY DEF GlobalsInv
  <2>2. globals \in Seq(Stored)
    BY DEF GlobalsInv
  <2>3. globals[i] \in Stored /\ i \in Nat
    BY <2>2
  <2>4. globals[i].slot \in Int /\ globals[i].buf \in Int
    BY <2>3 DEF Stored
  <2>5. Declared(globals[i]) /\ GlobalRoom(globals[i]) \in Nat /\ globals[i].buf = globals[i].slot + 4
    BY <2>1 DEF GlobalSound
  <2>6. Holds(globals[i], FALSE, GlobalRoom(globals[i]))
    BY <1>0, <2>5, GlobalHolds
  <2>7. GlobalEnd(globals[i]) = globals[i].buf + GlobalRoom(globals[i])
    BY DEF GlobalEnd
  <2>8. GlobalEnd(globals[i]) \in Int
    BY <2>4, <2>5, <2>7
  <2> QED
    BY <2>1, <2>3, <2>4, <2>5, <2>6, <2>7, <2>8
<1>2. ASSUME NEW i \in DOMAIN globals, NEW r \in used(i)
      PROVE  /\ r[1] \in Int /\ r[2] \in Nat /\ globals[i].slot <= r[1] /\ r[1] + r[2] <= GlobalEnd(globals[i])
             /\ globals[i].slot \in Int /\ GlobalEnd(globals[i]) \in Int
  <2>0. /\ globals[i].slot \in Int /\ GlobalRoom(globals[i]) \in Nat /\ globals[i].buf = globals[i].slot + 4
        /\ GlobalEnd(globals[i]) = globals[i].slot + 4 + GlobalRoom(globals[i])
    BY <1>1
  <2>1. CASE r = <<globals[i].slot, 4>>
    BY <2>0, <2>1
  <2>2. CASE r # <<globals[i].slot, 4>>
    <3>1. InBuffer(r, globals[i], GlobalRoom(globals[i]))
      BY <1>0, <1>1, <1>2, <2>2, UsedInBuffer
    <3> QED
      BY <2>0, <3>1 DEF InBuffer, Inside
  <2>3. GlobalEnd(globals[i]) \in Int
    BY <2>0
  <2> QED
    BY <2>0, <2>1, <2>2, <2>3
<1>3. ASSUME NEW s \in DOMAIN regions
      PROVE  /\ s \in Nat /\ regions[s].slot \in Int /\ 32 <= regions[s].slot
             /\ regions[s].region = regions[s].slot + 4
             /\ regions[s].region + s <= globalSize
  BY DEF GlobalsInv, RegionSound
<1>4. ASSUME NEW s \in DOMAIN regions, NEW r \in region(s)
      PROVE  r[1] \in Int /\ r[2] \in Nat /\ regions[s].slot <= r[1] /\ r[1] + r[2] <= regions[s].region + s
  BY <1>3, <1>4
<1> HIDE DEF used
<1>5. ASSUME NEW i \in DOMAIN globals
      PROVE  /\ ApartIn(globals[i], FALSE)
             /\ \A r \in used(i) : Inside(r, 32, globalSize)
             /\ \A j \in DOMAIN globals \ {i} : Apart(used(i), used(j))
             /\ \A s \in DOMAIN regions : Apart(used(i), region(s))
  <2>1. ApartIn(globals[i], FALSE)
    BY <1>0, <1>1, VariableApart
  <2>2. ASSUME NEW r \in used(i) PROVE Inside(r, 32, globalSize)
    <3>1. 32 <= globals[i].slot /\ GlobalEnd(globals[i]) <= globalSize
      BY <1>1 DEF GlobalSound
    <3> QED
      BY <1>0, <1>2, <3>1 DEF Inside
  <2>3. ASSUME NEW j \in DOMAIN globals \ {i}, NEW r \in used(i), NEW s \in used(j) PROVE Disjoint(r, s)
    <3>1. i \in Nat /\ j \in Nat /\ i # j /\ j \in DOMAIN globals
      BY <1>1
    <3>4. /\ r[1] \in Int /\ r[2] \in Nat /\ globals[i].slot <= r[1] /\ r[1] + r[2] <= GlobalEnd(globals[i])
          /\ s[1] \in Int /\ s[2] \in Nat /\ globals[j].slot <= s[1] /\ s[1] + s[2] <= GlobalEnd(globals[j])
          /\ globals[i].slot \in Int /\ GlobalEnd(globals[i]) \in Int
          /\ globals[j].slot \in Int /\ GlobalEnd(globals[j]) \in Int
      BY <1>2, <2>3, <3>1
    <3>2. CASE i < j
      <4>1. GlobalEnd(globals[i]) <= globals[j].slot
        BY <3>1, <3>2 DEF GlobalsInv
      <4> QED
        BY <3>4, <4>1 DEF Disjoint
    <3>3. CASE j < i
      <4>1. GlobalEnd(globals[j]) <= globals[i].slot
        BY <3>1, <3>3 DEF GlobalsInv
      <4> QED
        BY <3>4, <4>1 DEF Disjoint
    <3> QED
      BY <3>1, <3>2, <3>3
  <2>4. ASSUME NEW s \in DOMAIN regions, NEW r \in used(i), NEW t \in region(s) PROVE Disjoint(r, t)
    <3>1. GlobalEnd(globals[i]) <= regions[s].slot
      BY <1>1 DEF GlobalSound
    <3> QED
      BY <1>2, <1>3, <1>4, <2>4, <3>1 DEF Disjoint
  <2> QED
    BY <2>1, <2>2, <2>3, <2>4 DEF Apart
<1>6. ASSUME NEW s \in DOMAIN regions
      PROVE  /\ \A r \in region(s) : Inside(r, 32, globalSize)
             /\ \A r1, r2 \in region(s) : r1 # r2 => Disjoint(r1, r2)
             /\ \A t \in DOMAIN regions \ {s} : Apart(region(s), region(t))
  <2>1. ASSUME NEW r \in region(s) PROVE Inside(r, 32, globalSize)
    BY <1>0, <1>3, <1>4, <2>1 DEF Inside
  <2>2. ASSUME NEW r1 \in region(s), NEW r2 \in region(s), r1 # r2 PROVE Disjoint(r1, r2)
    BY <1>3, <2>2 DEF Disjoint
  <2>3. ASSUME NEW t \in DOMAIN regions \ {s}, NEW r \in region(s), NEW r2 \in region(t) PROVE Disjoint(r, r2)
    <3>1. t \in DOMAIN regions /\ s # t
      BY <2>3
    <3>2. regions[s].region + s <= regions[t].slot \/ regions[t].region + t <= regions[s].slot
      BY <3>1 DEF GlobalsInv
    <3> QED
      BY <1>3, <1>4, <2>3, <3>1, <3>2 DEF Disjoint
  <2> QED
    BY <2>1, <2>2, <2>3 DEF Apart
<1> QED
  BY <1>5, <1>6 DEF GlobalsApart, used

-----------------------------------------------------------------------------
(* Every step keeps variables apart.                                       *)

LEMMA VariablesDeclared ==
  ASSUME PlainMatrices, NEW v \in Variables
  PROVE  Declared(v) /\ v.dims \in Seq(Nat)
  BY LayoutAssumption DEF PlainMatrices, Declared, IsVariable

\* What is known of a variable depends on its type and dimensions alone.
LEMMA LocalKept ==
  ASSUME objects' = objects, NEW i, NEW v, locals'[i].type = v.type, locals'[i].dims = v.dims
  PROVE  /\ (Declared(locals[i]))' <=> Declared(v)
         /\ (Known(locals[i].type))' <=> Known(v.type)
         /\ (LocalRoom(locals[i]))' = LocalRoom(v)
<1>1. (Declared(locals[i]))' <=> Declared(v)
  BY DEF Declared, IsVariable, Of
<1>2. (Known(locals[i].type))' <=> Known(v.type)
  BY DEF Known
<1>3. (LocalRoom(locals[i]))' = LocalRoom(v)
  BY DEF LocalRoom, LocalBytes, Element, Inline, Buffered, Of
<1> QED
  BY <1>1, <1>2, <1>3

LEMMA GlobalKept ==
  ASSUME objects' = objects, NEW i, NEW v, globals'[i].type = v.type, globals'[i].dims = v.dims
  PROVE  /\ (Declared(globals[i]))' <=> Declared(v)
         /\ (GlobalRoom(globals[i]))' = GlobalRoom(v)
<1>1. (Declared(globals[i]))' <=> Declared(v)
  BY DEF Declared, IsVariable, Of
<1>2. (GlobalRoom(globals[i]))' = GlobalRoom(v)
  BY DEF GlobalRoom, GlobalBytes, Element, Buffered, Of
<1> QED
  BY <1>1, <1>2

LEMMA FrameInit == Init => FrameInv
<1>1. << >> \in Seq(Stored) /\ DOMAIN << >> = {}
  OBVIOUS
<1> QED
  BY <1>1 DEF Init, FrameInv

LEMMA FrameGrows ==
  ASSUME FrameInv, objects' = objects, locals' = locals,
         \/ frame' = frame /\ handler' = handler
         \/ frame' = frame + 16 /\ handler' = -frame' /\ handler = 0
  PROVE  FrameInv'
<1>1. frame' \in Nat /\ (handler' # 0 => handler' = -frame' /\ frame' >= 16) /\ locals' \in Seq(Stored)
  BY DEF FrameInv
<1>2. ASSUME NEW i \in DOMAIN locals' PROVE (LocalSound(locals[i]))'
  <2>1. LocalSound(locals[i]) /\ locals'[i] = locals[i] /\ locals \in Seq(Stored) /\ i \in DOMAIN locals
    BY <1>2 DEF FrameInv
  <2>2. locals[i] \in Stored
    BY <2>1
  <2>3. locals[i].buf \in Int /\ frame \in Nat
    BY <2>2 DEF Stored, FrameInv
  <2>4. -frame' <= locals'[i].buf /\ (handler' # 0 => handler' + 16 <= locals'[i].buf)
    BY <2>1, <2>3 DEF LocalSound
  <2>5. /\ (Declared(locals[i]))' <=> Declared(locals[i])
        /\ (Known(locals[i].type))' <=> Known(locals[i].type)
        /\ (LocalRoom(locals[i]))' = LocalRoom(locals[i])
    BY <2>1, LocalKept
  <2> QED
    BY <2>1, <2>4, <2>5 DEF LocalSound
<1>3. (\A i, j \in DOMAIN locals : i < j => locals[j].slot + 4 <= locals[i].buf)'
  BY DEF FrameInv
<1> QED
  BY <1>1, <1>2, <1>3 DEF FrameInv

LEMMA LocalDefined ==
  ASSUME PlainMatrices, SizesKnown, FrameInv, NEW v \in Variables, Known(v.type), DefineLocal(v)
  PROVE  FrameInv'
<1> DEFINE n == Len(locals)
           e == [type |-> v.type, dims |-> v.dims,
                 slot |-> -(frame + 4), buf |-> -(frame + 4 + LocalRoom(v))]
<1>1. Declared(v) /\ v.dims \in Seq(Nat)
  BY VariablesDeclared
<1>2. LocalRoom(v) \in Nat
  BY <1>1, LocalHolds
<1>3. /\ locals' = Append(locals, e) /\ frame' = frame + 4 + LocalRoom(v)
      /\ objects' = objects /\ handler = 0 /\ handler' = 0
  BY DEF DefineLocal, LocalRoom
<1>4. frame \in Nat /\ locals \in Seq(Stored) /\ n \in Nat /\ DOMAIN locals = 1 .. n
  BY DEF FrameInv
<1>5. frame' \in Nat /\ -frame' <= -frame
  BY <1>2, <1>3, <1>4
<1>6. e \in Stored /\ e.type = v.type /\ e.dims = v.dims
      /\ e.slot = e.buf + LocalRoom(v) /\ e.slot + 4 = -frame /\ -frame' = e.buf
  BY <1>1, <1>2, <1>3, <1>4 DEF Stored
<1> HIDE DEF e
<1>7. /\ locals' \in Seq(Stored) /\ DOMAIN locals' = 1 .. n + 1 /\ locals'[n + 1] = e
      /\ \A i \in 1 .. n : locals'[i] = locals[i]
  BY <1>3, <1>4, <1>6
<1> HIDE DEF n
<1>8. ASSUME NEW i \in 1 .. n
      PROVE  i \in DOMAIN locals /\ locals'[i] = locals[i] /\ LocalSound(locals[i]) /\ locals[i].buf \in Int
  <2>1. locals[i] \in Stored
    BY <1>4
  <2> QED
    BY <1>4, <1>7, <2>1 DEF FrameInv, Stored
<1>9. ASSUME NEW i \in DOMAIN locals' PROVE (LocalSound(locals[i]))'
  <2>1. CASE i \in 1 .. n
    <3>1. /\ (Declared(locals[i]))' <=> Declared(locals[i])
          /\ (Known(locals[i].type))' <=> Known(locals[i].type)
          /\ (LocalRoom(locals[i]))' = LocalRoom(locals[i])
      BY <1>3, <1>8, <2>1, LocalKept
    <3>2. -frame' <= locals'[i].buf
      <4>1. -frame <= locals[i].buf /\ locals[i].buf \in Int /\ locals'[i] = locals[i]
        BY <1>8, <2>1 DEF LocalSound
      <4>2. frame \in Nat /\ frame' \in Nat /\ -frame' <= -frame
        BY <1>4, <1>5
      <4>3. -frame' <= locals[i].buf
        <5>1. \A a, b \in Nat, c \in Int : -a <= c /\ -b <= -a => -b <= c
          OBVIOUS
        <5> QED
          BY <4>1, <4>2, <5>1
      <4> QED
        BY <4>1, <4>3
    <3> QED
      BY <1>3, <1>8, <2>1, <3>1, <3>2 DEF LocalSound
  <2>2. CASE i = n + 1
    <3>1. /\ (Declared(locals[i]))' <=> Declared(v)
          /\ (Known(locals[i].type))' <=> Known(v.type)
          /\ (LocalRoom(locals[i]))' = LocalRoom(v)
      BY <1>3, <1>6, <1>7, <2>2, LocalKept
    <3>2. locals'[i] = e
      BY <1>7, <2>2
    <3>3. e.slot + 4 <= 0 /\ -frame' <= e.buf
      BY <1>4, <1>5, <1>6
    <3> QED
      BY <1>1, <1>2, <1>3, <1>6, <3>1, <3>2, <3>3 DEF LocalSound
  <2> QED
    BY <1>4, <1>7, <1>9, <2>1, <2>2
<1>10. ASSUME NEW i \in DOMAIN locals', NEW j \in DOMAIN locals', i < j
       PROVE  locals'[j].slot + 4 <= locals'[i].buf
  <2>1. i \in 1 .. n /\ (j \in 1 .. n \/ j = n + 1)
    BY <1>4, <1>7, <1>10
  <2>2. CASE j \in 1 .. n
    BY <1>8, <1>10, <2>1, <2>2 DEF FrameInv
  <2>3. CASE j = n + 1
    <3>1. -frame <= locals[i].buf
      BY <1>8, <2>1 DEF LocalSound
    <3> QED
      BY <1>6, <1>7, <1>8, <2>1, <2>3, <3>1
  <2> QED
    BY <2>1, <2>2, <2>3
<1> QED
  BY <1>3, <1>5, <1>7, <1>9, <1>10 DEF FrameInv

LEMMA FrameNext ==
  ASSUME PlainMatrices, ObjectsInv, FrameInv, [Next]_vars
  PROVE  FrameInv'
<1>0. SizesKnown
  BY ObjectsKnown
<1>1. ASSUME NEW body, NEW parent, DefineObject(body, parent) PROVE FrameInv'
  <2>1. locals = << >> /\ locals' = locals /\ frame' = frame /\ handler' = handler
    BY <1>1 DEF DefineObject
  <2>2. DOMAIN locals' = {}
    BY <2>1
  <2> QED
    BY <2>1, <2>2 DEF FrameInv
<1>2. ASSUME NEW v \in Variables, Known(v.type), DefineLocal(v) PROVE FrameInv'
  BY <1>0, <1>2, LocalDefined
<1>3. ASSUME NEW v, DefineGlobal(v) PROVE FrameInv'
  BY <1>3, FrameGrows DEF DefineGlobal
<1>4. ASSUME NEW size, UseClass(size) PROVE FrameInv'
  BY <1>4, FrameGrows DEF UseClass
<1>5. CASE Handle
  BY <1>5, FrameGrows DEF Handle
<1>6. CASE UNCHANGED vars
  BY <1>6, FrameGrows DEF vars
<1> QED
  BY <1>1, <1>2, <1>3, <1>4, <1>5, <1>6 DEF Next

LEMMA GlobalsInit == Init => GlobalsInv
<1> SUFFICES ASSUME Init PROVE GlobalsInv
  OBVIOUS
<1>1. << >> \in Seq(Stored) /\ DOMAIN << >> = {}
  OBVIOUS
<1> QED
  BY <1>1 DEF Init, GlobalsInv

LEMMA GlobalsStay ==
  ASSUME GlobalsInv, objects' = objects, UNCHANGED <<globals, regions, globalSize>>
  PROVE  GlobalsInv'
<1>1. ASSUME NEW i \in DOMAIN globals'
      PROVE  (GlobalSound(globals[i]))' /\ (GlobalRoom(globals[i]))' = GlobalRoom(globals[i])
  <2>1. GlobalSound(globals[i]) /\ globals'[i] = globals[i]
    BY <1>1 DEF GlobalsInv
  <2>2. /\ (Declared(globals[i]))' <=> Declared(globals[i])
        /\ (GlobalRoom(globals[i]))' = GlobalRoom(globals[i])
    BY <2>1, GlobalKept
  <2> QED
    BY <2>1, <2>2 DEF GlobalSound, GlobalEnd
<1>2. (\A i, j \in DOMAIN globals : i < j => GlobalEnd(globals[i]) <= globals[j].slot)'
  BY <1>1 DEF GlobalsInv, GlobalEnd
<1>3. (\A s \in DOMAIN regions : RegionSound(s))'
  BY DEF GlobalsInv, RegionSound
<1> QED
  BY <1>1, <1>2, <1>3 DEF GlobalsInv

LEMMA GlobalDefined ==
  ASSUME PlainMatrices, SizesKnown, GlobalsInv, NEW v \in Variables, DefineGlobal(v)
  PROVE  GlobalsInv'
<1> DEFINE n == Len(globals)
           e == [type |-> v.type, dims |-> v.dims, slot |-> globalSize, buf |-> globalSize + 4]
<1>1. Declared(v) /\ v.dims \in Seq(Nat)
  BY VariablesDeclared
<1>2. GlobalRoom(v) \in Nat
  BY <1>1, GlobalHolds
<1>3. /\ globals' = Append(globals, e) /\ globalSize' = globalSize + 4 + GlobalRoom(v)
      /\ objects' = objects /\ regions = << >> /\ regions' = regions
  BY DEF DefineGlobal, GlobalRoom
<1>4. globalSize \in Nat /\ 32 <= globalSize /\ globals \in Seq(Stored) /\ n \in Nat /\ DOMAIN globals = 1 .. n
  BY DEF GlobalsInv
<1>5. globalSize' \in Nat /\ globalSize <= globalSize'
  BY <1>2, <1>3, <1>4
<1>6. e \in Stored /\ e.type = v.type /\ e.dims = v.dims
      /\ e.slot = globalSize /\ e.buf = globalSize + 4 /\ e.buf + GlobalRoom(v) = globalSize'
  BY <1>1, <1>2, <1>3, <1>4 DEF Stored
<1> HIDE DEF e
<1>7. /\ globals' \in Seq(Stored) /\ DOMAIN globals' = 1 .. n + 1 /\ globals'[n + 1] = e
      /\ \A i \in 1 .. n : globals'[i] = globals[i]
  BY <1>3, <1>4, <1>6
<1> HIDE DEF n
<1>8. DOMAIN regions' = {}
  BY <1>3
<1>9. ASSUME NEW i \in 1 .. n
      PROVE  /\ i \in DOMAIN globals /\ globals'[i] = globals[i] /\ GlobalSound(globals[i])
             /\ (GlobalRoom(globals[i]))' = GlobalRoom(globals[i])
             /\ (Declared(globals[i]))' <=> Declared(globals[i])
             /\ globals[i].buf + GlobalRoom(globals[i]) <= globalSize
             /\ globals[i].buf + GlobalRoom(globals[i]) \in Int
  <2>1. i \in DOMAIN globals /\ globals'[i] = globals[i] /\ GlobalSound(globals[i])
    BY <1>4, <1>7, <1>9 DEF GlobalsInv
  <2>2. globals[i] \in Stored
    BY <1>4, <2>1
  <2>3. globals[i].buf \in Int
    BY <2>2 DEF Stored
  <2>4. GlobalRoom(globals[i]) \in Nat /\ globals[i].buf + GlobalRoom(globals[i]) <= globalSize
    BY <2>1 DEF GlobalSound, GlobalEnd
  <2>5. globals[i].buf + GlobalRoom(globals[i]) \in Int
    BY <2>3, <2>4
  <2>6. /\ (GlobalRoom(globals[i]))' = GlobalRoom(globals[i])
        /\ (Declared(globals[i]))' <=> Declared(globals[i])
    BY <1>3, <2>1, GlobalKept
  <2> QED
    BY <2>1, <2>4, <2>5, <2>6
<1>10. ASSUME NEW i, i = n + 1
       PROVE  globals'[i] = e /\ (GlobalRoom(globals[i]))' = GlobalRoom(v) /\ (Declared(globals[i]))'
  <2>1. globals'[i] = e
    BY <1>7, <1>10
  <2>2. /\ (Declared(globals[i]))' <=> Declared(v)
        /\ (GlobalRoom(globals[i]))' = GlobalRoom(v)
    BY <1>3, <1>6, <2>1, GlobalKept
  <2> QED
    BY <1>1, <2>1, <2>2
<1>11. ASSUME NEW i \in DOMAIN globals' PROVE (GlobalSound(globals[i]))'
  <2>1. CASE i \in 1 .. n
    <3>1. globals'[i].buf + (GlobalRoom(globals[i]))' <= globalSize'
      BY <1>4, <1>5, <1>9, <2>1
    <3> QED
      BY <1>8, <1>9, <2>1, <3>1 DEF GlobalSound, GlobalEnd
  <2>2. CASE i = n + 1
    <3>1. globals'[i] = e /\ (GlobalRoom(globals[i]))' = GlobalRoom(v) /\ (Declared(globals[i]))'
      BY <1>10, <2>2
    <3>2. e.buf + GlobalRoom(v) <= globalSize' /\ 32 <= e.slot /\ e.buf = e.slot + 4
      BY <1>4, <1>5, <1>6
    <3> QED
      BY <1>2, <1>8, <3>1, <3>2 DEF GlobalSound, GlobalEnd
  <2> QED
    BY <1>4, <1>7, <1>11, <2>1, <2>2
<1>12. ASSUME NEW i \in DOMAIN globals', NEW j \in DOMAIN globals', i < j
       PROVE  (GlobalEnd(globals[i]))' <= globals'[j].slot
  <2>1. i \in 1 .. n /\ (j \in 1 .. n \/ j = n + 1)
    BY <1>4, <1>7, <1>12
  <2>2. (GlobalEnd(globals[i]))' = globals[i].buf + GlobalRoom(globals[i])
    BY <1>9, <2>1 DEF GlobalEnd
  <2>3. CASE j \in 1 .. n
    <3>1. globals[i].buf + GlobalRoom(globals[i]) <= globals[j].slot
      BY <1>9, <1>12, <2>1, <2>3 DEF GlobalsInv, GlobalEnd
    <3> QED
      BY <1>9, <2>2, <2>3, <3>1
  <2>4. CASE j = n + 1
    BY <1>6, <1>7, <1>9, <2>1, <2>2, <2>4
  <2> QED
    BY <2>1, <2>3, <2>4
<1> QED
  BY <1>4, <1>5, <1>7, <1>8, <1>11, <1>12 DEF GlobalsInv

LEMMA ClassUsed ==
  ASSUME SizesKnown, GlobalsInv, NEW size \in Classes, UseClass(size)
  PROVE  GlobalsInv'
<1> DEFINE e == [slot |-> globalSize, region |-> globalSize + 4]
<1>1. size \in Nat /\ Even(size) \in Nat /\ size <= Even(size)
  <2>1. size \in Nat
    BY LayoutAssumption
  <2> QED
    BY <2>1, Sizes
<1>2. /\ size \notin DOMAIN regions /\ DOMAIN regions' = DOMAIN regions \cup {size}
      /\ regions'[size] = e /\ \A s \in DOMAIN regions : regions'[s] = regions[s]
      /\ globalSize' = globalSize + 4 + Even(size) /\ objects' = objects /\ globals' = globals
  BY DEF UseClass
<1>3. globalSize \in Nat /\ 32 <= globalSize /\ globals \in Seq(Stored)
  BY DEF GlobalsInv
<1>4. globalSize' \in Nat /\ globalSize <= globalSize' /\ globalSize + 4 + size <= globalSize'
  BY <1>1, <1>2, <1>3
<1>5. e.slot = globalSize /\ e.region = globalSize + 4
  OBVIOUS
<1> HIDE DEF e
<1>6. ASSUME NEW s \in DOMAIN regions
      PROVE  /\ RegionSound(s) /\ regions'[s] = regions[s] /\ s # size
             /\ regions[s].slot \in Int /\ s \in Nat /\ regions[s].region + s \in Int
             /\ regions[s].region + s <= globalSize
  <2>1. RegionSound(s)
    BY DEF GlobalsInv
  <2> QED
    BY <1>2, <2>1 DEF RegionSound
<1>7. ASSUME NEW s \in DOMAIN regions' PROVE (RegionSound(s))'
  <2>1. CASE s = size
    BY <1>1, <1>2, <1>3, <1>4, <1>5, <2>1 DEF RegionSound
  <2>2. CASE s \in DOMAIN regions
    <3>1. regions[s].region + s <= globalSize'
      BY <1>3, <1>4, <1>6, <2>2
    <3> QED
      BY <1>6, <2>2, <3>1 DEF RegionSound
  <2> QED
    BY <1>2, <1>7, <2>1, <2>2
<1>8. ASSUME NEW s \in DOMAIN regions', NEW t \in DOMAIN regions', s # t
      PROVE  regions'[s].region + s <= regions'[t].slot \/ regions'[t].region + t <= regions'[s].slot
  <2>1. CASE s \in DOMAIN regions /\ t \in DOMAIN regions
    BY <1>6, <1>8, <2>1 DEF GlobalsInv
  <2>2. CASE s = size /\ t \in DOMAIN regions
    BY <1>2, <1>5, <1>6, <2>2
  <2>3. CASE t = size /\ s \in DOMAIN regions
    BY <1>2, <1>5, <1>6, <2>3
  <2> QED
    BY <1>2, <1>8, <2>1, <2>2, <2>3
<1>9. ASSUME NEW i \in DOMAIN globals'
      PROVE  (GlobalSound(globals[i]))' /\ (GlobalEnd(globals[i]))' = GlobalEnd(globals[i])
  <2>1. GlobalSound(globals[i]) /\ globals'[i] = globals[i] /\ i \in DOMAIN globals
    BY <1>2, <1>9 DEF GlobalsInv
  <2>2. globals[i] \in Stored
    BY <1>3, <2>1
  <2>3. globals[i].buf \in Int /\ GlobalRoom(globals[i]) \in Nat
    BY <2>1, <2>2 DEF Stored, GlobalSound
  <2>4. /\ (Declared(globals[i]))' <=> Declared(globals[i])
        /\ (GlobalRoom(globals[i]))' = GlobalRoom(globals[i])
    BY <1>2, <2>1, GlobalKept
  <2>5. globals[i].buf + GlobalRoom(globals[i]) <= globalSize /\ globals[i].buf + GlobalRoom(globals[i]) \in Int
    BY <2>1, <2>3 DEF GlobalSound, GlobalEnd
  <2>6. globals[i].buf + GlobalRoom(globals[i]) <= globalSize'
    BY <1>3, <1>4, <2>5
  <2>7. ASSUME NEW s \in DOMAIN regions' PROVE globals[i].buf + GlobalRoom(globals[i]) <= regions'[s].slot
    <3>1. CASE s = size
      BY <1>2, <1>5, <2>5, <3>1
    <3>2. CASE s \in DOMAIN regions
      BY <1>6, <2>1, <3>2 DEF GlobalSound, GlobalEnd
    <3> QED
      BY <1>2, <2>7, <3>1, <3>2
  <2> QED
    BY <2>1, <2>4, <2>6, <2>7 DEF GlobalSound, GlobalEnd
<1>10. (\A i, j \in DOMAIN globals : i < j => GlobalEnd(globals[i]) <= globals[j].slot)'
  BY <1>2, <1>9 DEF GlobalsInv
<1> QED
  BY <1>2, <1>3, <1>4, <1>7, <1>8, <1>9, <1>10 DEF GlobalsInv

LEMMA GlobalsNext ==
  ASSUME PlainMatrices, ObjectsInv, GlobalsInv, [Next]_vars
  PROVE  GlobalsInv'
<1>0. SizesKnown
  BY ObjectsKnown
<1>1. ASSUME NEW body, NEW parent, DefineObject(body, parent) PROVE GlobalsInv'
  <2>1. globals = << >> /\ globals' = globals /\ regions = << >> /\ regions' = regions /\ globalSize' = globalSize
    BY <1>1 DEF DefineObject
  <2>2. DOMAIN globals' = {} /\ DOMAIN regions' = {}
    BY <2>1
  <2> QED
    BY <2>1, <2>2 DEF GlobalsInv
<1>2. ASSUME NEW v \in Variables, DefineGlobal(v) PROVE GlobalsInv'
  BY <1>0, <1>2, GlobalDefined
<1>3. ASSUME NEW v, DefineLocal(v) PROVE GlobalsInv'
  BY <1>3, GlobalsStay DEF DefineLocal
<1>4. ASSUME NEW size \in Classes, UseClass(size) PROVE GlobalsInv'
  BY <1>0, <1>4, ClassUsed
<1>5. CASE Handle
  BY <1>5, GlobalsStay DEF Handle
<1>6. CASE UNCHANGED vars
  BY <1>6, GlobalsStay DEF vars
<1> QED
  BY <1>1, <1>2, <1>3, <1>4, <1>5, <1>6 DEF Next

LEMMA LayoutHolds == ASSUME SimpleMembers, PlainMatrices PROVE Spec => []LayoutInv
<1>1. Init => LayoutInv
  BY ObjectsInit, FrameInit, GlobalsInit DEF LayoutInv
<1>2. LayoutInv /\ [Next]_vars => LayoutInv'
  BY ObjectsNext, FrameNext, GlobalsNext DEF LayoutInv
<1> QED
  BY <1>1, <1>2, PTL DEF Spec

\* Whatever variables a program declares, of any number and size, with whatever objects
\* and classes: none overlaps another, its own buffer or the frame's ends (emitProc,
\* globalSlot, binaryClassGlobals; multiDimAddress for any number of dimensions).
THEOREM VariablesStayApart == ASSUME SimpleMembers, PlainMatrices PROVE Spec => []VariablesApart
<1>1. LayoutInv => VariablesApart
  BY FrameIsApart, GlobalsAreApart DEF LayoutInv, VariablesApart
<1> QED
  BY <1>1, LayoutHolds, PTL

-----------------------------------------------------------------------------
(* Startup and exit (Lifecycle), for any libraries and exit codes,          *)
(* whichever of the system's calls fail and whatever the program does with  *)
(* the bases.  First the inductive invariant, part by part.                *)

Opened == {"pool", "libs", "main", "freeall", "closelibs", "closedos"}

\* D7 is the only trace of the message until the globals have it, and D2 at exit.
MessageHeld ==
  /\ d7 <=> message \notin {"none", "unsent", "sent"}
  /\ pc # "entry" => message \notin {"unsent", "sent"}
  /\ a4 => wbmessage = d7
  /\ pc \in {"reply", "return", "ended"} => d2 = d7
  /\ pc \in {"return", "ended"} /\ d7 => message \in {"replied", "unloaded"}

\* The reply is sent with multitasking off, and nothing turns it on again.
RepliedLate ==
  /\ message \in {"replied", "unloaded"} => forbidden /\ pc \in {"return", "ended"}
  /\ message = "unloaded" => pc = "ended"

\* A4 points to the globals from dos.library's opening on, not before it.
Globals ==
  /\ pc \in Opened => a4
  /\ pc \in {"entry", "dos"} => ~a4
  /\ exitcode = asked
  /\ pc = "ended" /\ a4 => result = exitcode

Counts ==
  /\ dos = IF pc \in Opened THEN 1 ELSE 0
  /\ heap => pc \in {"main", "freeall"}

\* A library is open as often as startup and the program have opened it, less the one
\* closing of exit, which the base decides.
ByStartup(l) == IF started[l] THEN 1 ELSE 0
ByExit(l) == IF l \in ModuleLibs /\ slot[l] THEN 1 ELSE 0

Before == {"entry", "dos", "pool", "libs"}
GivenBack == {"closedos", "reply", "return", "ended"}

Bases ==
  /\ pc \in Before =>
       \A l \in Libs : own[l] = 0 /\ slot[l] = FALSE /\ started[l] = FALSE
  /\ pc \notin GivenBack => \A l \in Libs : opens[l] = own[l] + ByStartup(l)
  /\ pc \in GivenBack => \A l \in Libs :
       opens[l] = own[l] + ByStartup(l) - ByExit(l)
  /\ \A l \in Libs : own[l] + ByStartup(l) >= 0

ControlInv == MessageHeld /\ RepliedLate /\ Globals /\ Counts

LibraryInv == TypeOK /\ ControlInv /\ Bases
-----------------------------------------------------------------------------
(* The message, the globals and the counts: whatever fails.                *)

LEMMA ControlInit == ProgramInit => ControlInv
  BY DEF ProgramInit, ControlInv, MessageHeld, RepliedLate, Globals, Counts, Opened

LEMMA ControlNext == ControlInv /\ [ProgramNext]_programVars => ControlInv'
<1> SUFFICES ASSUME ControlInv, [ProgramNext]_programVars PROVE ControlInv'
  OBVIOUS
<1> USE DEF ControlInv, MessageHeld, RepliedLate, Globals, Counts, Opened, Goto, mem, sys
<1>1. CASE FromCli
  BY <1>1 DEF FromCli
<1>2. CASE FromWorkbench
  BY <1>2 DEF FromWorkbench
<1>3. CASE OpenDos
  BY <1>3 DEF OpenDos
<1>4. CASE Quit
  BY <1>4 DEF Quit
<1>5. CASE CreatePool
  BY <1>5 DEF CreatePool
<1>6. CASE OpenLibs
  BY <1>6 DEF OpenLibs
<1>7. CASE Allocates
  BY <1>7 DEF Allocates
<1>8. ASSUME NEW l \in Libs, ProgramOpens(l) PROVE ControlInv'
  BY <1>8 DEF ProgramOpens
<1>9. ASSUME NEW l \in Libs, ProgramCloses(l) PROVE ControlInv'
  BY <1>9 DEF ProgramCloses
<1>21. ASSUME NEW l \in Libs, ProgramClears(l) PROVE ControlInv'
  BY <1>21 DEF ProgramClears
<1>10. CASE MainReturns
  BY <1>10 DEF MainReturns
<1>11. ASSUME NEW v \in Codes, MainQuits(v) PROVE ControlInv'
  BY <1>11 DEF MainQuits
<1>12. CASE FreeAll
  BY <1>12 DEF FreeAll
<1>13. CASE CloseLibs
  BY <1>13 DEF CloseLibs
<1>14. CASE CloseDos
  BY <1>14 DEF CloseDos
<1>15. CASE Reply
  BY <1>15 DEF Reply
<1>16. CASE NoReply
  BY <1>16 DEF NoReply
<1>17. CASE Return
  BY <1>17 DEF Return
<1>18. CASE WorkbenchSends
  BY <1>18 DEF WorkbenchSends
<1>19. CASE WorkbenchUnloads
  BY <1>19 DEF WorkbenchUnloads
<1>20. CASE UNCHANGED programVars
  BY <1>20 DEF programVars
<1> QED
  BY <1>1, <1>2, <1>3, <1>4, <1>5, <1>6, <1>7, <1>8, <1>9, <1>10, <1>11, <1>12, <1>13, <1>14, <1>15, <1>16, <1>17, <1>18, <1>19, <1>20, <1>21
     DEF ProgramNext, Startup, MainRuns, MainEnds, Leave, Workbench
-----------------------------------------------------------------------------
(* The libraries.                                                          *)

LEMMA LibraryInit == ProgramInit => LibraryInv
<1> SUFFICES ASSUME ProgramInit PROVE LibraryInv
  OBVIOUS
<1>1. ControlInv
  BY ControlInit
<1>2. TypeOK
  <2>1. /\ opens \in [Libs -> -1 .. MostOwn + 1] /\ slot \in [Libs -> BOOLEAN]
        /\ started \in [Libs -> BOOLEAN] /\ own \in [Libs -> -1 .. MostOwn]
    BY LifecycleAssumption DEF ProgramInit
  <2>2. d7 \in BOOLEAN /\ d2 \in BOOLEAN /\ a4 \in BOOLEAN /\ wbmessage \in BOOLEAN
        /\ pool \in BOOLEAN /\ heap \in BOOLEAN /\ forbidden \in BOOLEAN
    BY Zenon DEF ProgramInit
  <2> QED
    BY <2>1, <2>2 DEF ProgramInit, TypeOK
<1>3. Bases
  BY DEF ProgramInit, Bases, Before, GivenBack, ByStartup, ByExit
<1> QED
  BY <1>1, <1>2, <1>3 DEF LibraryInv

\* A step that touches neither the bases nor the counts and does not leave them to exit.
LEMMA BasesStep ==
  ASSUME Bases, UNCHANGED <<opens, own, slot, started>>,
         pc' \in Before => pc \in Before,
         pc' \in GivenBack <=> pc \in GivenBack \/ (pc \in Before /\ pc' \notin Before \cup {"main"})
  PROVE  Bases'
<1>1. CASE pc \in Before
  <2>1. pc \notin GivenBack
    BY <1>1 DEF Before, GivenBack
  <2>2. \A l \in Libs : own[l] = 0 /\ slot[l] = FALSE /\ started[l] = FALSE /\ opens[l] = 0
    BY <1>1, <2>1 DEF Bases, ByStartup
  <2> QED
    BY <1>1, <2>2 DEF Bases, ByStartup, ByExit
<1>2. CASE pc \notin Before
  BY <1>2 DEF Bases, ByStartup, ByExit
<1> QED
  BY <1>1, <1>2

LEMMA LibraryNext == LibraryInv /\ [ProgramNext]_programVars => LibraryInv'
<1> SUFFICES ASSUME LibraryInv, [ProgramNext]_programVars PROVE LibraryInv'
  OBVIOUS
<1>0. TypeOK /\ ControlInv /\ Bases
  BY DEF LibraryInv
<1>1. ControlInv'
  BY <1>0, ControlNext
<1>2. TypeOK' /\ Bases'
  <2> USE DEF Goto, mem, sys
  <2>1. CASE FromCli
    BY <1>0, <2>1, BasesStep DEF FromCli, TypeOK, Before, GivenBack
  <2>2. CASE FromWorkbench
    BY <1>0, <2>2, BasesStep DEF FromWorkbench, TypeOK, Before, GivenBack
  <2>3. CASE OpenDos
    <3>1. dos' \in 0..1
      BY <1>0, <2>3 DEF OpenDos, ControlInv, Counts, Opened
    <3> QED
      BY <1>0, <2>3, <3>1, BasesStep DEF OpenDos, TypeOK, Before, GivenBack
  <2>4. CASE Quit
    BY <1>0, <2>4, BasesStep DEF Quit, TypeOK, Before, GivenBack
  <2>5. CASE CreatePool
    <3>1. pool' \in BOOLEAN
      BY <2>5, Zenon DEF CreatePool
    <3> QED
      BY <1>0, <2>5, <3>1, BasesStep DEF CreatePool, TypeOK, Before, GivenBack
  <2>6. CASE OpenLibs
    <3>1. PICK got \in SUBSET Libs :
            /\ opens' = [l \in Libs |-> opens[l] + (IF l \in got THEN 1 ELSE 0)]
            /\ slot' = [l \in Libs |-> l \in got]
            /\ started' = [l \in Libs |-> l \in got]
      BY <2>6 DEF OpenLibs
    <3>2. pc = "libs" /\ pc' = "main" /\ own' = own
      BY <2>6 DEF OpenLibs
    <3>3. \A l \in Libs : own[l] = 0 /\ opens[l] = 0
      BY <1>0, <3>2 DEF Bases, ByStartup, ByExit, Before, GivenBack
    <3>4. \A l \in Libs : /\ opens'[l] = IF l \in got THEN 1 ELSE 0
                          /\ (IF started'[l] THEN 1 ELSE 0) = IF l \in got THEN 1 ELSE 0
                          /\ own'[l] = 0
      <4>1. \A l \in Libs : started'[l] <=> l \in got
        BY <3>1, Zenon
      <4>2. \A l \in Libs : opens'[l] = IF l \in got THEN 1 ELSE 0
        BY <3>1, <3>3
      <4> QED
        BY <3>2, <3>3, <4>1, <4>2
    <3>5. opens' \in [Libs -> -1 .. MostOwn + 1]
      BY <3>1, <3>4, LifecycleAssumption
    <3>6. slot' \in [Libs -> BOOLEAN] /\ started' \in [Libs -> BOOLEAN]
      BY <3>1
    <3>7. TypeOK'
      BY <1>0, <2>6, <3>5, <3>6 DEF OpenLibs, TypeOK
    <3>8. \A l \in Libs : /\ opens'[l] = own'[l] + (IF started'[l] THEN 1 ELSE 0)
                          /\ own'[l] + (IF started'[l] THEN 1 ELSE 0) >= 0
      BY <3>4
    <3>9. pc' \notin Before /\ pc' \notin GivenBack
      BY <3>2 DEF Before, GivenBack
    <3>10. Bases'
      BY <3>8, <3>9 DEF Bases, ByStartup
    <3> QED
      BY <3>7, <3>10
  <2>7. CASE Allocates
    BY <1>0, <2>7, BasesStep DEF Allocates, TypeOK, Before, GivenBack
  <2>8. ASSUME NEW l \in Libs, ProgramOpens(l) PROVE TypeOK' /\ Bases'
    <3>1. PICK got \in BOOLEAN :
            /\ slot' = [slot EXCEPT ![l] = got]
            /\ opens' = [opens EXCEPT ![l] = @ + (IF got THEN 1 ELSE 0)]
            /\ own' = [own EXCEPT ![l] = @ + (IF got THEN 1 ELSE 0)]
      BY <2>8, Zenon DEF ProgramOpens
    <3>2. pc = "main" /\ pc' = pc /\ own[l] < MostOwn /\ started' = started
      BY <2>8 DEF ProgramOpens
    <3>3. \A k \in Libs : /\ opens[k] = own[k] + ByStartup(k) /\ own[k] + ByStartup(k) >= 0
                          /\ own[k] \in -1 .. MostOwn /\ started[k] \in BOOLEAN
      BY <1>0, <3>2 DEF Bases, Before, GivenBack, TypeOK
    <3>4. \A k \in Libs : /\ own'[k] = IF k = l /\ got THEN own[k] + 1 ELSE own[k]
                          /\ opens'[k] = IF k = l /\ got THEN opens[k] + 1 ELSE opens[k]
      BY <1>0, <3>1, <3>3 DEF TypeOK, ByStartup, ByExit
    <3>5. \A k \in Libs : own'[k] \in -1 .. MostOwn /\ opens'[k] \in -1 .. MostOwn + 1
      BY <3>2, <3>3, <3>4, LifecycleAssumption DEF ByStartup, ByExit
    <3>6. own' \in [Libs -> -1 .. MostOwn] /\ opens' \in [Libs -> -1 .. MostOwn + 1]
          /\ slot' \in [Libs -> BOOLEAN]
      BY <1>0, <3>1, <3>5 DEF TypeOK
    <3>7. TypeOK'
      BY <1>0, <2>8, <3>6 DEF ProgramOpens, TypeOK
    <3>8. Bases'
      BY <3>2, <3>3, <3>4 DEF Bases, ByStartup, ByExit, Before, GivenBack
    <3> QED
      BY <3>7, <3>8
  <2>9. ASSUME NEW l \in Libs, ProgramCloses(l) PROVE TypeOK' /\ Bases'
    <3>1. /\ pc = "main" /\ pc' = pc /\ opens[l] > 0 /\ started' = started /\ slot' = slot
          /\ opens' = [opens EXCEPT ![l] = @ - 1]
          /\ own' = [own EXCEPT ![l] = @ - 1]
      BY <2>9 DEF ProgramCloses
    <3>3. \A k \in Libs : /\ opens[k] = own[k] + ByStartup(k) /\ own[k] + ByStartup(k) >= 0
                          /\ own[k] \in -1 .. MostOwn /\ started[k] \in BOOLEAN
      BY <1>0, <3>1 DEF Bases, Before, GivenBack, TypeOK
    <3>4. \A k \in Libs : /\ own'[k] = IF k = l THEN own[k] - 1 ELSE own[k]
                          /\ opens'[k] = IF k = l THEN opens[k] - 1 ELSE opens[k]
      BY <1>0, <3>1 DEF TypeOK
    <3>5. \A k \in Libs : own'[k] \in -1 .. MostOwn /\ opens'[k] \in -1 .. MostOwn + 1
      BY <3>1, <3>3, <3>4, LifecycleAssumption DEF ByStartup, ByExit
    <3>6. own' \in [Libs -> -1 .. MostOwn] /\ opens' \in [Libs -> -1 .. MostOwn + 1]
      BY <1>0, <3>1, <3>5 DEF TypeOK
    <3>7. TypeOK'
      BY <1>0, <2>9, <3>6 DEF ProgramCloses, TypeOK
    <3>8. Bases'
      BY <3>1, <3>3, <3>4 DEF Bases, ByStartup, ByExit, Before, GivenBack
    <3> QED
      BY <3>7, <3>8
  <2>21. ASSUME NEW l \in Libs, ProgramClears(l) PROVE TypeOK' /\ Bases'
    <3>1. /\ pc = "main" /\ pc' = pc /\ opens' = opens /\ own' = own /\ started' = started
          /\ slot' = [slot EXCEPT ![l] = FALSE]
      BY <2>21 DEF ProgramClears
    <3>2. TypeOK'
      BY <1>0, <2>21, <3>1 DEF ProgramClears, TypeOK
    <3>3. Bases'
      BY <1>0, <3>1 DEF Bases, ByStartup, ByExit, Before, GivenBack
    <3> QED
      BY <3>2, <3>3
  <2>10. CASE MainReturns
    BY <1>0, <2>10, BasesStep DEF MainReturns, TypeOK, Before, GivenBack
  <2>11. ASSUME NEW v \in Codes, MainQuits(v) PROVE TypeOK' /\ Bases'
    BY <1>0, <2>11, BasesStep DEF MainQuits, TypeOK, Before, GivenBack
  <2>12. CASE FreeAll
    <3>1. heap' \in BOOLEAN
      BY <2>12, Zenon DEF FreeAll
    <3> QED
      BY <1>0, <2>12, <3>1, BasesStep DEF FreeAll, TypeOK, Before, GivenBack
  <2>13. CASE CloseLibs
    <3>1. /\ opens' = [l \in Libs |-> opens[l] - (IF l \in Closable THEN 1 ELSE 0)]
          /\ pc = "closelibs" /\ pc' = "closedos" /\ own' = own /\ slot' = slot /\ started' = started
      BY <2>13 DEF CloseLibs
    <3>2. \A l \in Libs : /\ opens[l] = own[l] + ByStartup(l) /\ own[l] + ByStartup(l) >= 0
                          /\ own[l] \in -1 .. MostOwn
      BY <1>0, <3>1 DEF Bases, Before, GivenBack, TypeOK
    <3>3. \A l \in Libs : opens'[l] = opens[l] - ByExit(l)
      BY <3>1 DEF Closable, ByStartup, ByExit
    <3>4. \A l \in Libs : opens'[l] \in -1 .. MostOwn + 1
      BY <3>2, <3>3, LifecycleAssumption DEF ByStartup, ByExit
    <3>5. opens' \in [Libs -> -1 .. MostOwn + 1]
      BY <3>1, <3>4
    <3>6. TypeOK'
      BY <1>0, <2>13, <3>5 DEF CloseLibs, TypeOK
    <3>7. Bases'
      BY <3>1, <3>2, <3>3 DEF Bases, ByStartup, ByExit, Before, GivenBack
    <3> QED
      BY <3>6, <3>7
  <2>14. CASE CloseDos
    <3>1. dos' \in 0..1
      BY <1>0, <2>14 DEF CloseDos, ControlInv, Counts, Opened
    <3> QED
      BY <1>0, <2>14, <3>1, BasesStep DEF CloseDos, TypeOK, Before, GivenBack
  <2>15. CASE Reply
    BY <1>0, <2>15, BasesStep DEF Reply, TypeOK, Before, GivenBack
  <2>16. CASE NoReply
    BY <1>0, <2>16, BasesStep DEF NoReply, TypeOK, Before, GivenBack
  <2>17. CASE Return
    BY <1>0, <2>17, BasesStep DEF Return, TypeOK, Before, GivenBack
  <2>18. CASE WorkbenchSends
    BY <1>0, <2>18, BasesStep DEF WorkbenchSends, TypeOK, Before, GivenBack
  <2>19. CASE WorkbenchUnloads
    BY <1>0, <2>19, BasesStep DEF WorkbenchUnloads, TypeOK, Before, GivenBack
  <2>20. CASE UNCHANGED programVars
    BY <1>0, <2>20, BasesStep DEF programVars, TypeOK, Before, GivenBack
  <2> QED
    BY <2>1, <2>2, <2>3, <2>4, <2>5, <2>6, <2>7, <2>8, <2>9, <2>10, <2>11, <2>12,
       <2>13, <2>14, <2>15, <2>16, <2>17, <2>18, <2>19, <2>20, <2>21
       DEF ProgramNext, Startup, MainRuns, MainEnds, Leave, Workbench
<1> QED
  BY <1>1, <1>2 DEF LibraryInv

-----------------------------------------------------------------------------
(* Theorems.                                                               *)

LEMMA ControlHolds == ProgramSpec => []ControlInv
  BY ControlInit, ControlNext, PTL DEF ProgramSpec

LEMMA LibraryHolds == ProgramSpec => []LibraryInv
<1>1. LibraryInv /\ [ProgramNext]_programVars => LibraryInv'
  BY LibraryNext
<1> QED
  BY <1>1, LibraryInit, PTL DEF ProgramSpec

\* A program that Workbench started replies to its message before it ends (emitStartup,
\* __quit2), also when dos.library cannot be opened.
THEOREM MessageRepliedHolds == ProgramSpec => []MessageReplied
<1>1. ControlInv => MessageReplied
  BY DEF ControlInv, MessageHeld, MessageReplied
<1> QED
  BY <1>1, ControlHolds, PTL

\* Workbench unloads the program only after its last instruction (the Forbid of __quit2).
THEOREM NotUnloadedEarlyHolds == ProgramSpec => []NotUnloadedEarly
<1>1. ControlInv => NotUnloadedEarly
  BY DEF ControlInv, RepliedLate, NotUnloadedEarly
<1> QED
  BY <1>1, ControlHolds, PTL

\* The value of CleanUp or of the exception that ended main is the one at rts.
THEOREM ExitCodeKeptHolds == ProgramSpec => []ExitCodeKept
<1>1. ControlInv => ExitCodeKept
  BY DEF ControlInv, Globals, ExitCodeKept
<1> QED
  BY <1>1, ControlHolds, PTL

\* The variables of startup and exit keep their types, for any libraries and whatever the
\* program does with their bases: no library is closed more than once too often.
THEOREM LifecycleTypeCorrect == ProgramSpec => []TypeOK
<1>1. LibraryInv => TypeOK
  BY DEF LibraryInv
<1> QED
  BY <1>1, LibraryHolds, PTL

\* When the program has ended, exit has closed each of the modules' libraries as often as
\* it was opened exactly if main left its base right, and once too often exactly if main
\* left a stale base; dos.library and the program's blocks have been given back,
\* whichever of the system's calls failed.
THEOREM ExitReleasesHolds == ProgramSpec => []ExitReleases
<1>1. ASSUME LibraryInv, pc = "ended", NEW l \in ModuleLibs
      PROVE  /\ opens[l] = 0 <=> LeftAlone(l) \/ LeftToExit(l) \/ GivenUp(l)
             /\ opens[l] < 0 <=> BaseStale(l)
  <2>1. l \in Libs
    BY DEF Libs
  <2>2. /\ opens[l] = own[l] + ByStartup(l) - ByExit(l)
        /\ own[l] + ByStartup(l) >= 0
    BY <1>1, <2>1 DEF LibraryInv, Bases, GivenBack
  <2>3. own[l] \in -1 .. MostOwn /\ started[l] \in BOOLEAN /\ slot[l] \in BOOLEAN
    BY <1>1, <2>1 DEF LibraryInv, TypeOK
  <2> QED
    BY <2>2, <2>3, LifecycleAssumption DEF ByStartup, ByExit, LeftAlone, LeftToExit, GivenUp, BaseStale
<1>2. LibraryInv /\ pc = "ended" => dos = 0 /\ ~heap
  BY DEF LibraryInv, ControlInv, Counts, Opened
<1>3. LibraryInv => ExitReleases
  BY <1>1, <1>2 DEF ExitReleases, ModuleLibsClosed
<1> QED
  BY <1>3, LibraryHolds, PTL
=============================================================================
