---------------------------- MODULE UnwindProofs ----------------------------
(***************************************************************************)
(* What is proved about exceptions, for any depth of nesting, any size of  *)
(* the stack and any number of arguments: a program that does not jump out *)
(* of TRY bodies and SELECTs finds A7, A5 and the chain of handlers where  *)
(* the constructs it is in put them, and implements UnwindSpec.            *)
(***************************************************************************)
EXTENDS Unwind, Sequences, TLAPS, SequenceTheorems, WellFoundedInduction

\* EXIT, CONT and RETURN leave no TRY body and no SELECT.  (A program that does
\* leaves words and frames behind: README, section 5.)
StaysInside == Escapes = {}

-----------------------------------------------------------------------------
(* The inductive invariant.  A nest is d constructs s[1..d] whose words    *)
(* fill the stack m exactly up to x, and are the ones the code put there.  *)

\* A5 inside the procedure s[i], and the last word of the construct s[i].
BaseOf(s, i) == s[i].at + s[i].args + 2
EndOf(s, i)  == s[i].at + Width(s[i])

LastArmed(s, i) == Max0({j \in 1..i : s[j].armed})
LastProc(s, i)  == Max0({j \in 1..i : s[j].kind = "proc"})

EndOrZero(s, i)  == IF i = 0 THEN 0 ELSE EndOf(s, i)
BaseOrZero(s, i) == IF i = 0 THEN 0 ELSE BaseOf(s, i)

\* What kinds, phases and handlers go together.
WellFormed(c) ==
  /\ c \in Scope
  /\ c.kind = "proc" => /\ c.phase # "catch"
                        /\ c.armed => c.handle
                        /\ c.handle /\ c.phase = "body" => c.armed
                        /\ c.auto => c.handle
  /\ c.kind # "proc" => ~ c.handle /\ ~ c.auto /\ c.args = 0
  /\ c.kind = "try"  => c.phase \in {"body", "catch"} /\ (c.armed <=> c.phase = "body")
  /\ c.kind \in {"select", "loop"} => ~ c.armed /\ c.phase = "body"

\* A construct begins where the one around it ends, however many that have no
\* words of their own lie between them.
NoWords(s, i, j) == \A k \in i + 1..j : Width(s[k]) = 0

Below(s, i, j, x) == EndOf(s, i) <= x /\ (NoWords(s, i, j) => EndOf(s, i) = x)

Stacked(s, d, x) ==
  /\ x \in 0..MaxStack
  /\ d = 0 => x = 0
  /\ d > 0 => s[1].kind = "proc" /\ s[1].at = 0
  /\ \A i \in 1..d : Below(s, i, d, x)
  /\ \A i \in 1..d : \A j \in i + 1..d : Below(s, i, j - 1, s[j].at)

\* Where a procedure goes back to, and the A5 it goes back with.
ProcWords(s, m, i) ==
  s[i].kind = "proc" =>
    /\ m[BaseOf(s, i) - 1] = Code(i - 1)
    /\ m[BaseOf(s, i)] = Addr(BaseOrZero(s, LastProc(s, i - 1)))

\* A procedure's word prev stays good after its handler is unlinked: the epilogue
\* reads it again.
HandlerWords(s, m, i) ==
  /\ s[i].handle \/ s[i].armed => m[EndOf(s, i)] = Addr(EndOrZero(s, LastArmed(s, i - 1)))
  /\ s[i].armed => /\ m[EndOf(s, i) - 1] = Addr(EndOf(s, i))
                   /\ m[EndOf(s, i) - 2] = Addr(BaseOrZero(s, LastProc(s, i)))
                   /\ m[EndOf(s, i) - 3] = Code(i)

Nest(s, m, d, x) ==
  /\ Stacked(s, d, x)
  /\ \A i \in 1..d : WellFormed(s[i]) /\ ProcWords(s, m, i) /\ HandlerWords(s, m, i)

RunInv ==
  /\ depth > 0
  /\ Nest(scope, mem, depth, sp)
  /\ fp = BaseOrZero(scope, LastProc(scope, depth))
  /\ head = EndOrZero(scope, LastArmed(scope, depth))

UnwindInv ==
  /\ TypeOK
  /\ mode # "wild"
  /\ mode = "start" => depth = 0 /\ sp = 0 /\ fp = 0 /\ head = 0
  /\ mode = "run" => RunInv

-----------------------------------------------------------------------------
(* The last position that satisfies something.                             *)

LEMMA LeastOf ==
  ASSUME NEW T \in SUBSET Nat, T # {}
  PROVE  \E t \in T : \A s \in T : t <= s
<1>1. PICK t \in T : \A s \in T : ~ (<<s, t>> \in OpToRel(<, Nat))
  BY WFMin, NatLessThanWellFounded
<1>2. ASSUME NEW s \in T PROVE t <= s
  <2>1. ~ (s < t)
    BY <1>1 DEF OpToRel
  <2> QED
    BY <2>1
<1> QED
  BY <1>2

\* A set of positions has a last one, and Max0 is it; Max0 is 0 without one.
LEMMA Max0Facts ==
  ASSUME NEW n \in Nat, NEW S \in SUBSET (1..n)
  PROVE  /\ S = {} => Max0(S) = 0
         /\ S # {} => Max0(S) \in S
         /\ \A j \in S : j <= Max0(S)
         /\ Max0(S) \in 0..n
<1>1. CASE S = {}
  BY <1>1 DEF Max0
<1>2. CASE S # {}
  <2> DEFINE T == {n - i : i \in S}
  <2>0. \A i \in S : i \in Nat /\ n - i \in Nat /\ i <= n
    OBVIOUS
  <2>1. T \in SUBSET Nat /\ T # {}
    BY <1>2, <2>0
  <2>4. PICK t \in T : \A s \in T : t <= s
    BY <2>1, LeastOf
  <2>5. PICK i \in S : t = n - i
    BY <2>4
  <2>6. ASSUME NEW j \in S PROVE j <= i
    <3>1. n - i <= n - j
      BY <2>4, <2>5
    <3> QED
      BY <2>0, <3>1
  <2>7. Max0(S) \in S /\ \A j \in S : j <= Max0(S)
    BY <1>2, <2>5, <2>6 DEF Max0
  <2>8. Max0(S) \in 1..n
    BY <2>7
  <2> QED
    BY <1>2, <2>7, <2>8
<1> QED
  BY <1>1, <1>2

\* To know Max0, show one.
LEMMA Max0Is ==
  ASSUME NEW n \in Nat, NEW S \in SUBSET (1..n), NEW i \in S, \A j \in S : j <= i
  PROVE  Max0(S) = i
<1>1. Max0(S) \in S /\ i <= Max0(S)
  BY Max0Facts
<1>2. i \in 1..n /\ Max0(S) \in 1..n /\ Max0(S) <= i
  BY <1>1
<1> QED
  BY <1>1, <1>2

LEMMA LastFacts ==
  ASSUME NEW s, NEW d \in Nat
  PROVE  /\ LastArmed(s, 0) = 0 /\ LastProc(s, 0) = 0
         /\ LastArmed(s, d) \in 0..d
         /\ LastArmed(s, d) # 0 => s[LastArmed(s, d)].armed
         /\ LastProc(s, d) \in 0..d
         /\ LastProc(s, d) # 0 => s[LastProc(s, d)].kind = "proc"
         /\ LastArmed(s, d + 1) = IF s[d + 1].armed THEN d + 1 ELSE LastArmed(s, d)
         /\ LastProc(s, d + 1) = IF s[d + 1].kind = "proc" THEN d + 1 ELSE LastProc(s, d)
<1> DEFINE A(i) == {j \in 1..i : s[j].armed}
           P(i) == {j \in 1..i : s[j].kind = "proc"}
<1>1. A(0) = {} /\ P(0) = {}
  OBVIOUS
<1>2. /\ A(d) \in SUBSET (1..d) /\ P(d) \in SUBSET (1..d)
      /\ A(d + 1) \in SUBSET (1..d + 1) /\ P(d + 1) \in SUBSET (1..d + 1)
  OBVIOUS
<1>3. /\ A(d + 1) = IF s[d + 1].armed THEN A(d) \cup {d + 1} ELSE A(d)
      /\ P(d + 1) = IF s[d + 1].kind = "proc" THEN P(d) \cup {d + 1} ELSE P(d)
  OBVIOUS
<1>4. \A j \in A(d) : s[j].armed
  OBVIOUS
<1>5. \A j \in P(d) : s[j].kind = "proc"
  OBVIOUS
<1>6. /\ LastArmed(s, 0) = Max0(A(0)) /\ LastProc(s, 0) = Max0(P(0))
      /\ LastArmed(s, d) = Max0(A(d)) /\ LastProc(s, d) = Max0(P(d))
      /\ LastArmed(s, d + 1) = Max0(A(d + 1)) /\ LastProc(s, d + 1) = Max0(P(d + 1))
  BY DEF LastArmed, LastProc
<1> HIDE DEF A, P
<1>7. /\ Max0(A(d)) \in 0..d /\ (Max0(A(d)) # 0 => Max0(A(d)) \in A(d))
      /\ Max0(P(d)) \in 0..d /\ (Max0(P(d)) # 0 => Max0(P(d)) \in P(d))
  BY <1>2, Max0Facts
<1>8. /\ s[d + 1].armed => Max0(A(d + 1)) = d + 1
      /\ s[d + 1].kind = "proc" => Max0(P(d + 1)) = d + 1
  <2>1. /\ \A j \in A(d + 1) : j <= d + 1
        /\ \A j \in P(d + 1) : j <= d + 1
    BY <1>2
  <2>2. d + 1 \in Nat
    OBVIOUS
  <2>3. ASSUME s[d + 1].armed PROVE Max0(A(d + 1)) = d + 1
    <3>1. d + 1 \in A(d + 1)
      BY <1>3, <2>3
    <3> QED
      BY <1>2, <2>1, <2>2, <3>1, Max0Is
  <2>4. ASSUME s[d + 1].kind = "proc" PROVE Max0(P(d + 1)) = d + 1
    <3>1. d + 1 \in P(d + 1)
      BY <1>3, <2>4
    <3> QED
      BY <1>2, <2>1, <2>2, <3>1, Max0Is
  <2> QED
    BY <2>3, <2>4
<1>9. Max0({}) = 0
  BY DEF Max0
<1> QED
  BY <1>1, <1>3, <1>4, <1>5, <1>6, <1>7, <1>8, <1>9

\* t and s are the same up to d.
Same(t, s, d) == \A i \in 1..d : t[i] = s[i]

LEMMA LastKept ==
  ASSUME NEW s, NEW t, NEW d \in Nat, Same(t, s, d), NEW i \in 0..d
  PROVE  /\ LastArmed(t, i) = LastArmed(s, i)
         /\ LastProc(t, i) = LastProc(s, i)
         /\ EndOrZero(t, LastArmed(t, i)) = EndOrZero(s, LastArmed(s, i))
         /\ BaseOrZero(t, LastProc(t, i)) = BaseOrZero(s, LastProc(s, i))
<1>1. {j \in 1..i : t[j].armed} = {j \in 1..i : s[j].armed}
  BY DEF Same
<1>2. {j \in 1..i : t[j].kind = "proc"} = {j \in 1..i : s[j].kind = "proc"}
  BY DEF Same
<1>3. LastArmed(t, i) = LastArmed(s, i) /\ LastProc(t, i) = LastProc(s, i)
  BY <1>1, <1>2 DEF LastArmed, LastProc
<1>4. LastArmed(s, i) \in 0..i /\ LastProc(s, i) \in 0..i
  BY LastFacts
<1> QED
  BY <1>3, <1>4 DEF Same, EndOrZero, BaseOrZero, EndOf, BaseOf

\* Constructs that are not armed, or no procedures, are passed over.
LEMMA LastSkips ==
  ASSUME NEW s, NEW d \in Nat, NEW c \in 0..d
  PROVE  /\ (\A k \in c + 1..d : ~ s[k].armed) => LastArmed(s, d) = LastArmed(s, c)
         /\ (\A k \in c + 1..d : s[k].kind # "proc") => LastProc(s, d) = LastProc(s, c)
<1>1. 1..d = (1..c) \cup (c + 1..d)
  OBVIOUS
<1>2. (\A k \in c + 1..d : ~ s[k].armed) =>
        {j \in 1..d : s[j].armed} = {j \in 1..c : s[j].armed}
  BY <1>1
<1>3. (\A k \in c + 1..d : s[k].kind # "proc") =>
        {j \in 1..d : s[j].kind = "proc"} = {j \in 1..c : s[j].kind = "proc"}
  BY <1>1
<1> QED
  BY <1>2, <1>3 DEF LastArmed, LastProc

-----------------------------------------------------------------------------
(* Nests: kept where nothing they hold is written, cut back to an outer    *)
(* construct, grown by one more.                                           *)

LEMMA WidthFacts ==
  ASSUME NEW c, WellFormed(c)
  PROVE  /\ Width(c) \in Nat
         /\ c.kind = "proc" => Width(c) = c.args + 2 + (IF c.handle THEN 4 ELSE 0)
         /\ c.kind # "proc" => Width(c) = IF c.armed THEN 4
                                          ELSE IF c.kind = "select" THEN 1 ELSE 0
         /\ c.at \in Nat /\ c.args \in Nat
  BY UnwindAssumption DEF WellFormed, Scope, Width

Placed(s, i, x) ==
  /\ x \in Nat /\ x <= MaxStack
  /\ EndOf(s, i) \in Nat /\ EndOf(s, i) <= x
  /\ s[i].at \in Nat /\ s[i].at <= EndOf(s, i)
  /\ s[i].kind = "proc" => /\ BaseOf(s, i) \in Nat
                           /\ s[i].at + 2 <= BaseOf(s, i)
                           /\ BaseOf(s, i) <= EndOf(s, i)
                           /\ s[i].handle => EndOf(s, i) = BaseOf(s, i) + 4
  /\ s[i].armed \/ s[i].handle => s[i].at + 4 <= EndOf(s, i)

\* The words of a nest are inside it: a construct's words end after it began.
LEMMA NestPlaces ==
  ASSUME NEW s, NEW m, NEW d \in Nat, NEW x, Nest(s, m, d, x), NEW i \in 1..d
  PROVE  Placed(s, i, x)
<1>1. WellFormed(s[i])
  BY DEF Nest
<1>2. EndOf(s, i) <= x /\ x \in 0..MaxStack
  BY DEF Nest, Stacked, Below
<1>3. s[i].handle => s[i].kind = "proc"
  BY <1>1 DEF WellFormed
<1>4. s[i].armed => s[i].kind = "try" \/ s[i].handle
  BY <1>1 DEF WellFormed, Scope
<1> QED
  BY <1>1, <1>2, <1>3, <1>4, WidthFacts, UnwindAssumption DEF EndOf, BaseOf, Placed

LEMMA NestKept ==
  ASSUME NEW s, NEW m, NEW t, NEW n, NEW d \in Nat, NEW x, Nest(s, m, d, x),
         Same(t, s, d), Same(n, m, x)
  PROVE  Nest(t, n, d, x)
<1>1. Stacked(t, d, x)
  BY DEF Nest, Stacked, Below, EndOf, NoWords, Same
<1>2. ASSUME NEW i \in 1..d
      PROVE  WellFormed(t[i]) /\ ProcWords(t, n, i) /\ HandlerWords(t, n, i)
  <2>1. WellFormed(s[i]) /\ ProcWords(s, m, i) /\ HandlerWords(s, m, i) /\ t[i] = s[i]
    BY DEF Nest, Same
  <2>2. /\ EndOf(t, i) = EndOf(s, i) /\ BaseOf(t, i) = BaseOf(s, i)
    BY <2>1 DEF EndOf, BaseOf
  <2>3. i - 1 \in 0..d /\ i \in 0..d
    OBVIOUS
  <2>4. /\ BaseOrZero(t, LastProc(t, i - 1)) = BaseOrZero(s, LastProc(s, i - 1))
        /\ BaseOrZero(t, LastProc(t, i)) = BaseOrZero(s, LastProc(s, i))
        /\ EndOrZero(t, LastArmed(t, i - 1)) = EndOrZero(s, LastArmed(s, i - 1))
    BY <2>3, LastKept
  <2>a. Placed(s, i, x)
    BY NestPlaces
  <2>5. s[i].kind = "proc" => BaseOf(s, i) \in 1..x /\ BaseOf(s, i) - 1 \in 1..x
    BY <2>a DEF Placed
  <2>6. s[i].armed \/ s[i].handle =>
          /\ EndOf(s, i) \in 1..x /\ EndOf(s, i) - 1 \in 1..x
          /\ EndOf(s, i) - 2 \in 1..x /\ EndOf(s, i) - 3 \in 1..x
    BY <2>a DEF Placed
  <2>7. ProcWords(t, n, i)
    BY <2>1, <2>2, <2>4, <2>5 DEF ProcWords, Same
  <2>8. HandlerWords(t, n, i)
    BY <2>1, <2>2, <2>4, <2>6 DEF HandlerWords, Same
  <2> QED
    BY <2>1, <2>7, <2>8
<1> QED
  BY <1>1, <1>2 DEF Nest

LEMMA NestCut ==
  ASSUME NEW s, NEW m, NEW d \in Nat, NEW x, Nest(s, m, d, x), NEW c \in 0..d - 1
  PROVE  Nest(s, m, c, s[c + 1].at)
<1>1. c + 1 \in 1..d /\ 1..c \subseteq 1..d
  OBVIOUS
<1>2. s[c + 1].at \in 0..MaxStack /\ s[c + 1].at <= x
  <2>1. Placed(s, c + 1, x)
    BY <1>1, NestPlaces
  <2> QED
    BY <2>1, UnwindAssumption DEF Placed
<1>3. c = 0 => s[c + 1].at = 0
  BY DEF Nest, Stacked
<1>4. c > 0 => s[1].kind = "proc" /\ s[1].at = 0
  BY DEF Nest, Stacked
<1>5. ASSUME NEW i \in 1..c
      PROVE  Below(s, i, c, s[c + 1].at)
  <2>1. i \in 1..d /\ c + 1 \in i + 1..d /\ (c + 1) - 1 = c
    BY <1>1
  <2> QED
    BY <2>1 DEF Nest, Stacked
<1>6. ASSUME NEW i \in 1..c, NEW j \in i + 1..c
      PROVE  Below(s, i, j - 1, s[j].at)
  <2>1. i \in 1..d /\ j \in i + 1..d
    BY <1>1
  <2> QED
    BY <2>1 DEF Nest, Stacked
<1>7. Stacked(s, c, s[c + 1].at)
  BY <1>2, <1>3, <1>4, <1>5, <1>6 DEF Stacked
<1> QED
  BY <1>1, <1>7 DEF Nest

LEMMA NestTop ==
  ASSUME NEW s, NEW m, NEW d \in Nat, NEW x, Nest(s, m, d, x), d > 0
  PROVE  x = EndOf(s, d)
<1>1. NoWords(s, d, d) /\ d \in 1..d
  BY DEF NoWords
<1> QED
  BY <1>1 DEF Nest, Stacked, Below

\* Constructs without words end where they begin.
LEMMA NestNoWords ==
  ASSUME NEW s, NEW m, NEW d \in Nat, NEW x, Nest(s, m, d, x),
         NEW c \in 0..d - 1, NoWords(s, c, d)
  PROVE  s[c + 1].at = x
<1>1. NoWords(s, c + 1, d) /\ Width(s[c + 1]) = 0 /\ c + 1 \in 1..d
  BY DEF NoWords
<1>2. EndOf(s, c + 1) = x
  BY <1>1 DEF Nest, Stacked, Below
<1>3. Placed(s, c + 1, x)
  BY <1>1, NestPlaces
<1> QED
  BY <1>1, <1>2, <1>3 DEF EndOf, Placed

LEMMA NestPush ==
  ASSUME NEW s, NEW m, NEW t, NEW n, NEW d \in Nat, NEW x, NEW y \in 0..MaxStack,
         Nest(s, m, d, x),
         Same(t, s, d), Same(n, m, x),
         WellFormed(t[d + 1]), t[d + 1].at = x, y = EndOf(t, d + 1),
         d = 0 => t[1].kind = "proc",
         ProcWords(t, n, d + 1), HandlerWords(t, n, d + 1)
  PROVE  Nest(t, n, d + 1, y)
<1>1. Nest(t, n, d, x)
  BY NestKept
<1>2. x \in Nat /\ y \in Nat /\ x <= y /\ y = x + Width(t[d + 1])
  BY <1>1, WidthFacts, UnwindAssumption DEF Nest, Stacked, EndOf
<1>3. d + 1 > 0 /\ t[1].kind = "proc" /\ t[1].at = 0
  BY <1>1 DEF Nest, Stacked
<1>4. ASSUME NEW i \in 1..d + 1
      PROVE  Below(t, i, d + 1, y)
  <2>1. CASE i = d + 1
    BY <1>2, <2>1 DEF Below
  <2>2. CASE i \in 1..d
    <3>1. Placed(t, i, x) /\ Below(t, i, d, x)
      BY <1>1, <2>2, NestPlaces DEF Nest, Stacked
    <3>2. NoWords(t, i, d + 1) => NoWords(t, i, d) /\ Width(t[d + 1]) = 0
      BY <2>2 DEF NoWords
    <3> QED
      BY <1>2, <3>1, <3>2 DEF Placed, Below
  <2> QED
    BY <2>1, <2>2
<1>5. ASSUME NEW i \in 1..d + 1, NEW j \in i + 1..d + 1
      PROVE  Below(t, i, j - 1, t[j].at)
  <2>1. CASE j = d + 1
    <3>1. i \in 1..d /\ j - 1 = d /\ t[j].at = x
      BY <2>1
    <3>2. Below(t, i, d, x)
      BY <1>1, <3>1 DEF Nest, Stacked
    <3> QED
      BY <3>1, <3>2
  <2>2. CASE j # d + 1
    <3>1. i \in 1..d /\ j \in i + 1..d
      BY <2>2
    <3>2. \A k \in 1..d : \A l \in k + 1..d : Below(t, k, l - 1, t[l].at)
      BY <1>1 DEF Nest, Stacked
    <3> QED
      BY <3>1, <3>2
  <2> QED
    BY <2>1, <2>2
<1>6. Stacked(t, d + 1, y)
  <2>1. \A i \in 1..d + 1 : Below(t, i, d + 1, y)
    BY <1>4
  <2>2. \A i \in 1..d + 1 : \A j \in i + 1..d + 1 : Below(t, i, j - 1, t[j].at)
    BY <1>5
  <2>3. d + 1 # 0
    OBVIOUS
  <2> QED
    BY <1>3, <2>1, <2>2, <2>3 DEF Stacked
<1>7. \A i \in 1..d + 1 : i \in 1..d \/ i = d + 1
  OBVIOUS
<1> QED
  BY <1>1, <1>6, <1>7 DEF Nest

-----------------------------------------------------------------------------
(* The state of a program that runs, or is about to.                       *)

LEMMA Standing ==
  ASSUME UnwindInv, mode \in {"start", "run"}
  PROVE  /\ depth \in Nat /\ depth <= MaxNest
         /\ Nest(scope, mem, depth, sp)
         /\ fp = BaseOrZero(scope, LastProc(scope, depth))
         /\ head = EndOrZero(scope, LastArmed(scope, depth))
         /\ mode = "run" => depth > 0
<1>1. depth \in Nat /\ depth <= MaxNest /\ sp \in 0..MaxStack
  BY UnwindAssumption DEF UnwindInv, TypeOK
<1>2. CASE mode = "run"
  BY <1>1, <1>2 DEF UnwindInv, RunInv
<1>3. CASE mode = "start"
  <2>1. depth = 0 /\ sp = 0 /\ fp = 0 /\ head = 0
    BY <1>3 DEF UnwindInv
  <2>2. Nest(scope, mem, 0, 0)
    BY <1>1, <2>1 DEF Nest, Stacked
  <2>3. LastProc(scope, 0) = 0 /\ LastArmed(scope, 0) = 0
    BY LastFacts
  <2> QED
    BY <1>1, <1>3, <2>1, <2>2, <2>3 DEF BaseOrZero, EndOrZero
<1> QED
  BY <1>2, <1>3

\* The procedure the program is in, and what it finds at its A5.
LEMMA InProc ==
  ASSUME UnwindInv, mode = "run", NEW p, p = CurrentProc
  PROVE  /\ p = LastProc(scope, depth) /\ p \in 1..depth
         /\ scope[p].kind = "proc"
         /\ \A k \in p + 1..depth : scope[k].kind # "proc"
         /\ fp = BaseOf(scope, p) /\ fp \in Nat
         /\ fp - 2 - scope[p].args = scope[p].at
         /\ At(fp - 1) = Code(p - 1)
         /\ AddrAt(fp) = BaseOrZero(scope, LastProc(scope, p - 1))
         /\ scope[p].handle => PrevOf(fp) = EndOrZero(scope, LastArmed(scope, p - 1))
<1>1. depth \in Nat /\ depth > 0 /\ Nest(scope, mem, depth, sp)
  BY Standing
<1> DEFINE P == {i \in 1..depth : scope[i].kind = "proc"}
<1>2. p = Max0(P) /\ p = LastProc(scope, depth)
  BY DEF CurrentProc, LastProc
<1>3. 1 \in P
  BY <1>1 DEF Nest, Stacked
<1>4. p \in P /\ \A j \in P : j <= p
  <2>1. depth \in Nat /\ P \in SUBSET (1..depth) /\ P # {}
    BY <1>1, <1>3
  <2> HIDE DEF P
  <2>2. Max0(P) \in P /\ \A j \in P : j <= Max0(P)
    BY <2>1, Max0Facts
  <2> QED
    BY <1>2, <2>2
<1>5. p \in 1..depth /\ scope[p].kind = "proc" /\ p # 0
  BY <1>1, <1>4
<1>6. \A k \in p + 1..depth : scope[k].kind # "proc"
  BY <1>1, <1>4
<1>7. fp = BaseOf(scope, p)
  BY <1>2, <1>5, Standing DEF BaseOrZero
<1>8. Placed(scope, p, sp)
  BY <1>1, <1>5, NestPlaces
<1>9. WellFormed(scope[p]) /\ ProcWords(scope, mem, p) /\ HandlerWords(scope, mem, p)
  BY <1>1, <1>5 DEF Nest
<1>10. fp \in Nat /\ fp - 2 - scope[p].args = scope[p].at
  BY <1>5, <1>7, <1>8, <1>9, WidthFacts DEF BaseOf, Placed
<1>11. fp \in 1..MaxStack /\ fp - 1 \in 1..MaxStack
  BY <1>5, <1>7, <1>8, UnwindAssumption DEF Placed
<1>12. mem[fp - 1] = Code(p - 1) /\ mem[fp] = Addr(BaseOrZero(scope, LastProc(scope, p - 1)))
  BY <1>5, <1>7, <1>9 DEF ProcWords
<1>13. At(fp - 1) = Code(p - 1) /\ AddrAt(fp) = BaseOrZero(scope, LastProc(scope, p - 1))
  BY <1>11, <1>12 DEF At, AddrAt, Addr
<1>14. ASSUME scope[p].handle PROVE PrevOf(fp) = EndOrZero(scope, LastArmed(scope, p - 1))
  <2>1. EndOf(scope, p) = fp + 4 /\ EndOf(scope, p) \in 1..MaxStack
    BY <1>5, <1>7, <1>8, <1>14, UnwindAssumption DEF Placed
  <2>2. mem[EndOf(scope, p)] = Addr(EndOrZero(scope, LastArmed(scope, p - 1)))
    BY <1>9, <1>14 DEF HandlerWords
  <2> QED
    BY <2>1, <2>2 DEF PrevOf, At, AddrAt, Addr
<1> QED
  BY <1>2, <1>5, <1>6, <1>7, <1>10, <1>13, <1>14

\* The innermost frame, and what __raise finds in it.
LEMMA InFrame ==
  ASSUME UnwindInv, mode = "run", head # 0, NEW d, d = LastArmed(scope, depth)
  PROVE  /\ d \in 1..depth /\ scope[d].armed /\ head = EndOf(scope, d)
         /\ FramePc = Code(d)
         /\ FrameSp = head
         /\ FrameFp = BaseOrZero(scope, LastProc(scope, d))
         /\ AddrAt(head) = EndOrZero(scope, LastArmed(scope, d - 1))
         /\ head - 4 \in Nat
<1>1. depth \in Nat /\ depth > 0 /\ Nest(scope, mem, depth, sp)
  BY Standing
<1>2. head = EndOrZero(scope, d)
  BY Standing
<1>3. d \in 1..depth /\ scope[d].armed /\ head = EndOf(scope, d)
  BY <1>1, <1>2, LastFacts DEF EndOrZero
<1>4. Placed(scope, d, sp)
  BY <1>1, <1>3, NestPlaces
<1>5. /\ head \in 1..MaxStack /\ head - 1 \in 1..MaxStack /\ head - 4 \in Nat
      /\ head - 2 \in 1..MaxStack /\ head - 3 \in 1..MaxStack
  BY <1>3, <1>4, UnwindAssumption DEF Placed
<1>6. HandlerWords(scope, mem, d)
  BY <1>1, <1>3 DEF Nest
<1>7. /\ mem[head] = Addr(EndOrZero(scope, LastArmed(scope, d - 1)))
      /\ mem[head - 1] = Addr(head)
      /\ mem[head - 2] = Addr(BaseOrZero(scope, LastProc(scope, d)))
      /\ mem[head - 3] = Code(d)
  BY <1>3, <1>6 DEF HandlerWords
<1> QED
  BY <1>3, <1>5, <1>7 DEF FramePc, FrameSp, FrameFp, At, AddrAt, Addr

-----------------------------------------------------------------------------
(* The steps: each cuts the nest back, and may then open a construct, or   *)
(* change the innermost one.                                               *)

LEMMA NestRegisters ==
  ASSUME NEW s, NEW m, NEW d \in Nat, NEW x, Nest(s, m, d, x)
  PROVE  /\ BaseOrZero(s, LastProc(s, d)) \in 0..MaxStack
         /\ EndOrZero(s, LastArmed(s, d)) \in 0..MaxStack
<1>1. /\ LastProc(s, d) \in 0..d /\ (LastProc(s, d) # 0 => s[LastProc(s, d)].kind = "proc")
      /\ LastArmed(s, d) \in 0..d
  BY LastFacts
<1>2. LastProc(s, d) # 0 => Placed(s, LastProc(s, d), x)
  BY <1>1, NestPlaces
<1>3. LastArmed(s, d) # 0 => Placed(s, LastArmed(s, d), x)
  BY <1>1, NestPlaces
<1>4. 0 \in 0..MaxStack
  BY UnwindAssumption
<1>5. ASSUME LastProc(s, d) # 0 PROVE BaseOf(s, LastProc(s, d)) \in 0..MaxStack
  BY <1>1, <1>2, <1>5, UnwindAssumption DEF Placed
<1>6. ASSUME LastArmed(s, d) # 0 PROVE EndOf(s, LastArmed(s, d)) \in 0..MaxStack
  BY <1>3, <1>6, UnwindAssumption DEF Placed
<1> QED
  BY <1>4, <1>5, <1>6 DEF BaseOrZero, EndOrZero

\* What a step to a running program has to show.
LEMMA Reached ==
  ASSUME depth' \in 1..MaxNest, mode' = "run",
         scope' \in [1..MaxNest -> Scope], mem' \in [1..MaxStack -> Word],
         exception' \in Values, exitcode' \in Values, d1' \in {"second", "chain", "other"},
         Nest(scope', mem', depth', sp'),
         fp' = BaseOrZero(scope', LastProc(scope', depth')),
         head' = EndOrZero(scope', LastArmed(scope', depth'))
  PROVE  UnwindInv'
<1>1. depth' \in Nat /\ depth' > 0 /\ depth' \in 0..MaxNest
  BY UnwindAssumption
<1>2. fp' \in 0..MaxStack /\ head' \in 0..MaxStack
  BY <1>1, NestRegisters
<1>3. sp' \in 0..MaxStack
  BY DEF Nest, Stacked
<1> QED
  BY <1>1, <1>2, <1>3 DEF UnwindInv, TypeOK, RunInv

LEMMA CutFacts ==
  ASSUME TypeOK, NEW c \in 0..depth, CutTo(c)
  PROVE  /\ depth' = c /\ c \in Nat /\ depth' \in 0..MaxNest
         /\ scope' \in [1..MaxNest -> Scope]
         /\ Same(scope', scope, c)
<1>1. depth \in Nat /\ depth <= MaxNest /\ MaxNest \in Nat
  BY UnwindAssumption DEF TypeOK
<1>2. NoScope \in Scope
  BY UnwindAssumption DEF NoScope, Scope
<1>3. scope' = [i \in 1..MaxNest |-> IF i <= c THEN scope[i] ELSE NoScope] /\ depth' = c
  BY DEF CutTo
<1>4. scope \in [1..MaxNest -> Scope]
  BY DEF TypeOK
<1> QED
  BY <1>1, <1>2, <1>3, <1>4 DEF Same

LEMMA DropFacts ==
  ASSUME TypeOK, NEW x \in Int, Drop(x)
  PROVE  /\ mem' \in [1..MaxStack -> Word]
         /\ \A z \in 1..MaxStack : z <= x => mem'[z] = mem[z]
<1>1. Data \in Word
  BY DEF Data, Word
<1> QED
  BY <1>1, UnwindAssumption DEF Drop, TypeOK

\* The program goes on in an outer construct.
LEMMA CutRun ==
  ASSUME UnwindInv, mode = "run", NEW c \in 1..depth, CutTo(c),
         Nest(scope, mem, c, sp'),
         \A z \in 1..MaxStack : z <= sp' => mem'[z] = mem[z],
         fp' = BaseOrZero(scope, LastProc(scope, c)),
         head' = EndOrZero(scope, LastArmed(scope, c)),
         mem' \in [1..MaxStack -> Word], mode' = "run", d1' \in {"second", "chain", "other"},
         exception' \in Values, exitcode' \in Values
  PROVE  UnwindInv'
<1>1. depth \in Nat /\ depth <= MaxNest /\ TypeOK
  BY Standing DEF UnwindInv
<1>2. c \in 0..depth /\ c \in Nat /\ c \in 0..c
  BY <1>1
<1>3. /\ depth' = c /\ scope' \in [1..MaxNest -> Scope]
      /\ Same(scope', scope, c)
  BY <1>1, <1>2, CutFacts
<1>4. sp' \in 0..MaxStack
  BY DEF Nest, Stacked
<1>5. Same(mem', mem, sp')
  BY <1>4, UnwindAssumption DEF Same
<1>6. Nest(scope', mem', depth', sp')
  <2>1. Nest(scope', mem', c, sp')
    BY <1>2, <1>3, <1>5, NestKept
  <2> QED
    BY <1>3, <2>1
<1>7. /\ fp' = BaseOrZero(scope', LastProc(scope', depth'))
      /\ head' = EndOrZero(scope', LastArmed(scope', depth'))
  BY <1>2, <1>3, LastKept
<1>8. depth' \in 1..MaxNest
  BY <1>1, <1>3, UnwindAssumption
<1> QED
  BY <1>3, <1>6, <1>7, <1>8, Reached

\* The program goes on inside a new or changed construct d + 1.
LEMMA PushRun ==
  ASSUME UnwindInv, mode \in {"start", "run"},
         NEW d \in Nat, NEW x, d <= depth, d < MaxNest,
         Nest(scope, mem, d, x),
         depth' = d + 1, scope' \in [1..MaxNest -> Scope],
         Same(scope', scope, d),
         WellFormed(scope'[d + 1]), scope'[d + 1].at = x,
         d = 0 => scope'[1].kind = "proc",
         sp' = x + Width(scope'[d + 1]), sp' <= MaxStack,
         \A z \in 1..MaxStack : z <= x => mem'[z] = mem[z],
         IF scope'[d + 1].kind = "proc"
         THEN /\ fp' = BaseOf(scope', d + 1)
              /\ mem'[fp' - 1] = Code(d)
              /\ mem'[fp'] = Addr(BaseOrZero(scope, LastProc(scope, d)))
         ELSE fp' = BaseOrZero(scope, LastProc(scope, d)),
         head' = IF scope'[d + 1].armed THEN sp' ELSE EndOrZero(scope, LastArmed(scope, d)),
         scope'[d + 1].handle \/ scope'[d + 1].armed =>
           mem'[sp'] = Addr(EndOrZero(scope, LastArmed(scope, d))),
         scope'[d + 1].armed => /\ mem'[sp' - 1] = Addr(sp')
                                /\ mem'[sp' - 2] = Addr(fp')
                                /\ mem'[sp' - 3] = Code(d + 1),
         mem' \in [1..MaxStack -> Word], mode' = "run", d1' \in {"second", "chain", "other"},
         exception' \in Values, exitcode' \in Values
  PROVE  UnwindInv'
<1>1. d \in 0..d /\ (d + 1) - 1 = d /\ d + 1 \in Nat
  OBVIOUS
<1>2. x \in 0..MaxStack /\ x \in Nat /\ sp' \in 0..MaxStack /\ sp' = EndOf(scope', d + 1)
  BY WidthFacts, UnwindAssumption DEF Nest, Stacked, EndOf
<1>3. Same(mem', mem, x)
  BY SMTT(20), <1>2, UnwindAssumption DEF Same
<1>4. /\ BaseOrZero(scope', LastProc(scope', d)) = BaseOrZero(scope, LastProc(scope, d))
      /\ EndOrZero(scope', LastArmed(scope', d)) = EndOrZero(scope, LastArmed(scope, d))
  BY <1>1, LastKept
<1>5. /\ LastArmed(scope', d + 1) = IF scope'[d + 1].armed THEN d + 1 ELSE LastArmed(scope', d)
      /\ LastProc(scope', d + 1) =
           IF scope'[d + 1].kind = "proc" THEN d + 1 ELSE LastProc(scope', d)
  BY LastFacts
<1>6. fp' = BaseOrZero(scope', LastProc(scope', d + 1))
  BY <1>4, <1>5 DEF BaseOrZero
<1>7. head' = EndOrZero(scope', LastArmed(scope', d + 1))
  BY <1>2, <1>4, <1>5 DEF EndOrZero
<1>8. ProcWords(scope', mem', d + 1)
  BY <1>1, <1>4 DEF ProcWords
<1>9. HandlerWords(scope', mem', d + 1)
  BY <1>1, <1>2, <1>4, <1>6 DEF HandlerWords
<1>10. Nest(scope', mem', depth', sp')
  BY <1>2, <1>3, <1>8, <1>9, NestPush
<1>11. depth' \in 1..MaxNest
  BY UnwindAssumption
<1> QED
  BY <1>6, <1>7, <1>10, <1>11, Reached

-----------------------------------------------------------------------------
LEMMA InitInv == Init => UnwindInv
<1> SUFFICES ASSUME Init PROVE UnwindInv
  OBVIOUS
<1>1. NoScope \in Scope /\ Data \in Word
  BY UnwindAssumption DEF NoScope, Scope, Data, Word
<1> QED
  BY <1>1, UnwindAssumption DEF Init, UnwindInv, TypeOK

LEMMA WordFacts ==
  ASSUME NEW v \in Int
  PROVE  Addr(v) \in Word /\ Code(v) \in Word /\ Data \in Word
  BY DEF Addr, Code, Data, Word

\* The four words of a frame, and those before them.
LEMMA FrameFacts ==
  ASSUME NEW m \in [1..MaxStack -> Word], NEW f \in 4..MaxStack,
         NEW prev \in Int, NEW base \in Int, NEW i \in Int,
         NEW n, n = HandlerFrame(m, f, prev, base, Code(i))
  PROVE  /\ n \in [1..MaxStack -> Word]
         /\ Same(n, m, f - 4)
         /\ n[f] = Addr(prev) /\ n[f - 1] = Addr(f)
         /\ n[f - 2] = Addr(base) /\ n[f - 3] = Code(i)
<1>1. /\ f \in 1..MaxStack /\ f - 1 \in 1..MaxStack
      /\ f - 2 \in 1..MaxStack /\ f - 3 \in 1..MaxStack /\ f \in Int
  BY UnwindAssumption
<1>2. /\ Addr(prev) \in Word /\ Addr(f) \in Word /\ Addr(base) \in Word /\ Code(i) \in Word
  BY <1>1, WordFacts
<1>3. n = [m EXCEPT ![f] = Addr(prev), ![f - 1] = Addr(f), ![f - 2] = Addr(base),
                    ![f - 3] = Code(i)]
  BY DEF HandlerFrame
<1>4. n \in [1..MaxStack -> Word]
  BY <1>1, <1>2, <1>3
<1>5. Same(n, m, f - 4)
  BY <1>1, <1>3, <1>4, UnwindAssumption DEF Same
<1> QED
  BY <1>1, <1>3, <1>4, <1>5, UnwindAssumption

LEMMA PushedFacts ==
  ASSUME TypeOK, NEW n \in Nat, sp + n + 2 <= MaxStack
  PROVE  /\ Pushed(n, depth, sp) \in [1..MaxStack -> Word]
         /\ \A z \in 1..MaxStack : z <= sp => Pushed(n, depth, sp)[z] = mem[z]
         /\ Pushed(n, depth, sp)[sp + n + 1] = Code(depth)
         /\ Pushed(n, depth, sp)[sp + n + 2] = Addr(fp)
<1>1. /\ sp \in Nat /\ fp \in Int /\ depth \in Int /\ MaxStack \in Nat
      /\ mem \in [1..MaxStack -> Word]
  BY UnwindAssumption DEF TypeOK
<1>2. Code(depth) \in Word /\ Addr(fp) \in Word /\ Data \in Word
  BY <1>1, WordFacts
<1>3. sp + n + 1 \in 1..MaxStack /\ sp + n + 2 \in 1..MaxStack
  BY <1>1
<1> DEFINE W(x) == CASE x = sp + n + 1 -> Code(depth)
                     [] x = sp + n + 2 -> Addr(fp)
                     [] x > sp /\ x <= sp + n -> Data
                     [] OTHER -> mem[x]
<1>4. Pushed(n, depth, sp) = [x \in 1..MaxStack |-> W(x)]
  BY DEF Pushed
<1>5. W(sp + n + 1) = Code(depth)
  BY <1>1
<1>6. W(sp + n + 2) = Addr(fp)
  BY <1>1
<1>7. ASSUME NEW z \in 1..MaxStack, z <= sp PROVE W(z) = mem[z]
  BY <1>1, <1>7
<1>8. ASSUME NEW z \in 1..MaxStack PROVE W(z) \in Word
  BY <1>1, <1>2
<1> HIDE DEF W
<1> QED
  BY <1>3, <1>4, <1>5, <1>6, <1>7, <1>8

\* A construct is put on top of the nest.
LEMMA OpenFacts ==
  ASSUME UnwindInv, mode \in {"start", "run"}, NEW c \in Scope, OpenScope(c)
  PROVE  /\ depth \in Nat /\ depth <= depth /\ depth < MaxNest /\ depth' = depth + 1
         /\ scope' \in [1..MaxNest -> Scope] /\ scope'[depth + 1] = c
         /\ Same(scope', scope, depth)
<1>1. depth \in Nat /\ MaxNest \in Nat /\ scope \in [1..MaxNest -> Scope]
  BY UnwindAssumption DEF UnwindInv, TypeOK
<1>2. scope' = [scope EXCEPT ![depth + 1] = c] /\ depth' = depth + 1 /\ depth < MaxNest
  BY DEF OpenScope
<1>3. depth + 1 \in 1..MaxNest
  BY <1>1, <1>2
<1> QED
  BY <1>1, <1>2, <1>3 DEF Same

LEMMA CallInv ==
  ASSUME UnwindInv, NEW h \in BOOLEAN, NEW a \in BOOLEAN, NEW n \in 0..MaxArgs, Call(h, a, n)
  PROVE  UnwindInv'
<1> DEFINE base == sp + n + 2
           top == IF h THEN base + 4 ELSE base
<1>1. TypeOK /\ mode \in {"start", "run"} /\ mode' = "run" /\ (a => h)
  BY DEF UnwindInv, Call
<1>2. n \in Nat /\ sp \in Nat /\ base \in Nat /\ fp \in Int /\ head \in Int /\ MaxStack \in Nat
  BY <1>1, UnwindAssumption DEF TypeOK
<1>3. top <= MaxStack /\ base <= MaxStack /\ sp' = top /\ fp' = base /\ sp <= MaxStack
  BY <1>2 DEF Call
<1>4. PICK c : c = Proc(h, a, n) /\ OpenScope(c)
  BY DEF Call
<1>5. c \in Scope /\ WellFormed(c)
  BY <1>1, <1>2, <1>4, UnwindAssumption DEF Proc, Scope, WellFormed
<1>6. /\ c.at = sp /\ c.kind = "proc" /\ c.handle = h /\ c.armed = h /\ c.args = n
      /\ Width(c) = n + 2 + (IF h THEN 4 ELSE 0)
  BY <1>4 DEF Proc, Width
<1>7. /\ depth \in Nat /\ depth <= depth /\ depth < MaxNest /\ depth' = depth + 1
      /\ scope' \in [1..MaxNest -> Scope] /\ scope'[depth + 1] = c
      /\ Same(scope', scope, depth)
  BY <1>1, <1>4, <1>5, OpenFacts
<1>8. /\ Nest(scope, mem, depth, sp)
      /\ fp = BaseOrZero(scope, LastProc(scope, depth))
      /\ head = EndOrZero(scope, LastArmed(scope, depth))
  BY <1>1, Standing
<1>9. sp' = sp + Width(scope'[depth + 1]) /\ sp' <= MaxStack
  BY <1>2, <1>3, <1>6, <1>7
<1>10. fp' = BaseOf(scope', depth + 1)
  BY <1>2, <1>3, <1>6, <1>7 DEF BaseOf
<1>11. PICK w : /\ w = Pushed(n, depth, sp)
                /\ w \in [1..MaxStack -> Word]
                /\ \A z \in 1..MaxStack : z <= sp => w[z] = mem[z]
                /\ w[base - 1] = Code(depth) /\ w[base] = Addr(fp)
  <2>1. base - 1 = sp + n + 1
    BY <1>2
  <2> QED
    BY <1>1, <1>2, <1>3, <2>1, PushedFacts
<1>12. d1' = "other" /\ exception' \in Values /\ exitcode' \in Values
  BY <1>1 DEF Call, Scratch, TypeOK
<1>13. mem' \in [1..MaxStack -> Word] /\ \A z \in 1..MaxStack : z <= base => mem'[z] = w[z]
  <2>1. CASE ~ h
    BY <1>11, <2>1 DEF Call
  <2>2. CASE h
    <3>1. /\ mem' = HandlerFrame(w, base + 4, head, base, Code(depth + 1))
          /\ base + 4 \in 4..MaxStack /\ base \in Int /\ depth + 1 \in Int
      BY <1>2, <1>3, <1>7, <1>11, <2>2 DEF Call
    <3>2. Same(mem', w, (base + 4) - 4) /\ mem' \in [1..MaxStack -> Word]
      <4>1. PICK f : f = base + 4
        OBVIOUS
      <4>2. w \in [1..MaxStack -> Word] /\ f \in 4..MaxStack
            /\ mem' = HandlerFrame(w, f, head, base, Code(depth + 1))
        BY <1>11, <3>1, <4>1
      <4>3. Same(mem', w, f - 4) /\ mem' \in [1..MaxStack -> Word]
        BY <1>2, <3>1, <4>2, FrameFacts
      <4> QED
        BY <4>1, <4>3
    <3> QED
      BY <1>2, <3>2 DEF Same
  <2> QED
    BY <2>1, <2>2
<1>14. h => /\ head' = sp' /\ mem'[sp'] = Addr(head) /\ mem'[sp' - 1] = Addr(sp')
            /\ mem'[sp' - 2] = Addr(fp') /\ mem'[sp' - 3] = Code(depth + 1)
  <2> SUFFICES ASSUME h PROVE /\ head' = sp' /\ mem'[sp'] = Addr(head)
                              /\ mem'[sp' - 1] = Addr(sp')
                              /\ mem'[sp' - 2] = Addr(fp') /\ mem'[sp' - 3] = Code(depth + 1)
    OBVIOUS
  <2>1. /\ mem' = HandlerFrame(w, base + 4, head, base, Code(depth + 1))
        /\ base + 4 \in 4..MaxStack /\ base \in Int /\ depth + 1 \in Int
        /\ sp' = base + 4 /\ head' = base + 4
    BY <1>2, <1>3, <1>7, <1>11 DEF Call
  <2> QED
    BY <1>2, <1>3, <1>11, <2>1, FrameFacts
<1>15. ~ h => head' = head
  BY DEF Call
<1>16. /\ \A z \in 1..MaxStack : z <= sp => mem'[z] = mem[z]
       /\ mem'[fp' - 1] = Code(depth) /\ mem'[fp'] = Addr(fp)
  BY <1>2, <1>3, <1>11, <1>13
<1>17. WellFormed(scope'[depth + 1]) /\ scope'[depth + 1].at = sp
  BY <1>5, <1>6, <1>7
<1>18. scope'[depth + 1].kind = "proc" /\ (depth = 0 => scope'[1].kind = "proc")
  BY <1>6, <1>7
<1>19. head' = IF scope'[depth + 1].armed THEN sp' ELSE EndOrZero(scope, LastArmed(scope, depth))
  BY <1>6, <1>7, <1>8, <1>14, <1>15
<1>20. scope'[depth + 1].handle \/ scope'[depth + 1].armed =>
         mem'[sp'] = Addr(EndOrZero(scope, LastArmed(scope, depth)))
  BY <1>6, <1>7, <1>8, <1>14
<1>21. scope'[depth + 1].armed => /\ mem'[sp' - 1] = Addr(sp') /\ mem'[sp' - 2] = Addr(fp')
                                  /\ mem'[sp' - 3] = Code(depth + 1)
  BY <1>6, <1>7, <1>14
<1> HIDE DEF base, top
<1> QED
  BY <1>1, <1>7, <1>8, <1>9, <1>10, <1>12, <1>13, <1>16, <1>17, <1>18, <1>19, <1>20, <1>21,
     PushRun

-----------------------------------------------------------------------------
(* Constructs within a procedure.                                          *)

LEMMA OpenTryInv == ASSUME UnwindInv, OpenTry PROVE UnwindInv'
<1>1. TypeOK /\ mode = "run" /\ mode' = "run" /\ mode \in {"start", "run"}
  BY DEF UnwindInv, OpenTry, InStatements
<1>2. /\ sp \in Nat /\ fp \in Int /\ head \in Int /\ MaxStack \in Nat
      /\ mem \in [1..MaxStack -> Word]
  BY <1>1, UnwindAssumption DEF TypeOK
<1>3. PICK c : c = Block("try", TRUE) /\ OpenScope(c)
  BY DEF OpenTry
<1>4. /\ c \in Scope /\ WellFormed(c) /\ c.at = sp /\ c.kind = "try" /\ c.armed /\ Width(c) = 4
  BY <1>2, <1>3, UnwindAssumption DEF Block, Scope, WellFormed, Width
<1>5. /\ depth \in Nat /\ depth <= depth /\ depth < MaxNest /\ depth' = depth + 1
      /\ scope' \in [1..MaxNest -> Scope] /\ scope'[depth + 1] = c
      /\ Same(scope', scope, depth)
  BY <1>1, <1>3, <1>4, OpenFacts
<1>6. /\ Nest(scope, mem, depth, sp) /\ depth # 0
      /\ fp = BaseOrZero(scope, LastProc(scope, depth))
      /\ head = EndOrZero(scope, LastArmed(scope, depth))
  BY <1>1, Standing
<1>7. /\ sp' = sp + 4 /\ sp' <= MaxStack /\ sp + 4 \in 4..MaxStack /\ depth + 1 \in Int
      /\ mem' = HandlerFrame(mem, sp + 4, head, fp, Code(depth + 1))
      /\ head' = sp + 4 /\ fp' = fp /\ d1' = "other"
      /\ exception' \in Values /\ exitcode' \in Values
  BY <1>1, <1>2, <1>5 DEF OpenTry, Scratch, TypeOK
<1>8. /\ mem' \in [1..MaxStack -> Word]
      /\ mem'[sp + 4] = Addr(head) /\ mem'[(sp + 4) - 1] = Addr(sp + 4)
      /\ mem'[(sp + 4) - 2] = Addr(fp) /\ mem'[(sp + 4) - 3] = Code(depth + 1)
  BY <1>2, <1>7, FrameFacts
<1>9. \A z \in 1..MaxStack : z <= sp => mem'[z] = mem[z]
  <2>1. Same(mem', mem, (sp + 4) - 4)
    BY <1>2, <1>7, FrameFacts
  <2> QED
    BY <1>2, <2>1 DEF Same
<1>10. /\ mem'[sp'] = Addr(head) /\ mem'[sp' - 1] = Addr(sp')
       /\ mem'[sp' - 2] = Addr(fp') /\ mem'[sp' - 3] = Code(depth + 1)
  BY <1>7, <1>8
<1>11. /\ WellFormed(scope'[depth + 1]) /\ scope'[depth + 1].at = sp
       /\ scope'[depth + 1].kind # "proc" /\ scope'[depth + 1].armed
       /\ sp' = sp + Width(scope'[depth + 1])
  BY <1>4, <1>5, <1>7
<1> QED
  BY <1>1, <1>5, <1>6, <1>7, <1>8, <1>9, <1>10, <1>11, PushRun

\* SELECT and loops: opened with no handler.
LEMMA OpenBlockInv ==
  ASSUME UnwindInv, mode = "run", NEW c \in Scope, OpenScope(c),
         c.kind \in {"select", "loop"}, WellFormed(c), c.at = sp,
         sp' = sp + Width(c), sp' <= MaxStack,
         \A z \in 1..MaxStack : z <= sp => mem'[z] = mem[z],
         mem' \in [1..MaxStack -> Word], Scratch,
         UNCHANGED <<fp, head, exception, exitcode, mode>>
  PROVE  UnwindInv'
<1>1. mode \in {"start", "run"} /\ mode' = "run"
  OBVIOUS
<1>2. /\ depth \in Nat /\ depth <= depth /\ depth < MaxNest /\ depth' = depth + 1
      /\ scope' \in [1..MaxNest -> Scope] /\ scope'[depth + 1] = c
      /\ Same(scope', scope, depth)
  BY <1>1, OpenFacts
<1>3. /\ Nest(scope, mem, depth, sp) /\ depth # 0
      /\ fp' = BaseOrZero(scope, LastProc(scope, depth))
      /\ head' = EndOrZero(scope, LastArmed(scope, depth))
  BY <1>1, Standing
<1>4. exception' \in Values /\ exitcode' \in Values /\ d1' = "other"
  BY DEF UnwindInv, TypeOK, Scratch
<1>5. c.kind # "proc" /\ ~ c.armed /\ ~ c.handle
  BY DEF WellFormed
<1>6. /\ WellFormed(scope'[depth + 1]) /\ scope'[depth + 1].at = sp
      /\ scope'[depth + 1].kind # "proc" /\ ~ scope'[depth + 1].armed
      /\ ~ scope'[depth + 1].handle
      /\ sp' = sp + Width(scope'[depth + 1])
  BY <1>2, <1>5
<1> QED
  BY <1>1, <1>2, <1>3, <1>4, <1>6, PushRun

LEMMA OpenSelectInv == ASSUME UnwindInv, OpenSelect PROVE UnwindInv'
<1>1. TypeOK /\ mode = "run"
  BY DEF UnwindInv, OpenSelect, InStatements
<1>2. sp \in Nat /\ MaxStack \in Nat /\ mem \in [1..MaxStack -> Word] /\ Data \in Word
  BY <1>1, WordFacts, UnwindAssumption DEF TypeOK
<1>3. PICK c : c = Block("select", FALSE) /\ OpenScope(c)
  BY DEF OpenSelect
<1>4. c \in Scope /\ WellFormed(c) /\ c.at = sp /\ c.kind = "select" /\ Width(c) = 1
  BY <1>2, <1>3, UnwindAssumption DEF Block, Scope, WellFormed, Width
<1>5. sp' = sp + 1 /\ sp' <= MaxStack /\ mem' = [mem EXCEPT ![sp + 1] = Data] /\ Scratch
      /\ UNCHANGED <<fp, head, exception, exitcode, mode>>
  BY DEF OpenSelect
<1>6. mem' \in [1..MaxStack -> Word] /\ \A z \in 1..MaxStack : z <= sp => mem'[z] = mem[z]
  BY <1>2, <1>5
<1> QED
  BY <1>1, <1>3, <1>4, <1>5, <1>6, OpenBlockInv

LEMMA OpenLoopInv == ASSUME UnwindInv, OpenLoop PROVE UnwindInv'
<1>1. TypeOK /\ mode = "run"
  BY DEF UnwindInv, OpenLoop, InStatements
<1>2. sp \in Nat /\ sp <= MaxStack /\ mem \in [1..MaxStack -> Word]
  BY <1>1, UnwindAssumption DEF TypeOK
<1>3. PICK c : c = Block("loop", FALSE) /\ OpenScope(c)
  BY DEF OpenLoop
<1>4. c \in Scope /\ WellFormed(c) /\ c.at = sp /\ c.kind = "loop" /\ Width(c) = 0
  BY <1>2, <1>3, UnwindAssumption DEF Block, Scope, WellFormed, Width
<1>5. mem' = mem /\ Scratch /\ UNCHANGED <<fp, head, exception, exitcode, mode>>
  BY DEF OpenLoop
<1>6. sp' = sp + Width(c) /\ sp' <= MaxStack
  BY <1>2, <1>4 DEF OpenLoop
<1>7. mem' \in [1..MaxStack -> Word] /\ \A z \in 1..MaxStack : z <= sp => mem'[z] = mem[z]
  BY <1>2, <1>5
<1> QED
  BY <1>1, <1>3, <1>4, <1>5, <1>6, <1>7, OpenBlockInv

\* The innermost construct, when it is no procedure.
LEMMA TopBlock ==
  ASSUME UnwindInv, mode = "run", scope[depth].kind # "proc"
  PROVE  /\ depth - 1 \in 1..depth
         /\ WellFormed(scope[depth])
         /\ sp - Width(scope[depth]) = scope[depth].at
         /\ Nest(scope, mem, depth - 1, scope[depth].at)
         /\ fp = BaseOrZero(scope, LastProc(scope, depth - 1))
         /\ scope[depth].armed => AddrAt(sp) = EndOrZero(scope, LastArmed(scope, depth - 1))
         /\ ~ scope[depth].armed => head = EndOrZero(scope, LastArmed(scope, depth - 1))
<1>1. /\ depth \in Nat /\ depth > 0 /\ Nest(scope, mem, depth, sp)
      /\ fp = BaseOrZero(scope, LastProc(scope, depth))
      /\ head = EndOrZero(scope, LastArmed(scope, depth))
  BY Standing
<1>2. scope[1].kind = "proc"
  BY <1>1 DEF Nest, Stacked
<1>3. depth - 1 \in 1..depth /\ depth - 1 \in Nat /\ (depth - 1) + 1 = depth
      /\ depth - 1 \in 0..depth - 1 /\ depth \in 1..depth
  BY <1>1, <1>2
<1>4. /\ LastArmed(scope, depth) = IF scope[depth].armed THEN depth ELSE LastArmed(scope, depth - 1)
      /\ LastProc(scope, depth) = LastProc(scope, depth - 1)
  <2>1. /\ LastArmed(scope, (depth - 1) + 1) = IF scope[(depth - 1) + 1].armed
             THEN (depth - 1) + 1 ELSE LastArmed(scope, depth - 1)
        /\ LastProc(scope, (depth - 1) + 1) = IF scope[(depth - 1) + 1].kind = "proc"
             THEN (depth - 1) + 1 ELSE LastProc(scope, depth - 1)
    BY <1>3, LastFacts
  <2> QED
    BY <1>3, <2>1
<1>5. Nest(scope, mem, depth - 1, scope[(depth - 1) + 1].at)
  BY <1>1, <1>3, NestCut
<1>6. sp = EndOf(scope, depth) /\ Placed(scope, depth, sp)
  BY <1>1, <1>3, NestTop, NestPlaces
<1>7. WellFormed(scope[depth]) /\ HandlerWords(scope, mem, depth)
  BY <1>1, <1>3 DEF Nest
<1>8. sp - Width(scope[depth]) = scope[depth].at
  BY <1>6, <1>7, WidthFacts DEF EndOf, Placed
<1>9. ASSUME scope[depth].armed
      PROVE  AddrAt(sp) = EndOrZero(scope, LastArmed(scope, depth - 1))
  <2>1. mem[sp] = Addr(EndOrZero(scope, LastArmed(scope, depth - 1)))
    BY <1>6, <1>7, <1>9 DEF HandlerWords
  <2>2. sp \in 1..MaxStack
    BY <1>6, <1>9, UnwindAssumption DEF Placed
  <2> QED
    BY <2>1, <2>2 DEF AddrAt, At, Addr
<1> QED
  BY <1>1, <1>3, <1>4, <1>5, <1>7, <1>8, <1>9

LEMMA CloseBlockInv ==
  ASSUME UnwindInv, mode = "run", scope[depth].kind # "proc", CutTo(depth - 1),
         sp' = sp - Width(scope[depth]),
         mem' = mem \/ Drop(sp - Width(scope[depth])),
         head' = IF scope[depth].armed THEN AddrAt(sp) ELSE head,
         Scratch, UNCHANGED <<fp, exception, exitcode, mode>>
  PROVE  UnwindInv'
<1>1. TypeOK /\ d1' = "other" /\ mode' = "run" /\ exception' \in Values /\ exitcode' \in Values
  BY DEF UnwindInv, TypeOK, Scratch
<1>2. depth - 1 \in 1..depth /\ Nest(scope, mem, depth - 1, sp')
  BY TopBlock
<1>3. /\ fp' = BaseOrZero(scope, LastProc(scope, depth - 1))
      /\ head' = EndOrZero(scope, LastArmed(scope, depth - 1))
  BY TopBlock
<1>4. sp' \in Int
  BY <1>2 DEF Nest, Stacked
<1>5. mem' \in [1..MaxStack -> Word] /\ \A z \in 1..MaxStack : z <= sp' => mem'[z] = mem[z]
  <2>1. CASE mem' = mem
    BY <1>1, <2>1 DEF TypeOK
  <2>2. CASE Drop(sp - Width(scope[depth]))
    BY <1>1, <1>4, <2>2, DropFacts
  <2> QED
    BY <2>1, <2>2
<1> QED
  BY <1>1, <1>2, <1>3, <1>5, CutRun

LEMMA CloseInv ==
  ASSUME UnwindInv, CloseTry \/ CloseCatch \/ CloseSelect \/ CloseLoop
  PROVE  UnwindInv'
<1>1. mode = "run" /\ scope[depth].kind # "proc" /\ sp \in Int
  BY UnwindAssumption DEF UnwindInv, TypeOK, CloseTry, CloseCatch, CloseSelect, CloseLoop, InStatements
<1>2. WellFormed(scope[depth]) /\ sp - 0 = sp
  BY <1>1, TopBlock
<1>3. CASE CloseTry
  <2>1. scope[depth].armed /\ Width(scope[depth]) = 4
    BY <1>2, <1>3 DEF CloseTry, WellFormed, Width
  <2> QED
    BY <1>1, <1>3, <2>1, CloseBlockInv DEF CloseTry, PrevOnTop
<1>4. CASE CloseCatch
  <2>1. ~ scope[depth].armed /\ Width(scope[depth]) = 0
    BY <1>2, <1>4 DEF CloseCatch, WellFormed, Width
  <2> QED
    BY <1>1, <1>2, <1>4, <2>1, CloseBlockInv DEF CloseCatch
<1>5. CASE CloseSelect
  <2>1. ~ scope[depth].armed /\ Width(scope[depth]) = 1
    BY <1>2, <1>5 DEF CloseSelect, WellFormed, Width
  <2> QED
    BY <1>1, <1>5, <2>1, CloseBlockInv DEF CloseSelect
<1>6. CASE CloseLoop
  <2>1. ~ scope[depth].armed /\ Width(scope[depth]) = 0
    BY <1>2, <1>6 DEF CloseLoop, WellFormed, Width
  <2> QED
    BY <1>1, <1>2, <1>6, <2>1, CloseBlockInv DEF CloseLoop
<1> QED
  BY <1>3, <1>4, <1>5, <1>6

\* EXIT and CONT pass only over constructs without words and without handlers.
LEMMA LeaveLoopInv ==
  ASSUME StaysInside, UnwindInv, NEW c, LeaveLoop(c)
  PROVE  UnwindInv'
<1> DEFINE L == {i \in 1..depth : scope[i].kind = "loop"}
<1>1. /\ TypeOK /\ mode = "run" /\ mode' = "run" /\ d1' = "other"
      /\ exception' \in Values /\ exitcode' \in Values
  BY DEF UnwindInv, TypeOK, LeaveLoop, InStatements, Scratch
<1>2. /\ depth \in Nat /\ Nest(scope, mem, depth, sp)
      /\ fp = BaseOrZero(scope, LastProc(scope, depth))
      /\ head = EndOrZero(scope, LastArmed(scope, depth))
  BY <1>1, Standing
<1>3. PICK p : /\ p = CurrentProc /\ p \in 1..depth
               /\ \A k \in p + 1..depth : scope[k].kind # "proc"
  BY <1>1, InProc
<1>4. PICK l : l = Loop /\ l > p /\ l \in 1..depth /\ scope[l].kind = "loop"
  <2>1. Loop = Max0(L) /\ L \in SUBSET (1..depth)
    BY DEF Loop
  <2>2. Max0(L) \in 0..depth /\ (L # {} => Max0(L) \in L) /\ (L = {} => Max0(L) = 0)
    BY <1>2, <2>1, Max0Facts
  <2>3. Loop > p
    BY <1>3 DEF LeaveLoop
  <2>4. L # {}
    BY <1>3, <2>1, <2>2, <2>3
  <2> QED
    BY <2>1, <2>2, <2>3, <2>4
<1>5. \A k \in l + 1..depth : ~ scope[k].armed /\ scope[k].kind # "select"
  BY <1>4 DEF LeaveLoop, MayJumpOut, StaysInside
<1>6. ASSUME NEW k \in l..depth
      PROVE  ~ scope[k].armed /\ scope[k].kind # "proc" /\ Width(scope[k]) = 0
  <2>1. k \in 1..depth /\ k \in p + 1..depth
    BY <1>2, <1>3, <1>4
  <2>2. WellFormed(scope[k]) /\ scope[k].kind # "proc"
    BY <1>2, <1>3, <2>1 DEF Nest
  <2>3. CASE k = l
    BY <1>4, <2>2, <2>3, WidthFacts DEF WellFormed
  <2>4. CASE k # l
    <3>1. k \in l + 1..depth
      BY <1>2, <1>4, <2>4
    <3> QED
      BY <1>5, <2>2, <3>1, WidthFacts
  <2> QED
    BY <2>3, <2>4
<1>7. c \in {l - 1, l} /\ CutTo(c) /\ UNCHANGED <<sp, fp, mem, head>>
  BY <1>4 DEF LeaveLoop
<1>8. c \in 1..depth /\ c \in 0..depth /\ \A k \in c + 1..depth : k \in l..depth
  BY <1>2, <1>3, <1>4, <1>7
<1>9. \A k \in c + 1..depth :
        ~ scope[k].armed /\ scope[k].kind # "proc" /\ Width(scope[k]) = 0
  BY <1>6, <1>8
<1>10. Nest(scope, mem, c, sp)
  <2>1. CASE c = depth
    BY <1>2, <2>1
  <2>2. CASE c # depth
    <3>1. c \in 0..depth - 1
      BY <1>2, <1>8, <2>2
    <3>2. NoWords(scope, c, depth)
      BY <1>9 DEF NoWords
    <3>3. scope[c + 1].at = sp
      BY <1>2, <3>1, <3>2, NestNoWords
    <3>4. Nest(scope, mem, c, scope[c + 1].at)
      BY <1>2, <3>1, NestCut
    <3> QED
      BY <3>3, <3>4
  <2> QED
    BY <2>1, <2>2
<1>11. LastArmed(scope, depth) = LastArmed(scope, c) /\ LastProc(scope, depth) = LastProc(scope, c)
  BY <1>2, <1>8, <1>9, LastSkips
<1>12. /\ Nest(scope, mem, c, sp')
       /\ fp' = BaseOrZero(scope, LastProc(scope, c))
       /\ head' = EndOrZero(scope, LastArmed(scope, c))
       /\ mem' \in [1..MaxStack -> Word] /\ \A z \in 1..MaxStack : z <= sp' => mem'[z] = mem[z]
  BY <1>1, <1>2, <1>7, <1>10, <1>11 DEF TypeOK
<1> QED
  BY <1>1, <1>7, <1>8, <1>12, CutRun

-----------------------------------------------------------------------------
(* Procedures.                                                             *)

\* The innermost construct is a procedure: it is the one the program is in.
LEMMA TopProc ==
  ASSUME UnwindInv, mode = "run", scope[depth].kind = "proc"
  PROVE  depth = CurrentProc /\ depth \in 1..depth /\ depth \in Nat
<1>1. depth \in Nat /\ depth > 0
  BY Standing
<1> DEFINE P == {i \in 1..depth : scope[i].kind = "proc"}
<1>2. depth \in P /\ P \in SUBSET (1..depth)
  BY <1>1
<1>3. \A j \in P : j <= depth
  BY <1>1
<1>4. CurrentProc = Max0(P)
  BY DEF CurrentProc
<1> HIDE DEF P
<1>5. Max0(P) = depth
  BY <1>1, <1>2, <1>3, Max0Is
<1> QED
  BY <1>1, <1>4, <1>5

\* The innermost procedure goes on to its EXCEPT part or its return values.
LEMMA TurnInv ==
  ASSUME UnwindInv, mode = "run", scope[depth].kind = "proc",
         NEW c, WellFormed(c), c.kind = "proc", c.handle = scope[depth].handle,
         c.args = scope[depth].args, c.at = scope[depth].at,
         c.armed => scope[depth].armed,
         scope' = [scope EXCEPT ![depth] = c],
         head' = IF scope[depth].armed /\ ~ c.armed THEN PrevOf(fp) ELSE head,
         exception' \in Values, Scratch, UNCHANGED <<depth, sp, fp, mem, exitcode, mode>>
  PROVE  UnwindInv'
<1>1. /\ TypeOK /\ mode \in {"start", "run"} /\ mode' = "run" /\ d1' = "other"
      /\ exitcode' \in Values /\ mem' \in [1..MaxStack -> Word]
  BY DEF UnwindInv, TypeOK, Scratch
<1>2. /\ depth \in Nat /\ depth > 0 /\ depth <= MaxNest /\ MaxNest \in Nat
      /\ Nest(scope, mem, depth, sp)
      /\ head = EndOrZero(scope, LastArmed(scope, depth))
  BY Standing, UnwindAssumption
<1>3. depth = CurrentProc
  BY TopProc
<1>4. PICK d \in Nat : d = depth - 1 /\ d + 1 = depth /\ d <= depth /\ d < MaxNest
                       /\ d \in 0..depth - 1
  BY <1>2
<1>5. Nest(scope, mem, d, scope[depth].at)
  BY <1>2, <1>4, NestCut
<1>6. /\ fp = BaseOf(scope, depth)
      /\ scope[depth].handle => PrevOf(fp) = EndOrZero(scope, LastArmed(scope, d))
  BY <1>3, <1>4, InProc
<1>7. /\ WellFormed(scope[depth]) /\ ProcWords(scope, mem, depth)
      /\ HandlerWords(scope, mem, depth)
  BY <1>2 DEF Nest
<1>8. Width(c) = Width(scope[depth]) /\ (c.armed => c.handle)
  BY <1>7, WidthFacts DEF WellFormed
<1>9. sp = EndOf(scope, depth) /\ sp \in 0..MaxStack
  BY <1>2, NestTop DEF Nest, Stacked
<1>10. /\ scope'[depth] = c /\ scope' \in [1..MaxNest -> Scope] /\ Same(scope', scope, d)
  <2>1. scope \in [1..MaxNest -> Scope] /\ depth \in 1..MaxNest /\ c \in Scope
    BY <1>1, <1>2 DEF TypeOK, WellFormed
  <2> QED
    BY <1>2, <1>4, <2>1 DEF Same
<1>11. /\ sp' = scope[depth].at + Width(scope'[depth]) /\ sp' <= MaxStack
       /\ fp' = BaseOf(scope', depth)
  BY <1>6, <1>8, <1>9, <1>10, UnwindAssumption DEF EndOf, BaseOf
<1>12. /\ mem'[fp' - 1] = Code(d)
       /\ mem'[fp'] = Addr(BaseOrZero(scope, LastProc(scope, d)))
  BY <1>4, <1>6, <1>7 DEF ProcWords
<1>13. c.handle => mem'[sp'] = Addr(EndOrZero(scope, LastArmed(scope, d)))
  BY <1>4, <1>7, <1>9 DEF HandlerWords
<1>14. /\ LastArmed(scope, depth) = IF scope[depth].armed THEN depth ELSE LastArmed(scope, d)
       /\ LastProc(scope, depth) = depth
  <2>1. /\ LastArmed(scope, d + 1) = IF scope[d + 1].armed THEN d + 1 ELSE LastArmed(scope, d)
        /\ LastProc(scope, d + 1) = IF scope[d + 1].kind = "proc" THEN d + 1
                                    ELSE LastProc(scope, d)
    BY LastFacts
  <2> QED
    BY <1>4, <2>1
<1>15. c.armed => /\ mem'[sp' - 1] = Addr(sp') /\ mem'[sp' - 2] = Addr(fp')
                  /\ mem'[sp' - 3] = Code(depth)
  BY <1>2, <1>6, <1>7, <1>9, <1>14 DEF HandlerWords, BaseOrZero
<1>16. head' = IF c.armed THEN sp' ELSE EndOrZero(scope, LastArmed(scope, d))
  <2>1. CASE c.armed
    BY <1>2, <1>9, <1>14, <2>1 DEF EndOrZero
  <2>2. CASE ~ c.armed /\ scope[depth].armed
    BY <1>6, <1>7, <2>2 DEF WellFormed
  <2>3. CASE ~ c.armed /\ ~ scope[depth].armed
    BY <1>2, <1>14, <2>3
  <2> QED
    BY <2>1, <2>2, <2>3
<1>17. \A z \in 1..MaxStack : z <= scope[depth].at => mem'[z] = mem[z]
  OBVIOUS
<1>18. d = 0 => scope'[1].kind = "proc"
  BY <1>4, <1>10
<1>19. depth' = d + 1 /\ scope'[d + 1] = c /\ scope'[depth] = scope'[d + 1]
  BY <1>4, <1>10
<1>20. /\ d \in Nat /\ d <= depth /\ d < MaxNest /\ depth' = d + 1
       /\ WellFormed(scope'[d + 1]) /\ scope'[d + 1].at = scope[depth].at
       /\ scope' \in [1..MaxNest -> Scope] /\ Same(scope', scope, d)
       /\ sp' = scope[depth].at + Width(scope'[d + 1]) /\ sp' <= MaxStack
  BY <1>4, <1>10, <1>11, <1>19
<1>21. scope'[d + 1].kind = "proc" /\ fp' = BaseOf(scope', d + 1)
  BY <1>4, <1>11, <1>19
<1>22. head' = IF scope'[d + 1].armed THEN sp' ELSE EndOrZero(scope, LastArmed(scope, d))
  BY <1>16, <1>19
<1>23. scope'[d + 1].handle \/ scope'[d + 1].armed =>
         mem'[sp'] = Addr(EndOrZero(scope, LastArmed(scope, d)))
  BY <1>8, <1>13, <1>19
<1>24. scope'[d + 1].armed =>
         /\ mem'[sp' - 1] = Addr(sp') /\ mem'[sp' - 2] = Addr(fp') /\ mem'[sp' - 3] = Code(d + 1)
  BY <1>4, <1>15, <1>19
<1> QED
  BY <1>1, <1>5, <1>12, <1>17, <1>18, <1>20, <1>21, <1>22, <1>23, <1>24, PushRun

LEMMA BodyEndsInv == ASSUME UnwindInv, BodyEnds PROVE UnwindInv'
<1>1. /\ TypeOK /\ mode = "run" /\ scope[depth].kind = "proc" /\ scope[depth].phase = "body"
      /\ Scratch /\ UNCHANGED <<depth, sp, fp, mem, exitcode, mode>>
  BY DEF UnwindInv, BodyEnds
<1>2. depth \in Nat /\ depth > 0 /\ depth <= MaxNest /\ WellFormed(scope[depth])
  BY <1>1, Standing DEF Nest
<1>3. scope \in [1..MaxNest -> Scope] /\ depth \in 1..MaxNest
  BY <1>1, <1>2, UnwindAssumption DEF TypeOK
<1>4. CASE scope[depth].auto
  <2> DEFINE c == [scope[depth] EXCEPT !.phase = "except", !.armed = FALSE]
  <2>1. scope' = [scope EXCEPT ![depth] = c]
    BY <1>3, <1>4 DEF BodyEnds, Scope
  <2>2. /\ WellFormed(c) /\ c.kind = "proc" /\ c.handle = scope[depth].handle
        /\ c.args = scope[depth].args /\ c.at = scope[depth].at /\ ~ c.armed
    BY <1>1, <1>2 DEF WellFormed, Scope
  <2>3. scope[depth].armed
    BY <1>1, <1>2, <1>4 DEF WellFormed
  <2>4. head' = PrevOf(fp) /\ exception' \in Values
    BY <1>4, UnwindAssumption DEF BodyEnds, ClearException
  <2> HIDE DEF c
  <2> QED
    BY <1>1, <2>1, <2>2, <2>3, <2>4, TurnInv
<1>5. CASE ~ scope[depth].auto
  <2> DEFINE c == [scope[depth] EXCEPT !.phase = "rets"]
  <2>1. scope' = [scope EXCEPT ![depth] = c]
    BY <1>3, <1>5 DEF BodyEnds, Scope
  <2>2. /\ WellFormed(c) /\ c.kind = "proc" /\ c.handle = scope[depth].handle
        /\ c.args = scope[depth].args /\ c.at = scope[depth].at /\ c.armed = scope[depth].armed
    BY <1>1, <1>2 DEF WellFormed, Scope
  <2>3. head' = head /\ exception' \in Values
    BY <1>1, <1>5 DEF BodyEnds, TypeOK
  <2> HIDE DEF c
  <2> QED
    BY <1>1, <2>1, <2>2, <2>3, TurnInv
<1> QED
  BY <1>4, <1>5

LEMMA ExceptEndsInv == ASSUME UnwindInv, ExceptEnds PROVE UnwindInv'
<1>1. /\ TypeOK /\ mode = "run" /\ scope[depth].kind = "proc"
      /\ Scratch /\ UNCHANGED <<depth, sp, fp, mem, head, exception, exitcode, mode>>
  BY DEF UnwindInv, ExceptEnds
<1>2. depth \in Nat /\ depth > 0 /\ depth <= MaxNest /\ WellFormed(scope[depth])
  BY <1>1, Standing DEF Nest
<1>3. scope \in [1..MaxNest -> Scope] /\ depth \in 1..MaxNest
  BY <1>1, <1>2, UnwindAssumption DEF TypeOK
<1> DEFINE c == [scope[depth] EXCEPT !.phase = "rets"]
<1>4. scope' = [scope EXCEPT ![depth] = c]
  BY <1>3 DEF ExceptEnds, Scope
<1>5. /\ WellFormed(c) /\ c.kind = "proc" /\ c.handle = scope[depth].handle
      /\ c.args = scope[depth].args /\ c.at = scope[depth].at /\ c.armed = scope[depth].armed
  BY <1>1, <1>2 DEF WellFormed, Scope
<1>6. exception' \in Values
  BY <1>1 DEF TypeOK
<1> HIDE DEF c
<1> QED
  BY <1>1, <1>4, <1>5, <1>6, TurnInv

\* The epilogue: nothing armed is left behind but the procedure's own handler.
LEMMA EpilogueInv ==
  ASSUME UnwindInv, mode = "run", NEW p, p = CurrentProc, NEW multi, Epilogue(p, multi),
         scope[p].handle \/ \A k \in p..depth : ~ scope[k].armed
  PROVE  UnwindInv'
<1>1. TypeOK /\ depth \in Nat /\ Nest(scope, mem, depth, sp)
      /\ head = EndOrZero(scope, LastArmed(scope, depth))
  BY Standing DEF UnwindInv
<1>2. /\ p \in 1..depth /\ fp - 2 - scope[p].args = scope[p].at
      /\ At(fp - 1) = Code(p - 1)
      /\ AddrAt(fp) = BaseOrZero(scope, LastProc(scope, p - 1))
      /\ scope[p].handle => PrevOf(fp) = EndOrZero(scope, LastArmed(scope, p - 1))
  BY InProc
<1>3. /\ CutTo(p - 1) /\ sp' = scope[p].at /\ Drop(scope[p].at)
      /\ fp' = BaseOrZero(scope, LastProc(scope, p - 1))
      /\ mode' = IF p = 1 THEN "exit" ELSE mode
      /\ UNCHANGED <<exception, exitcode>>
  BY <1>2 DEF Epilogue
<1>4. /\ head' = IF scope[p].handle THEN PrevOf(fp) ELSE head
      /\ d1' \in {"second", "chain", "other"}
  BY DEF Epilogue, Unlink
<1>5. p - 1 \in 0..depth - 1 /\ p - 1 \in 0..depth /\ (p - 1) + 1 = p /\ p - 1 \in Nat
  BY <1>1, <1>2
<1>6. Nest(scope, mem, p - 1, sp')
  BY <1>1, <1>3, <1>5, NestCut
<1>7. head' = EndOrZero(scope, LastArmed(scope, p - 1))
  <2>1. CASE scope[p].handle
    BY <1>2, <1>4, <2>1
  <2>2. CASE ~ scope[p].handle
    <3>1. \A k \in (p - 1) + 1..depth : ~ scope[k].armed
      BY <1>5, <2>2
    <3>2. LastArmed(scope, depth) = LastArmed(scope, p - 1)
      BY <1>1, <1>5, <3>1, LastSkips
    <3> QED
      BY <1>1, <1>4, <2>2, <3>2
  <2> QED
    BY <2>1, <2>2
<1>8. sp' \in 0..MaxStack /\ sp' \in Int
  BY <1>6, UnwindAssumption DEF Nest, Stacked
<1>9. mem' \in [1..MaxStack -> Word] /\ \A z \in 1..MaxStack : z <= sp' => mem'[z] = mem[z]
  BY <1>1, <1>3, <1>8, DropFacts
<1>10. exception' \in Values /\ exitcode' \in Values
  BY <1>1, <1>3 DEF TypeOK
<1>11. CASE p = 1
  <2>1. depth' \in 0..MaxNest /\ scope' \in [1..MaxNest -> Scope]
    BY <1>1, <1>3, <1>5, CutFacts
  <2>2. fp' \in 0..MaxStack /\ head' \in 0..MaxStack
    BY <1>3, <1>5, <1>6, <1>7, NestRegisters
  <2>3. mode' = "exit"
    BY <1>3, <1>11
  <2> QED
    BY <1>4, <1>8, <1>9, <1>10, <2>1, <2>2, <2>3 DEF UnwindInv, TypeOK
<1>12. CASE p # 1
  <2>1. p - 1 \in 1..depth /\ mode' = "run"
    BY <1>1, <1>2, <1>3, <1>12
  <2> QED
    BY <1>3, <1>4, <1>6, <1>7, <1>9, <1>10, <2>1, CutRun
<1> QED
  BY <1>11, <1>12

LEMMA ReturnInv ==
  ASSUME StaysInside, UnwindInv, NEW multi, Return(multi)
  PROVE  UnwindInv'
<1>1. PICK p : p = CurrentProc
  OBVIOUS
<1>2. mode = "run" /\ Epilogue(p, multi)
  BY <1>1 DEF Return, InStatements
<1>3. scope[p].handle \/ \A k \in p..depth : ~ scope[k].armed
  BY <1>1 DEF Return, StaysInside
<1> QED
  BY <1>1, <1>2, <1>3, EpilogueInv

LEMMA EndProcInv ==
  ASSUME UnwindInv, NEW multi, EndProc(multi)
  PROVE  UnwindInv'
<1>1. mode = "run" /\ scope[depth].phase = "rets" /\ Epilogue(depth, multi)
  BY DEF EndProc
<1>2. depth \in Nat /\ depth > 0 /\ WellFormed(scope[depth])
  BY <1>1, Standing DEF Nest
<1>3. scope[depth].kind = "proc"
  BY <1>1, <1>2 DEF WellFormed, Scope
<1>4. PICK p : p = CurrentProc /\ p = depth
  BY <1>1, <1>3, TopProc
<1>5. scope[p].handle \/ \A k \in p..depth : ~ scope[k].armed
  BY <1>2, <1>3, <1>4 DEF WellFormed
<1> QED
  BY <1>1, <1>4, <1>5, EpilogueInv

-----------------------------------------------------------------------------
(* Exceptions.                                                             *)

LEMMA TerminateInv ==
  ASSUME UnwindInv, NEW v \in Values, Terminate(v), exception' \in Values
  PROVE  UnwindInv'
<1>1. TypeOK /\ 0 \in 0..depth
  BY UnwindAssumption DEF UnwindInv, TypeOK
<1>2. depth' \in 0..MaxNest /\ scope' \in [1..MaxNest -> Scope]
  BY <1>1, CutFacts DEF Terminate
<1>3. mem' \in [1..MaxStack -> Word]
  BY <1>1, DropFacts DEF Terminate
<1>4. /\ sp' = 0 /\ exitcode' = v /\ mode' = "exit" /\ d1' = "other" /\ fp' = fp /\ head' = head
  BY DEF Terminate, Scratch
<1> QED
  BY <1>1, <1>2, <1>3, <1>4, UnwindAssumption DEF UnwindInv, TypeOK

LEMMA AlwaysResumable == ASSUME UnwindInv, mode = "run", head # 0 PROVE Resumable
<1>1. PICK d : d = LastArmed(scope, depth)
  OBVIOUS
<1>2. /\ d \in 1..depth /\ scope[d].armed /\ FramePc = Code(d) /\ FrameSp = head
      /\ FrameFp = BaseOrZero(scope, LastProc(scope, d)) /\ head - 4 \in Nat
  BY <1>1, InFrame
<1>3. depth \in Nat /\ Nest(scope, mem, depth, sp) /\ head \in Int
  BY Standing, UnwindAssumption DEF UnwindInv, TypeOK
<1>4. WellFormed(scope[d])
  BY <1>2, <1>3 DEF Nest
<1>5. scope[d].kind \in {"try", "proc"}
  BY <1>2, <1>4 DEF WellFormed, Scope
<1>6. FrameSp # Lost
  BY <1>2, <1>3 DEF Lost
<1>7. FrameFp # Lost
  <2>1. FrameFp \in 0..MaxStack
    <3>1. CASE d = depth
      BY <1>2, <1>3, <3>1, NestRegisters
    <3>2. CASE d # depth
      <4>1. d \in 0..depth - 1 /\ d \in Nat
        BY <1>2, <1>3, <3>2
      <4> QED
        BY <1>2, <1>3, <4>1, NestCut, NestRegisters
    <3> QED
      BY <3>1, <3>2
  <2> QED
    BY <2>1, UnwindAssumption DEF Lost
<1> QED
  BY <1>2, <1>5, <1>6, <1>7 DEF Resumable, Code

LEMMA ResumeInv ==
  ASSUME UnwindInv, mode = "run", head # 0, Resume, exception' \in Values
  PROVE  UnwindInv'
<1>1. PICK d : d = LastArmed(scope, depth)
  OBVIOUS
<1>2. /\ d \in 1..depth /\ scope[d].armed /\ head = EndOf(scope, d)
      /\ FramePc = Code(d) /\ FrameSp = head
      /\ FrameFp = BaseOrZero(scope, LastProc(scope, d))
      /\ AddrAt(head) = EndOrZero(scope, LastArmed(scope, d - 1))
      /\ head - 4 \in Nat
  BY <1>1, InFrame
<1>3. /\ TypeOK /\ depth \in Nat /\ depth <= MaxNest /\ MaxNest \in Nat
      /\ Nest(scope, mem, depth, sp) /\ head \in 0..MaxStack /\ MaxStack \in Nat
      /\ scope \in [1..MaxNest -> Scope] /\ mode \in {"start", "run"}
  BY Standing, UnwindAssumption DEF UnwindInv, TypeOK
<1>4. FramePc.v = d
  BY <1>2 DEF Code
<1>5. /\ WellFormed(scope[d]) /\ ProcWords(scope, mem, d)
      /\ HandlerWords(scope, mem, d) /\ Placed(scope, d, sp)
  BY <1>2, <1>3, NestPlaces DEF Nest
<1> DEFINE c == [scope[d] EXCEPT
                   !.phase = IF scope[d].kind = "try" THEN "catch" ELSE "except",
                   !.armed = FALSE]
<1>6. PICK e \in Nat : e = d - 1 /\ e + 1 = d /\ e <= depth /\ e < MaxNest /\ e \in 0..depth - 1
  BY <1>2, <1>3
<1>7. /\ depth' = d /\ d1' = "other" /\ mode' = "run" /\ exitcode' \in Values
      /\ fp' = FrameFp
      /\ scope' = [i \in 1..MaxNest |-> IF i > d THEN NoScope ELSE IF i = d THEN c ELSE scope[i]]
  BY <1>3, <1>4 DEF Resume, Scratch, TypeOK
<1>8. /\ c \in Scope /\ WellFormed(c) /\ c.kind = scope[d].kind /\ c.at = scope[d].at
      /\ c.args = scope[d].args /\ c.handle = scope[d].handle /\ ~ c.armed
  BY <1>2, <1>5 DEF WellFormed, Scope
<1> HIDE DEF c
<1>9. NoScope \in Scope
  BY UnwindAssumption DEF NoScope, Scope
<1>10. /\ scope' \in [1..MaxNest -> Scope] /\ scope'[d] = c /\ Same(scope', scope, e)
  BY <1>2, <1>3, <1>6, <1>7, <1>8, <1>9 DEF Same
<1>11. Nest(scope, mem, e, scope[d].at)
  BY <1>3, <1>6, NestCut
<1>12. LastProc(scope, d) = IF scope[d].kind = "proc" THEN d ELSE LastProc(scope, e)
  <2>1. LastProc(scope, e + 1) = IF scope[e + 1].kind = "proc" THEN e + 1 ELSE LastProc(scope, e)
    BY LastFacts
  <2> QED
    BY <1>6, <2>1
<1>13. e = 0 => scope'[1].kind = "proc"
  <2> SUFFICES ASSUME e = 0 PROVE scope'[1].kind = "proc"
    OBVIOUS
  <2>1. d = 1 /\ scope[1].kind = "proc"
    BY <1>3, <1>6 DEF Nest, Stacked
  <2> QED
    BY <1>8, <1>10, <2>1
<1>14. /\ depth' = e + 1 /\ scope'[e + 1] = c /\ WellFormed(scope'[e + 1])
       /\ scope'[e + 1].at = scope[d].at /\ ~ scope'[e + 1].armed
  BY <1>6, <1>7, <1>8, <1>10
<1>15. CASE scope[d].kind = "try"
  <2>1. Width(scope[d]) = 4 /\ Width(c) = 0
    BY <1>2, <1>5, <1>8, <1>15, WidthFacts
  <2>2. /\ sp' = head - 4 /\ Drop(head - 4) /\ head' = AddrAt(head)
    BY <1>2, <1>4, <1>15 DEF Resume
  <2>3. head - 4 = scope[d].at /\ head - 4 \in Int
    BY <1>2, <1>5, <2>1 DEF EndOf, Placed
  <2>4. sp' = scope[d].at + Width(scope'[e + 1]) /\ sp' <= MaxStack /\ sp' = scope[d].at
    BY <1>3, <1>14, <2>1, <2>2, <2>3
  <2>5. /\ mem' \in [1..MaxStack -> Word]
        /\ \A z \in 1..MaxStack : z <= scope[d].at => mem'[z] = mem[z]
    BY <1>3, <2>2, <2>3, DropFacts
  <2>6. scope'[e + 1].kind # "proc" /\ ~ scope'[e + 1].handle
    BY <1>5, <1>8, <1>14, <1>15 DEF WellFormed
  <2>7. /\ fp' = BaseOrZero(scope, LastProc(scope, e))
        /\ head' = EndOrZero(scope, LastArmed(scope, e))
    BY <1>2, <1>6, <1>7, <1>12, <1>15, <2>2
  <2> QED
    BY <1>3, <1>6, <1>7, <1>10, <1>11, <1>13, <1>14, <2>4, <2>5, <2>6, <2>7, PushRun
<1>16. CASE scope[d].kind # "try"
  <2>1. scope[d].kind = "proc" /\ scope[d].handle
    BY <1>2, <1>5, <1>16 DEF WellFormed, Scope
  <2>2. Width(c) = Width(scope[d])
    BY <1>5, <1>8, <2>1, WidthFacts
  <2>3. fp' = BaseOf(scope, d) /\ head = fp' + 4 /\ fp' \in Nat /\ fp' - 1 \in Nat /\ fp' > 1
    <3>1. fp' = BaseOf(scope, d)
      BY <1>2, <1>7, <1>12, <2>1 DEF BaseOrZero
    <3>2. head = BaseOf(scope, d) + 4 /\ BaseOf(scope, d) \in Nat
          /\ BaseOf(scope, d) - 1 \in Nat /\ BaseOf(scope, d) > 1
      BY <1>2, <1>5, <2>1 DEF Placed
    <3> QED
      BY <3>1, <3>2
  <2>4. /\ sp' = head /\ Drop(head) /\ head' = AddrAt(head)
    BY <1>2, <1>4, <1>7, <1>16, <2>3 DEF Resume, PrevOf
  <2>5. sp' = scope[d].at + Width(scope'[e + 1]) /\ sp' <= MaxStack /\ head \in Int
    BY <1>2, <1>3, <1>14, <2>2, <2>4 DEF EndOf
  <2>6. mem' \in [1..MaxStack -> Word] /\ \A z \in 1..MaxStack : z <= head => mem'[z] = mem[z]
    BY <1>3, <2>4, <2>5, DropFacts
  <2>7. \A z \in 1..MaxStack : z <= scope[d].at => mem'[z] = mem[z]
    BY SMTT(20), <1>2, <1>3, <1>5, <2>6 DEF Placed
  <2>8. fp' = BaseOf(scope', e + 1) /\ scope'[e + 1].kind = "proc"
    BY <1>8, <1>14, <2>1, <2>3 DEF BaseOf
  <2>9. fp' \in 1..MaxStack /\ fp' - 1 \in 1..MaxStack /\ head \in 1..MaxStack
    BY <1>3, <2>3
  <2>10. mem'[fp' - 1] = Code(e) /\ mem'[fp'] = Addr(BaseOrZero(scope, LastProc(scope, e)))
    <3>1. mem[fp' - 1] = Code(e) /\ mem[fp'] = Addr(BaseOrZero(scope, LastProc(scope, e)))
      BY <1>5, <1>6, <2>1, <2>3 DEF ProcWords
    <3> QED
      BY <2>3, <2>6, <2>9, <3>1
  <2>11. mem'[sp'] = Addr(EndOrZero(scope, LastArmed(scope, e)))
    <3>1. mem[head] = Addr(EndOrZero(scope, LastArmed(scope, e)))
      BY <1>2, <1>5, <1>6 DEF HandlerWords
    <3> QED
      BY <2>4, <2>5, <2>6, <2>9, <3>1
  <2>12. head' = EndOrZero(scope, LastArmed(scope, e))
    BY <1>2, <1>6, <2>4
  <2> QED
    BY <1>3, <1>6, <1>7, <1>10, <1>11, <1>13, <1>14, <2>5, <2>6, <2>7, <2>8, <2>10, <2>11, <2>12,
       PushRun
<1> QED
  BY <1>15, <1>16

LEMMA RaiseInv ==
  ASSUME UnwindInv, NEW v \in Values, DoRaise(v)
  PROVE  UnwindInv'
<1>1. mode = "run" /\ exception' \in Values
  BY DEF DoRaise
<1>2. CASE head = 0
  BY <1>1, <1>2, TerminateInv DEF DoRaise
<1>3. CASE head # 0
  <2>1. Resumable
    BY <1>1, <1>3, AlwaysResumable
  <2> QED
    BY <1>1, <1>3, <2>1, ResumeInv DEF DoRaise
<1> QED
  BY <1>2, <1>3

-----------------------------------------------------------------------------
(* The invariant holds.                                                    *)

LEMMA NextInv == StaysInside /\ UnwindInv /\ [Next]_vars => UnwindInv'
<1> SUFFICES ASSUME StaysInside, UnwindInv, [Next]_vars PROVE UnwindInv'
  OBVIOUS
<1>1. CASE \E h, a \in BOOLEAN : \E n \in 0..MaxArgs : Call(h, a, n)
  BY <1>1, CallInv
<1>2. CASE OpenTry \/ OpenSelect \/ OpenLoop
  BY <1>2, OpenTryInv, OpenSelectInv, OpenLoopInv
<1>3. CASE CloseTry \/ CloseCatch \/ CloseSelect \/ CloseLoop
  BY <1>3, CloseInv
<1>4. CASE \E d \in 0..MaxNest : LeaveLoop(d)
  BY <1>4, LeaveLoopInv
<1>5. CASE BodyEnds \/ ExceptEnds
  BY <1>5, BodyEndsInv, ExceptEndsInv
<1>6. CASE \E multi \in BOOLEAN : Return(multi) \/ EndProc(multi)
  BY <1>6, ReturnInv, EndProcInv
<1>7. CASE \E v \in Values : Raise(v) \/ CleanUp(v)
  <2>1. PICK v \in Values : Raise(v) \/ CleanUp(v)
    BY <1>7
  <2>2. CASE Raise(v)
    BY <2>2, RaiseInv DEF Raise
  <2>3. CASE CleanUp(v)
    BY <2>3, TerminateInv DEF CleanUp, UnwindInv, TypeOK
  <2> QED
    BY <2>1, <2>2, <2>3
<1>8. CASE ReThrow
  <2>1. exception \in Values /\ DoRaise(exception)
    BY <1>8 DEF ReThrow, UnwindInv, TypeOK
  <2> QED
    BY <2>1, RaiseInv
<1>9. CASE UNCHANGED vars
  BY <1>9 DEF vars, UnwindInv, TypeOK, RunInv
<1> QED
  BY <1>1, <1>2, <1>3, <1>4, <1>5, <1>6, <1>7, <1>8, <1>9 DEF Next

\* What emitProc, the statements and __raise keep of stack, frame and chain at every step.
THEOREM UnwindInvariant == ASSUME StaysInside PROVE Spec => []UnwindInv
<1>1. Init => UnwindInv
  BY InitInv
<1>2. UnwindInv /\ [Next]_vars => UnwindInv'
  BY NextInv
<1> QED
  BY <1>1, <1>2, PTL DEF Spec

\* Every variable has its type.
THEOREM UnwindTypes == ASSUME StaysInside PROVE Spec => []TypeOK
<1>1. UnwindInv => TypeOK
  BY DEF UnwindInv
<1> QED
  BY <1>1, UnwindInvariant, PTL

\* A7 is where the open constructs put it: the code after a construct, after a
\* call and after a caught exception finds the stack it left.
THEOREM UnwindBalanced == ASSUME StaysInside PROVE Spec => []StackBalanced
<1>1. UnwindInv => StackBalanced
  <2> SUFFICES ASSUME UnwindInv, mode = "run"
               PROVE  /\ scope[1].at = 0
                      /\ \A i \in 1..depth - 1 : scope[i + 1].at = scope[i].at + Width(scope[i])
                      /\ sp = scope[depth].at + Width(scope[depth])
    BY DEF StackBalanced
  <2>1. depth \in Nat /\ depth > 0 /\ Nest(scope, mem, depth, sp)
    BY Standing
  <2>2. scope[1].at = 0
    BY <2>1 DEF Nest, Stacked
  <2>3. sp = EndOf(scope, depth)
    BY <2>1, NestTop
  <2>4. ASSUME NEW i \in 1..depth - 1
        PROVE  scope[i + 1].at = EndOf(scope, i)
    <3>1. i \in 0..depth - 1 /\ i \in Nat /\ i > 0
      BY <2>1
    <3>2. Nest(scope, mem, i, scope[i + 1].at)
      BY <2>1, <3>1, NestCut
    <3> QED
      BY <3>1, <3>2, NestTop
  <2> QED
    BY <2>2, <2>3, <2>4 DEF EndOf
<1> QED
  BY <1>1, UnwindInvariant, PTL

\* The chain at 28(A4) is the armed constructs, innermost first, and each frame
\* says where to go on and with which A7.
THEOREM UnwindChain == ASSUME StaysInside PROVE Spec => []ChainIsArmed
<1>1. UnwindInv => ChainIsArmed
  <2> SUFFICES ASSUME UnwindInv, mode = "run"
               PROVE  /\ head = FrameOrNone(ArmedUpTo(depth))
                      /\ \A i \in 1..depth : scope[i].armed =>
                           /\ mem[FrameOf(i)] = Addr(FrameOrNone(ArmedUpTo(i - 1)))
                           /\ mem[FrameOf(i) - 1] = Addr(FrameOf(i))
                           /\ mem[FrameOf(i) - 3] = Code(i)
    BY DEF ChainIsArmed
  <2>1. \A i : /\ FrameOf(i) = EndOf(scope, i) /\ ArmedUpTo(i) = LastArmed(scope, i)
               /\ FrameOrNone(i) = EndOrZero(scope, i)
    BY DEF FrameOf, EndOf, ArmedUpTo, LastArmed, FrameOrNone, EndOrZero
  <2>2. Nest(scope, mem, depth, sp) /\ head = EndOrZero(scope, LastArmed(scope, depth))
    BY Standing
  <2>3. \A i \in 1..depth : HandlerWords(scope, mem, i)
    BY <2>2 DEF Nest
  <2> QED
    BY <2>1, <2>2, <2>3 DEF HandlerWords
<1> QED
  BY <1>1, UnwindInvariant, PTL

\* Neither rts nor __raise goes on at a word that is not what was put there.
THEOREM UnwindNeverWild == ASSUME StaysInside PROVE Spec => []NeverWild
<1>1. UnwindInv => NeverWild
  BY DEF UnwindInv, NeverWild
<1> QED
  BY <1>1, UnwindInvariant, PTL

-----------------------------------------------------------------------------
(* The machine implements the language.                                    *)

\* What the language sees of a construct, and of a nest of them.
Shown(c) == [kind |-> c.kind, handle |-> c.handle, auto |-> c.auto,
             phase |-> c.phase, armed |-> c.armed]

NestIn(s, d) == [i \in 1..d |-> Shown(s[i])]

\* A construct whose handler is unlinked when part p of it begins.
Disarmed(c, p) == [c EXCEPT !.phase = p, !.armed = FALSE]

LEMMA ShownDisarmed ==
  ASSUME NEW c \in Scope, NEW p
  PROVE  Shown(Disarmed(c, p)) = [Shown(c) EXCEPT !.phase = p, !.armed = FALSE]
<1> PICK q : q = FALSE
  OBVIOUS
<1> DEFINE r == [kind |-> c.kind, handle |-> c.handle, auto |-> c.auto,
                 phase |-> p, armed |-> c.armed]
           e == Disarmed(c, p)
<1>1. [Shown(c) EXCEPT !.phase = p, !.armed = q] = [[Shown(c) EXCEPT !.phase = p] EXCEPT !.armed = q]
  OBVIOUS
<1>2. [Shown(c) EXCEPT !.phase = p] = r
  BY DEF Shown
<1>3. [r EXCEPT !.armed = q] = [kind |-> c.kind, handle |-> c.handle, auto |-> c.auto,
                                phase |-> p, armed |-> q]
  OBVIOUS
<1>4. /\ e.kind = c.kind /\ e.handle = c.handle /\ e.auto = c.auto
      /\ e.phase = p /\ e.armed = q
  BY DEF Disarmed, Scope
<1> HIDE DEF e
<1>5. Shown(e) = [kind |-> c.kind, handle |-> c.handle, auto |-> c.auto,
                  phase |-> p, armed |-> q]
  BY <1>4 DEF Shown
<1> HIDE DEF r
<1>6. Shown(e) = [Shown(c) EXCEPT !.phase = p, !.armed = q]
  BY <1>1, <1>2, <1>3, <1>5
<1> QED
  BY <1>6 DEF e

LEMMA ShownNest == NestOf = NestIn(scope, depth) /\ NestOf' = NestIn(scope', depth')
  BY DEF NestOf, NestIn, Shown

LEMMA NestInFacts ==
  ASSUME NEW s, NEW d \in Nat
  PROVE  /\ Len(NestIn(s, d)) = d /\ DOMAIN NestIn(s, d) = 1..d
         /\ \A i \in 1..d : NestIn(s, d)[i] = Shown(s[i])
         /\ NestIn(s, d) \in Seq({Shown(s[i]) : i \in 1..d})
  BY DEF NestIn

LEMMA CutShown ==
  ASSUME NEW s, NEW t, NEW d \in Nat, NEW c \in 0..d, Same(t, s, c)
  PROVE  NestIn(t, c) = SubSeq(NestIn(s, d), 1, c)
<1>1. SubSeq(NestIn(s, d), 1, c) = [i \in 1..c |-> NestIn(s, d)[i]]
  BY NestInFacts
<1>2. ASSUME NEW i \in 1..c PROVE NestIn(s, d)[i] = Shown(t[i])
  <2>1. i \in 1..d /\ t[i] = s[i]
    BY DEF Same
  <2> QED
    BY <2>1, NestInFacts
<1> QED
  BY <1>1, <1>2 DEF NestIn

LEMMA PushShown ==
  ASSUME NEW s, NEW t, NEW d \in Nat, Same(t, s, d)
  PROVE  NestIn(t, d + 1) = Append(NestIn(s, d), Shown(t[d + 1]))
<1> DEFINE S == {Shown(s[i]) : i \in 1..d} \cup {Shown(t[d + 1])}
           a == Append(NestIn(s, d), Shown(t[d + 1]))
<1>1. NestIn(s, d) \in Seq(S) /\ Shown(t[d + 1]) \in S /\ Len(NestIn(s, d)) = d
  BY NestInFacts DEF NestIn
<1> HIDE DEF S
<1>2. /\ a \in Seq(S) /\ Len(a) = d + 1 /\ a[d + 1] = Shown(t[d + 1])
      /\ \A i \in 1..d : a[i] = NestIn(s, d)[i]
  BY <1>1, AppendProperties
<1> HIDE DEF a
<1>3. DOMAIN a = 1..d + 1 /\ a = [i \in DOMAIN a |-> a[i]]
  BY <1>2
<1>4. ASSUME NEW i \in 1..d PROVE a[i] = Shown(t[i])
  <2>1. t[i] = s[i]
    BY DEF Same
  <2> QED
    BY <1>2, <2>1, NestInFacts
<1>5. \A i \in 1..d + 1 : a[i] = Shown(t[i])
  BY <1>2, <1>4
<1>6. a = NestIn(t, d + 1)
  BY <1>3, <1>5 DEF NestIn
<1> QED
  BY <1>6 DEF a

LEMMA LanguageSees ==
  ASSUME depth \in Nat
  PROVE  /\ Len(NestOf) = depth /\ \A i \in 1..depth : NestOf[i] = Shown(scope[i])
         /\ Language!CurrentProc = CurrentProc
         /\ Language!Catcher = LastArmed(scope, depth)
         /\ Language!Loop = Loop
         /\ depth > 0 => Language!Top = Shown(scope[depth])
         /\ \A c : Language!Cut(c) = SubSeq(NestIn(scope, depth), 1, c)
<1>1. Len(NestOf) = depth
  BY NestInFacts, ShownNest
<1>2. \A i \in 1..depth : NestOf[i] = Shown(scope[i])
  BY NestInFacts, ShownNest
<1>3. Language!CurrentProc = CurrentProc
  <2>1. Language!CurrentProc = Max0({i \in 1..Len(NestOf) : NestOf[i].kind = "proc"})
    BY DEF Language!CurrentProc, Language!Innermost, Max0
  <2>2. \A i \in 1..depth : NestOf[i].kind = scope[i].kind
    BY DEF NestOf
  <2>3. {i \in 1..Len(NestOf) : NestOf[i].kind = "proc"}
          = {i \in 1..depth : scope[i].kind = "proc"}
    BY <1>1, <2>2
  <2> QED
    BY <2>1, <2>3 DEF CurrentProc
<1>4. Language!Catcher = LastArmed(scope, depth)
  <2>1. Language!Catcher = Max0({i \in 1..Len(NestOf) : NestOf[i].armed})
    BY DEF Language!Catcher, Language!Innermost, Max0
  <2>2. \A i \in 1..depth : NestOf[i].armed = scope[i].armed
    BY DEF NestOf
  <2>3. {i \in 1..Len(NestOf) : NestOf[i].armed} = {i \in 1..depth : scope[i].armed}
    BY <1>1, <2>2
  <2> QED
    BY <2>1, <2>3 DEF LastArmed
<1>5. Language!Loop = Loop
  <2>1. Language!Loop = Max0({i \in 1..Len(NestOf) : NestOf[i].kind = "loop"})
    BY DEF Language!Loop, Language!Innermost, Max0
  <2>2. \A i \in 1..depth : NestOf[i].kind = scope[i].kind
    BY DEF NestOf
  <2>3. {i \in 1..Len(NestOf) : NestOf[i].kind = "loop"}
          = {i \in 1..depth : scope[i].kind = "loop"}
    BY <1>1, <2>2
  <2> QED
    BY <2>1, <2>3 DEF Loop
<1>6. depth > 0 => Language!Top = Shown(scope[depth])
  BY <1>1, <1>2 DEF Language!Top
<1>7. \A c : Language!Cut(c) = SubSeq(NestIn(scope, depth), 1, c)
  BY ShownNest DEF Language!Cut
<1> QED
  BY <1>1, <1>2, <1>3, <1>4, <1>5, <1>6, <1>7

LEMMA CutRefines ==
  ASSUME UnwindInv, NEW c \in 0..depth, CutTo(c)
  PROVE  NestOf' = Language!Cut(c)
<1>1. depth \in Nat /\ TypeOK
  BY UnwindAssumption DEF UnwindInv, TypeOK
<1>2. depth' = c /\ Same(scope', scope, c)
  BY <1>1, CutFacts
<1>3. NestIn(scope', c) = SubSeq(NestIn(scope, depth), 1, c)
  BY <1>1, <1>2, CutShown
<1> QED
  BY <1>1, <1>2, <1>3, ShownNest, LanguageSees

LEMMA OpenRefines ==
  ASSUME UnwindInv, mode \in {"start", "run"}, NEW c \in Scope, OpenScope(c)
  PROVE  NestOf' = Append(NestOf, Shown(c))
<1>1. depth \in Nat /\ depth' = depth + 1 /\ scope'[depth + 1] = c /\ Same(scope', scope, depth)
  BY OpenFacts
<1>2. NestIn(scope', depth + 1) = Append(NestIn(scope, depth), Shown(scope'[depth + 1]))
  BY <1>1, PushShown
<1> QED
  BY <1>1, <1>2, ShownNest

LEMMA CallRefines ==
  ASSUME UnwindInv, NEW h \in BOOLEAN, NEW a \in BOOLEAN, NEW n \in 0..MaxArgs, Call(h, a, n)
  PROVE  Language!Call
<1>1. PICK c : c = Proc(h, a, n) /\ OpenScope(c)
  BY DEF Call
<1>2. c \in Scope /\ Shown(c) = Language!Proc(h, a)
  BY <1>1, UnwindAssumption DEF Proc, Scope, Shown, Language!Proc, UnwindInv, TypeOK
<1>3. mode \in {"start", "run"} /\ mode' = "run" /\ UNCHANGED <<exception, exitcode>>
  BY DEF Call
<1>4. NestOf' = Append(NestOf, Language!Proc(h, a))
  BY <1>1, <1>2, <1>3, OpenRefines
<1> QED
  BY <1>3, <1>4 DEF Language!Call

LEMMA OpenBlockRefines ==
  ASSUME UnwindInv, OpenTry \/ OpenSelect \/ OpenLoop
  PROVE  Language!Open
<1>0. sp \in Nat
  BY UnwindAssumption DEF UnwindInv, TypeOK
<1>1. mode = "run" /\ UNCHANGED <<exception, exitcode, mode>> /\ sp \in Nat
  BY <1>0 DEF OpenTry, OpenSelect, OpenLoop, InStatements
<1>2. CASE OpenTry
  <2>1. PICK c : c = Block("try", TRUE) /\ OpenScope(c)
    BY <1>2 DEF OpenTry
  <2>2. c \in Scope /\ Shown(c) = Language!Try
    BY <1>1, <2>1, UnwindAssumption DEF Block, Scope, Shown, Language!Try
  <2>3. NestOf' = Append(NestOf, Language!Try)
    BY <1>1, <2>1, <2>2, OpenRefines
  <2> QED
    BY <1>1, <2>3 DEF Language!Open
<1>3. CASE OpenSelect
  <2>1. PICK c : c = Block("select", FALSE) /\ OpenScope(c)
    BY <1>3 DEF OpenSelect
  <2>2. c \in Scope /\ Shown(c) = Language!Plain("select")
    BY <1>1, <2>1, UnwindAssumption DEF Block, Scope, Shown, Language!Plain
  <2>3. NestOf' = Append(NestOf, Language!Plain("select"))
    BY <1>1, <2>1, <2>2, OpenRefines
  <2> QED
    BY <1>1, <2>3 DEF Language!Open
<1>4. CASE OpenLoop
  <2>1. PICK c : c = Block("loop", FALSE) /\ OpenScope(c)
    BY <1>4 DEF OpenLoop
  <2>2. c \in Scope /\ Shown(c) = Language!Plain("loop")
    BY <1>1, <2>1, UnwindAssumption DEF Block, Scope, Shown, Language!Plain
  <2>3. NestOf' = Append(NestOf, Language!Plain("loop"))
    BY <1>1, <2>1, <2>2, OpenRefines
  <2> QED
    BY <1>1, <2>3 DEF Language!Open
<1> QED
  BY <1>2, <1>3, <1>4

LEMMA CloseRefines ==
  ASSUME UnwindInv, CloseTry \/ CloseCatch \/ CloseSelect \/ CloseLoop
  PROVE  Language!Close
<1>1. /\ mode = "run" /\ scope[depth].kind # "proc" /\ CutTo(depth - 1)
      /\ UNCHANGED <<exception, exitcode, mode>>
  BY DEF CloseTry, CloseCatch, CloseSelect, CloseLoop, InStatements
<1>2. depth \in Nat /\ depth > 0 /\ depth - 1 \in 0..depth
  BY <1>1, Standing
<1>3. NestOf' = Language!Cut(depth - 1)
  BY <1>1, <1>2, CutRefines
<1>4. Language!Top.kind # "proc" /\ Len(NestOf) = depth
  BY <1>1, <1>2, LanguageSees DEF Shown
<1> QED
  BY <1>1, <1>3, <1>4 DEF Language!Close

LEMMA LeaveLoopRefines ==
  ASSUME UnwindInv, NEW c \in 0..MaxNest, LeaveLoop(c)
  PROVE  Language!LeaveLoop
<1>1. /\ mode = "run" /\ Loop > CurrentProc /\ c \in {Loop - 1, Loop} /\ CutTo(c)
      /\ UNCHANGED <<exception, exitcode, mode>>
  BY DEF LeaveLoop, InStatements
<1>2. depth \in Nat
  BY <1>1, Standing
<1>3. Loop \in 0..depth
  BY <1>2, Max0Facts DEF Loop
<1>4. c \in 0..depth
  BY <1>1, <1>2, <1>3
<1>5. NestOf' = Language!Cut(c)
  BY <1>1, <1>4, CutRefines
<1>6. Language!CurrentProc = CurrentProc /\ Language!Loop = Loop
  BY <1>2, LanguageSees
<1> QED
  BY <1>1, <1>5, <1>6 DEF Language!LeaveLoop

LEMMA TurnRefines ==
  ASSUME depth \in Nat, depth > 0, NEW c, depth' = depth, depth <= MaxNest,
         scope \in [1..MaxNest -> Scope], scope' = [scope EXCEPT ![depth] = c]
  PROVE  NestOf' = [NestOf EXCEPT ![Len(NestOf)] = Shown(c)]
<1>1. /\ Len(NestOf) = depth /\ NestOf = NestIn(scope, depth)
      /\ NestOf' = NestIn(scope', depth)
  BY LanguageSees, ShownNest
<1>2. scope'[depth] = c /\ \A i \in 1..depth : i # depth => scope'[i] = scope[i]
  BY UnwindAssumption
<1> QED
  BY <1>1, <1>2 DEF NestIn

LEMMA BodyEndsRefines == ASSUME UnwindInv, BodyEnds PROVE Language!BodyEnds
<1>1. /\ mode = "run" /\ scope[depth].kind = "proc" /\ scope[depth].phase = "body"
      /\ UNCHANGED <<depth, exitcode, mode>>
  BY DEF BodyEnds
<1>2. /\ depth \in Nat /\ depth > 0 /\ depth <= MaxNest /\ scope \in [1..MaxNest -> Scope]
      /\ depth \in 1..MaxNest /\ scope[depth] \in Scope
  BY <1>1, Standing, UnwindAssumption DEF UnwindInv, TypeOK
<1>3. /\ Language!Top = Shown(scope[depth]) /\ Len(NestOf) = depth
      /\ NestOf[Len(NestOf)] = Shown(scope[depth])
  BY <1>2, LanguageSees
<1>4. /\ Language!Top.kind = "proc" /\ Language!Top.phase = "body"
      /\ Language!Top.auto = scope[depth].auto
  BY <1>1, <1>3 DEF Shown
<1>5. CASE scope[depth].auto
  <2> DEFINE c == [scope[depth] EXCEPT !.phase = "except", !.armed = FALSE]
  <2>1. scope' = [scope EXCEPT ![depth] = c] /\ exception' = 0
    BY <1>2, <1>5 DEF BodyEnds, ClearException, Scope
  <2>2. Shown(c) = [Shown(scope[depth]) EXCEPT !.phase = "except", !.armed = FALSE]
    <3>1. Shown(Disarmed(scope[depth], "except"))
            = [Shown(scope[depth]) EXCEPT !.phase = "except", !.armed = FALSE]
      BY <1>2, ShownDisarmed
    <3> QED
      BY <3>1 DEF Disarmed
  <2> HIDE DEF c
  <2>3. NestOf' = [NestOf EXCEPT ![Len(NestOf)] = Shown(c)]
    BY <1>1, <1>2, <2>1, TurnRefines
  <2>4. NestOf' = [NestOf EXCEPT ![Len(NestOf)].phase = "except", ![Len(NestOf)].armed = FALSE]
    BY <1>3, <2>2, <2>3, ShownNest DEF NestIn
  <2> QED
    BY <1>1, <1>4, <1>5, <2>1, <2>4 DEF Language!BodyEnds
<1>6. CASE ~ scope[depth].auto
  <2> DEFINE c == [scope[depth] EXCEPT !.phase = "rets"]
  <2>1. scope' = [scope EXCEPT ![depth] = c] /\ exception' = exception
    BY <1>2, <1>6 DEF BodyEnds, Scope
  <2>2. Shown(c) = [Shown(scope[depth]) EXCEPT !.phase = "rets"]
    BY <1>2 DEF Shown, Scope
  <2> HIDE DEF c
  <2>3. NestOf' = [NestOf EXCEPT ![Len(NestOf)] = Shown(c)]
    BY <1>1, <1>2, <2>1, TurnRefines
  <2>4. NestOf' = [NestOf EXCEPT ![Len(NestOf)].phase = "rets"]
    BY <1>3, <2>2, <2>3
  <2> QED
    BY <1>1, <1>4, <1>6, <2>1, <2>4 DEF Language!BodyEnds
<1> QED
  BY <1>5, <1>6

LEMMA ExceptEndsRefines == ASSUME UnwindInv, ExceptEnds PROVE Language!ExceptEnds
<1>1. /\ mode = "run" /\ scope[depth].kind = "proc" /\ scope[depth].phase = "except"
      /\ UNCHANGED <<depth, exception, exitcode, mode>>
  BY DEF ExceptEnds
<1>2. /\ depth \in Nat /\ depth > 0 /\ depth <= MaxNest /\ scope \in [1..MaxNest -> Scope]
      /\ depth \in 1..MaxNest /\ scope[depth] \in Scope
  BY <1>1, Standing, UnwindAssumption DEF UnwindInv, TypeOK
<1>3. /\ Language!Top = Shown(scope[depth]) /\ Len(NestOf) = depth
      /\ NestOf[Len(NestOf)] = Shown(scope[depth])
  BY <1>2, LanguageSees
<1>4. Language!Top.kind = "proc" /\ Language!Top.phase = "except"
  BY <1>1, <1>3 DEF Shown
<1> DEFINE c == [scope[depth] EXCEPT !.phase = "rets"]
<1>5. scope' = [scope EXCEPT ![depth] = c]
  BY <1>2 DEF ExceptEnds, Scope
<1>6. Shown(c) = [Shown(scope[depth]) EXCEPT !.phase = "rets"]
  BY <1>2 DEF Shown, Scope
<1> HIDE DEF c
<1>7. NestOf' = [NestOf EXCEPT ![Len(NestOf)] = Shown(c)]
  BY <1>1, <1>2, <1>5, TurnRefines
<1>8. NestOf' = [NestOf EXCEPT ![Len(NestOf)].phase = "rets"]
  BY <1>3, <1>6, <1>7
<1> QED
  BY <1>1, <1>4, <1>8 DEF Language!ExceptEnds

LEMMA EpilogueRefines ==
  ASSUME UnwindInv, mode = "run", NEW p, p = CurrentProc, NEW multi, Epilogue(p, multi)
  PROVE  Language!Return
<1>1. depth \in Nat
  BY Standing
<1>2. p \in 1..depth /\ At(fp - 1) = Code(p - 1)
  BY InProc
<1>3. /\ CutTo(p - 1)
      /\ mode' = IF p = 1 THEN "exit" ELSE mode
      /\ UNCHANGED <<exception, exitcode>>
  BY <1>2 DEF Epilogue
<1>4. p - 1 \in 0..depth
  BY <1>1, <1>2
<1>5. NestOf' = Language!Cut(p - 1) /\ Language!CurrentProc = p
  BY <1>1, <1>3, <1>4, CutRefines, LanguageSees
<1> QED
  BY <1>3, <1>5 DEF Language!Return

LEMMA ReturnRefines ==
  ASSUME UnwindInv, NEW multi, Return(multi) \/ EndProc(multi)
  PROVE  Language!Return
<1>1. CASE Return(multi)
  BY <1>1, EpilogueRefines DEF Return, InStatements
<1>2. CASE EndProc(multi)
  <2>1. mode = "run" /\ scope[depth].phase = "rets" /\ Epilogue(depth, multi)
    BY <1>2 DEF EndProc
  <2>2. depth \in Nat /\ depth > 0 /\ WellFormed(scope[depth])
    BY <2>1, Standing DEF Nest
  <2>3. depth = CurrentProc
    BY <2>1, <2>2, TopProc DEF WellFormed, Scope
  <2> QED
    BY <2>1, <2>3, EpilogueRefines
<1> QED
  BY <1>1, <1>2

LEMMA EmptyNest == ASSUME depth' = 0 PROVE NestOf' = << >>
<1>1. NestIn(scope', 0) = << >>
  BY DEF NestIn
<1> QED
  BY <1>1, ShownNest

LEMMA RaiseRefines ==
  ASSUME UnwindInv, NEW v \in Values, DoRaise(v)
  PROVE  Language!Raise(v)
<1>1. mode = "run" /\ exception' = v
  BY DEF DoRaise
<1>2. PICK d : d = LastArmed(scope, depth)
  OBVIOUS
<1>3. depth \in Nat /\ Nest(scope, mem, depth, sp) /\ head = EndOrZero(scope, d)
  BY <1>1, <1>2, Standing
<1>4. Language!Catcher = d
  BY <1>2, <1>3, LanguageSees
<1>5. CASE head = 0
  <2>1. d = 0
    <3>1. d # 0 => Placed(scope, d, sp) /\ scope[d].armed
      BY <1>2, <1>3, LastFacts, NestPlaces
    <3> QED
      BY <1>3, <1>5, <3>1 DEF EndOrZero, Placed
  <2>2. Terminate(v)
    BY <1>5 DEF DoRaise
  <2>3. depth' = 0 /\ exitcode' = v /\ mode' = "exit"
    BY <2>2 DEF Terminate, CutTo
  <2>4. NestOf' = << >>
    BY <2>3, EmptyNest
  <2> QED
    BY <1>1, <1>4, <2>1, <2>3, <2>4 DEF Language!Raise
<1>6. CASE head # 0
  <2>1. /\ d \in 1..depth /\ FramePc = Code(d)
    BY <1>1, <1>2, <1>6, InFrame
  <2>2. Resume
    BY <1>1, <1>6, AlwaysResumable DEF DoRaise
  <2> DEFINE c == [scope[d] EXCEPT
                     !.phase = IF scope[d].kind = "try" THEN "catch" ELSE "except",
                     !.armed = FALSE]
  <2>3. FramePc.v = d
    BY <2>1 DEF Code
  <2>4. /\ depth' = d /\ UNCHANGED <<exitcode, mode>>
        /\ scope' = [i \in 1..MaxNest |-> IF i > d THEN NoScope ELSE IF i = d THEN c ELSE scope[i]]
    BY <2>2, <2>3 DEF Resume
  <2>5. depth <= MaxNest /\ MaxNest \in Nat /\ scope[d] \in Scope
    BY <1>1, <2>1, Standing, UnwindAssumption DEF Nest, WellFormed
  <2>6. Shown(c) = [Shown(scope[d]) EXCEPT
                      !.phase = IF Shown(scope[d]).kind = "try" THEN "catch" ELSE "except",
                      !.armed = FALSE]
    <3> DEFINE p == IF scope[d].kind = "try" THEN "catch" ELSE "except"
    <3>1. Shown(Disarmed(scope[d], p)) = [Shown(scope[d]) EXCEPT !.phase = p, !.armed = FALSE]
      BY <2>5, ShownDisarmed
    <3>2. Shown(scope[d]).kind = scope[d].kind
      BY DEF Shown
    <3> QED
      BY <3>1, <3>2 DEF Disarmed
  <2> HIDE DEF c
  <2>7. scope'[d] = c /\ \A i \in 1..d : i # d => scope'[i] = scope[i]
    BY <1>3, <2>1, <2>4, <2>5
  <2>8. NestOf' = [NestIn(scope, d) EXCEPT ![d] = Shown(c)]
    <3>1. NestOf' = NestIn(scope', d)
      BY <2>4, ShownNest
    <3>2. \A i \in 1..d : scope'[i] = IF i = d THEN c ELSE scope[i]
      BY <2>7
    <3> QED
      BY <2>1, <3>1, <3>2 DEF NestIn
  <2>9. Language!Cut(d) = NestIn(scope, d)
    <3>1. d \in 0..depth /\ Same(scope, scope, d)
      BY <1>3, <2>1 DEF Same
    <3> QED
      BY <1>3, <3>1, CutShown, LanguageSees
  <2>10. NestIn(scope, d)[d] = Shown(scope[d]) /\ NestOf[d] = Shown(scope[d])
    BY <1>3, <2>1, LanguageSees DEF NestIn
  <2>11. NestOf' = [Language!Cut(d) EXCEPT
                      ![d].phase = IF NestOf[d].kind = "try" THEN "catch" ELSE "except",
                      ![d].armed = FALSE]
    BY <2>6, <2>8, <2>9, <2>10, <2>1 DEF NestIn
  <2>12. d # 0
    BY <2>1
  <2> QED
    BY <1>1, <1>4, <2>4, <2>11, <2>12 DEF Language!Raise
<1> QED
  BY <1>5, <1>6

LEMMA CleanUpRefines ==
  ASSUME NEW v \in Values, CleanUp(v)
  PROVE  Language!CleanUp(v)
<1>1. /\ mode = "run" /\ depth' = 0 /\ exitcode' = v /\ mode' = "exit"
      /\ UNCHANGED exception
  BY DEF CleanUp, Terminate, CutTo
<1> QED
  BY <1>1, EmptyNest DEF Language!CleanUp

\* Every step of the machine is the step of the language that the source says, and
\* no other: Raise reaches the innermost armed construct, RETURN the caller.
THEOREM UnwindRefinement == ASSUME StaysInside PROVE Spec => ImplementsUnwindSpec
<1>1. Init => Language!Init
  <2> SUFFICES ASSUME Init PROVE Language!Init
    OBVIOUS
  <2>1. NestOf = << >>
    BY DEF Init, NestOf
  <2> QED
    BY <2>1 DEF Init, Language!Init
<1>2. UnwindInv /\ [Next]_vars => [Language!Next]_(Language!specVars)
  <2> SUFFICES ASSUME UnwindInv, [Next]_vars
               PROVE  Language!Next \/ UNCHANGED Language!specVars
    OBVIOUS
  <2>1. CASE \E h, a \in BOOLEAN : \E n \in 0..MaxArgs : Call(h, a, n)
    BY <2>1, CallRefines DEF Language!Next
  <2>2. CASE OpenTry \/ OpenSelect \/ OpenLoop
    BY <2>2, OpenBlockRefines DEF Language!Next
  <2>3. CASE CloseTry \/ CloseCatch \/ CloseSelect \/ CloseLoop
    BY <2>3, CloseRefines DEF Language!Next
  <2>4. CASE \E d \in 0..MaxNest : LeaveLoop(d)
    BY <2>4, LeaveLoopRefines DEF Language!Next
  <2>5. CASE BodyEnds \/ ExceptEnds
    BY <2>5, BodyEndsRefines, ExceptEndsRefines DEF Language!Next
  <2>6. CASE \E multi \in BOOLEAN : Return(multi) \/ EndProc(multi)
    BY <2>6, ReturnRefines DEF Language!Next
  <2>7. CASE \E v \in Values : Raise(v) \/ CleanUp(v)
    <3>1. PICK v \in Values : Raise(v) \/ CleanUp(v)
      BY <2>7
    <3>2. Language!Raise(v) \/ Language!CleanUp(v)
      BY <3>1, RaiseRefines, CleanUpRefines DEF Raise
    <3> QED
      BY <3>2 DEF Language!Next
  <2>8. CASE ReThrow
    <3>1. exception \in Values /\ DoRaise(exception)
      BY <2>8 DEF ReThrow, UnwindInv, TypeOK
    <3>2. Language!Raise(exception)
      BY <3>1, RaiseRefines
    <3> QED
      BY <3>1, <3>2 DEF Language!Next
  <2>9. CASE UNCHANGED vars
    BY <2>9 DEF vars, NestOf, Language!specVars
  <2> QED
    BY <2>1, <2>2, <2>3, <2>4, <2>5, <2>6, <2>7, <2>8, <2>9 DEF Next
<1> QED
  BY <1>1, <1>2, UnwindInvariant, PTL DEF Spec, ImplementsUnwindSpec, Language!Spec
=============================================================================
