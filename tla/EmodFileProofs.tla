--------------------------- MODULE EmodFileProofs ---------------------------
(***************************************************************************)
(* Towards what is proved about the files of binary modules (ModuleProofs): *)
(* what stands where in a file that a writer wrote, for any module and any  *)
(* version of the format; the invariant of the reader; and its first loops. *)
(***************************************************************************)
EXTENDS Emod, TLAPS, SequenceTheorems, WellFoundedInduction

-----------------------------------------------------------------------------
(* Recursive functions, each value made from the one before.               *)

LEMMA LeastOf ==
  ASSUME NEW T \in SUBSET Nat, T # {}
  PROVE  \E t \in T : \A s \in T : t <= s
<1>1. PICK t \in T : \A s \in T : ~ (<<s, t>> \in OpToRel(<, Nat))
  BY WFMin, NatLessThanWellFounded, Zenon
<1>2. ASSUME NEW s \in T PROVE t <= s
  <2>1. ~ (s < t)
    BY <1>1, Zenon DEF OpToRel
  <2> QED
    BY <2>1
<1> QED
  BY <1>2

Solves(f, n, T, start, make) ==
  /\ f \in [0 .. n -> T] /\ f[0] = start
  /\ \A k \in 1 .. n : f[k] = make[k][f[k - 1]]

LEMMA Recursion ==
  ASSUME NEW n \in Nat, NEW T, NEW start \in T, NEW make \in [1 .. n -> [T -> T]]
  PROVE  \E f : Solves(f, n, T, start, make)
<1> DEFINE Bad == {k \in 0 .. n : ~ \E f : Solves(f, k, T, start, make)}
<1>0. n \in 0 .. n
  OBVIOUS
<1>1. SUFFICES ASSUME Bad # {} PROVE FALSE
  BY <1>0, Zenon
<1>2. Bad \in SUBSET Nat
  OBVIOUS
<1>3. PICK k \in Bad : \A j \in Bad : k <= j
  BY <1>1, <1>2, LeastOf, Zenon
<1>4. k \in 0 .. n /\ ~ \E f : Solves(f, k, T, start, make)
  BY <1>3
<1>5. CASE k = 0
  <2> DEFINE g == [v \in 0 .. 0 |-> start]
  <2>1. g \in [0 .. 0 -> T] /\ g[0] = start
    OBVIOUS
  <2>2. Solves(g, 0, T, start, make)
    BY <2>1 DEF Solves
  <2> QED
    BY <1>4, <1>5, <2>2
<1>6. CASE k # 0
  <2>1. k - 1 \in 0 .. n /\ k - 1 \notin Bad
    <3>1. k - 1 \in 0 .. n /\ ~ (k <= k - 1)
      BY <1>4, <1>6
    <3> QED
      BY <1>3, <3>1
  <2>2. PICK f : Solves(f, k - 1, T, start, make)
    BY <2>1
  <2>3. f \in [0 .. k - 1 -> T] /\ f[0] = start /\ \A v \in 1 .. k - 1 : f[v] = make[v][f[v - 1]]
    BY <2>2 DEF Solves
  <2>4. k \in 1 .. n /\ k - 1 \in 0 .. k - 1
    BY <1>4, <1>6
  <2>5. PICK last \in T : last = make[k][f[k - 1]]
    BY <2>3, <2>4
  <2> DEFINE g == [v \in 0 .. k |-> IF v = k THEN last ELSE f[v]]
  <2>6. g \in [0 .. k -> T] /\ g[k] = last /\ \A v \in 0 .. k - 1 : g[v] = f[v]
    BY <1>4, <2>3
  <2> HIDE DEF g
  <2>7. g[0] = start
    BY <2>3, <2>4, <2>6
  <2>8. ASSUME NEW v \in 1 .. k PROVE g[v] = make[v][g[v - 1]]
    <3>1. v - 1 \in 0 .. k - 1 /\ g[v - 1] = f[v - 1]
      BY <1>4, <2>6
    <3>2. CASE v = k
      BY <2>5, <2>6, <3>1, <3>2
    <3>3. CASE v # k
      <4>1. v \in 1 .. k - 1 /\ v \in 0 .. k - 1
        BY <1>4, <3>3
      <4> QED
        BY <2>3, <2>6, <3>1, <4>1
    <3> QED
      BY <3>2, <3>3
  <2>9. Solves(g, k, T, start, make)
    BY <2>6, <2>7, <2>8 DEF Solves
  <2> QED
    BY <1>4, <2>9
<1> QED
  BY <1>5, <1>6

-----------------------------------------------------------------------------
(* Sequences of words.                                                     *)

WordSeqs == Seq(Nat)

FromEq(f, seqs) ==
  f = [k \in 0 .. Len(seqs) |-> IF k = 0 THEN << >> ELSE seqs[Len(seqs) + 1 - k] \o f[k - 1]]

LEMMA FromIs ==
  ASSUME NEW seqs \in Seq(WordSeqs)
  PROVE  /\ From(seqs, Len(seqs) + 1) = << >>
         /\ \A i \in 1 .. Len(seqs) : From(seqs, i) = seqs[i] \o From(seqs, i + 1)
         /\ \A i \in 1 .. Len(seqs) + 1 : From(seqs, i) \in WordSeqs
<1> DEFINE n == Len(seqs)
           make == [k \in 1 .. n |-> [x \in WordSeqs |-> seqs[n + 1 - k] \o x]]
           f == CHOOSE f : FromEq(f, seqs)
<1>1. n \in Nat /\ \A k \in 1 .. n : seqs[n + 1 - k] \in WordSeqs
  OBVIOUS
<1>a. << >> \in WordSeqs /\ \A s, t \in WordSeqs : s \o t \in WordSeqs
  BY DEF WordSeqs
<1>2. make \in [1 .. n -> [WordSeqs -> WordSeqs]]
  <2>1. ASSUME NEW k \in 1 .. n PROVE [x \in WordSeqs |-> seqs[n + 1 - k] \o x] \in [WordSeqs -> WordSeqs]
    BY <1>1, <1>a
  <2> QED
    BY <2>1
<1> HIDE DEF n
<1>3. PICK g : Solves(g, n, WordSeqs, << >>, make)
  BY <1>1, <1>2, <1>a, Recursion, Zenon
<1>4. g \in [0 .. n -> WordSeqs] /\ g[0] = << >> /\ \A k \in 1 .. n : g[k] = seqs[n + 1 - k] \o g[k - 1]
  <2>1. g \in [0 .. n -> WordSeqs] /\ g[0] = << >> /\ \A k \in 1 .. n : g[k] = make[k][g[k - 1]]
    BY <1>3, Zenon DEF Solves
  <2>2. ASSUME NEW k \in 1 .. n PROVE g[k] = seqs[n + 1 - k] \o g[k - 1]
    <3>1. g[k - 1] \in WordSeqs
      BY <1>1, <2>1
    <3> QED
      BY <2>1, <3>1, Zenon
  <2> QED
    BY <2>1, <2>2, Zenon
<1>5. FromEq(g, seqs)
  <2>1. \A k \in 0 .. n : g[k] = IF k = 0 THEN << >> ELSE seqs[n + 1 - k] \o g[k - 1]
    <3>1. \A k \in 0 .. n : k = 0 \/ k \in 1 .. n
      BY <1>1
    <3> QED
      BY <1>4, <3>1, Zenon
  <2>2. g = [k \in 0 .. n |-> g[k]]
    <3>1. g \in [0 .. n -> WordSeqs]
      BY <1>4
    <3> QED
      BY <3>1
  <2> QED
    BY <2>1, <2>2 DEF FromEq, n
<1>6. FromEq(f, seqs)
  BY <1>5
<1>7. \A i : From(seqs, i) = f[n + 1 - i]
  BY DEF From, FromEq, n
<1> HIDE DEF f
<1>8. \A k \in 0 .. n : f[k] = IF k = 0 THEN << >> ELSE seqs[n + 1 - k] \o f[k - 1]
  BY <1>6, Zenon DEF FromEq, n
<1> DEFINE Bad == {k \in 0 .. n : f[k] \notin WordSeqs}
<1>9. Bad = {}
  <2>1. SUFFICES ASSUME Bad # {} PROVE FALSE
    OBVIOUS
  <2>2. Bad \in SUBSET Nat
    OBVIOUS
  <2>3. PICK k \in Bad : \A j \in Bad : k <= j
    BY <2>1, <2>2, LeastOf, Zenon
  <2>4. k \in 0 .. n /\ f[k] \notin WordSeqs
    BY <2>3
  <2>5. k # 0
    BY <2>4, <1>8, <1>a
  <2>6. k - 1 \in 0 .. n /\ ~ (k <= k - 1) /\ k \in 1 .. n
    BY <1>1, <2>4, <2>5
  <2>7. f[k - 1] \in WordSeqs
    BY <2>3, <2>6
  <2> QED
    BY <1>1, <1>8, <1>a, <2>4, <2>5, <2>6, <2>7
<1>10. From(seqs, n + 1) = << >>
  <2>1. n + 1 - (n + 1) = 0 /\ 0 \in 0 .. n
    BY <1>1
  <2> QED
    BY <1>7, <1>8, <2>1
<1>11. ASSUME NEW i \in 1 .. n PROVE From(seqs, i) = seqs[i] \o From(seqs, i + 1)
  <2>1. n + 1 - i \in 1 .. n /\ n + 1 - i \in 0 .. n /\ n + 1 - i - 1 = n + 1 - (i + 1) /\ n + 1 - (n + 1 - i) = i
    BY <1>1
  <2> QED
    <3>1. PICK k \in 1 .. n : k = n + 1 - i
      BY <2>1
    <3>3. f[k] = seqs[n + 1 - k] \o f[k - 1]
      <4>1. k \in 0 .. n /\ k # 0
        BY <1>1
      <4> QED
        BY <1>8, <4>1, Zenon
    <3>4. n + 1 - k = i /\ k - 1 = n + 1 - (i + 1)
      BY <1>1, <3>1
    <3>2. From(seqs, i) = f[n + 1 - i] /\ From(seqs, i + 1) = f[n + 1 - (i + 1)]
      BY <1>7
    <3> QED
      BY <3>1, <3>2, <3>3, <3>4, Zenon
<1>12. ASSUME NEW i \in 1 .. n + 1 PROVE From(seqs, i) \in WordSeqs
  <2>1. n + 1 - i \in 0 .. n
    BY <1>1
  <2> QED
    BY <1>7, <1>9, <2>1
<1> QED
  BY <1>10, <1>11, <1>12, Zenon DEF n

-----------------------------------------------------------------------------
(* The inductive invariant: what comes next in the file, and what is known. *)

CodedJob(M, job) == IF M.code = << >> THEN << >> ELSE job

\* The jobs, one by one.
JobNo(M, V, k) ==
  CASE k = 1 -> Magic
    [] k = 2 -> SysJob(V)
    [] k = 3 -> CodedJob(M, CodeJob(M.code))
    [] k = 4 -> CodedJob(M, RelocsJob(M.relocs))
    [] k = 5 -> CodedJob(M, ProcsJob(M.procs))
    [] k = 6 -> CodedJob(M, GlobsJob(V, M.xrefs, M.drels))
    [] k = 7 -> Flat(ObjJobs(V, M.objects))
    [] k = 8 -> ConstJob(V, M.consts)
    [] k = 9 -> CodedJob(M, ModinfoJob(M.modinfo))
    [] k = 10 -> LastJob(M)

\* The jobs from the k-th on, and so on for what they hold.
Left(M, V, k) == From(JobsOf(M, V), k)

\* The words stand in the whole file from i on.
Holds(W, i, words) ==
  i + Len(words) - 1 <= Len(W) /\ \A k \in 1 .. Len(words) : W[i - 1 + k] = words[k]

\* The reader is in a loop, and the words are what comes next.
In(loop, W, words) == mode = loop /\ o \in Nat \ {0} /\ Holds(W, o, words)

FirstOf(seq, n) == SubSeq(seq, 1, n)

HeldProcs(M) == [i \in DOMAIN M.procs |-> HeldProc(M.procs[i])]
HeldRelocs(M) == [i \in DOMAIN M.relocs |-> HeldReloc(M.relocs[i], M.code)]

\* The job that says what a field holds, and what is known before job k.
JobOf == [version |-> 2, code |-> 3, relocs |-> 4, procs |-> 5, xrefs |-> 6, drels |-> 6,
          objects |-> 7, consts |-> 8, modinfo |-> 9, lib |-> 10, partial |-> 10]
Before(M, V, k) ==
  [field \in DOMAIN Nothing |-> IF JobOf[field] < k THEN Held(M, V)[field] ELSE Nothing[field]]

JobAt(M, V, W, k) == In("jobs", W, Left(M, V, k)) /\ out = Before(M, V, k)

\* Objects, each a job.
ObjectsLeft(M, V, i) == From(ObjJobs(V, M.objects), i) \o Left(M, V, 8)
ObjectsKnown(M, V, i) == Mapped(FirstOf(HeldObjects(M.objects, V), i))
ObjectsOut(M, V, i) == [Before(M, V, 7) EXCEPT !.objects = ObjectsKnown(M, V, i)]
ObjectAt(M, V, W, i) == In("jobs", W, ObjectsLeft(M, V, i)) /\ out = ObjectsOut(M, V, i - 1)

\* Code that the end of the file cut off.
CodeOut(M, V, n) == [Before(M, V, 3) EXCEPT !.code = FirstOf(M.code, n)]
CodeCut(M, V) ==
  mode = "jobs" /\ cut /\ o \in Nat /\ ~Has(o) /\ \E n \in 0 .. Len(M.code) : out = CodeOut(M, V, n)

JobsInv(M, V, W) ==
  \/ \E k \in (2 .. 10) \ {7} : JobNo(M, V, k) # << >> /\ JobAt(M, V, W, k)
  \/ \E i \in DOMAIN M.objects : ObjectAt(M, V, W, i)
  \/ CodeCut(M, V)

ConstsLeft(M, V, j) == From(ConstWords(M.consts), j) \o (<< 0 >> \o Left(M, V, 9))
ConstsAt(M, V, W, j) ==
  /\ In("consts", W, ConstsLeft(M, V, j))
  /\ out = [Before(M, V, 8) EXCEPT !.consts = Mapped(FirstOf(M.consts, j - 1))]

MembersLeft(M, V, i, j) ==
  From(MemberWords(V, M.objects[i].members), j)
  \o (<<0, M.objects[i].size>>
      \o ((IF V >= 7 THEN ClassWords(M.objects[i]) ELSE << >>) \o ObjectsLeft(M, V, i + 1)))
MembersAt(M, V, W, i, j) ==
  /\ In("members", W, MembersLeft(M, V, i, j))
  /\ out = ObjectsOut(M, V, i - 1)
  /\ part = [name |-> M.objects[i].name,
             members |-> Mapped(FirstOf(HeldMembers(M.objects[i].members), j - 1))]

\* With the last object as far as it is read.
ObjectWith(obj, V, methods, oacc, delcode, odeloff) ==
  [name |-> obj.name, members |-> Mapped(HeldMembers(obj.members)), size |-> obj.size,
   methods |-> methods, oacc |-> oacc, delcode |-> delcode, odeloff |-> odeloff]
ObjectPart(M, V, i, obj) ==
  [Before(M, V, 7) EXCEPT !.objects = Put(ObjectsKnown(M, V, i - 1), M.objects[i].name, obj)]

ClassAt(M, V, W, i) ==
  /\ V >= 7
  /\ In("class", W, ClassWords(M.objects[i]) \o ObjectsLeft(M, V, i + 1))
  /\ out = ObjectPart(M, V, i, ObjectWith(M.objects[i], V, << >>, << >>, 0, 0))
  /\ part.name = M.objects[i].name

AccessLeft(M, V, i, j) == From(AccessWords(M.objects[i].oacc), j) \o (<<End>> \o ObjectsLeft(M, V, i + 1))
MethodsLeft(M, V, i, j) ==
  From(MethodWords(M.objects[i].methods), j) \o (<<End>> \o AccessLeft(M, V, i, 1))
MethodsOut(M, V, i, j) ==
  ObjectPart(M, V, i, ObjectWith(M.objects[i], V, FirstOf(HeldMethods(M.objects[i].methods), j - 1), << >>,
                                 M.objects[i].delcode, M.objects[i].odeloff))
AccessOut(M, V, i, j) ==
  ObjectPart(M, V, i, ObjectWith(M.objects[i], V, HeldMethods(M.objects[i].methods),
                                 FirstOf(M.objects[i].oacc, j - 1),
                                 M.objects[i].delcode, M.objects[i].odeloff))
MethodsAt(M, V, W, i, j) ==
  /\ V >= 7 /\ M.objects[i].methods # << >>
  /\ In("methods", W, MethodsLeft(M, V, i, j)) /\ out = MethodsOut(M, V, i, j)
  /\ part.name = M.objects[i].name
OaccAt(M, V, W, i, j) ==
  /\ V >= 7 /\ M.objects[i].methods # << >>
  /\ In("oacc", W, AccessLeft(M, V, i, j)) /\ out = AccessOut(M, V, i, j)
  /\ part.name = M.objects[i].name

ObjectsInv(M, V, W) ==
  \E i \in DOMAIN M.objects :
    \/ \E j \in 1 .. Len(M.objects[i].members) + 1 : MembersAt(M, V, W, i, j)
    \/ ClassAt(M, V, W, i)
    \/ \E j \in 1 .. Len(M.objects[i].methods) + 1 : MethodsAt(M, V, W, i, j)
    \/ \E j \in 1 .. Len(M.objects[i].oacc) + 1 : OaccAt(M, V, W, i, j)

ProcsLeft(M, V, j) == From(ProcWords(M.procs), j) \o (<< 0 >> \o Left(M, V, 6))
ProcsOut(M, V, j) == [Before(M, V, 5) EXCEPT !.procs = FirstOf(HeldProcs(M), j - 1)]
ProcsAt(M, V, W, j) == In("procs", W, ProcsLeft(M, V, j)) /\ out = ProcsOut(M, V, j)

DefaultsLeft(M, V, j, d) ==
  From(LongsOf(M.procs[j].defaults), d)
  \o (<<Bytes(M.procs[j].extra)>> \o (M.procs[j].extra \o ProcsLeft(M, V, j + 1)))
DefaultsAt(M, V, W, j, d) ==
  /\ M.procs[j].kind = "proc"
  /\ In("defaults", W, DefaultsLeft(M, V, j, d))
  /\ out = ProcsOut(M, V, j)
  /\ part = [name |-> M.procs[j].name, offset |-> M.procs[j].offset, args |-> M.procs[j].args,
             defaults |-> FirstOf(M.procs[j].defaults, d - 1)]
  /\ todo = Len(M.procs[j].defaults) + 1 - d

RelocsOut(M, V, j) == [Before(M, V, 4) EXCEPT !.relocs = FirstOf(HeldRelocs(M), j - 1)]
RelocsAt(M, V, W, j) ==
  /\ In("relocs", W, From(RelocWords(M.relocs), j) \o Left(M, V, 5))
  /\ out = RelocsOut(M, V, j)
  /\ todo = Len(M.relocs) + 1 - j

ProcTableInv(M, V, W) ==
  \/ \E j \in 1 .. Len(M.procs) + 1 : ProcsAt(M, V, W, j)
  \/ \E j \in DOMAIN M.procs : \E d \in 1 .. Len(M.procs[j].defaults) + 1 : DefaultsAt(M, V, W, j, d)
  \/ \E j \in 1 .. Len(M.relocs) + 1 : RelocsAt(M, V, W, j)

DrelsLeft(M, V, j) == From(DrelWords(V, M.drels), j) \o (<<End>> \o Left(M, V, 7))
XrefsLeft(M, V, j) == From(XrefWords(V, M.xrefs), j) \o DrelsLeft(M, V, 1)
XrefsOut(M, V, j) == [Before(M, V, 6) EXCEPT !.xrefs = FirstOf(M.xrefs, j - 1)]
DrelsOut(M, V, j) == [Before(M, V, 6) EXCEPT !.xrefs = M.xrefs, !.drels = FirstOf(M.drels, j - 1)]
XrefsAt(M, V, W, j) == In("globs", W, XrefsLeft(M, V, j)) /\ out = XrefsOut(M, V, j)
DrelsAt(M, V, W, j) == In("globs", W, DrelsLeft(M, V, j)) /\ out = DrelsOut(M, V, j)

RefsLeft(V, refs, d, next) == From(RefWords(V, refs), d) \o (LongZero \o next)
XrefRefsAt(M, V, W, j, d) ==
  /\ In("refs", W, RefsLeft(V, M.xrefs[j].refs, d, XrefsLeft(M, V, j + 1)))
  /\ out = XrefsOut(M, V, j)
  /\ part = [named |-> TRUE, name |-> M.xrefs[j].name, refs |-> FirstOf(M.xrefs[j].refs, d - 1)]
DrelRefsAt(M, V, W, j, d) ==
  /\ In("refs", W, RefsLeft(V, M.drels[j], d, DrelsLeft(M, V, j + 1)))
  /\ out = DrelsOut(M, V, j)
  /\ part = [named |-> FALSE, name |-> << >>, refs |-> FirstOf(M.drels[j], d - 1)]

GlobsInv(M, V, W) ==
  \/ \E j \in DOMAIN M.xrefs : XrefsAt(M, V, W, j)
  \/ \E j \in 1 .. Len(M.drels) + 1 : DrelsAt(M, V, W, j)
  \/ \E j \in DOMAIN M.xrefs : \E d \in 1 .. Len(M.xrefs[j].refs) + 1 : XrefRefsAt(M, V, W, j, d)
  \/ \E j \in DOMAIN M.drels : \E d \in 1 .. Len(M.drels[j]) + 1 : DrelRefsAt(M, V, W, j, d)

UsesLeft(M, V, j) == From(UseWords(M.modinfo), j) \o (<< 0 >> \o Left(M, V, 10))
UsesOut(M, V, j) == [Before(M, V, 9) EXCEPT !.modinfo = FirstOf(M.modinfo, j - 1)]
UsesAt(M, V, W, j) == In("submodules", W, UsesLeft(M, V, j)) /\ out = UsesOut(M, V, j)

PlacesLeft(M, V, j, d) ==
  From(PlaceWords(M.modinfo[j].kind, M.modinfo[j].refs), d) \o (<< 0 >> \o UsesLeft(M, V, j + 1))
SymbolAt(M, V, W, j) ==
  /\ In("symbols", W, SymbolWords(M.modinfo[j]) \o PlacesLeft(M, V, j, 1))
  /\ out = UsesOut(M, V, j)
  /\ part = [submodule |-> M.modinfo[j].submodule]
PlacesAt(M, V, W, j, d) ==
  /\ In("places", W, PlacesLeft(M, V, j, d))
  /\ out = UsesOut(M, V, j)
  /\ part = [submodule |-> M.modinfo[j].submodule, symbol |-> M.modinfo[j].symbol, kind |-> M.modinfo[j].kind,
             refs |-> FirstOf(M.modinfo[j].refs, d - 1)]
  /\ todo = Len(M.modinfo[j].refs) + 1 - d
SymbolRead(M, V, W, j) ==
  In("symbols", W, << 0 >> \o UsesLeft(M, V, j + 1)) /\ out = UsesOut(M, V, j + 1)

UsesInv(M, V, W) ==
  \/ \E j \in 1 .. Len(M.modinfo) + 1 : UsesAt(M, V, W, j)
  \/ \E j \in DOMAIN M.modinfo :
       \/ SymbolAt(M, V, W, j) \/ SymbolRead(M, V, W, j)
       \/ \E d \in 1 .. Len(M.modinfo[j].refs) + 1 : PlacesAt(M, V, W, j, d)

VectorsLeft(M, j) == From(VectorBytes(M.lib[1].funcs), j) \o <<255, Done>>
VectorsAt(M, W, j) ==
  /\ In("vectors", W, VectorsLeft(M, j))
  /\ part = [name |-> M.lib[1].name, base |-> M.lib[1].base,
             funcs |-> HeldFuncs(M.lib[1].funcs, j - 1), offset |-> -24 - 6 * j]
VectorsInv(M, V, W) ==
  /\ mode = "vectors" /\ ~M.debug /\ M.lib # << >> /\ out = Before(M, V, 10)
  /\ ~cut => \E j \in 1 .. Len(M.lib[1].funcs) + 1 : VectorsAt(M, W, j)

\* A name was cut off: nothing is read any more.
Lost == cut /\ o \in Nat /\ ~Has(o) /\ mode \in {"consts", "members", "refs", "symbols"} /\ DOMAIN out = DOMAIN Nothing

\* At the end.
Thrown == cut /\ DOMAIN out = DOMAIN Nothing /\ out.partial
CutBetween(M, V) ==
  /\ cut
  /\ \/ \E k \in 2 .. 10 : out = Before(M, V, k)
     \/ \E i \in 0 .. Len(M.objects) : out = ObjectsOut(M, V, i)
     \/ \E n \in 0 .. Len(M.code) : out = CodeOut(M, V, n)
     \/ ~M.debug /\ M.lib # << >> /\ DOMAIN out = DOMAIN Nothing /\ out = [Before(M, V, 10) EXCEPT !.lib = out.lib]
DoneInv(M, V) == mode = "done" /\ (Thrown \/ CutBetween(M, V) \/ out = Held(M, V))

ErrorInv == mode = "error" /\ cut

ReaderInv(M, V, W) ==
  \/ mode = "start" /\ o = 1 /\ out = Nothing
  \/ JobsInv(M, V, W)
  \/ \E j \in 1 .. Len(M.consts) + 1 : ConstsAt(M, V, W, j)
  \/ ObjectsInv(M, V, W)
  \/ ProcTableInv(M, V, W)
  \/ GlobsInv(M, V, W)
  \/ UsesInv(M, V, W)
  \/ VectorsInv(M, V, W)
  \/ Lost
  \/ DoneInv(M, V)
  \/ ErrorInv

\* What was written, and a file that is it or its beginning.
Whole(w) == IF w.by = "ecomp" THEN WriteEmod(w.module) ELSE WriteModule(w.module, w.version)
Begins(W) ==
  /\ Len(W) \in Nat /\ file \in Seq(Nat) /\ Len(file) <= Len(W)
  /\ \A i \in 1 .. Len(file) : file[i] = W[i]
  /\ ~cut => file = W
FileInv(M, V, W) ==
  /\ M \in Module /\ V \in Nat
  /\ Holds(W, 1, WriteModule(M, V)) /\ Begins(W) /\ Len(file) >= 2

EmodInv ==
  \/ written = << >> /\ FileInit
  \/ \E w : /\ written = <<w>>
           /\ FileInv(w.module, w.version, Whole(w)) /\ ReaderInv(w.module, w.version, Whole(w))

-----------------------------------------------------------------------------
(* What stands where.                                                      *)

LEMMA Splits ==
  ASSUME NEW W, Len(W) \in Nat, NEW i \in Nat \ {0}, NEW a \in WordSeqs, NEW b \in WordSeqs
  PROVE  /\ a \o b \in WordSeqs
         /\ Holds(W, i, a \o b) => Holds(W, i, a) /\ Holds(W, i + Len(a), b)
         /\ Holds(W, i, a) /\ Holds(W, i + Len(a), b) => Holds(W, i, a \o b)
<1>1. /\ a \o b \in Seq(Nat) /\ Len(a \o b) = Len(a) + Len(b)
      /\ \A k \in 1 .. Len(a) + Len(b) : (a \o b)[k] = IF k <= Len(a) THEN a[k] ELSE b[k - Len(a)]
  BY ConcatProperties DEF WordSeqs
<1>2. Len(a) \in Nat /\ Len(b) \in Nat
  BY DEF WordSeqs
<1>3. ASSUME Holds(W, i, a \o b) PROVE Holds(W, i, a) /\ Holds(W, i + Len(a), b)
  <2>1. i + Len(a) - 1 <= Len(W) /\ i + Len(a) + Len(b) - 1 <= Len(W)
    BY <1>1, <1>2, <1>3 DEF Holds
  <2>2. ASSUME NEW k \in 1 .. Len(a) PROVE W[i - 1 + k] = a[k]
    <3>1. k \in 1 .. Len(a) + Len(b) /\ k <= Len(a)
      BY <1>2
    <3>2. W[i - 1 + k] = (a \o b)[k]
      <4>1. k \in 1 .. Len(a \o b)
        BY <1>1, <3>1
      <4> QED
        BY <1>3, <4>1 DEF Holds
    <3> QED
      BY <1>1, <3>1, <3>2
  <2>3. ASSUME NEW k \in 1 .. Len(b) PROVE W[i + Len(a) - 1 + k] = b[k]
    <3>1. Len(a) + k \in 1 .. Len(a) + Len(b) /\ ~ (Len(a) + k <= Len(a)) /\ Len(a) + k - Len(a) = k
      BY <1>2
    <3>2. W[i - 1 + (Len(a) + k)] = (a \o b)[Len(a) + k]
      <4>1. Len(a) + k \in 1 .. Len(a \o b)
        BY <1>1, <3>1
      <4> QED
        BY <1>3, <4>1, Zenon DEF Holds
    <3>3. (a \o b)[Len(a) + k] = b[k]
      BY <1>1, <3>1
    <3>4. i - 1 + (Len(a) + k) = i + Len(a) - 1 + k
      BY <1>2
    <3> QED
      BY <3>2, <3>3, <3>4
  <2> QED
    BY <2>1, <2>2, <2>3 DEF Holds
<1>4. ASSUME Holds(W, i, a), Holds(W, i + Len(a), b) PROVE Holds(W, i, a \o b)
  <2>1. i + Len(a \o b) - 1 <= Len(W)
    BY <1>1, <1>2, <1>4 DEF Holds
  <2>2. ASSUME NEW k \in 1 .. Len(a \o b) PROVE W[i - 1 + k] = (a \o b)[k]
    <3>1. CASE k <= Len(a)
      BY <1>1, <1>2, <1>4, <3>1 DEF Holds
    <3>2. CASE ~ (k <= Len(a))
      <4>1. k - Len(a) \in 1 .. Len(b) /\ i + Len(a) - 1 + (k - Len(a)) = i - 1 + k
        BY <1>1, <1>2, <3>2
      <4>2. W[i + Len(a) - 1 + (k - Len(a))] = b[k - Len(a)]
        BY <1>4, <4>1 DEF Holds
      <4> QED
        BY <1>1, <3>2, <4>1, <4>2
    <3> QED
      BY <3>1, <3>2
  <2> QED
    BY <2>1, <2>2 DEF Holds
<1> QED
  BY <1>1, <1>3, <1>4 DEF WordSeqs

LEMMA TupleIs ==
  ASSUME NEW T, NEW n \in Nat, NEW f, DOMAIN f = 1 .. n, f = [i \in 1 .. n |-> f[i]],
         \A i \in 1 .. n : f[i] \in T
  PROVE  f \in Seq(T) /\ Len(f) = n
<1>1. f \in [1 .. n -> T]
  OBVIOUS
<1> QED
  BY <1>1

LEMMA Tuples ==
  /\ << >> \in WordSeqs /\ Len(<< >>) = 0
  /\ \A a \in Nat : <<a>> \in WordSeqs /\ Len(<<a>>) = 1
  /\ \A a, b \in Nat : <<a, b>> \in WordSeqs /\ Len(<<a, b>>) = 2
  /\ \A a, b, c \in Nat : <<a, b, c>> \in WordSeqs /\ Len(<<a, b, c>>) = 3
  /\ \A a, b, c, d \in Nat : <<a, b, c, d>> \in WordSeqs /\ Len(<<a, b, c, d>>) = 4
  /\ \A a, b, c, d, e, f \in Nat : <<a, b, c, d, e, f>> \in WordSeqs /\ Len(<<a, b, c, d, e, f>>) = 6
  BY DEF WordSeqs

LEMMA Joins ==
  ASSUME NEW a \in WordSeqs, NEW b \in WordSeqs
  PROVE  a \o b \in WordSeqs /\ Len(a \o b) = Len(a) + Len(b) /\ Len(a) \in Nat /\ Len(b) \in Nat
  BY DEF WordSeqs

LEMMA Takes1 ==
  ASSUME NEW W, NEW i \in Nat \ {0}, NEW a \in Nat, Holds(W, i, <<a>>)
  PROVE  i <= Len(W) /\ W[i] = a
<1>1. i + 1 - 1 <= Len(W) /\ W[i - 1 + 1] = a
  BY DEF Holds
<1> QED
  BY <1>1

LEMMA Takes2 ==
  ASSUME NEW W, NEW i \in Nat \ {0}, NEW a \in Nat, NEW b \in Nat, Holds(W, i, <<a, b>>)
  PROVE  i + 1 <= Len(W) /\ W[i] = a /\ W[i + 1] = b
<1>1. Len(<<a, b>>) = 2
  OBVIOUS
<1>2. i + 2 - 1 <= Len(W) /\ W[i - 1 + 1] = a /\ W[i - 1 + 2] = b
  BY <1>1 DEF Holds
<1> QED
  BY <1>2

LEMMA Takes3 ==
  ASSUME NEW W, NEW i \in Nat \ {0}, NEW a \in Nat, NEW b \in Nat, NEW c \in Nat, Holds(W, i, <<a, b, c>>)
  PROVE  i + 2 <= Len(W) /\ W[i] = a /\ W[i + 1] = b /\ W[i + 2] = c
<1>1. Len(<<a, b, c>>) = 3
  OBVIOUS
<1>2. i + 3 - 1 <= Len(W) /\ W[i - 1 + 1] = a /\ W[i - 1 + 2] = b /\ W[i - 1 + 3] = c
  BY <1>1 DEF Holds
<1> QED
  BY <1>2

LEMMA Takes4 ==
  ASSUME NEW W, NEW i \in Nat \ {0}, NEW h, Len(h) = 4, Holds(W, i, h)
  PROVE  i + 3 <= Len(W) /\ W[i] = h[1] /\ W[i + 1] = h[2] /\ W[i + 2] = h[3] /\ W[i + 3] = h[4]
<1>1. i + 4 - 1 <= Len(W) /\ W[i - 1 + 1] = h[1] /\ W[i - 1 + 2] = h[2] /\ W[i - 1 + 3] = h[3] /\ W[i - 1 + 4] = h[4]
  BY DEF Holds
<1> QED
  BY <1>1

LEMMA Takes6 ==
  ASSUME NEW W, NEW i \in Nat \ {0}, NEW h, Len(h) = 6, Holds(W, i, h)
  PROVE  i + 5 <= Len(W) /\ W[i + 3] = h[4]
<1>1. i + 6 - 1 <= Len(W) /\ W[i - 1 + 4] = h[4]
  BY DEF Holds
<1> QED
  BY <1>1

\* One entry, and the others.
LEMMA NextEntry ==
  ASSUME NEW W, Len(W) \in Nat, NEW i \in Nat \ {0}, NEW seqs \in Seq(WordSeqs), NEW j \in 1 .. Len(seqs),
         NEW rest \in WordSeqs, Holds(W, i, From(seqs, j) \o rest)
  PROVE  /\ Holds(W, i, seqs[j])
         /\ Holds(W, i + Len(seqs[j]), From(seqs, j + 1) \o rest)
         /\ Holds(W, i, seqs[j] \o (From(seqs, j + 1) \o rest)) /\ From(seqs, j + 1) \o rest \in WordSeqs
         /\ seqs[j] \in WordSeqs /\ Len(seqs[j]) \in Nat /\ i + Len(seqs[j]) \in Nat \ {0}
<1> DEFINE a == seqs[j]
           b == From(seqs, j + 1)
<1>1. a \in WordSeqs /\ b \in WordSeqs /\ From(seqs, j) = a \o b
  <2>1. Len(seqs) \in Nat /\ seqs[j] \in WordSeqs
    OBVIOUS
  <2>2. j + 1 \in 1 .. Len(seqs) + 1
    BY <2>1
  <2>3. From(seqs, j) = seqs[j] \o From(seqs, j + 1)
    BY FromIs, Zenon
  <2>4. From(seqs, j + 1) \in WordSeqs
    BY <2>2, FromIs, Zenon
  <2> QED
    BY <2>1, <2>3, <2>4
<1> HIDE DEF a, b
<1>2. Len(a) \in Nat /\ Len(b) \in Nat /\ Len(a \o b) = Len(a) + Len(b) /\ a \o b \in WordSeqs
  BY <1>1, Joins
<1>3. Holds(W, i, a \o b) /\ Holds(W, i + Len(a \o b), rest)
  BY <1>1, <1>2, Splits, Zenon
<1>4. Holds(W, i, a) /\ Holds(W, i + Len(a), b)
  BY <1>1, <1>3, Splits
<1>5. i + Len(a) \in Nat \ {0} /\ i + Len(a \o b) = i + Len(a) + Len(b)
  BY <1>2
<1>6. Holds(W, i + Len(a), b \o rest)
  BY <1>1, <1>3, <1>4, <1>5, Splits
<1>7. b \o rest \in WordSeqs
  BY <1>1, Joins
<1>8. Holds(W, i, a \o (b \o rest))
  BY <1>1, <1>4, <1>6, <1>7, Splits
<1> QED
  BY <1>1, <1>2, <1>4, <1>5, <1>6, <1>7, <1>8 DEF a, b

\* Behind the last entry.
LEMMA NoEntry ==
  ASSUME NEW W, NEW i, NEW seqs \in Seq(WordSeqs), NEW rest \in WordSeqs,
         Holds(W, i, From(seqs, Len(seqs) + 1) \o rest)
  PROVE  Holds(W, i, rest)
<1>1. From(seqs, Len(seqs) + 1) \o rest = rest
  <2>1. << >> \o rest = rest
    BY ConcatEmptySeq DEF WordSeqs
  <2> QED
    BY <2>1, FromIs, Zenon
<1> QED
  BY <1>1, Zenon

LEMMA LongSays ==
  ASSUME NEW n \in Nat
  PROVE  /\ Long(n) \in WordSeqs /\ Len(Long(n)) = 2
         /\ n \div (2 * Half) \in Nat /\ n % (2 * Half) \in Nat
         /\ (n \div (2 * Half)) * (2 * Half) + (n % (2 * Half)) = n
<1> DEFINE d == 2 * Half
<1>1. d \in Nat \ {0}
  BY EmodAssumption
<1> HIDE DEF d
<1>2. n \div d \in Nat /\ n % d \in Nat /\ (n \div d) * d + (n % d) = n
  BY <1>1
<1> QED
  BY <1>2, Tuples DEF d, Long

-----------------------------------------------------------------------------
(* The file is the beginning of what was written.                          *)

LEMMA WordThere ==
  ASSUME NEW W, Begins(W), NEW i \in Nat \ {0}
  PROVE  /\ Has(i) => file[i] = W[i]
         /\ i <= Len(W) /\ ~Has(i) => cut
         /\ \A k \in 1 .. i : Has(i) => Has(k) /\ file[k] = W[k]
  BY DEF Begins, Has

LEMMA LongThere ==
  ASSUME NEW W, Begins(W), NEW i \in Nat \ {0}, NEW n \in Nat, Holds(W, i, Long(n))
  PROVE  i + 1 <= Len(W) /\ (Has(i + 1) => LongAt(i) = n)
<1>1. /\ n \div (2 * Half) \in Nat /\ n % (2 * Half) \in Nat
      /\ (n \div (2 * Half)) * (2 * Half) + (n % (2 * Half)) = n
  BY LongSays
<1>2. i + 1 <= Len(W) /\ W[i] = n \div (2 * Half) /\ W[i + 1] = n % (2 * Half)
  BY <1>1, Takes2 DEF Long
<1>3. ASSUME Has(i + 1) PROVE LongAt(i) = n
  <2>1. file[i] = W[i] /\ file[i + 1] = W[i + 1]
    BY <1>3, WordThere
  <2> QED
    BY <1>1, <1>2, <2>1 DEF LongAt
<1> QED
  BY <1>2, <1>3

LEMMA WordsThere ==
  ASSUME NEW W, Begins(W), NEW i \in Nat \ {0}, NEW words \in WordSeqs, Holds(W, i, words)
  PROVE  /\ NameAt(i, Bytes(words)) = WordsAt(i, Len(words))
         /\ \/ WordsAt(i, Len(words)) = words
            \/ cut /\ ~Has(i + Len(words)) /\ \E n \in 0 .. Len(words) : WordsAt(i, Len(words)) = SubSeq(words, 1, n)
<1>1. Len(words) \in Nat /\ Bytes(words) \div 2 = Len(words)
  BY DEF Bytes, WordSeqs
<1>2. NameAt(i, Bytes(words)) = WordsAt(i, Len(words))
  BY <1>1 DEF NameAt
<1> DEFINE m == Len(words)
           last == IF i + m - 1 > Len(file) THEN Len(file) ELSE i + m - 1
<1>3. Len(file) \in Nat /\ last \in Int /\ last <= Len(file) /\ last <= i + m - 1
  BY <1>1 DEF Begins
<1>4. \A k \in 1 .. m : i - 1 + k <= Len(file) => file[i - 1 + k] = words[k]
  <2> SUFFICES ASSUME NEW k \in 1 .. m, i - 1 + k <= Len(file) PROVE file[i - 1 + k] = words[k]
    OBVIOUS
  <2>1. i - 1 + k \in 1 .. Len(file)
    BY <1>1, <1>3
  <2>2. file[i - 1 + k] = W[i - 1 + k]
    BY <2>1 DEF Begins
  <2> QED
    BY <2>2 DEF Holds
<1>5. PICK n \in 0 .. m : n = IF last >= i THEN last - i + 1 ELSE 0
  <2>1. (IF last >= i THEN last - i + 1 ELSE 0) \in 0 .. m
    <3> HIDE DEF last
    <3> QED
      BY <1>1, <1>3
  <2> QED
    BY <2>1, Zenon
<1>6. SubSeq(file, i, last) = SubSeq(words, 1, n)
  <2>1. CASE n = 0
    <3>1. last < i
      BY <1>3, <1>5, <2>1
    <3>2. SubSeq(file, i, last) = << >>
      BY <1>3, <3>1, SubSeqEmpty
    <3>3. SubSeq(words, 1, n) = << >>
      BY <2>1, SubSeqEmpty
    <3> QED
      BY <3>2, <3>3, Zenon
  <2>2. CASE n # 0
    <3>0. last = i + n - 1 /\ i <= last /\ n \in Nat /\ 1 <= n /\ n <= m
      BY <1>1, <1>3, <1>5, <2>2
    <3>1. \A k \in i .. last : file[k] \in Nat
      BY <1>3 DEF Begins
    <3>2. /\ SubSeq(file, i, last) \in Seq(Nat) /\ Len(SubSeq(file, i, last)) = n
          /\ \A k \in 1 .. n : SubSeq(file, i, last)[k] = file[i + k - 1]
      <4>1. Len(SubSeq(file, i, last)) = last - i + 1
        BY <1>3, <3>0, <3>1, SubSeqProperties
      <4>2. last - i + 1 = n
        BY <1>3, <3>0
      <4>3. /\ SubSeq(file, i, last) \in Seq(Nat)
            /\ \A k \in 1 .. last - i + 1 : SubSeq(file, i, last)[k] = file[i + k - 1]
        BY <1>3, <3>1, SubSeqProperties
      <4> QED
        BY <4>1, <4>2, <4>3
    <3>3. /\ SubSeq(words, 1, n) \in Seq(Nat) /\ Len(SubSeq(words, 1, n)) = n
          /\ \A k \in 1 .. n : SubSeq(words, 1, n)[k] = words[k]
      BY <1>1, <3>0 DEF WordSeqs
    <3>4. ASSUME NEW k \in 1 .. n PROVE SubSeq(file, i, last)[k] = SubSeq(words, 1, n)[k]
      <4>1. i - 1 + k <= Len(file) /\ k \in 1 .. m /\ i - 1 + k = i + k - 1
        BY <1>3, <3>0
      <4> QED
        BY <1>4, <3>2, <3>3, <4>1
    <3> QED
      BY <3>0, <3>2, <3>3, <3>4
  <2> QED
    BY <2>1, <2>2
<1>7. WordsAt(i, m) = SubSeq(file, i, last)
  BY DEF WordsAt
<1>8. CASE i + m - 1 <= Len(file)
  <2>1. n = m
    BY <1>1, <1>3, <1>5, <1>8
  <2>2. SubSeq(words, 1, m) = words
    BY SubSeqFull DEF WordSeqs
  <2> QED
    BY <1>2, <1>6, <1>7, <2>1, <2>2, Zenon
<1>9. CASE ~ (i + m - 1 <= Len(file))
  <2>1. cut
    BY <1>9 DEF Begins, Holds
  <2>2. ~ Has(i + m)
    BY <1>1, <1>3, <1>9 DEF Has
  <2> QED
    BY <1>2, <1>6, <1>7, <2>1, <2>2, Zenon
<1> QED
  BY <1>8, <1>9

-----------------------------------------------------------------------------
(* What is written, entry by entry.                                        *)

LEMMA Numbers0 ==
  /\ Half \in Nat /\ Half > 255 /\ End \in Nat /\ End = 2 * Half - 1
  /\ LongWord \subseteq Nat /\ Word \subseteq Nat /\ Ref \subseteq Nat \ {0}
<1>1. Half \in Nat /\ Half > 255
  BY EmodAssumption
<1>2. End \in Nat /\ End = 2 * Half - 1
  BY <1>1 DEF End
<1>3. PICK q \in Nat : q = 4 * Half * Half
  BY <1>1
<1> QED
  BY <1>1, <1>2, <1>3 DEF LongWord, Word, Ref

LEMMA Wider ==
  ASSUME NEW S, NEW T, S \subseteq T, NEW s \in Seq(S)
  PROVE  s \in Seq(T) /\ Len(s) \in Nat /\ DOMAIN s = 1 .. Len(s)
<1>1. Len(s) \in Nat /\ DOMAIN s = 1 .. Len(s) /\ \A i \in 1 .. Len(s) : s[i] \in T
  OBVIOUS
<1>2. s = [i \in 1 .. Len(s) |-> s[i]]
  OBVIOUS
<1> QED
  BY <1>1, <1>2, TupleIs

LEMMA NameSays ==
  ASSUME NEW name \in Name
  PROVE  /\ name \in WordSeqs /\ Len(name) \in Nat \ {0}
         /\ Bytes(name) \in Nat /\ 0 < Bytes(name) /\ Bytes(name) < Half /\ Bytes(name) \div 2 = Len(name)
         /\ Named(name) \in WordSeqs /\ Len(Named(name)) = 1 + Len(name)
<1>1. name \in Seq(Word) /\ name # << >> /\ Bytes(name) < Half
  BY DEF Name
<1>2. name \in WordSeqs /\ Len(name) \in Nat \ {0}
  <2>1. name \in Seq(Nat) /\ Len(name) \in Nat
    BY <1>1, Numbers0, Wider, Zenon
  <2> QED
    BY <1>1, <2>1 DEF WordSeqs
<1>3. Bytes(name) \in Nat /\ 0 < Bytes(name) /\ Bytes(name) \div 2 = Len(name)
  BY <1>2 DEF Bytes
<1> QED
  BY <1>1, <1>2, <1>3, Tuples, Joins DEF Named

LEMMA ArrayIs ==
  ASSUME NEW S, NEW n \in Nat, NEW f \in [1 .. n -> S]
  PROVE  f \in Seq(S) /\ Len(f) = n
  OBVIOUS


LEMMA ConstEntries ==
  ASSUME NEW consts \in Seq(Const)
  PROVE  /\ ConstWords(consts) \in Seq(WordSeqs) /\ Len(ConstWords(consts)) = Len(consts)
         /\ \A i \in 1 .. Len(consts) :
              /\ consts[i].name \in Name /\ consts[i].value \in Nat
              /\ consts[i] = [name |-> consts[i].name, value |-> consts[i].value]
              /\ ConstWords(consts)[i] = (<<Bytes(consts[i].name)>> \o Long(consts[i].value)) \o consts[i].name
<1>1. ASSUME NEW i \in 1 .. Len(consts)
      PROVE  /\ ConstWords(consts)[i] \in WordSeqs
             /\ ConstWords(consts)[i] = (<<Bytes(consts[i].name)>> \o Long(consts[i].value)) \o consts[i].name
             /\ consts[i].name \in Name /\ consts[i].value \in Nat
             /\ consts[i] = [name |-> consts[i].name, value |-> consts[i].value]
  <2>1. consts[i] \in Const
    OBVIOUS
  <2>2. /\ consts[i].name \in Name /\ consts[i].value \in Nat
        /\ consts[i] = [name |-> consts[i].name, value |-> consts[i].value]
    BY <2>1, Numbers0, Zenon DEF Const
  <2>3. ConstWords(consts)[i] = (<<Bytes(consts[i].name)>> \o Long(consts[i].value)) \o consts[i].name
    <3>1. i \in DOMAIN consts
      OBVIOUS
    <3> QED
      BY <3>1, Zenon DEF ConstWords
  <2>4. (<<Bytes(consts[i].name)>> \o Long(consts[i].value)) \o consts[i].name \in WordSeqs
    BY <2>2, Numbers0, NameSays, LongSays, Tuples, Joins, Zenon
  <2> QED
    BY <2>2, <2>3, <2>4
<1>2. ConstWords(consts) \in [1 .. Len(consts) -> WordSeqs]
  <2>1. DOMAIN consts = 1 .. Len(consts)
    OBVIOUS
  <2>2. ConstWords(consts) = [i \in 1 .. Len(consts) |-> ConstWords(consts)[i]]
    BY <2>1, Zenon DEF ConstWords
  <2> QED
    BY <1>1, <2>2, Zenon
<1>3. ConstWords(consts) \in Seq(WordSeqs) /\ Len(ConstWords(consts)) = Len(consts)
  <2>1. Len(consts) \in Nat
    OBVIOUS
  <2> QED
    BY <1>2, <2>1, ArrayIs
<1> QED
  BY <1>1, <1>3, Zenon

LEMMA TypeSays ==
  ASSUME NEW V \in Nat, NEW type \in Name \cup {<< >>}
  PROVE  TypeWords(V, type) \in WordSeqs
<1>1. CASE type = << >>
  BY <1>1, Tuples DEF TypeWords
<1>2. CASE type # << >>
  <2>1. type \in Name
    BY <1>2
  <2>2. <<End>> \o Named(type) \in WordSeqs
    BY <2>1, NameSays, Tuples, Joins, Numbers0
  <2> QED
    BY <1>2, <2>2, Tuples DEF TypeWords
<1> QED
  BY <1>1, <1>2

LEMMA MemberEntries ==
  ASSUME NEW V \in Nat, NEW members \in Seq(Member)
  PROVE  /\ MemberWords(V, members) \in Seq(WordSeqs) /\ Len(MemberWords(V, members)) = Len(members)
         /\ \A i \in 1 .. Len(members) :
              /\ members[i].name \in Name /\ members[i].val \in Nat /\ members[i].offset \in Nat
              /\ members[i].type \in Name \cup {<< >>}
              /\ members[i] = [name |-> members[i].name, val |-> members[i].val, offset |-> members[i].offset, type |-> members[i].type]
              /\ MemberWords(V, members)[i] = (<<Bytes(members[i].name), members[i].val, members[i].offset>> \o members[i].name)
                   \o TypeWords(V, members[i].type)
<1>1. ASSUME NEW i \in 1 .. Len(members)
      PROVE  /\ MemberWords(V, members)[i] \in WordSeqs
             /\ MemberWords(V, members)[i] = (<<Bytes(members[i].name), members[i].val, members[i].offset>> \o members[i].name)
                   \o TypeWords(V, members[i].type)
             /\ members[i].name \in Name /\ members[i].val \in Nat /\ members[i].offset \in Nat
             /\ members[i].type \in Name \cup {<< >>}
             /\ members[i] = [name |-> members[i].name, val |-> members[i].val, offset |-> members[i].offset, type |-> members[i].type]
  <2>1. members[i] \in Member
    OBVIOUS
  <2>2. /\ members[i].name \in Name /\ members[i].val \in Nat /\ members[i].offset \in Nat
        /\ members[i].type \in Name \cup {<< >>}
        /\ members[i] = [name |-> members[i].name, val |-> members[i].val, offset |-> members[i].offset, type |-> members[i].type]
    BY <2>1, Numbers0, Zenon DEF Member
  <2>3. MemberWords(V, members)[i] = (<<Bytes(members[i].name), members[i].val, members[i].offset>> \o members[i].name)
                   \o TypeWords(V, members[i].type)
    <3>1. i \in DOMAIN members
      OBVIOUS
    <3> QED
      BY <3>1, Zenon DEF MemberWords
  <2>4. (<<Bytes(members[i].name), members[i].val, members[i].offset>> \o members[i].name)
                   \o TypeWords(V, members[i].type) \in WordSeqs
    BY <2>2, Numbers0, NameSays, LongSays, Tuples, Joins, TypeSays, Zenon
  <2> QED
    BY <2>2, <2>3, <2>4
<1>2. MemberWords(V, members) \in [1 .. Len(members) -> WordSeqs]
  <2>1. DOMAIN members = 1 .. Len(members)
    OBVIOUS
  <2>2. MemberWords(V, members) = [i \in 1 .. Len(members) |-> MemberWords(V, members)[i]]
    BY <2>1, Zenon DEF MemberWords
  <2> QED
    BY <1>1, <2>2, Zenon
<1>3. MemberWords(V, members) \in Seq(WordSeqs) /\ Len(MemberWords(V, members)) = Len(members)
  <2>1. Len(members) \in Nat
    OBVIOUS
  <2> QED
    BY <1>2, <2>1, ArrayIs, Zenon
<1> QED
  BY <1>1, <1>3, Zenon

LEMMA FlatIs ==
  ASSUME NEW seqs \in Seq(WordSeqs)
  PROVE  Flat(seqs) \in WordSeqs
<1>1. 1 \in 1 .. Len(seqs) + 1
  OBVIOUS
<1> QED
  BY <1>1, FromIs, Zenon DEF Flat

LEMMA LongEntries ==
  ASSUME NEW longs \in Seq(LongWord)
  PROVE  /\ LongsOf(longs) \in Seq(WordSeqs) /\ Len(LongsOf(longs)) = Len(longs)
         /\ \A i \in 1 .. Len(longs) :
              /\ longs[i] \in Nat
              /\ LongsOf(longs)[i] = Long(longs[i])
<1>1. ASSUME NEW i \in 1 .. Len(longs)
      PROVE  /\ LongsOf(longs)[i] \in WordSeqs
             /\ LongsOf(longs)[i] = Long(longs[i])
             /\ longs[i] \in Nat
  <2>1. longs[i] \in LongWord
    OBVIOUS
  <2>2. /\ longs[i] \in Nat
    BY <2>1, Numbers0, Zenon
  <2>3. LongsOf(longs)[i] = Long(longs[i])
    <3>1. i \in DOMAIN longs
      OBVIOUS
    <3> QED
      BY <3>1 DEF LongsOf
  <2>4. Long(longs[i]) \in WordSeqs
    BY <2>2, Numbers0, NameSays, LongSays, Tuples, Joins, Zenon
  <2> QED
    BY <2>2, <2>3, <2>4
<1>2. LongsOf(longs) \in [1 .. Len(longs) -> WordSeqs]
  <2>1. DOMAIN longs = 1 .. Len(longs)
    OBVIOUS
  <2>2. LongsOf(longs) = [i \in 1 .. Len(longs) |-> LongsOf(longs)[i]]
    BY <2>1 DEF LongsOf
  <2> QED
    BY <1>1, <2>2
<1>3. LongsOf(longs) \in Seq(WordSeqs) /\ Len(LongsOf(longs)) = Len(longs)
  <2>1. Len(longs) \in Nat
    OBVIOUS
  <2> QED
    BY <1>2, <2>1, ArrayIs
<1> QED
  BY <1>1, <1>3

LEMMA LongsSay ==
  ASSUME NEW longs \in Seq(LongWord)
  PROVE  Flat(LongsOf(longs)) \in WordSeqs /\ Len(longs) \in Nat /\ Len(Flat(LongsOf(longs))) = 2 * Len(longs)
<1> DEFINE seqs == LongsOf(longs)
           n == Len(longs)
           Good(k) == Len(From(seqs, n + 1 - k)) = 2 * k
           Bad == {k \in 0 .. n : ~Good(k)}
<1>1. seqs \in Seq(WordSeqs) /\ Len(seqs) = n /\ n \in Nat /\ \A i \in 1 .. n : Len(seqs[i]) = 2
  <2>1. LongsOf(longs) \in Seq(WordSeqs) /\ Len(LongsOf(longs)) = Len(longs)
    BY LongEntries
  <2>2. Len(longs) \in Nat
    OBVIOUS
  <2>3. ASSUME NEW i \in 1 .. Len(longs) PROVE Len(LongsOf(longs)[i]) = 2
    <3>1. longs[i] \in Nat /\ LongsOf(longs)[i] = Long(longs[i])
      BY LongEntries
    <3> QED
      BY <3>1, LongSays, Zenon
  <2> QED
    BY <2>1, <2>2, <2>3
<1> HIDE DEF seqs, n
<1>2. Bad = {}
  <2>1. SUFFICES ASSUME Bad # {} PROVE FALSE
    OBVIOUS
  <2>2. Bad \in SUBSET Nat
    OBVIOUS
  <2>3. PICK k \in Bad : \A j \in Bad : k <= j
    BY <2>1, <2>2, LeastOf, Zenon
  <2>4. k \in 0 .. n /\ ~Good(k)
    BY <2>3
  <2>5. k # 0
    <3>1. From(seqs, n + 1) = << >> /\ Len(<< >>) = 0
      BY <1>1, FromIs, Zenon
    <3>2. n + 1 - 0 = n + 1
      BY <1>1
    <3> QED
      BY <2>4, <3>1, <3>2
  <2>6. k - 1 \in 0 .. n /\ ~ (k <= k - 1) /\ n + 1 - k \in 1 .. n /\ n + 1 - k + 1 = n + 1 - (k - 1)
    BY <1>1, <2>4, <2>5
  <2>7. Good(k - 1)
    BY <2>3, <2>6
  <2>8. From(seqs, n + 1 - k) = seqs[n + 1 - k] \o From(seqs, n + 1 - (k - 1))
    BY <1>1, <2>6, FromIs, Zenon
  <2>9. seqs[n + 1 - k] \in WordSeqs /\ Len(seqs[n + 1 - k]) = 2
    BY <1>1, <2>6
  <2>10. From(seqs, n + 1 - (k - 1)) \in WordSeqs
    <3>1. n + 1 - (k - 1) \in 1 .. n + 1
      BY <1>1, <2>6
    <3> QED
      BY <1>1, <3>1, FromIs, Zenon
  <2>11. Len(From(seqs, n + 1 - k)) = 2 + 2 * (k - 1)
    BY <2>7, <2>8, <2>9, <2>10, Joins, Zenon
  <2> QED
    BY <2>4, <2>11
<1>3. n \in 0 .. n /\ n + 1 - n = 1
  BY <1>1
<1>4. Good(n)
  BY <1>2, <1>3
<1> QED
  BY <1>1, <1>3, <1>4, FlatIs DEF Flat, seqs, n

LEMMA MethodEntries ==
  ASSUME NEW methods \in Seq(Method)
  PROVE  /\ MethodWords(methods) \in Seq(WordSeqs) /\ Len(MethodWords(methods)) = Len(methods)
         /\ \A i \in 1 .. Len(methods) :
              /\ methods[i].name \in Name /\ methods[i].slot \in Nat /\ methods[i].args \in Nat
              /\ methods[i].defaults \in Seq(LongWord)
              /\ MethodWords(methods)[i] = ((<<1, methods[i].slot>> \o Named(methods[i].name))
                    \o <<methods[i].args, Len(methods[i].defaults)>>) \o Flat(LongsOf(methods[i].defaults))
<1>1. ASSUME NEW i \in 1 .. Len(methods)
      PROVE  /\ MethodWords(methods)[i] \in WordSeqs
             /\ MethodWords(methods)[i] = ((<<1, methods[i].slot>> \o Named(methods[i].name))
                    \o <<methods[i].args, Len(methods[i].defaults)>>) \o Flat(LongsOf(methods[i].defaults))
             /\ methods[i].name \in Name /\ methods[i].slot \in Nat /\ methods[i].args \in Nat
             /\ methods[i].defaults \in Seq(LongWord)
  <2>1. methods[i] \in Method
    OBVIOUS
  <2>2. /\ methods[i].name \in Name /\ methods[i].slot \in Nat /\ methods[i].args \in Nat
        /\ methods[i].defaults \in Seq(LongWord)
    BY <2>1, Numbers0, Zenon DEF Method
  <2>3. MethodWords(methods)[i] = ((<<1, methods[i].slot>> \o Named(methods[i].name))
                    \o <<methods[i].args, Len(methods[i].defaults)>>) \o Flat(LongsOf(methods[i].defaults))
    <3>1. i \in DOMAIN methods
      OBVIOUS
    <3> QED
      BY <3>1, Zenon DEF MethodWords
  <2>4. ((<<1, methods[i].slot>> \o Named(methods[i].name))
                    \o <<methods[i].args, Len(methods[i].defaults)>>) \o Flat(LongsOf(methods[i].defaults)) \in WordSeqs
    BY <2>2, Numbers0, NameSays, LongSays, Tuples, Joins, LongsSay, Zenon
  <2> QED
    BY <2>2, <2>3, <2>4
<1>2. MethodWords(methods) \in [1 .. Len(methods) -> WordSeqs]
  <2>1. DOMAIN methods = 1 .. Len(methods)
    OBVIOUS
  <2>2. MethodWords(methods) = [i \in 1 .. Len(methods) |-> MethodWords(methods)[i]]
    BY <2>1 DEF MethodWords
  <2> QED
    BY <1>1, <2>2, Zenon
<1>3. MethodWords(methods) \in Seq(WordSeqs) /\ Len(MethodWords(methods)) = Len(methods)
  <2>1. Len(methods) \in Nat
    OBVIOUS
  <2> QED
    BY <1>2, <2>1, ArrayIs
<1> QED
  BY <1>1, <1>3, Zenon

LEMMA AccessEntries ==
  ASSUME NEW oacc \in Seq(LongWord)
  PROVE  /\ AccessWords(oacc) \in Seq(WordSeqs) /\ Len(AccessWords(oacc)) = Len(oacc)
         /\ \A i \in 1 .. Len(oacc) :
              /\ oacc[i] \in Nat
              /\ AccessWords(oacc)[i] = << 0 >> \o Long(oacc[i])
<1>1. ASSUME NEW i \in 1 .. Len(oacc)
      PROVE  /\ AccessWords(oacc)[i] \in WordSeqs
             /\ AccessWords(oacc)[i] = << 0 >> \o Long(oacc[i])
             /\ oacc[i] \in Nat
  <2>1. oacc[i] \in LongWord
    OBVIOUS
  <2>2. /\ oacc[i] \in Nat
    BY <2>1, Numbers0, Zenon
  <2>3. AccessWords(oacc)[i] = << 0 >> \o Long(oacc[i])
    <3>1. i \in DOMAIN oacc
      OBVIOUS
    <3> QED
      BY <3>1 DEF AccessWords
  <2>4. << 0 >> \o Long(oacc[i]) \in WordSeqs
    BY <2>2, Numbers0, NameSays, LongSays, Tuples, Joins, Zenon
  <2> QED
    BY <2>2, <2>3, <2>4
<1>2. AccessWords(oacc) \in [1 .. Len(oacc) -> WordSeqs]
  <2>1. DOMAIN oacc = 1 .. Len(oacc)
    OBVIOUS
  <2>2. AccessWords(oacc) = [i \in 1 .. Len(oacc) |-> AccessWords(oacc)[i]]
    BY <2>1 DEF AccessWords
  <2> QED
    BY <1>1, <2>2
<1>3. AccessWords(oacc) \in Seq(WordSeqs) /\ Len(AccessWords(oacc)) = Len(oacc)
  <2>1. Len(oacc) \in Nat
    OBVIOUS
  <2> QED
    BY <1>2, <2>1, ArrayIs
<1> QED
  BY <1>1, <1>3

\* What a procedure's entry ends with, or a label's.
ProcTail(p) ==
  IF p.kind = "label" THEN << 2 >>
  ELSE <<1, p.args, 0, Len(p.defaults)>> \o ((Flat(LongsOf(p.defaults)) \o <<Bytes(p.extra)>>) \o p.extra)

LEMMA ProcTailSays ==
  ASSUME NEW p \in Proc
  PROVE  /\ p.name \in Name /\ p.offset \in Nat /\ p.args \in Nat /\ p.kind \in {"proc", "label"}
         /\ p.defaults \in Seq(LongWord) /\ Len(p.defaults) \in Nat
         /\ p.extra \in WordSeqs /\ Len(p.extra) \in Nat
         /\ ProcTail(p) \in WordSeqs
<1>1. /\ p.name \in Name /\ p.offset \in Nat /\ p.args \in Nat /\ p.kind \in {"proc", "label"}
      /\ p.defaults \in Seq(LongWord) /\ p.extra \in Seq(Word)
  BY Numbers0, Zenon DEF Proc
<1>2. p.extra \in WordSeqs /\ Len(p.extra) \in Nat /\ Len(p.defaults) \in Nat
  <2>1. p.extra \in Seq(Nat) /\ Len(p.extra) \in Nat
    BY <1>1, Numbers0, Wider, Zenon
  <2>2. Len(p.defaults) \in Nat
    BY <1>1
  <2> QED
    BY <2>1, <2>2 DEF WordSeqs
<1>3. Bytes(p.extra) \in Nat
  BY <1>2 DEF Bytes
<1>4. Flat(LongsOf(p.defaults)) \in WordSeqs
  BY <1>1, LongsSay
<1>5. (Flat(LongsOf(p.defaults)) \o <<Bytes(p.extra)>>) \o p.extra \in WordSeqs
  BY <1>2, <1>3, <1>4, Tuples, Joins, Zenon
<1>6. ProcTail(p) \in WordSeqs
  BY <1>1, <1>2, <1>5, Tuples, Joins, Zenon DEF ProcTail
<1> QED
  BY <1>1, <1>2, <1>6

LEMMA ProcEntries ==
  ASSUME NEW procs \in Seq(Proc)
  PROVE  /\ ProcWords(procs) \in Seq(WordSeqs) /\ Len(ProcWords(procs)) = Len(procs)
         /\ \A i \in 1 .. Len(procs) :
              /\ procs[i] \in Proc
              /\ ProcWords(procs)[i] = (Named(procs[i].name) \o Long(procs[i].offset)) \o ProcTail(procs[i])
<1>1. ASSUME NEW i \in 1 .. Len(procs)
      PROVE  /\ ProcWords(procs)[i] \in WordSeqs
             /\ ProcWords(procs)[i] = (Named(procs[i].name) \o Long(procs[i].offset)) \o ProcTail(procs[i])
             /\ procs[i] \in Proc
  <2>1. procs[i] \in Proc
    OBVIOUS
  <2>2. /\ procs[i] \in Proc
    BY <2>1, Numbers0
  <2>3. ProcWords(procs)[i] = (Named(procs[i].name) \o Long(procs[i].offset)) \o ProcTail(procs[i])
    <3>1. i \in DOMAIN procs
      OBVIOUS
    <3> QED
      BY <3>1, Zenon DEF ProcWords, ProcTail
  <2>4. (Named(procs[i].name) \o Long(procs[i].offset)) \o ProcTail(procs[i]) \in WordSeqs
    BY <2>2, Numbers0, NameSays, LongSays, Tuples, Joins, ProcTailSays, Zenon
  <2> QED
    BY <2>2, <2>3, <2>4
<1>2. ProcWords(procs) \in [1 .. Len(procs) -> WordSeqs]
  <2>1. DOMAIN procs = 1 .. Len(procs)
    OBVIOUS
  <2>2. ProcWords(procs) = [i \in 1 .. Len(procs) |-> ProcWords(procs)[i]]
    BY <2>1, Zenon DEF ProcWords, ProcTail
  <2> QED
    BY <1>1, <2>2
<1>3. ProcWords(procs) \in Seq(WordSeqs) /\ Len(ProcWords(procs)) = Len(procs)
  <2>1. Len(procs) \in Nat
    OBVIOUS
  <2> QED
    BY <1>2, <2>1, ArrayIs
<1> QED
  BY <1>1, <1>3, Zenon

LEMMA RelocSays ==
  ASSUME NEW r \in Reloc
  PROVE  /\ r.offset \in Nat /\ r.ifunc \in BOOLEAN /\ 2 * Half * Half \in Nat
         /\ r.offset + (IF r.ifunc THEN 2 * Half * Half ELSE 0) \in Nat
<1>1. r.offset \in Nat /\ r.ifunc \in BOOLEAN
  BY Numbers0, Zenon DEF Reloc
<1>2. PICK q \in Nat : q = 2 * Half * Half
  BY Numbers0
<1> QED
  BY <1>1, <1>2

LEMMA RelocEntries ==
  ASSUME NEW relocs \in Seq(Reloc)
  PROVE  /\ RelocWords(relocs) \in Seq(WordSeqs) /\ Len(RelocWords(relocs)) = Len(relocs)
         /\ \A i \in 1 .. Len(relocs) :
              /\ relocs[i] \in Reloc
              /\ RelocWords(relocs)[i] = Long(relocs[i].offset + IF relocs[i].ifunc THEN 2 * Half * Half ELSE 0)
<1>1. ASSUME NEW i \in 1 .. Len(relocs)
      PROVE  /\ RelocWords(relocs)[i] \in WordSeqs
             /\ RelocWords(relocs)[i] = Long(relocs[i].offset + IF relocs[i].ifunc THEN 2 * Half * Half ELSE 0)
             /\ relocs[i] \in Reloc
  <2>1. relocs[i] \in Reloc
    OBVIOUS
  <2>2. /\ relocs[i] \in Reloc
    BY <2>1, Numbers0
  <2>3. RelocWords(relocs)[i] = Long(relocs[i].offset + IF relocs[i].ifunc THEN 2 * Half * Half ELSE 0)
    <3>1. i \in DOMAIN relocs
      OBVIOUS
    <3> QED
      BY <3>1 DEF RelocWords
  <2>4. Long(relocs[i].offset + IF relocs[i].ifunc THEN 2 * Half * Half ELSE 0) \in WordSeqs
    BY <2>2, Numbers0, NameSays, LongSays, Tuples, Joins, RelocSays, Zenon
  <2> QED
    BY <2>2, <2>3, <2>4
<1>2. RelocWords(relocs) \in [1 .. Len(relocs) -> WordSeqs]
  <2>1. DOMAIN relocs = 1 .. Len(relocs)
    OBVIOUS
  <2>2. RelocWords(relocs) = [i \in 1 .. Len(relocs) |-> RelocWords(relocs)[i]]
    BY <2>1 DEF RelocWords
  <2> QED
    BY <1>1, <2>2
<1>3. RelocWords(relocs) \in Seq(WordSeqs) /\ Len(RelocWords(relocs)) = Len(relocs)
  <2>1. Len(relocs) \in Nat
    OBVIOUS
  <2> QED
    BY <1>2, <2>1, ArrayIs
<1> QED
  BY <1>1, <1>3

LEMMA OptionSays ==
  ASSUME NEW V \in Nat
  PROVE  (IF V >= 10 THEN << 0 >> ELSE << >>) \in WordSeqs
  BY Tuples

LEMMA RefEntries ==
  ASSUME NEW V \in Nat, NEW refs \in Seq(Ref)
  PROVE  /\ RefWords(V, refs) \in Seq(WordSeqs) /\ Len(RefWords(V, refs)) = Len(refs)
         /\ \A i \in 1 .. Len(refs) :
              /\ refs[i] \in Nat \ {0}
              /\ RefWords(V, refs)[i] = Long(refs[i]) \o (IF V >= 10 THEN << 0 >> ELSE << >>)
<1>1. ASSUME NEW i \in 1 .. Len(refs)
      PROVE  /\ RefWords(V, refs)[i] \in WordSeqs
             /\ RefWords(V, refs)[i] = Long(refs[i]) \o (IF V >= 10 THEN << 0 >> ELSE << >>)
             /\ refs[i] \in Nat \ {0}
  <2>1. refs[i] \in Ref
    OBVIOUS
  <2>2. /\ refs[i] \in Nat \ {0}
    BY <2>1, Numbers0, Zenon
  <2>3. RefWords(V, refs)[i] = Long(refs[i]) \o (IF V >= 10 THEN << 0 >> ELSE << >>)
    <3>1. i \in DOMAIN refs
      OBVIOUS
    <3> QED
      BY <3>1 DEF RefWords
  <2>4. Long(refs[i]) \o (IF V >= 10 THEN << 0 >> ELSE << >>) \in WordSeqs
    BY <2>2, Numbers0, NameSays, LongSays, Tuples, Joins, OptionSays, Zenon
  <2> QED
    BY <2>2, <2>3, <2>4
<1>2. RefWords(V, refs) \in [1 .. Len(refs) -> WordSeqs]
  <2>1. DOMAIN refs = 1 .. Len(refs)
    OBVIOUS
  <2>2. RefWords(V, refs) = [i \in 1 .. Len(refs) |-> RefWords(V, refs)[i]]
    BY <2>1 DEF RefWords
  <2> QED
    BY <1>1, <2>2
<1>3. RefWords(V, refs) \in Seq(WordSeqs) /\ Len(RefWords(V, refs)) = Len(refs)
  <2>1. Len(refs) \in Nat
    OBVIOUS
  <2> QED
    BY <1>2, <2>1, ArrayIs, Zenon
<1> QED
  BY <1>1, <1>3

LEMMA RefListSays ==
  ASSUME NEW V \in Nat, NEW refs \in Seq(Ref)
  PROVE  RefList(V, refs) \in WordSeqs /\ LongZero \in WordSeqs /\ Len(LongZero) = 2
<1>1. Flat(RefWords(V, refs)) \in WordSeqs
  BY RefEntries, FlatIs
<1>2. LongZero \in WordSeqs /\ Len(LongZero) = 2
  BY Tuples DEF LongZero
<1> QED
  BY <1>1, <1>2, Joins DEF RefList

LEMMA XrefEntries ==
  ASSUME NEW V \in Nat, NEW xrefs \in Seq(Xref)
  PROVE  /\ XrefWords(V, xrefs) \in Seq(WordSeqs) /\ Len(XrefWords(V, xrefs)) = Len(xrefs)
         /\ \A i \in 1 .. Len(xrefs) :
              /\ xrefs[i].name \in Name /\ xrefs[i].refs \in Seq(Ref)
              /\ xrefs[i] = [name |-> xrefs[i].name, refs |-> xrefs[i].refs]
              /\ XrefWords(V, xrefs)[i] = Named(xrefs[i].name) \o RefList(V, xrefs[i].refs)
<1>1. ASSUME NEW i \in 1 .. Len(xrefs)
      PROVE  /\ XrefWords(V, xrefs)[i] \in WordSeqs
             /\ XrefWords(V, xrefs)[i] = Named(xrefs[i].name) \o RefList(V, xrefs[i].refs)
             /\ xrefs[i].name \in Name /\ xrefs[i].refs \in Seq(Ref)
             /\ xrefs[i] = [name |-> xrefs[i].name, refs |-> xrefs[i].refs]
  <2>1. xrefs[i] \in Xref
    OBVIOUS
  <2>2. /\ xrefs[i].name \in Name /\ xrefs[i].refs \in Seq(Ref)
        /\ xrefs[i] = [name |-> xrefs[i].name, refs |-> xrefs[i].refs]
    BY <2>1, Numbers0 DEF Xref
  <2>3. XrefWords(V, xrefs)[i] = Named(xrefs[i].name) \o RefList(V, xrefs[i].refs)
    <3>1. i \in DOMAIN xrefs
      OBVIOUS
    <3> QED
      BY <3>1 DEF XrefWords
  <2>4. Named(xrefs[i].name) \o RefList(V, xrefs[i].refs) \in WordSeqs
    BY <2>2, Numbers0, NameSays, LongSays, Tuples, Joins, RefListSays, Zenon
  <2> QED
    BY <2>2, <2>3, <2>4
<1>2. XrefWords(V, xrefs) \in [1 .. Len(xrefs) -> WordSeqs]
  <2>1. DOMAIN xrefs = 1 .. Len(xrefs)
    OBVIOUS
  <2>2. XrefWords(V, xrefs) = [i \in 1 .. Len(xrefs) |-> XrefWords(V, xrefs)[i]]
    BY <2>1 DEF XrefWords
  <2> QED
    BY <1>1, <2>2, Zenon
<1>3. XrefWords(V, xrefs) \in Seq(WordSeqs) /\ Len(XrefWords(V, xrefs)) = Len(xrefs)
  <2>1. Len(xrefs) \in Nat
    OBVIOUS
  <2> QED
    BY <1>2, <2>1, ArrayIs, Zenon
<1> QED
  BY <1>1, <1>3

LEMMA DrelEntries ==
  ASSUME NEW V \in Nat, NEW drels \in Seq(Seq(Ref))
  PROVE  /\ DrelWords(V, drels) \in Seq(WordSeqs) /\ Len(DrelWords(V, drels)) = Len(drels)
         /\ \A i \in 1 .. Len(drels) :
              /\ drels[i] \in Seq(Ref)
              /\ DrelWords(V, drels)[i] = << 0 >> \o RefList(V, drels[i])
<1>1. ASSUME NEW i \in 1 .. Len(drels)
      PROVE  /\ DrelWords(V, drels)[i] \in WordSeqs
             /\ DrelWords(V, drels)[i] = << 0 >> \o RefList(V, drels[i])
             /\ drels[i] \in Seq(Ref)
  <2>1. drels[i] \in Seq(Ref)
    OBVIOUS
  <2>2. /\ drels[i] \in Seq(Ref)
    BY <2>1, Numbers0
  <2>3. DrelWords(V, drels)[i] = << 0 >> \o RefList(V, drels[i])
    <3>1. i \in DOMAIN drels
      OBVIOUS
    <3> QED
      BY <3>1 DEF DrelWords
  <2>4. << 0 >> \o RefList(V, drels[i]) \in WordSeqs
    BY <2>2, Numbers0, NameSays, LongSays, Tuples, Joins, RefListSays, Zenon
  <2> QED
    BY <2>2, <2>3, <2>4
<1>2. DrelWords(V, drels) \in [1 .. Len(drels) -> WordSeqs]
  <2>1. DOMAIN drels = 1 .. Len(drels)
    OBVIOUS
  <2>2. DrelWords(V, drels) = [i \in 1 .. Len(drels) |-> DrelWords(V, drels)[i]]
    BY <2>1 DEF DrelWords
  <2> QED
    BY <1>1, <2>2
<1>3. DrelWords(V, drels) \in Seq(WordSeqs) /\ Len(DrelWords(V, drels)) = Len(drels)
  <2>1. Len(drels) \in Nat
    OBVIOUS
  <2> QED
    BY <1>2, <2>1, ArrayIs, Zenon
<1> QED
  BY <1>1, <1>3

LEMMA PlaceSays ==
  ASSUME NEW kind, NEW p \in Place
  PROVE  /\ p.coff \in Nat /\ p.type \in Nat /\ p = [coff |-> p.coff, type |-> p.type]
         /\ (IF kind = 2 THEN << >> ELSE <<p.type>>) \in WordSeqs
<1>1. p.coff \in Nat /\ p.type \in Nat /\ p = [coff |-> p.coff, type |-> p.type]
  BY Numbers0, Zenon DEF Place
<1> QED
  BY <1>1, Tuples

LEMMA PlaceEntries ==
  ASSUME NEW kind, NEW refs \in Seq(Place)
  PROVE  /\ PlaceWords(kind, refs) \in Seq(WordSeqs) /\ Len(PlaceWords(kind, refs)) = Len(refs)
         /\ \A i \in 1 .. Len(refs) :
              /\ refs[i] \in Place
              /\ PlaceWords(kind, refs)[i] = Long(refs[i].coff) \o (IF kind = 2 THEN << >> ELSE <<refs[i].type>>)
<1>1. ASSUME NEW i \in 1 .. Len(refs)
      PROVE  /\ PlaceWords(kind, refs)[i] \in WordSeqs
             /\ PlaceWords(kind, refs)[i] = Long(refs[i].coff) \o (IF kind = 2 THEN << >> ELSE <<refs[i].type>>)
             /\ refs[i] \in Place
  <2>1. refs[i] \in Place
    OBVIOUS
  <2>2. /\ refs[i] \in Place
    BY <2>1, Numbers0
  <2>3. PlaceWords(kind, refs)[i] = Long(refs[i].coff) \o (IF kind = 2 THEN << >> ELSE <<refs[i].type>>)
    <3>1. i \in DOMAIN refs
      OBVIOUS
    <3> QED
      BY <3>1 DEF PlaceWords
  <2>4. Long(refs[i].coff) \o (IF kind = 2 THEN << >> ELSE <<refs[i].type>>) \in WordSeqs
    BY <2>2, Numbers0, NameSays, LongSays, Tuples, Joins, PlaceSays, Zenon
  <2> QED
    BY <2>2, <2>3, <2>4
<1>2. PlaceWords(kind, refs) \in [1 .. Len(refs) -> WordSeqs]
  <2>1. DOMAIN refs = 1 .. Len(refs)
    OBVIOUS
  <2>2. PlaceWords(kind, refs) = [i \in 1 .. Len(refs) |-> PlaceWords(kind, refs)[i]]
    BY <2>1 DEF PlaceWords
  <2> QED
    BY <1>1, <2>2, Zenon
<1>3. PlaceWords(kind, refs) \in Seq(WordSeqs) /\ Len(PlaceWords(kind, refs)) = Len(refs)
  <2>1. Len(refs) \in Nat
    OBVIOUS
  <2> QED
    BY <1>2, <2>1, ArrayIs
<1> QED
  BY <1>1, <1>3

LEMMA UseSays ==
  ASSUME NEW use \in Use
  PROVE  /\ use.submodule \in Name /\ use.symbol \in Name /\ use.kind \in Nat \ {0}
         /\ use.refs \in Seq(Place) /\ Len(use.refs) \in Nat
         /\ use = [submodule |-> use.submodule, symbol |-> use.symbol, kind |-> use.kind, refs |-> use.refs]
         /\ SymbolWords(use) \in WordSeqs
         /\ SymbolWords(use) \o (Flat(PlaceWords(use.kind, use.refs)) \o << 0 >>) \in WordSeqs
<1>1. /\ use.submodule \in Name /\ use.symbol \in Name /\ use.kind \in Nat \ {0} /\ use.refs \in Seq(Place)
      /\ use = [submodule |-> use.submodule, symbol |-> use.symbol, kind |-> use.kind, refs |-> use.refs]
  BY Numbers0 DEF Use
<1>2. Len(use.refs) \in Nat
  BY <1>1
<1>3. (IF use.kind = 2 THEN << 0 >> ELSE << >>) \in WordSeqs
  BY Tuples
<1>4. <<use.kind>> \in WordSeqs /\ Named(use.symbol) \in WordSeqs /\ <<Len(use.refs)>> \in WordSeqs
  BY <1>1, <1>2, NameSays, Tuples
<1>5. SymbolWords(use) \in WordSeqs
  BY <1>3, <1>4, Joins, Zenon DEF SymbolWords
<1>6. Flat(PlaceWords(use.kind, use.refs)) \in WordSeqs
  BY <1>1, PlaceEntries, FlatIs
<1> QED
  BY <1>1, <1>2, <1>5, <1>6, Tuples, Joins

LEMMA UseEntries ==
  ASSUME NEW uses \in Seq(Use)
  PROVE  /\ UseWords(uses) \in Seq(WordSeqs) /\ Len(UseWords(uses)) = Len(uses)
         /\ \A i \in 1 .. Len(uses) :
              /\ uses[i] \in Use
              /\ UseWords(uses)[i] = Named(uses[i].submodule)
                   \o (SymbolWords(uses[i]) \o (Flat(PlaceWords(uses[i].kind, uses[i].refs)) \o << 0 >>))
<1>1. ASSUME NEW i \in 1 .. Len(uses)
      PROVE  /\ UseWords(uses)[i] \in WordSeqs
             /\ UseWords(uses)[i] = Named(uses[i].submodule)
                   \o (SymbolWords(uses[i]) \o (Flat(PlaceWords(uses[i].kind, uses[i].refs)) \o << 0 >>))
             /\ uses[i] \in Use
  <2>1. uses[i] \in Use
    OBVIOUS
  <2>2. /\ uses[i] \in Use
    BY <2>1, Numbers0
  <2>3. UseWords(uses)[i] = Named(uses[i].submodule)
                   \o (SymbolWords(uses[i]) \o (Flat(PlaceWords(uses[i].kind, uses[i].refs)) \o << 0 >>))
    <3>1. i \in DOMAIN uses
      OBVIOUS
    <3> QED
      BY <3>1, Zenon DEF UseWords
  <2>4. Named(uses[i].submodule)
                   \o (SymbolWords(uses[i]) \o (Flat(PlaceWords(uses[i].kind, uses[i].refs)) \o << 0 >>)) \in WordSeqs
    BY <2>2, Numbers0, NameSays, LongSays, Tuples, Joins, UseSays, Zenon
  <2> QED
    BY <2>2, <2>3, <2>4
<1>2. UseWords(uses) \in [1 .. Len(uses) -> WordSeqs]
  <2>1. DOMAIN uses = 1 .. Len(uses)
    OBVIOUS
  <2>2. UseWords(uses) = [i \in 1 .. Len(uses) |-> UseWords(uses)[i]]
    BY <2>1, Zenon DEF UseWords
  <2> QED
    BY <1>1, <2>2
<1>3. UseWords(uses) \in Seq(WordSeqs) /\ Len(UseWords(uses)) = Len(uses)
  <2>1. Len(uses) \in Nat
    OBVIOUS
  <2> QED
    BY <1>2, <2>1, ArrayIs
<1> QED
  BY <1>1, <1>3, Zenon

-----------------------------------------------------------------------------
(* Where the words of an entry are.                                        *)

LEMMA SplitsPos ==
  ASSUME NEW W, Len(W) \in Nat, NEW i \in Nat \ {0}, NEW a \in WordSeqs, NEW b \in WordSeqs,
         Holds(W, i, a \o b)
  PROVE  /\ Holds(W, i, a) /\ Holds(W, i + Len(a), b)
         /\ Len(a) \in Nat /\ Len(b) \in Nat /\ Len(a \o b) = Len(a) + Len(b)
         /\ i + Len(a) \in Nat \ {0}
<1>1. Len(a) \in Nat /\ Len(b) \in Nat /\ Len(a \o b) = Len(a) + Len(b)
  BY Joins
<1> QED
  BY <1>1, Splits


LEMMA ConstStands ==
  ASSUME NEW W, Len(W) \in Nat, NEW i \in Nat \ {0}, NEW name \in Name, NEW value \in Nat, NEW rest \in WordSeqs,
         Holds(W, i, ((<<Bytes(name)>> \o Long(value)) \o name) \o rest)
  PROVE  /\ i <= Len(W) /\ W[i] = Bytes(name) /\ Holds(W, i + 1, Long(value)) /\ Holds(W, i + 3, name)
         /\ i + 3 + Len(name) \in Nat \ {0} /\ Holds(W, i + 3 + Len(name), rest)
<1> DEFINE b == <<Bytes(name)>>
           v == Long(value)
<1>1. b \in WordSeqs /\ v \in WordSeqs /\ name \in WordSeqs /\ rest \in WordSeqs
      /\ Len(b) = 1 /\ Len(v) = 2 /\ Len(name) \in Nat /\ Len(rest) \in Nat /\ Bytes(name) \in Nat
  <2>1. Bytes(name) \in Nat
    BY NameSays, Tuples, LongSays, Joins
  <2>2. b \in WordSeqs /\ Len(b) = 1
    BY <2>1, NameSays, Tuples, LongSays, Joins
  <2>3. v \in WordSeqs /\ Len(v) = 2
    BY <2>1, NameSays, Tuples, LongSays, Joins
  <2>4. name \in WordSeqs /\ Len(name) \in Nat
    BY <2>1, NameSays, Tuples, LongSays, Joins
  <2>5. rest \in WordSeqs /\ Len(rest) \in Nat
    BY <2>1, NameSays, Tuples, LongSays, Joins
  <2> QED
    BY <2>1, <2>2, <2>3, <2>4, <2>5
<1>2. Holds(W, i, ((b \o v) \o name) \o rest)
  OBVIOUS
<1> HIDE DEF b, v
<1>3. b \o v \in WordSeqs /\ Len(b \o v) = Len(b) + Len(v)
  BY <1>1, Joins, Zenon
<1>4. b \o v \in WordSeqs /\ Len(b \o v) = 3
  BY <1>1, <1>3
<1>5. (b \o v) \o name \in WordSeqs /\ Len((b \o v) \o name) = Len(b \o v) + Len(name)
  BY <1>1, <1>4, Joins
<1>6. (b \o v) \o name \in WordSeqs /\ Len((b \o v) \o name) = 3 + Len(name)
  BY <1>1, <1>4, <1>5
<1>7. Holds(W, i, (b \o v) \o name) /\ Holds(W, i + Len((b \o v) \o name), rest)
  BY <1>2, <1>1, <1>6, SplitsPos, Zenon
<1>8. i + Len((b \o v) \o name) = i + 3 + Len(name) /\ i + 3 + Len(name) \in Nat \ {0}
  BY <1>1, <1>6
<1>9. Holds(W, i + 3 + Len(name), rest)
  BY <1>7, <1>8
<1>10. Holds(W, i, b \o v) /\ Holds(W, i + Len(b \o v), name)
  BY <1>7, <1>1, <1>4, SplitsPos, Zenon
<1>11. i + Len(b \o v) = i + 3 /\ i + 3 \in Nat \ {0}
  BY <1>1, <1>4
<1>12. Holds(W, i + 3, name)
  BY <1>10, <1>11
<1>13. Holds(W, i, b) /\ Holds(W, i + Len(b), v)
  BY <1>10, <1>1, SplitsPos, Zenon
<1>14. i + Len(b) = i + 1 /\ i + 1 \in Nat \ {0}
  BY <1>1
<1>15. Holds(W, i + 1, v)
  BY <1>13, <1>14
<1>16. Bytes(name) \in Nat
  BY <1>1
<1>17. Holds(W, i, <<Bytes(name)>>)
  BY <1>13 DEF b
<1>18. i <= Len(W) /\ W[i] = Bytes(name)
  BY <1>17, <1>16, Takes1
<1> QED
  BY <1>1, <1>8, <1>9, <1>11, <1>12, <1>13, <1>14, <1>15, <1>18 DEF b, v

LEMMA MemberStands ==
  ASSUME NEW W, Len(W) \in Nat, NEW i \in Nat \ {0}, NEW name \in Name, NEW val \in Nat, NEW offset \in Nat,
         NEW V \in Nat, NEW type \in Name \cup {<< >>}, NEW rest \in WordSeqs,
         Holds(W, i, ((<<Bytes(name), val, offset>> \o name) \o TypeWords(V, type)) \o rest)
  PROVE  /\ i + 2 <= Len(W) /\ W[i] = Bytes(name) /\ W[i + 1] = val /\ W[i + 2] = offset /\ Holds(W, i + 3, name)
         /\ i + 3 + Len(name) \in Nat \ {0} /\ Holds(W, i + 3 + Len(name), TypeWords(V, type) \o rest)
<1> DEFINE h == <<Bytes(name), val, offset>>
           t == TypeWords(V, type)
<1>1. h \in WordSeqs /\ name \in WordSeqs /\ t \in WordSeqs /\ rest \in WordSeqs
      /\ Len(h) = 3 /\ Len(name) \in Nat /\ Len(t) \in Nat /\ Len(rest) \in Nat /\ Bytes(name) \in Nat
  <2>1. Bytes(name) \in Nat
    BY NameSays, Tuples, TypeSays, Joins
  <2>2. h \in WordSeqs /\ Len(h) = 3
    BY <2>1, NameSays, Tuples, TypeSays, Joins, Zenon
  <2>3. name \in WordSeqs /\ Len(name) \in Nat
    BY <2>1, NameSays, Tuples, TypeSays, Joins
  <2>4. t \in WordSeqs /\ Len(t) \in Nat
    BY <2>1, NameSays, Tuples, TypeSays, Joins, Zenon
  <2>5. rest \in WordSeqs /\ Len(rest) \in Nat
    BY <2>1, NameSays, Tuples, TypeSays, Joins
  <2> QED
    BY <2>1, <2>2, <2>3, <2>4, <2>5
<1>2. Holds(W, i, ((h \o name) \o t) \o rest)
  OBVIOUS
<1> HIDE DEF h, t
<1>3. h \o name \in WordSeqs /\ Len(h \o name) = Len(h) + Len(name)
  BY <1>1, Joins, Zenon
<1>4. h \o name \in WordSeqs /\ Len(h \o name) = 3 + Len(name)
  BY <1>1, <1>3
<1>5. (h \o name) \o t \in WordSeqs /\ Len((h \o name) \o t) = Len(h \o name) + Len(t)
  BY <1>1, <1>4, Joins, Zenon
<1>6. (h \o name) \o t \in WordSeqs /\ Len((h \o name) \o t) = 3 + Len(name) + Len(t)
  BY <1>1, <1>4, <1>5
<1>7. Holds(W, i, (h \o name) \o t) /\ Holds(W, i + Len((h \o name) \o t), rest)
  BY <1>2, <1>1, <1>6, SplitsPos, Zenon
<1>8. i + Len((h \o name) \o t) = i + 3 + Len(name) + Len(t) /\ i + 3 + Len(name) + Len(t) \in Nat \ {0}
  BY <1>1, <1>6
<1>9. Holds(W, i + 3 + Len(name) + Len(t), rest)
  BY <1>7, <1>8
<1>10. Holds(W, i, h \o name) /\ Holds(W, i + Len(h \o name), t)
  BY <1>7, <1>1, <1>4, SplitsPos, Zenon
<1>11. i + Len(h \o name) = i + 3 + Len(name) /\ i + 3 + Len(name) \in Nat \ {0}
  BY <1>1, <1>4
<1>12. Holds(W, i + 3 + Len(name), t)
  BY <1>10, <1>11
<1>13. Holds(W, i, h) /\ Holds(W, i + Len(h), name)
  BY <1>10, <1>1, SplitsPos, Zenon
<1>14. i + Len(h) = i + 3 /\ i + 3 \in Nat \ {0}
  BY <1>1
<1>15. Holds(W, i + 3, name)
  BY <1>13, <1>14
<1>16. Bytes(name) \in Nat
  BY <1>1
<1>17. Holds(W, i, <<Bytes(name), val, offset>>)
  BY <1>13 DEF h
<1>18. i + 2 <= Len(W) /\ W[i] = Bytes(name) /\ W[i + 1] = val /\ W[i + 2] = offset
  BY <1>17, <1>16, Takes3, Zenon
<1>19. i + 3 + Len(name) + Len(t) = i + 3 + Len(name) + Len(t)
  BY <1>1
<1>20. Holds(W, i + 3 + Len(name) + Len(t), rest)
  BY <1>19, <1>8, <1>9
<1>21. t \o rest \in WordSeqs
  BY <1>1, Joins
<1>22. Holds(W, i + 3 + Len(name), t \o rest)
  BY <1>20, <1>11, <1>12, <1>1, Splits, Zenon
<1> QED
  BY <1>1, <1>8, <1>9, <1>11, <1>12, <1>13, <1>14, <1>15, <1>18, <1>22 DEF h, t

LEMMA OneStands ==
  ASSUME NEW W, Len(W) \in Nat, NEW i \in Nat \ {0}, NEW a \in Nat, NEW rest \in WordSeqs,
         Holds(W, i, <<a>> \o rest)
  PROVE  i <= Len(W) /\ W[i] = a /\ i + 1 \in Nat \ {0} /\ Holds(W, i + 1, rest)
<1> DEFINE h == <<a>>
<1>1. h \in WordSeqs /\ rest \in WordSeqs
      /\ Len(h) = 1 /\ Len(rest) \in Nat /\ a \in Nat
  <2>1. a \in Nat
    BY Tuples, Joins
  <2>2. h \in WordSeqs /\ Len(h) = 1
    BY <2>1, Tuples, Joins
  <2>3. rest \in WordSeqs /\ Len(rest) \in Nat
    BY <2>1, Tuples, Joins
  <2> QED
    BY <2>1, <2>2, <2>3
<1>2. Holds(W, i, h \o rest)
  OBVIOUS
<1> HIDE DEF h
<1>3. Holds(W, i, h) /\ Holds(W, i + Len(h), rest)
  BY <1>2, <1>1, SplitsPos, Zenon
<1>4. i + Len(h) = i + 1 /\ i + 1 \in Nat \ {0}
  BY <1>1
<1>5. Holds(W, i + 1, rest)
  BY <1>3, <1>4
<1>6. a \in Nat
  BY <1>1
<1>7. Holds(W, i, <<a>>)
  BY <1>3 DEF h
<1>8. i <= Len(W) /\ W[i] = a
  BY <1>7, <1>6, Takes1
<1> QED
  BY <1>1, <1>3, <1>4, <1>5, <1>8 DEF h

LEMMA NamedStands ==
  ASSUME NEW W, Len(W) \in Nat, NEW i \in Nat \ {0}, NEW name \in Name, NEW rest \in WordSeqs,
         Holds(W, i, Named(name) \o rest)
  PROVE  /\ i <= Len(W) /\ W[i] = Bytes(name) /\ Holds(W, i + 1, name)
         /\ i + 1 + Len(name) \in Nat \ {0} /\ Holds(W, i + 1 + Len(name), rest)
<1> DEFINE b == <<Bytes(name)>>
<1>1. b \in WordSeqs /\ name \in WordSeqs /\ rest \in WordSeqs
      /\ Len(b) = 1 /\ Len(name) \in Nat /\ Len(rest) \in Nat /\ Bytes(name) \in Nat
  <2>1. Bytes(name) \in Nat
    BY NameSays, Tuples, Joins
  <2>2. b \in WordSeqs /\ Len(b) = 1
    BY <2>1, NameSays, Tuples, Joins
  <2>3. name \in WordSeqs /\ Len(name) \in Nat
    BY <2>1, NameSays, Tuples, Joins
  <2>4. rest \in WordSeqs /\ Len(rest) \in Nat
    BY <2>1, NameSays, Tuples, Joins
  <2> QED
    BY <2>1, <2>2, <2>3, <2>4
<1>2. Holds(W, i, (b \o name) \o rest)
  BY DEF Named
<1> HIDE DEF b
<1>3. b \o name \in WordSeqs /\ Len(b \o name) = Len(b) + Len(name)
  BY <1>1, Joins, Zenon
<1>4. b \o name \in WordSeqs /\ Len(b \o name) = 1 + Len(name)
  BY <1>1, <1>3
<1>5. Holds(W, i, b \o name) /\ Holds(W, i + Len(b \o name), rest)
  BY <1>2, <1>1, <1>4, SplitsPos, Zenon
<1>6. i + Len(b \o name) = i + 1 + Len(name) /\ i + 1 + Len(name) \in Nat \ {0}
  BY <1>1, <1>4
<1>7. Holds(W, i + 1 + Len(name), rest)
  BY <1>5, <1>6
<1>8. Holds(W, i, b) /\ Holds(W, i + Len(b), name)
  BY <1>5, <1>1, SplitsPos, Zenon
<1>9. i + Len(b) = i + 1 /\ i + 1 \in Nat \ {0}
  BY <1>1
<1>10. Holds(W, i + 1, name)
  BY <1>8, <1>9
<1>11. Bytes(name) \in Nat
  BY <1>1
<1>12. Holds(W, i, <<Bytes(name)>>)
  BY <1>8 DEF b
<1>13. i <= Len(W) /\ W[i] = Bytes(name)
  BY <1>12, <1>11, Takes1
<1> QED
  BY <1>1, <1>6, <1>7, <1>8, <1>9, <1>10, <1>13 DEF b

LEMMA TypedStands ==
  ASSUME NEW W, Len(W) \in Nat, NEW i \in Nat \ {0}, NEW name \in Name, NEW rest \in WordSeqs,
         Holds(W, i, (<<End>> \o Named(name)) \o rest)
  PROVE  /\ i + 1 <= Len(W) /\ W[i] = End /\ W[i + 1] = Bytes(name) /\ Holds(W, i + 2, name)
         /\ i + 2 + Len(name) \in Nat \ {0} /\ Holds(W, i + 2 + Len(name), rest)
<1> DEFINE e == <<End>>
           b == <<Bytes(name)>>
<1>1. e \in WordSeqs /\ b \in WordSeqs /\ name \in WordSeqs /\ rest \in WordSeqs
      /\ Len(e) = 1 /\ Len(b) = 1 /\ Len(name) \in Nat /\ Len(rest) \in Nat /\ Bytes(name) \in Nat /\ End \in Nat
  <2>1. Bytes(name) \in Nat
    BY NameSays, Tuples, Numbers0, Joins
  <2>2. End \in Nat
    BY NameSays, Tuples, Numbers0, Joins
  <2>3. e \in WordSeqs /\ Len(e) = 1
    BY <2>1, <2>2, NameSays, Tuples, Numbers0, Joins
  <2>4. b \in WordSeqs /\ Len(b) = 1
    BY <2>1, <2>2, NameSays, Tuples, Numbers0, Joins
  <2>5. name \in WordSeqs /\ Len(name) \in Nat
    BY <2>1, <2>2, NameSays, Tuples, Numbers0, Joins
  <2>6. rest \in WordSeqs /\ Len(rest) \in Nat
    BY <2>1, <2>2, NameSays, Tuples, Numbers0, Joins
  <2> QED
    BY <2>1, <2>2, <2>3, <2>4, <2>5, <2>6
<1>2. Holds(W, i, (e \o (b \o name)) \o rest)
  BY DEF Named
<1> HIDE DEF e, b
<1>3. b \o name \in WordSeqs /\ Len(b \o name) = Len(b) + Len(name)
  BY <1>1, Joins, Zenon
<1>4. b \o name \in WordSeqs /\ Len(b \o name) = 1 + Len(name)
  BY <1>1, <1>3
<1>5. e \o (b \o name) \in WordSeqs /\ Len(e \o (b \o name)) = Len(e) + Len(b \o name)
  BY <1>1, <1>4, Joins
<1>6. e \o (b \o name) \in WordSeqs /\ Len(e \o (b \o name)) = 2 + Len(name)
  BY <1>1, <1>4, <1>5
<1>7. Holds(W, i, e \o (b \o name)) /\ Holds(W, i + Len(e \o (b \o name)), rest)
  BY <1>2, <1>1, <1>6, SplitsPos, Zenon
<1>8. i + Len(e \o (b \o name)) = i + 2 + Len(name) /\ i + 2 + Len(name) \in Nat \ {0}
  BY <1>1, <1>6
<1>9. Holds(W, i + 2 + Len(name), rest)
  BY <1>7, <1>8
<1>10. Holds(W, i, e) /\ Holds(W, i + Len(e), b \o name)
  BY <1>7, <1>1, <1>4, SplitsPos
<1>11. i + Len(e) = i + 1 /\ i + 1 \in Nat \ {0}
  BY <1>1
<1>12. Holds(W, i + 1, b \o name)
  BY <1>10, <1>11
<1>13. Holds(W, i + 1, b) /\ Holds(W, i + 1 + Len(b), name)
  BY <1>11, <1>12, <1>1, SplitsPos, Zenon
<1>14. i + 1 + Len(b) = i + 2 /\ i + 2 \in Nat \ {0}
  BY <1>1
<1>15. Holds(W, i + 2, name)
  BY <1>13, <1>14
<1>16. Bytes(name) \in Nat
  BY <1>1
<1>17. End \in Nat
  BY <1>1
<1>18. Holds(W, i, <<End>>)
  BY <1>10 DEF e
<1>19. i <= Len(W) /\ W[i] = End
  BY <1>18, <1>16, <1>17, Takes1
<1>20. Holds(W, i + 1, <<Bytes(name)>>)
  BY <1>11, <1>13 DEF b
<1>21. i + 1 <= Len(W) /\ W[i + 1] = Bytes(name)
  BY <1>20, <1>11, <1>16, <1>17, Takes1
<1> QED
  BY <1>1, <1>8, <1>9, <1>10, <1>11, <1>13, <1>14, <1>15, <1>19, <1>21 DEF e, b

LEMMA TypeStands ==
  ASSUME NEW W, Len(W) \in Nat, NEW i \in Nat \ {0}, NEW V \in Nat, NEW type \in Name \cup {<< >>},
         NEW rest \in WordSeqs, Holds(W, i, TypeWords(V, type) \o rest)
  PROVE  /\ V < 6 => Holds(W, i, rest)
         /\ V >= 6 /\ type = << >> => i <= Len(W) /\ W[i] = 0 /\ Holds(W, i + 1, rest)
         /\ V >= 6 /\ type # << >> =>
              /\ type \in Name /\ i + 1 <= Len(W) /\ W[i] = End /\ W[i + 1] = Bytes(type) /\ Holds(W, i + 2, type)
              /\ i + 2 + Len(type) \in Nat \ {0} /\ Holds(W, i + 2 + Len(type), rest)
<1>1. ASSUME V < 6 PROVE Holds(W, i, rest)
  <2>1. TypeWords(V, type) = << >>
    BY <1>1 DEF TypeWords
  <2>2. << >> \o rest = rest
    BY ConcatEmptySeq DEF WordSeqs
  <2> QED
    BY <2>1, <2>2
<1>2. ASSUME V >= 6, type = << >> PROVE i <= Len(W) /\ W[i] = 0 /\ Holds(W, i + 1, rest)
  <2>1. TypeWords(V, type) = << 0 >>
    BY <1>2 DEF TypeWords
  <2> QED
    BY <2>1, OneStands
<1>3. ASSUME V >= 6, type # << >>
      PROVE  /\ type \in Name /\ i + 1 <= Len(W) /\ W[i] = End /\ W[i + 1] = Bytes(type) /\ Holds(W, i + 2, type)
             /\ i + 2 + Len(type) \in Nat \ {0} /\ Holds(W, i + 2 + Len(type), rest)
  <2>1. TypeWords(V, type) = <<End>> \o Named(type)
    BY <1>3 DEF TypeWords
  <2>2. type \in Name
    BY <1>3
  <2>3. Holds(W, i, (<<End>> \o Named(type)) \o rest)
    BY <2>1
  <2> QED
    BY <2>2, <2>3, TypedStands
<1> QED
  BY <1>1, <1>2, <1>3

LEMMA MethodStands ==
  ASSUME NEW W, Len(W) \in Nat, NEW i \in Nat \ {0}, NEW slot \in Nat, NEW name \in Name, NEW args \in Nat, NEW defaults \in Seq(LongWord), NEW rest \in WordSeqs,
         Holds(W, i, (((<<1, slot>> \o Named(name)) \o <<args, Len(defaults)>>) \o Flat(LongsOf(defaults))) \o rest)
  PROVE  /\ i + 2 <= Len(W) /\ W[i] = 1 /\ W[i + 1] = slot /\ W[i + 2] = Bytes(name) /\ Holds(W, i + 3, name)
         /\ i + 3 + Len(name) \in Nat \ {0} /\ i + 3 + Len(name) + 1 <= Len(W)
         /\ W[i + 3 + Len(name)] = args /\ W[i + 3 + Len(name) + 1] = Len(defaults)
         /\ i + 5 + Len(name) + Len(Flat(LongsOf(defaults))) \in Nat \ {0}
         /\ Holds(W, i + 5 + Len(name) + Len(Flat(LongsOf(defaults))), rest)
<1> DEFINE h == <<1, slot>>
           b == <<Bytes(name)>>
           t == <<args, Len(defaults)>>
           d == Flat(LongsOf(defaults))
<1>1. h \in WordSeqs /\ b \in WordSeqs /\ name \in WordSeqs /\ t \in WordSeqs /\ d \in WordSeqs /\ rest \in WordSeqs
      /\ Len(h) = 2 /\ Len(b) = 1 /\ Len(name) \in Nat /\ Len(t) = 2 /\ Len(d) \in Nat /\ Len(rest) \in Nat /\ Bytes(name) \in Nat /\ Len(defaults) \in Nat
  <2>1. Bytes(name) \in Nat
    BY NameSays, Tuples, LongsSay, Joins
  <2>2. Len(defaults) \in Nat
    BY NameSays, Tuples, LongsSay, Joins
  <2>3. h \in WordSeqs /\ Len(h) = 2
    BY <2>1, <2>2, NameSays, Tuples, LongsSay, Joins
  <2>4. b \in WordSeqs /\ Len(b) = 1
    BY <2>1, <2>2, NameSays, Tuples, LongsSay, Joins
  <2>5. name \in WordSeqs /\ Len(name) \in Nat
    BY <2>1, <2>2, NameSays, Tuples, LongsSay, Joins
  <2>6. t \in WordSeqs /\ Len(t) = 2
    BY <2>1, <2>2, NameSays, Tuples, LongsSay, Joins
  <2>7. d \in WordSeqs /\ Len(d) \in Nat
    BY <2>1, <2>2, NameSays, Tuples, LongsSay, Joins
  <2>8. rest \in WordSeqs /\ Len(rest) \in Nat
    BY <2>1, <2>2, NameSays, Tuples, LongsSay, Joins
  <2> QED
    BY <2>1, <2>2, <2>3, <2>4, <2>5, <2>6, <2>7, <2>8
<1>2. Holds(W, i, (((h \o (b \o name)) \o t) \o d) \o rest)
  BY DEF Named
<1> HIDE DEF h, b, t, d
<1>3. b \o name \in WordSeqs /\ Len(b \o name) = Len(b) + Len(name)
  BY <1>1, Joins, Zenon
<1>4. b \o name \in WordSeqs /\ Len(b \o name) = 1 + Len(name)
  BY <1>1, <1>3
<1>5. h \o (b \o name) \in WordSeqs /\ Len(h \o (b \o name)) = Len(h) + Len(b \o name)
  BY <1>1, <1>4, Joins, Zenon
<1>6. h \o (b \o name) \in WordSeqs /\ Len(h \o (b \o name)) = 3 + Len(name)
  BY <1>1, <1>4, <1>5
<1>7. (h \o (b \o name)) \o t \in WordSeqs /\ Len((h \o (b \o name)) \o t) = Len(h \o (b \o name)) + Len(t)
  BY <1>1, <1>6, Joins, Zenon
<1>8. (h \o (b \o name)) \o t \in WordSeqs /\ Len((h \o (b \o name)) \o t) = 5 + Len(name)
  BY <1>1, <1>6, <1>7
<1>9. ((h \o (b \o name)) \o t) \o d \in WordSeqs /\ Len(((h \o (b \o name)) \o t) \o d) = Len((h \o (b \o name)) \o t) + Len(d)
  BY <1>1, <1>8, Joins, Zenon
<1>10. ((h \o (b \o name)) \o t) \o d \in WordSeqs /\ Len(((h \o (b \o name)) \o t) \o d) = 5 + Len(name) + Len(d)
  BY <1>1, <1>8, <1>9
<1>11. Holds(W, i, ((h \o (b \o name)) \o t) \o d) /\ Holds(W, i + Len(((h \o (b \o name)) \o t) \o d), rest)
  BY <1>2, <1>1, <1>10, SplitsPos, Zenon
<1>12. i + Len(((h \o (b \o name)) \o t) \o d) = i + 5 + Len(name) + Len(d) /\ i + 5 + Len(name) + Len(d) \in Nat \ {0}
  BY <1>1, <1>10
<1>13. Holds(W, i + 5 + Len(name) + Len(d), rest)
  BY <1>11, <1>12
<1>14. Holds(W, i, (h \o (b \o name)) \o t) /\ Holds(W, i + Len((h \o (b \o name)) \o t), d)
  BY <1>11, <1>1, <1>8, SplitsPos, Zenon
<1>15. i + Len((h \o (b \o name)) \o t) = i + 5 + Len(name) /\ i + 5 + Len(name) \in Nat \ {0}
  BY <1>1, <1>8
<1>16. Holds(W, i + 5 + Len(name), d)
  BY <1>14, <1>15
<1>17. Holds(W, i, h \o (b \o name)) /\ Holds(W, i + Len(h \o (b \o name)), t)
  BY <1>14, <1>1, <1>6, SplitsPos, Zenon
<1>18. i + Len(h \o (b \o name)) = i + 3 + Len(name) /\ i + 3 + Len(name) \in Nat \ {0}
  BY <1>1, <1>6
<1>19. Holds(W, i + 3 + Len(name), t)
  BY <1>17, <1>18
<1>20. Holds(W, i, h) /\ Holds(W, i + Len(h), b \o name)
  BY <1>17, <1>1, <1>4, SplitsPos, Zenon
<1>21. i + Len(h) = i + 2 /\ i + 2 \in Nat \ {0}
  BY <1>1
<1>22. Holds(W, i + 2, b \o name)
  BY <1>20, <1>21
<1>23. Holds(W, i + 2, b) /\ Holds(W, i + 2 + Len(b), name)
  BY <1>21, <1>22, <1>1, SplitsPos, Zenon
<1>24. i + 2 + Len(b) = i + 3 /\ i + 3 \in Nat \ {0}
  BY <1>1
<1>25. Holds(W, i + 3, name)
  BY <1>23, <1>24
<1>26. Bytes(name) \in Nat
  BY <1>1
<1>27. Len(defaults) \in Nat
  BY <1>1
<1>28. Holds(W, i, <<1, slot>>)
  BY <1>20 DEF h
<1>29. i + 1 <= Len(W) /\ W[i] = 1 /\ W[i + 1] = slot
  BY <1>28, <1>26, <1>27, Takes2, Zenon
<1>30. Holds(W, i + 2, <<Bytes(name)>>)
  BY <1>21, <1>23 DEF b
<1>31. i + 2 <= Len(W) /\ W[i + 2] = Bytes(name)
  BY <1>30, <1>21, <1>26, <1>27, Takes1, Zenon
<1>32. Holds(W, i + 3 + Len(name), <<args, Len(defaults)>>)
  BY <1>18, <1>19 DEF t
<1>33. i + 3 + Len(name) + 1 <= Len(W) /\ W[i + 3 + Len(name)] = args /\ W[i + 3 + Len(name) + 1] = Len(defaults)
  BY <1>32, <1>18, <1>26, <1>27, Takes2, Zenon
<1> QED
  BY <1>1, <1>12, <1>13, <1>15, <1>16, <1>18, <1>19, <1>20, <1>21, <1>23, <1>24, <1>25, <1>29, <1>31, <1>33 DEF h, b, t, d

LEMMA AccessStands ==
  ASSUME NEW W, Len(W) \in Nat, NEW i \in Nat \ {0}, NEW value \in Nat, NEW rest \in WordSeqs,
         Holds(W, i, (<< 0 >> \o Long(value)) \o rest)
  PROVE  /\ i <= Len(W) /\ W[i] = 0 /\ Holds(W, i + 1, Long(value))
         /\ i + 3 \in Nat \ {0} /\ Holds(W, i + 3, rest)
<1> DEFINE h == << 0 >>
           v == Long(value)
<1>1. h \in WordSeqs /\ v \in WordSeqs /\ rest \in WordSeqs
      /\ Len(h) = 1 /\ Len(v) = 2 /\ Len(rest) \in Nat
  <2>1. h \in WordSeqs /\ Len(h) = 1
    BY Tuples, LongSays, Joins
  <2>2. v \in WordSeqs /\ Len(v) = 2
    BY Tuples, LongSays, Joins
  <2>3. rest \in WordSeqs /\ Len(rest) \in Nat
    BY Tuples, LongSays, Joins
  <2> QED
    BY <2>1, <2>2, <2>3
<1>2. Holds(W, i, (h \o v) \o rest)
  OBVIOUS
<1> HIDE DEF h, v
<1>3. h \o v \in WordSeqs /\ Len(h \o v) = Len(h) + Len(v)
  BY <1>1, Joins, Zenon
<1>4. h \o v \in WordSeqs /\ Len(h \o v) = 3
  BY <1>1, <1>3
<1>5. Holds(W, i, h \o v) /\ Holds(W, i + Len(h \o v), rest)
  BY <1>2, <1>1, <1>4, SplitsPos, Zenon
<1>6. i + Len(h \o v) = i + 3 /\ i + 3 \in Nat \ {0}
  BY <1>1, <1>4
<1>7. Holds(W, i + 3, rest)
  BY <1>5, <1>6
<1>8. Holds(W, i, h) /\ Holds(W, i + Len(h), v)
  BY <1>5, <1>1, SplitsPos, Zenon
<1>9. i + Len(h) = i + 1 /\ i + 1 \in Nat \ {0}
  BY <1>1
<1>10. Holds(W, i + 1, v)
  BY <1>8, <1>9
<1>11. Holds(W, i, << 0 >>)
  BY <1>8 DEF h
<1>12. i <= Len(W) /\ W[i] = 0
  BY <1>11, Takes1
<1> QED
  BY <1>1, <1>6, <1>7, <1>8, <1>9, <1>10, <1>12 DEF h, v

LEMMA ProcStands ==
  ASSUME NEW W, Len(W) \in Nat, NEW i \in Nat \ {0}, NEW name \in Name, NEW offset \in Nat, NEW tail \in WordSeqs, NEW rest \in WordSeqs,
         Holds(W, i, ((Named(name) \o Long(offset)) \o tail) \o rest)
  PROVE  /\ i <= Len(W) /\ W[i] = Bytes(name) /\ Holds(W, i + 1, name)
         /\ i + 1 + Len(name) \in Nat \ {0} /\ Holds(W, i + 1 + Len(name), Long(offset))
         /\ i + 3 + Len(name) \in Nat \ {0} /\ Holds(W, i + 3 + Len(name), tail \o rest)
<1> DEFINE b == <<Bytes(name)>>
           v == Long(offset)
<1>1. b \in WordSeqs /\ name \in WordSeqs /\ v \in WordSeqs /\ tail \in WordSeqs /\ rest \in WordSeqs
      /\ Len(b) = 1 /\ Len(name) \in Nat /\ Len(v) = 2 /\ Len(tail) \in Nat /\ Len(rest) \in Nat /\ Bytes(name) \in Nat
  <2>1. Bytes(name) \in Nat
    BY NameSays, Tuples, LongSays, Joins
  <2>2. b \in WordSeqs /\ Len(b) = 1
    BY <2>1, NameSays, Tuples, LongSays, Joins
  <2>3. name \in WordSeqs /\ Len(name) \in Nat
    BY <2>1, NameSays, Tuples, LongSays, Joins
  <2>4. v \in WordSeqs /\ Len(v) = 2
    BY <2>1, NameSays, Tuples, LongSays, Joins
  <2>5. tail \in WordSeqs /\ Len(tail) \in Nat
    BY <2>1, NameSays, Tuples, LongSays, Joins
  <2>6. rest \in WordSeqs /\ Len(rest) \in Nat
    BY <2>1, NameSays, Tuples, LongSays, Joins
  <2> QED
    BY <2>1, <2>2, <2>3, <2>4, <2>5, <2>6
<1>2. Holds(W, i, (((b \o name) \o v) \o tail) \o rest)
  BY DEF Named
<1> HIDE DEF b, v
<1>3. b \o name \in WordSeqs /\ Len(b \o name) = Len(b) + Len(name)
  BY <1>1, Joins, Zenon
<1>4. b \o name \in WordSeqs /\ Len(b \o name) = 1 + Len(name)
  BY <1>1, <1>3
<1>5. (b \o name) \o v \in WordSeqs /\ Len((b \o name) \o v) = Len(b \o name) + Len(v)
  BY <1>1, <1>4, Joins, Zenon
<1>6. (b \o name) \o v \in WordSeqs /\ Len((b \o name) \o v) = 3 + Len(name)
  BY <1>1, <1>4, <1>5
<1>7. ((b \o name) \o v) \o tail \in WordSeqs /\ Len(((b \o name) \o v) \o tail) = Len((b \o name) \o v) + Len(tail)
  BY <1>1, <1>6, Joins, Zenon
<1>8. ((b \o name) \o v) \o tail \in WordSeqs /\ Len(((b \o name) \o v) \o tail) = 3 + Len(name) + Len(tail)
  BY <1>1, <1>6, <1>7
<1>9. Holds(W, i, ((b \o name) \o v) \o tail) /\ Holds(W, i + Len(((b \o name) \o v) \o tail), rest)
  BY <1>2, <1>1, <1>8, SplitsPos, Zenon
<1>10. i + Len(((b \o name) \o v) \o tail) = i + 3 + Len(name) + Len(tail) /\ i + 3 + Len(name) + Len(tail) \in Nat \ {0}
  BY <1>1, <1>8
<1>11. Holds(W, i + 3 + Len(name) + Len(tail), rest)
  BY <1>9, <1>10
<1>12. Holds(W, i, (b \o name) \o v) /\ Holds(W, i + Len((b \o name) \o v), tail)
  BY <1>9, <1>1, <1>6, SplitsPos, Zenon
<1>13. i + Len((b \o name) \o v) = i + 3 + Len(name) /\ i + 3 + Len(name) \in Nat \ {0}
  BY <1>1, <1>6
<1>14. Holds(W, i + 3 + Len(name), tail)
  BY <1>12, <1>13
<1>15. Holds(W, i, b \o name) /\ Holds(W, i + Len(b \o name), v)
  BY <1>12, <1>1, <1>4, SplitsPos, Zenon
<1>16. i + Len(b \o name) = i + 1 + Len(name) /\ i + 1 + Len(name) \in Nat \ {0}
  BY <1>1, <1>4
<1>17. Holds(W, i + 1 + Len(name), v)
  BY <1>15, <1>16
<1>18. Holds(W, i, b) /\ Holds(W, i + Len(b), name)
  BY <1>15, <1>1, SplitsPos, Zenon
<1>19. i + Len(b) = i + 1 /\ i + 1 \in Nat \ {0}
  BY <1>1
<1>20. Holds(W, i + 1, name)
  BY <1>18, <1>19
<1>21. Bytes(name) \in Nat
  BY <1>1
<1>22. Holds(W, i, <<Bytes(name)>>)
  BY <1>18 DEF b
<1>23. i <= Len(W) /\ W[i] = Bytes(name)
  BY <1>22, <1>21, Takes1
<1>24. i + 3 + Len(name) + Len(tail) = i + 3 + Len(name) + Len(tail)
  BY <1>1
<1>25. Holds(W, i + 3 + Len(name) + Len(tail), rest)
  BY <1>24, <1>10, <1>11
<1>26. tail \o rest \in WordSeqs
  BY <1>1, Joins
<1>27. Holds(W, i + 3 + Len(name), tail \o rest)
  BY <1>25, <1>13, <1>14, <1>1, Splits
<1> QED
  BY <1>1, <1>10, <1>11, <1>13, <1>14, <1>16, <1>17, <1>18, <1>19, <1>20, <1>23, <1>27 DEF b, v

LEMMA HeadStands ==
  ASSUME NEW W, Len(W) \in Nat, NEW i \in Nat \ {0}, NEW args \in Nat, NEW count \in Nat,
         NEW d \in WordSeqs, NEW bytes \in Nat, NEW x \in WordSeqs, NEW rest \in WordSeqs,
         Holds(W, i, (<<1, args, 0, count>> \o ((d \o <<bytes>>) \o x)) \o rest)
  PROVE  /\ i + 3 <= Len(W) /\ W[i] = 1 /\ W[i + 1] = args /\ W[i + 3] = count
         /\ Holds(W, i + 4, d \o (<<bytes>> \o (x \o rest)))
<1> DEFINE h == <<1, args, 0, count>>
           e == <<bytes>>
<1>1. h \in WordSeqs /\ d \in WordSeqs /\ e \in WordSeqs /\ x \in WordSeqs /\ rest \in WordSeqs
      /\ Len(h) = 4 /\ Len(d) \in Nat /\ Len(e) = 1 /\ Len(x) \in Nat /\ Len(rest) \in Nat /\ args \in Nat /\ count \in Nat
  <2>1. args \in Nat
    BY Tuples, Joins
  <2>2. count \in Nat
    BY Tuples, Joins
  <2>3. h \in WordSeqs /\ Len(h) = 4
    BY <2>1, <2>2, Tuples, Joins, Zenon
  <2>4. d \in WordSeqs /\ Len(d) \in Nat
    BY <2>1, <2>2, Tuples, Joins
  <2>5. e \in WordSeqs /\ Len(e) = 1
    BY <2>1, <2>2, Tuples, Joins
  <2>6. x \in WordSeqs /\ Len(x) \in Nat
    BY <2>1, <2>2, Tuples, Joins
  <2>7. rest \in WordSeqs /\ Len(rest) \in Nat
    BY <2>1, <2>2, Tuples, Joins
  <2> QED
    BY <2>1, <2>2, <2>3, <2>4, <2>5, <2>6, <2>7
<1>2. Holds(W, i, (h \o ((d \o e) \o x)) \o rest)
  OBVIOUS
<1> HIDE DEF h, e
<1>3. d \o e \in WordSeqs /\ Len(d \o e) = Len(d) + Len(e)
  BY <1>1, Joins, Zenon
<1>4. d \o e \in WordSeqs /\ Len(d \o e) = 1 + Len(d)
  BY <1>1, <1>3
<1>5. (d \o e) \o x \in WordSeqs /\ Len((d \o e) \o x) = Len(d \o e) + Len(x)
  BY <1>1, <1>4, Joins, Zenon
<1>6. (d \o e) \o x \in WordSeqs /\ Len((d \o e) \o x) = 1 + Len(d) + Len(x)
  BY <1>1, <1>4, <1>5
<1>7. h \o ((d \o e) \o x) \in WordSeqs /\ Len(h \o ((d \o e) \o x)) = Len(h) + Len((d \o e) \o x)
  BY <1>1, <1>6, Joins, Zenon
<1>8. h \o ((d \o e) \o x) \in WordSeqs /\ Len(h \o ((d \o e) \o x)) = 5 + Len(d) + Len(x)
  BY <1>1, <1>6, <1>7
<1>9. Holds(W, i, h \o ((d \o e) \o x)) /\ Holds(W, i + Len(h \o ((d \o e) \o x)), rest)
  BY <1>2, <1>1, <1>8, SplitsPos, Zenon
<1>10. i + Len(h \o ((d \o e) \o x)) = i + 5 + Len(d) + Len(x) /\ i + 5 + Len(d) + Len(x) \in Nat \ {0}
  BY <1>1, <1>8
<1>11. Holds(W, i + 5 + Len(d) + Len(x), rest)
  BY <1>9, <1>10
<1>12. Holds(W, i, h) /\ Holds(W, i + Len(h), (d \o e) \o x)
  BY <1>9, <1>1, <1>6, SplitsPos, Zenon
<1>13. i + Len(h) = i + 4 /\ i + 4 \in Nat \ {0}
  BY <1>1
<1>14. Holds(W, i + 4, (d \o e) \o x)
  BY <1>12, <1>13
<1>15. Holds(W, i + 4, d \o e) /\ Holds(W, i + 4 + Len(d \o e), x)
  BY <1>13, <1>14, <1>1, <1>4, SplitsPos, Zenon
<1>16. i + 4 + Len(d \o e) = i + 5 + Len(d) /\ i + 5 + Len(d) \in Nat \ {0}
  BY <1>1, <1>4
<1>17. Holds(W, i + 5 + Len(d), x)
  BY <1>15, <1>16
<1>18. Holds(W, i + 4, d) /\ Holds(W, i + 4 + Len(d), e)
  BY <1>13, <1>15, <1>1, SplitsPos, Zenon
<1>19. i + 4 + Len(d) = i + 4 + Len(d) /\ i + 4 + Len(d) \in Nat \ {0}
  BY <1>1
<1>20. Holds(W, i + 4 + Len(d), e)
  BY <1>18, <1>19
<1>21. args \in Nat
  BY <1>1
<1>22. count \in Nat
  BY <1>1
<1>23. i + 3 <= Len(W) /\ W[i] = h[1] /\ W[i + 1] = h[2] /\ W[i + 3] = h[4]
  BY <1>1, <1>12, Takes4, Zenon
<1>24. h[1] = 1 /\ h[2] = args /\ h[4] = count
  BY DEF h
<1>25. i + 5 + Len(d) + Len(x) = i + 5 + Len(d) + Len(x)
  BY <1>1
<1>26. Holds(W, i + 5 + Len(d) + Len(x), rest)
  BY <1>25, <1>10, <1>11
<1>27. x \o rest \in WordSeqs
  BY <1>1, Joins
<1>28. Holds(W, i + 5 + Len(d), x \o rest)
  BY <1>26, <1>16, <1>17, <1>1, Splits
<1>29. i + 4 + Len(d) + Len(e) = i + 5 + Len(d)
  BY <1>1
<1>30. Holds(W, i + 4 + Len(d) + Len(e), x \o rest)
  BY <1>29, <1>16, <1>28
<1>31. e \o (x \o rest) \in WordSeqs
  BY <1>1, <1>27, Joins, Zenon
<1>32. Holds(W, i + 4 + Len(d), e \o (x \o rest))
  BY <1>30, <1>19, <1>20, <1>1, <1>27, Splits, Zenon
<1>33. i + 4 + Len(d) = i + 4 + Len(d)
  BY <1>1
<1>34. Holds(W, i + 4 + Len(d), e \o (x \o rest))
  BY <1>33, <1>19, <1>32
<1>35. d \o (e \o (x \o rest)) \in WordSeqs
  BY <1>1, <1>27, <1>31, Joins, Zenon
<1>36. Holds(W, i + 4, d \o (e \o (x \o rest)))
  BY <1>34, <1>13, <1>18, <1>1, <1>27, <1>31, Splits, Zenon
<1> QED
  BY <1>1, <1>10, <1>11, <1>12, <1>13, <1>16, <1>17, <1>18, <1>19, <1>20, <1>23, <1>24, <1>36 DEF h, e

LEMMA TailStands ==
  ASSUME NEW W, Len(W) \in Nat, NEW i \in Nat \ {0}, NEW p \in Proc, NEW rest \in WordSeqs,
         p.kind # "label", Holds(W, i, ProcTail(p) \o rest)
  PROVE  /\ i + 3 <= Len(W) /\ W[i] = 1 /\ W[i + 1] = p.args /\ W[i + 3] = Len(p.defaults)
         /\ Holds(W, i + 4, Flat(LongsOf(p.defaults)) \o (<<Bytes(p.extra)>> \o (p.extra \o rest)))
<1>1. PICK args \in Nat, count \in Nat, bytes \in Nat :
        args = p.args /\ count = Len(p.defaults) /\ bytes = Bytes(p.extra)
  BY ProcTailSays DEF Bytes
<1>2. p.extra \in WordSeqs /\ Flat(LongsOf(p.defaults)) \in WordSeqs
  BY ProcTailSays, LongsSay
<1>3. Holds(W, i, (<<1, args, 0, count>> \o ((Flat(LongsOf(p.defaults)) \o <<bytes>>) \o p.extra)) \o rest)
  BY <1>1 DEF ProcTail
<1>4. /\ i + 3 <= Len(W) /\ W[i] = 1 /\ W[i + 1] = args /\ W[i + 3] = count
      /\ Holds(W, i + 4, Flat(LongsOf(p.defaults)) \o (<<bytes>> \o (p.extra \o rest)))
  BY <1>2, <1>3, HeadStands
<1> QED
  BY <1>1, <1>4

LEMMA LabelStands ==
  ASSUME NEW W, Len(W) \in Nat, NEW i \in Nat \ {0}, NEW p \in Proc, NEW rest \in WordSeqs,
         p.kind = "label", Holds(W, i, ProcTail(p) \o rest)
  PROVE  i <= Len(W) /\ W[i] = 2 /\ Holds(W, i + 1, rest)
<1>1. ProcTail(p) = << 2 >>
  BY DEF ProcTail
<1> QED
  BY <1>1, OneStands

LEMMA LongStands ==
  ASSUME NEW W, Len(W) \in Nat, NEW i \in Nat \ {0}, NEW value \in Nat, NEW rest \in WordSeqs,
         Holds(W, i, Long(value) \o rest)
  PROVE  Holds(W, i, Long(value)) /\ i + 2 \in Nat \ {0} /\ Holds(W, i + 2, rest)
<1> DEFINE v == Long(value)
<1>1. v \in WordSeqs /\ rest \in WordSeqs
      /\ Len(v) = 2 /\ Len(rest) \in Nat
  <2>1. v \in WordSeqs /\ Len(v) = 2
    BY LongSays, Joins
  <2>2. rest \in WordSeqs /\ Len(rest) \in Nat
    BY LongSays, Joins
  <2> QED
    BY <2>1, <2>2
<1>2. Holds(W, i, v \o rest)
  OBVIOUS
<1> HIDE DEF v
<1>3. Holds(W, i, v) /\ Holds(W, i + Len(v), rest)
  BY <1>2, <1>1, SplitsPos, Zenon
<1>4. i + Len(v) = i + 2 /\ i + 2 \in Nat \ {0}
  BY <1>1
<1>5. Holds(W, i + 2, rest)
  BY <1>3, <1>4
<1> QED
  BY <1>1, <1>3, <1>4, <1>5 DEF v

LEMMA RefStands ==
  ASSUME NEW W, Len(W) \in Nat, NEW i \in Nat \ {0}, NEW value \in Nat, NEW V \in Nat, NEW rest \in WordSeqs,
         Holds(W, i, (Long(value) \o ((IF V >= 10 THEN << 0 >> ELSE << >>))) \o rest)
  PROVE  /\ Holds(W, i, Long(value)) /\ i + 2 + (IF V >= 10 THEN 1 ELSE 0) \in Nat \ {0}
         /\ Holds(W, i + 2 + (IF V >= 10 THEN 1 ELSE 0), rest)
<1> DEFINE v == Long(value)
           t == (IF V >= 10 THEN << 0 >> ELSE << >>)
<1>1. v \in WordSeqs /\ t \in WordSeqs /\ rest \in WordSeqs
      /\ Len(v) = 2 /\ Len(t) = (IF V >= 10 THEN 1 ELSE 0) /\ Len(rest) \in Nat
  <2>1. v \in WordSeqs /\ Len(v) = 2
    BY LongSays, Tuples, Joins
  <2>2. t \in WordSeqs /\ Len(t) = (IF V >= 10 THEN 1 ELSE 0)
    BY LongSays, Tuples, Joins
  <2>3. rest \in WordSeqs /\ Len(rest) \in Nat
    BY LongSays, Tuples, Joins
  <2> QED
    BY <2>1, <2>2, <2>3
<1>2. Holds(W, i, (v \o t) \o rest)
  OBVIOUS
<1> HIDE DEF v, t
<1>3. v \o t \in WordSeqs /\ Len(v \o t) = Len(v) + Len(t)
  BY <1>1, Joins, Zenon
<1>4. v \o t \in WordSeqs /\ Len(v \o t) = 2 + (IF V >= 10 THEN 1 ELSE 0)
  BY <1>1, <1>3
<1>5. Holds(W, i, v \o t) /\ Holds(W, i + Len(v \o t), rest)
  BY <1>2, <1>1, <1>4, SplitsPos, Zenon
<1>6. i + Len(v \o t) = i + 2 + (IF V >= 10 THEN 1 ELSE 0) /\ i + 2 + (IF V >= 10 THEN 1 ELSE 0) \in Nat \ {0}
  BY <1>1, <1>4
<1>7. Holds(W, i + 2 + (IF V >= 10 THEN 1 ELSE 0), rest)
  BY <1>5, <1>6
<1>8. Holds(W, i, v) /\ Holds(W, i + Len(v), t)
  BY <1>5, <1>1, SplitsPos, Zenon
<1>9. i + Len(v) = i + 2 /\ i + 2 \in Nat \ {0}
  BY <1>1
<1>10. Holds(W, i + 2, t)
  BY <1>8, <1>9
<1> QED
  BY <1>1, <1>6, <1>7, <1>8, <1>9, <1>10 DEF v, t

LEMMA XrefStands ==
  ASSUME NEW W, Len(W) \in Nat, NEW i \in Nat \ {0}, NEW name \in Name, NEW V \in Nat, NEW refs \in Seq(Ref), NEW rest \in WordSeqs,
         Holds(W, i, (Named(name) \o RefList(V, refs)) \o rest)
  PROVE  /\ i <= Len(W) /\ W[i] = Bytes(name) /\ Holds(W, i + 1, name)
         /\ i + 1 + Len(name) \in Nat \ {0} /\ Holds(W, i + 1 + Len(name), Flat(RefWords(V, refs)) \o (LongZero \o rest))
<1> DEFINE b == <<Bytes(name)>>
           f == Flat(RefWords(V, refs))
           z == LongZero
<1>1. b \in WordSeqs /\ name \in WordSeqs /\ f \in WordSeqs /\ z \in WordSeqs /\ rest \in WordSeqs
      /\ Len(b) = 1 /\ Len(name) \in Nat /\ Len(f) \in Nat /\ Len(z) = 2 /\ Len(rest) \in Nat /\ Bytes(name) \in Nat
  <2>1. Bytes(name) \in Nat
    BY NameSays, Tuples, RefEntries, FlatIs, RefListSays, Joins
  <2>2. b \in WordSeqs /\ Len(b) = 1
    BY <2>1, NameSays, Tuples, RefEntries, FlatIs, RefListSays, Joins
  <2>3. name \in WordSeqs /\ Len(name) \in Nat
    BY <2>1, NameSays, Tuples, RefEntries, FlatIs, RefListSays, Joins
  <2>4. f \in WordSeqs /\ Len(f) \in Nat
    BY <2>1, NameSays, Tuples, RefEntries, FlatIs, RefListSays, Joins, Zenon
  <2>5. z \in WordSeqs /\ Len(z) = 2
    BY <2>1, NameSays, Tuples, RefEntries, FlatIs, RefListSays, Joins
  <2>6. rest \in WordSeqs /\ Len(rest) \in Nat
    BY <2>1, NameSays, Tuples, RefEntries, FlatIs, RefListSays, Joins
  <2> QED
    BY <2>1, <2>2, <2>3, <2>4, <2>5, <2>6
<1>2. Holds(W, i, ((b \o name) \o (f \o z)) \o rest)
  BY DEF Named, RefList
<1> HIDE DEF b, f, z
<1>3. b \o name \in WordSeqs /\ Len(b \o name) = Len(b) + Len(name)
  BY <1>1, Joins, Zenon
<1>4. b \o name \in WordSeqs /\ Len(b \o name) = 1 + Len(name)
  BY <1>1, <1>3
<1>5. f \o z \in WordSeqs /\ Len(f \o z) = Len(f) + Len(z)
  BY <1>1, Joins, Zenon
<1>6. f \o z \in WordSeqs /\ Len(f \o z) = 2 + Len(f)
  BY <1>1, <1>5
<1>7. (b \o name) \o (f \o z) \in WordSeqs /\ Len((b \o name) \o (f \o z)) = Len(b \o name) + Len(f \o z)
  BY <1>1, <1>4, <1>6, Joins, Zenon
<1>8. (b \o name) \o (f \o z) \in WordSeqs /\ Len((b \o name) \o (f \o z)) = 3 + Len(name) + Len(f)
  BY <1>1, <1>4, <1>6, <1>7
<1>9. Holds(W, i, (b \o name) \o (f \o z)) /\ Holds(W, i + Len((b \o name) \o (f \o z)), rest)
  BY <1>2, <1>1, <1>8, SplitsPos, Zenon
<1>10. i + Len((b \o name) \o (f \o z)) = i + 3 + Len(name) + Len(f) /\ i + 3 + Len(name) + Len(f) \in Nat \ {0}
  BY <1>1, <1>8
<1>11. Holds(W, i + 3 + Len(name) + Len(f), rest)
  BY <1>9, <1>10
<1>12. Holds(W, i, b \o name) /\ Holds(W, i + Len(b \o name), f \o z)
  BY <1>9, <1>1, <1>4, <1>6, SplitsPos, Zenon
<1>13. i + Len(b \o name) = i + 1 + Len(name) /\ i + 1 + Len(name) \in Nat \ {0}
  BY <1>1, <1>4
<1>14. Holds(W, i + 1 + Len(name), f \o z)
  BY <1>12, <1>13
<1>15. Holds(W, i, b) /\ Holds(W, i + Len(b), name)
  BY <1>12, <1>1, SplitsPos, Zenon
<1>16. i + Len(b) = i + 1 /\ i + 1 \in Nat \ {0}
  BY <1>1
<1>17. Holds(W, i + 1, name)
  BY <1>15, <1>16
<1>18. Holds(W, i + 1 + Len(name), f) /\ Holds(W, i + 1 + Len(name) + Len(f), z)
  BY <1>13, <1>14, <1>1, SplitsPos
<1>19. i + 1 + Len(name) + Len(f) = i + 1 + Len(name) + Len(f) /\ i + 1 + Len(name) + Len(f) \in Nat \ {0}
  BY <1>1
<1>20. Holds(W, i + 1 + Len(name) + Len(f), z)
  BY <1>18, <1>19
<1>21. Bytes(name) \in Nat
  BY <1>1
<1>22. Holds(W, i, <<Bytes(name)>>)
  BY <1>15 DEF b
<1>23. i <= Len(W) /\ W[i] = Bytes(name)
  BY <1>22, <1>21, Takes1
<1>24. i + 1 + Len(name) + Len(f) + Len(z) = i + 3 + Len(name) + Len(f)
  BY <1>1
<1>25. Holds(W, i + 1 + Len(name) + Len(f) + Len(z), rest)
  BY <1>24, <1>10, <1>11
<1>26. z \o rest \in WordSeqs
  BY <1>1, Joins
<1>27. Holds(W, i + 1 + Len(name) + Len(f), z \o rest)
  BY <1>25, <1>19, <1>20, <1>1, Splits, Zenon
<1>28. i + 1 + Len(name) + Len(f) = i + 1 + Len(name) + Len(f)
  BY <1>1
<1>29. Holds(W, i + 1 + Len(name) + Len(f), z \o rest)
  BY <1>28, <1>19, <1>27
<1>30. f \o (z \o rest) \in WordSeqs
  BY <1>1, <1>26, Joins
<1>31. Holds(W, i + 1 + Len(name), f \o (z \o rest))
  BY <1>29, <1>13, <1>18, <1>1, <1>26, Splits
<1> QED
  BY <1>1, <1>10, <1>11, <1>13, <1>15, <1>16, <1>17, <1>18, <1>19, <1>20, <1>23, <1>31 DEF b, f, z

LEMMA DrelStands ==
  ASSUME NEW W, Len(W) \in Nat, NEW i \in Nat \ {0}, NEW V \in Nat, NEW refs \in Seq(Ref), NEW rest \in WordSeqs,
         Holds(W, i, (<< 0 >> \o RefList(V, refs)) \o rest)
  PROVE  /\ i <= Len(W) /\ W[i] = 0 /\ i + 1 \in Nat \ {0}
         /\ Holds(W, i + 1, Flat(RefWords(V, refs)) \o (LongZero \o rest))
<1> DEFINE h == << 0 >>
           f == Flat(RefWords(V, refs))
           z == LongZero
<1>1. h \in WordSeqs /\ f \in WordSeqs /\ z \in WordSeqs /\ rest \in WordSeqs
      /\ Len(h) = 1 /\ Len(f) \in Nat /\ Len(z) = 2 /\ Len(rest) \in Nat
  <2>1. h \in WordSeqs /\ Len(h) = 1
    BY Tuples, RefEntries, FlatIs, RefListSays, Joins
  <2>2. f \in WordSeqs /\ Len(f) \in Nat
    BY Tuples, RefEntries, FlatIs, RefListSays, Joins, Zenon
  <2>3. z \in WordSeqs /\ Len(z) = 2
    BY Tuples, RefEntries, FlatIs, RefListSays, Joins
  <2>4. rest \in WordSeqs /\ Len(rest) \in Nat
    BY Tuples, RefEntries, FlatIs, RefListSays, Joins
  <2> QED
    BY <2>1, <2>2, <2>3, <2>4
<1>2. Holds(W, i, (h \o (f \o z)) \o rest)
  BY DEF RefList
<1> HIDE DEF h, f, z
<1>3. f \o z \in WordSeqs /\ Len(f \o z) = Len(f) + Len(z)
  BY <1>1, Joins, Zenon
<1>4. f \o z \in WordSeqs /\ Len(f \o z) = 2 + Len(f)
  BY <1>1, <1>3
<1>5. h \o (f \o z) \in WordSeqs /\ Len(h \o (f \o z)) = Len(h) + Len(f \o z)
  BY <1>1, <1>4, Joins, Zenon
<1>6. h \o (f \o z) \in WordSeqs /\ Len(h \o (f \o z)) = 3 + Len(f)
  BY <1>1, <1>4, <1>5
<1>7. Holds(W, i, h \o (f \o z)) /\ Holds(W, i + Len(h \o (f \o z)), rest)
  BY <1>2, <1>1, <1>6, SplitsPos, Zenon
<1>8. i + Len(h \o (f \o z)) = i + 3 + Len(f) /\ i + 3 + Len(f) \in Nat \ {0}
  BY <1>1, <1>6
<1>9. Holds(W, i + 3 + Len(f), rest)
  BY <1>7, <1>8
<1>10. Holds(W, i, h) /\ Holds(W, i + Len(h), f \o z)
  BY <1>7, <1>1, <1>4, SplitsPos, Zenon
<1>11. i + Len(h) = i + 1 /\ i + 1 \in Nat \ {0}
  BY <1>1
<1>12. Holds(W, i + 1, f \o z)
  BY <1>10, <1>11
<1>13. Holds(W, i + 1, f) /\ Holds(W, i + 1 + Len(f), z)
  BY <1>11, <1>12, <1>1, SplitsPos
<1>14. i + 1 + Len(f) = i + 1 + Len(f) /\ i + 1 + Len(f) \in Nat \ {0}
  BY <1>1
<1>15. Holds(W, i + 1 + Len(f), z)
  BY <1>13, <1>14
<1>16. Holds(W, i, << 0 >>)
  BY <1>10 DEF h
<1>17. i <= Len(W) /\ W[i] = 0
  BY <1>16, Takes1
<1>18. i + 1 + Len(f) + Len(z) = i + 3 + Len(f)
  BY <1>1
<1>19. Holds(W, i + 1 + Len(f) + Len(z), rest)
  BY <1>18, <1>8, <1>9
<1>20. z \o rest \in WordSeqs
  BY <1>1, Joins
<1>21. Holds(W, i + 1 + Len(f), z \o rest)
  BY <1>19, <1>14, <1>15, <1>1, Splits, Zenon
<1>22. i + 1 + Len(f) = i + 1 + Len(f)
  BY <1>1
<1>23. Holds(W, i + 1 + Len(f), z \o rest)
  BY <1>22, <1>14, <1>21
<1>24. f \o (z \o rest) \in WordSeqs
  BY <1>1, <1>20, Joins
<1>25. Holds(W, i + 1, f \o (z \o rest))
  BY <1>23, <1>11, <1>13, <1>1, <1>20, Splits
<1> QED
  BY <1>1, <1>8, <1>9, <1>10, <1>11, <1>13, <1>14, <1>15, <1>17, <1>25 DEF h, f, z

LEMMA PlaceStands ==
  ASSUME NEW W, Len(W) \in Nat, NEW i \in Nat \ {0}, NEW coff \in Nat, NEW kind, NEW type \in Nat, NEW rest \in WordSeqs,
         Holds(W, i, (Long(coff) \o ((IF kind = 2 THEN << >> ELSE <<type>>))) \o rest)
  PROVE  /\ Holds(W, i, Long(coff)) /\ i + 2 + (IF kind = 2 THEN 0 ELSE 1) \in Nat \ {0}
         /\ Holds(W, i + 2 + (IF kind = 2 THEN 0 ELSE 1), rest)
         /\ Holds(W, i + 2, IF kind = 2 THEN << >> ELSE <<type>>)
<1> DEFINE v == Long(coff)
           t == (IF kind = 2 THEN << >> ELSE <<type>>)
<1>1. v \in WordSeqs /\ t \in WordSeqs /\ rest \in WordSeqs
      /\ Len(v) = 2 /\ Len(t) = (IF kind = 2 THEN 0 ELSE 1) /\ Len(rest) \in Nat
  <2>1. v \in WordSeqs /\ Len(v) = 2
    BY LongSays, Tuples, Joins
  <2>2. t \in WordSeqs /\ Len(t) = (IF kind = 2 THEN 0 ELSE 1)
    BY LongSays, Tuples, Joins
  <2>3. rest \in WordSeqs /\ Len(rest) \in Nat
    BY LongSays, Tuples, Joins
  <2> QED
    BY <2>1, <2>2, <2>3
<1>2. Holds(W, i, (v \o t) \o rest)
  OBVIOUS
<1> HIDE DEF v, t
<1>3. v \o t \in WordSeqs /\ Len(v \o t) = Len(v) + Len(t)
  BY <1>1, Joins, Zenon
<1>4. v \o t \in WordSeqs /\ Len(v \o t) = 2 + (IF kind = 2 THEN 0 ELSE 1)
  BY <1>1, <1>3
<1>5. Holds(W, i, v \o t) /\ Holds(W, i + Len(v \o t), rest)
  BY <1>2, <1>1, <1>4, SplitsPos, Zenon
<1>6. i + Len(v \o t) = i + 2 + (IF kind = 2 THEN 0 ELSE 1) /\ i + 2 + (IF kind = 2 THEN 0 ELSE 1) \in Nat \ {0}
  BY <1>1, <1>4
<1>7. Holds(W, i + 2 + (IF kind = 2 THEN 0 ELSE 1), rest)
  BY <1>5, <1>6
<1>8. Holds(W, i, v) /\ Holds(W, i + Len(v), t)
  BY <1>5, <1>1, SplitsPos, Zenon
<1>9. i + Len(v) = i + 2 /\ i + 2 \in Nat \ {0}
  BY <1>1
<1>10. Holds(W, i + 2, t)
  BY <1>8, <1>9
<1> QED
  BY <1>1, <1>6, <1>7, <1>8, <1>9, <1>10 DEF v, t

LEMMA SymbolStands ==
  ASSUME NEW W, Len(W) \in Nat, NEW i \in Nat \ {0}, NEW use \in Use, NEW rest \in WordSeqs,
         Holds(W, i, SymbolWords(use) \o rest)
  PROVE  /\ i + 1 <= Len(W) /\ W[i] = use.kind /\ W[i + 1] = Bytes(use.symbol) /\ Holds(W, i + 2, use.symbol)
         /\ i + 2 + Len(use.symbol) + (IF use.kind = 2 THEN 1 ELSE 0) \in Nat \ {0}
         /\ i + 2 + Len(use.symbol) + (IF use.kind = 2 THEN 1 ELSE 0) <= Len(W)
         /\ Holds(W, i + 2 + Len(use.symbol) + (IF use.kind = 2 THEN 1 ELSE 0), <<Len(use.refs)>>)
         /\ i + 3 + Len(use.symbol) + (IF use.kind = 2 THEN 1 ELSE 0) \in Nat \ {0}
         /\ Holds(W, i + 3 + Len(use.symbol) + (IF use.kind = 2 THEN 1 ELSE 0), rest)
<1> DEFINE h == <<use.kind>>
           b == <<Bytes(use.symbol)>>
           s == use.symbol
           t == (IF use.kind = 2 THEN << 0 >> ELSE << >>)
           c == <<Len(use.refs)>>
<1>1. h \in WordSeqs /\ b \in WordSeqs /\ s \in WordSeqs /\ t \in WordSeqs /\ c \in WordSeqs /\ rest \in WordSeqs
      /\ Len(h) = 1 /\ Len(b) = 1 /\ Len(s) \in Nat /\ Len(t) = (IF use.kind = 2 THEN 1 ELSE 0) /\ Len(c) = 1 /\ Len(rest) \in Nat /\ use.kind \in Nat \ {0} /\ Bytes(use.symbol) \in Nat /\ Len(use.refs) \in Nat
  <2>1. use.kind \in Nat \ {0}
    BY UseSays, NameSays, Tuples, Joins
  <2>2. Bytes(use.symbol) \in Nat
    BY UseSays, NameSays, Tuples, Joins, Zenon
  <2>3. Len(use.refs) \in Nat
    BY UseSays, NameSays, Tuples, Joins
  <2>4. h \in WordSeqs /\ Len(h) = 1
    BY <2>1, <2>2, <2>3, UseSays, NameSays, Tuples, Joins
  <2>5. b \in WordSeqs /\ Len(b) = 1
    BY <2>1, <2>2, <2>3, UseSays, NameSays, Tuples, Joins
  <2>6. s \in WordSeqs /\ Len(s) \in Nat
    BY <2>1, <2>2, <2>3, UseSays, NameSays, Tuples, Joins
  <2>7. t \in WordSeqs /\ Len(t) = (IF use.kind = 2 THEN 1 ELSE 0)
    BY Tuples
  <2>8. c \in WordSeqs /\ Len(c) = 1
    BY <2>1, <2>2, <2>3, UseSays, NameSays, Tuples, Joins
  <2>9. rest \in WordSeqs /\ Len(rest) \in Nat
    BY <2>1, <2>2, <2>3, UseSays, NameSays, Tuples, Joins
  <2> QED
    BY <2>1, <2>2, <2>3, <2>4, <2>5, <2>6, <2>7, <2>8, <2>9
<1>2. Holds(W, i, (((h \o (b \o s)) \o t) \o c) \o rest)
  BY DEF SymbolWords, Named
<1> HIDE DEF h, b, s, t, c
<1>3. b \o s \in WordSeqs /\ Len(b \o s) = Len(b) + Len(s)
  BY <1>1, Joins, Zenon
<1>4. b \o s \in WordSeqs /\ Len(b \o s) = 1 + Len(s)
  BY <1>1, <1>3
<1>5. h \o (b \o s) \in WordSeqs /\ Len(h \o (b \o s)) = Len(h) + Len(b \o s)
  BY <1>1, <1>4, Joins
<1>6. h \o (b \o s) \in WordSeqs /\ Len(h \o (b \o s)) = 2 + Len(s)
  BY <1>1, <1>4, <1>5
<1>7. (h \o (b \o s)) \o t \in WordSeqs /\ Len((h \o (b \o s)) \o t) = Len(h \o (b \o s)) + Len(t)
  BY <1>1, <1>6, Joins, Zenon
<1>8. (h \o (b \o s)) \o t \in WordSeqs /\ Len((h \o (b \o s)) \o t) = 2 + Len(s) + (IF use.kind = 2 THEN 1 ELSE 0)
  BY <1>1, <1>6, <1>7
<1>9. ((h \o (b \o s)) \o t) \o c \in WordSeqs /\ Len(((h \o (b \o s)) \o t) \o c) = Len((h \o (b \o s)) \o t) + Len(c)
  BY <1>1, <1>8, Joins, Zenon
<1>10. ((h \o (b \o s)) \o t) \o c \in WordSeqs /\ Len(((h \o (b \o s)) \o t) \o c) = 3 + Len(s) + (IF use.kind = 2 THEN 1 ELSE 0)
  BY <1>1, <1>8, <1>9
<1>11. Holds(W, i, ((h \o (b \o s)) \o t) \o c) /\ Holds(W, i + Len(((h \o (b \o s)) \o t) \o c), rest)
  BY <1>2, <1>1, <1>10, SplitsPos, Zenon
<1>12. i + Len(((h \o (b \o s)) \o t) \o c) = i + 3 + Len(s) + (IF use.kind = 2 THEN 1 ELSE 0) /\ i + 3 + Len(s) + (IF use.kind = 2 THEN 1 ELSE 0) \in Nat \ {0}
  BY <1>1, <1>10
<1>13. Holds(W, i + 3 + Len(s) + (IF use.kind = 2 THEN 1 ELSE 0), rest)
  BY <1>11, <1>12
<1>14. Holds(W, i, (h \o (b \o s)) \o t) /\ Holds(W, i + Len((h \o (b \o s)) \o t), c)
  BY <1>11, <1>1, <1>8, SplitsPos, Zenon
<1>15. i + Len((h \o (b \o s)) \o t) = i + 2 + Len(s) + (IF use.kind = 2 THEN 1 ELSE 0) /\ i + 2 + Len(s) + (IF use.kind = 2 THEN 1 ELSE 0) \in Nat \ {0}
  BY <1>1, <1>8
<1>16. Holds(W, i + 2 + Len(s) + (IF use.kind = 2 THEN 1 ELSE 0), c)
  BY <1>14, <1>15
<1>17. Holds(W, i, h \o (b \o s)) /\ Holds(W, i + Len(h \o (b \o s)), t)
  BY <1>14, <1>1, <1>6, SplitsPos, Zenon
<1>18. i + Len(h \o (b \o s)) = i + 2 + Len(s) /\ i + 2 + Len(s) \in Nat \ {0}
  BY <1>1, <1>6
<1>19. Holds(W, i + 2 + Len(s), t)
  BY <1>17, <1>18
<1>20. Holds(W, i, h) /\ Holds(W, i + Len(h), b \o s)
  BY <1>17, <1>1, <1>4, SplitsPos
<1>21. i + Len(h) = i + 1 /\ i + 1 \in Nat \ {0}
  BY <1>1
<1>22. Holds(W, i + 1, b \o s)
  BY <1>20, <1>21
<1>23. Holds(W, i + 1, b) /\ Holds(W, i + 1 + Len(b), s)
  BY <1>21, <1>22, <1>1, SplitsPos, Zenon
<1>24. i + 1 + Len(b) = i + 2 /\ i + 2 \in Nat \ {0}
  BY <1>1
<1>25. Holds(W, i + 2, s)
  BY <1>23, <1>24
<1>26. use.kind \in Nat \ {0}
  BY <1>1
<1>27. Bytes(use.symbol) \in Nat
  BY <1>1
<1>28. Len(use.refs) \in Nat
  BY <1>1
<1>29. Holds(W, i, <<use.kind>>)
  BY <1>20 DEF h
<1>30. i <= Len(W) /\ W[i] = use.kind
  BY <1>29, <1>26, <1>27, <1>28, Takes1
<1>31. Holds(W, i + 1, <<Bytes(use.symbol)>>)
  BY <1>21, <1>23 DEF b
<1>32. i + 1 <= Len(W) /\ W[i + 1] = Bytes(use.symbol)
  BY <1>31, <1>21, <1>26, <1>27, <1>28, Takes1
<1>33. Holds(W, i + 2 + Len(s) + (IF use.kind = 2 THEN 1 ELSE 0), <<Len(use.refs)>>)
  BY <1>15, <1>16 DEF c
<1>34. i + 2 + Len(s) + (IF use.kind = 2 THEN 1 ELSE 0) <= Len(W) /\ W[i + 2 + Len(s) + (IF use.kind = 2 THEN 1 ELSE 0)] = Len(use.refs)
  BY <1>33, <1>15, <1>26, <1>27, <1>28, Takes1
<1> QED
  BY <1>1, <1>12, <1>13, <1>15, <1>16, <1>18, <1>19, <1>20, <1>21, <1>23, <1>24, <1>25, <1>30, <1>32, <1>33, <1>34, Zenon DEF h, b, s, t, c

LEMMA UseStands ==
  ASSUME NEW W, Len(W) \in Nat, NEW i \in Nat \ {0}, NEW use \in Use, NEW rest \in WordSeqs,
         Holds(W, i, (Named(use.submodule) \o (SymbolWords(use) \o (Flat(PlaceWords(use.kind, use.refs)) \o << 0 >>))) \o rest)
  PROVE  /\ i <= Len(W) /\ W[i] = Bytes(use.submodule) /\ Holds(W, i + 1, use.submodule)
         /\ i + 1 + Len(use.submodule) \in Nat \ {0}
         /\ Holds(W, i + 1 + Len(use.submodule),
              SymbolWords(use) \o (Flat(PlaceWords(use.kind, use.refs)) \o (<< 0 >> \o rest)))
<1> DEFINE b == <<Bytes(use.submodule)>>
           m == use.submodule
           w == SymbolWords(use)
           f == Flat(PlaceWords(use.kind, use.refs))
           z == << 0 >>
<1>1. b \in WordSeqs /\ m \in WordSeqs /\ w \in WordSeqs /\ f \in WordSeqs /\ z \in WordSeqs /\ rest \in WordSeqs
      /\ Len(b) = 1 /\ Len(m) \in Nat /\ Len(w) \in Nat /\ Len(f) \in Nat /\ Len(z) = 1 /\ Len(rest) \in Nat /\ Bytes(use.submodule) \in Nat
  <2>1. Bytes(use.submodule) \in Nat
    BY UseSays, NameSays, PlaceEntries, FlatIs, Tuples, Joins
  <2>2. b \in WordSeqs /\ Len(b) = 1
    BY <2>1, UseSays, NameSays, PlaceEntries, FlatIs, Tuples, Joins
  <2>3. m \in WordSeqs /\ Len(m) \in Nat
    BY <2>1, UseSays, NameSays, PlaceEntries, FlatIs, Tuples, Joins
  <2>4. w \in WordSeqs /\ Len(w) \in Nat
    BY <2>1, UseSays, NameSays, PlaceEntries, FlatIs, Tuples, Joins
  <2>5. f \in WordSeqs /\ Len(f) \in Nat
    BY <2>1, UseSays, NameSays, PlaceEntries, FlatIs, Tuples, Joins
  <2>6. z \in WordSeqs /\ Len(z) = 1
    BY <2>1, UseSays, NameSays, PlaceEntries, FlatIs, Tuples, Joins, Zenon
  <2>7. rest \in WordSeqs /\ Len(rest) \in Nat
    BY <2>1, UseSays, NameSays, PlaceEntries, FlatIs, Tuples, Joins
  <2> QED
    BY <2>1, <2>2, <2>3, <2>4, <2>5, <2>6, <2>7
<1>2. Holds(W, i, ((b \o m) \o (w \o (f \o z))) \o rest)
  BY DEF Named
<1> HIDE DEF b, m, w, f, z
<1>3. b \o m \in WordSeqs /\ Len(b \o m) = Len(b) + Len(m)
  BY <1>1, Joins, Zenon
<1>4. b \o m \in WordSeqs /\ Len(b \o m) = 1 + Len(m)
  BY <1>1, <1>3
<1>5. f \o z \in WordSeqs /\ Len(f \o z) = Len(f) + Len(z)
  BY <1>1, Joins, Zenon
<1>6. f \o z \in WordSeqs /\ Len(f \o z) = 1 + Len(f)
  BY <1>1, <1>5
<1>7. w \o (f \o z) \in WordSeqs /\ Len(w \o (f \o z)) = Len(w) + Len(f \o z)
  BY <1>1, <1>6, Joins, Zenon
<1>8. w \o (f \o z) \in WordSeqs /\ Len(w \o (f \o z)) = 1 + Len(w) + Len(f)
  BY <1>1, <1>6, <1>7
<1>9. (b \o m) \o (w \o (f \o z)) \in WordSeqs /\ Len((b \o m) \o (w \o (f \o z))) = Len(b \o m) + Len(w \o (f \o z))
  BY <1>1, <1>4, <1>8, Joins, Zenon
<1>10. (b \o m) \o (w \o (f \o z)) \in WordSeqs /\ Len((b \o m) \o (w \o (f \o z))) = 2 + Len(m) + Len(w) + Len(f)
  BY <1>1, <1>4, <1>8, <1>9
<1>11. Holds(W, i, (b \o m) \o (w \o (f \o z))) /\ Holds(W, i + Len((b \o m) \o (w \o (f \o z))), rest)
  BY <1>2, <1>1, <1>10, SplitsPos, Zenon
<1>12. i + Len((b \o m) \o (w \o (f \o z))) = i + 2 + Len(m) + Len(w) + Len(f) /\ i + 2 + Len(m) + Len(w) + Len(f) \in Nat \ {0}
  BY <1>1, <1>10
<1>13. Holds(W, i + 2 + Len(m) + Len(w) + Len(f), rest)
  BY <1>11, <1>12
<1>14. Holds(W, i, b \o m) /\ Holds(W, i + Len(b \o m), w \o (f \o z))
  BY <1>11, <1>1, <1>4, <1>8, SplitsPos, Zenon
<1>15. i + Len(b \o m) = i + 1 + Len(m) /\ i + 1 + Len(m) \in Nat \ {0}
  BY <1>1, <1>4
<1>16. Holds(W, i + 1 + Len(m), w \o (f \o z))
  BY <1>14, <1>15
<1>17. Holds(W, i, b) /\ Holds(W, i + Len(b), m)
  BY <1>14, <1>1, SplitsPos, Zenon
<1>18. i + Len(b) = i + 1 /\ i + 1 \in Nat \ {0}
  BY <1>1
<1>19. Holds(W, i + 1, m)
  BY <1>17, <1>18
<1>20. Holds(W, i + 1 + Len(m), w) /\ Holds(W, i + 1 + Len(m) + Len(w), f \o z)
  BY <1>15, <1>16, <1>1, <1>6, SplitsPos
<1>21. i + 1 + Len(m) + Len(w) = i + 1 + Len(m) + Len(w) /\ i + 1 + Len(m) + Len(w) \in Nat \ {0}
  BY <1>1
<1>22. Holds(W, i + 1 + Len(m) + Len(w), f \o z)
  BY <1>20, <1>21
<1>23. Holds(W, i + 1 + Len(m) + Len(w), f) /\ Holds(W, i + 1 + Len(m) + Len(w) + Len(f), z)
  BY <1>21, <1>22, <1>1, SplitsPos
<1>24. i + 1 + Len(m) + Len(w) + Len(f) = i + 1 + Len(m) + Len(w) + Len(f) /\ i + 1 + Len(m) + Len(w) + Len(f) \in Nat \ {0}
  BY <1>1
<1>25. Holds(W, i + 1 + Len(m) + Len(w) + Len(f), z)
  BY <1>23, <1>24
<1>26. Bytes(use.submodule) \in Nat
  BY <1>1
<1>27. Holds(W, i, <<Bytes(use.submodule)>>)
  BY <1>17 DEF b
<1>28. i <= Len(W) /\ W[i] = Bytes(use.submodule)
  BY <1>27, <1>26, Takes1
<1>29. i + 1 + Len(m) + Len(w) + Len(f) + Len(z) = i + 2 + Len(m) + Len(w) + Len(f)
  BY <1>1
<1>30. Holds(W, i + 1 + Len(m) + Len(w) + Len(f) + Len(z), rest)
  BY <1>29, <1>12, <1>13
<1>31. z \o rest \in WordSeqs
  BY <1>1, Joins
<1>32. Holds(W, i + 1 + Len(m) + Len(w) + Len(f), z \o rest)
  BY <1>30, <1>24, <1>25, <1>1, Splits, Zenon
<1>33. i + 1 + Len(m) + Len(w) + Len(f) = i + 1 + Len(m) + Len(w) + Len(f)
  BY <1>1
<1>34. Holds(W, i + 1 + Len(m) + Len(w) + Len(f), z \o rest)
  BY <1>33, <1>24, <1>32
<1>35. f \o (z \o rest) \in WordSeqs
  BY <1>1, <1>31, Joins
<1>36. Holds(W, i + 1 + Len(m) + Len(w), f \o (z \o rest))
  BY <1>34, <1>21, <1>23, <1>1, <1>31, Splits
<1>37. i + 1 + Len(m) + Len(w) = i + 1 + Len(m) + Len(w)
  BY <1>1
<1>38. Holds(W, i + 1 + Len(m) + Len(w), f \o (z \o rest))
  BY <1>37, <1>21, <1>36
<1>39. w \o (f \o (z \o rest)) \in WordSeqs
  BY <1>1, <1>31, <1>35, Joins
<1>40. Holds(W, i + 1 + Len(m), w \o (f \o (z \o rest)))
  BY <1>38, <1>15, <1>20, <1>1, <1>31, <1>35, Splits
<1> QED
  BY <1>1, <1>12, <1>13, <1>15, <1>17, <1>18, <1>19, <1>20, <1>21, <1>23, <1>24, <1>25, <1>28, <1>40, Zenon DEF b, m, w, f, z

-----------------------------------------------------------------------------
(* Where the words of a job are.                                           *)

LEMMA EndedStands ==
  ASSUME NEW W, Len(W) \in Nat, NEW i \in Nat \ {0}, NEW f \in WordSeqs, NEW z \in Nat, NEW rest \in WordSeqs,
         Holds(W, i, (f \o <<z>>) \o rest)
  PROVE  Holds(W, i, f \o (<<z>> \o rest))
<1> DEFINE e == <<z>>
<1>1. f \in WordSeqs /\ e \in WordSeqs /\ rest \in WordSeqs
      /\ Len(f) \in Nat /\ Len(e) = 1 /\ Len(rest) \in Nat
  <2>1. f \in WordSeqs /\ Len(f) \in Nat
    BY Tuples, Joins
  <2>2. e \in WordSeqs /\ Len(e) = 1
    BY Tuples, Joins
  <2>3. rest \in WordSeqs /\ Len(rest) \in Nat
    BY Tuples, Joins
  <2> QED
    BY <2>1, <2>2, <2>3
<1>2. Holds(W, i, (f \o e) \o rest)
  OBVIOUS
<1> HIDE DEF e
<1>3. f \o e \in WordSeqs /\ Len(f \o e) = Len(f) + Len(e)
  BY <1>1, Joins, Zenon
<1>4. f \o e \in WordSeqs /\ Len(f \o e) = 1 + Len(f)
  BY <1>1, <1>3
<1>5. Holds(W, i, f \o e) /\ Holds(W, i + Len(f \o e), rest)
  BY <1>2, <1>1, <1>4, SplitsPos, Zenon
<1>6. i + Len(f \o e) = i + 1 + Len(f) /\ i + 1 + Len(f) \in Nat \ {0}
  BY <1>1, <1>4
<1>7. Holds(W, i + 1 + Len(f), rest)
  BY <1>5, <1>6
<1>8. Holds(W, i, f) /\ Holds(W, i + Len(f), e)
  BY <1>5, <1>1, SplitsPos
<1>9. i + Len(f) = i + Len(f) /\ i + Len(f) \in Nat \ {0}
  BY <1>1
<1>10. Holds(W, i + Len(f), e)
  BY <1>8, <1>9
<1>11. i + Len(f) + Len(e) = i + 1 + Len(f)
  BY <1>1
<1>12. Holds(W, i + Len(f) + Len(e), rest)
  BY <1>11, <1>6, <1>7
<1>13. e \o rest \in WordSeqs
  BY <1>1, Joins
<1>14. Holds(W, i + Len(f), e \o rest)
  BY <1>12, <1>9, <1>10, <1>1, Splits, Zenon
<1>15. i + Len(f) = i + Len(f)
  BY <1>1
<1>16. Holds(W, i + Len(f), e \o rest)
  BY <1>15, <1>9, <1>14
<1>17. f \o (e \o rest) \in WordSeqs
  BY <1>1, <1>13, Joins
<1>18. Holds(W, i, f \o (e \o rest))
  BY <1>16, <1>8, <1>1, <1>13, Splits
<1> QED
  BY <1>1, <1>6, <1>7, <1>8, <1>9, <1>10, <1>18 DEF e

LEMMA SizedStands ==
  ASSUME NEW W, Len(W) \in Nat, NEW i \in Nat \ {0}, NEW k \in Nat, NEW s \in WordSeqs, NEW body \in WordSeqs, NEW rest \in WordSeqs,
         Holds(W, i, ((<<k>> \o s) \o body) \o rest)
  PROVE  /\ i <= Len(W) /\ W[i] = k /\ i + 1 + Len(s) \in Nat \ {0}
         /\ Holds(W, i + 1 + Len(s), body \o rest)
<1> DEFINE h == <<k>>
<1>1. h \in WordSeqs /\ s \in WordSeqs /\ body \in WordSeqs /\ rest \in WordSeqs
      /\ Len(h) = 1 /\ Len(s) \in Nat /\ Len(body) \in Nat /\ Len(rest) \in Nat /\ k \in Nat
  <2>1. k \in Nat
    BY Tuples, LongSays, Joins
  <2>2. h \in WordSeqs /\ Len(h) = 1
    BY <2>1, Tuples, LongSays, Joins
  <2>3. s \in WordSeqs /\ Len(s) \in Nat
    BY <2>1, Tuples, LongSays, Joins
  <2>4. body \in WordSeqs /\ Len(body) \in Nat
    BY <2>1, Tuples, LongSays, Joins
  <2>5. rest \in WordSeqs /\ Len(rest) \in Nat
    BY <2>1, Tuples, LongSays, Joins
  <2> QED
    BY <2>1, <2>2, <2>3, <2>4, <2>5
<1>2. Holds(W, i, ((h \o s) \o body) \o rest)
  OBVIOUS
<1> HIDE DEF h
<1>3. h \o s \in WordSeqs /\ Len(h \o s) = Len(h) + Len(s)
  BY <1>1, Joins, Zenon
<1>4. h \o s \in WordSeqs /\ Len(h \o s) = 1 + Len(s)
  BY <1>1, <1>3
<1>5. (h \o s) \o body \in WordSeqs /\ Len((h \o s) \o body) = Len(h \o s) + Len(body)
  BY <1>1, <1>4, Joins, Zenon
<1>6. (h \o s) \o body \in WordSeqs /\ Len((h \o s) \o body) = 1 + Len(s) + Len(body)
  BY <1>1, <1>4, <1>5
<1>7. Holds(W, i, (h \o s) \o body) /\ Holds(W, i + Len((h \o s) \o body), rest)
  BY <1>2, <1>1, <1>6, SplitsPos, Zenon
<1>8. i + Len((h \o s) \o body) = i + 1 + Len(s) + Len(body) /\ i + 1 + Len(s) + Len(body) \in Nat \ {0}
  BY <1>1, <1>6
<1>9. Holds(W, i + 1 + Len(s) + Len(body), rest)
  BY <1>7, <1>8
<1>10. Holds(W, i, h \o s) /\ Holds(W, i + Len(h \o s), body)
  BY <1>7, <1>1, <1>4, SplitsPos, Zenon
<1>11. i + Len(h \o s) = i + 1 + Len(s) /\ i + 1 + Len(s) \in Nat \ {0}
  BY <1>1, <1>4
<1>12. Holds(W, i + 1 + Len(s), body)
  BY <1>10, <1>11
<1>13. Holds(W, i, h) /\ Holds(W, i + Len(h), s)
  BY <1>10, <1>1, SplitsPos, Zenon
<1>14. i + Len(h) = i + 1 /\ i + 1 \in Nat \ {0}
  BY <1>1
<1>15. Holds(W, i + 1, s)
  BY <1>13, <1>14
<1>16. k \in Nat
  BY <1>1
<1>17. Holds(W, i, <<k>>)
  BY <1>13 DEF h
<1>18. i <= Len(W) /\ W[i] = k
  BY <1>17, <1>16, Takes1
<1>19. i + 1 + Len(s) + Len(body) = i + 1 + Len(s) + Len(body)
  BY <1>1
<1>20. Holds(W, i + 1 + Len(s) + Len(body), rest)
  BY <1>19, <1>8, <1>9
<1>21. body \o rest \in WordSeqs
  BY <1>1, Joins
<1>22. Holds(W, i + 1 + Len(s), body \o rest)
  BY <1>20, <1>11, <1>12, <1>1, Splits
<1> QED
  BY <1>1, <1>8, <1>9, <1>11, <1>12, <1>13, <1>14, <1>15, <1>18, <1>22 DEF h

LEMMA CountedStands ==
  ASSUME NEW W, Len(W) \in Nat, NEW i \in Nat \ {0}, NEW k \in Nat, NEW n \in Nat, NEW f \in WordSeqs, NEW rest \in WordSeqs,
         Holds(W, i, ((<<k>> \o Long(n)) \o f) \o rest)
  PROVE  /\ i <= Len(W) /\ W[i] = k /\ Holds(W, i + 1, Long(n)) /\ i + 3 \in Nat \ {0} /\ Holds(W, i + 3, f \o rest)
<1> DEFINE h == <<k>>
           v == Long(n)
<1>1. h \in WordSeqs /\ v \in WordSeqs /\ f \in WordSeqs /\ rest \in WordSeqs
      /\ Len(h) = 1 /\ Len(v) = 2 /\ Len(f) \in Nat /\ Len(rest) \in Nat /\ k \in Nat
  <2>1. k \in Nat
    BY Tuples, LongSays, Joins
  <2>2. h \in WordSeqs /\ Len(h) = 1
    BY <2>1, Tuples, LongSays, Joins
  <2>3. v \in WordSeqs /\ Len(v) = 2
    BY <2>1, Tuples, LongSays, Joins
  <2>4. f \in WordSeqs /\ Len(f) \in Nat
    BY <2>1, Tuples, LongSays, Joins
  <2>5. rest \in WordSeqs /\ Len(rest) \in Nat
    BY <2>1, Tuples, LongSays, Joins
  <2> QED
    BY <2>1, <2>2, <2>3, <2>4, <2>5
<1>2. Holds(W, i, ((h \o v) \o f) \o rest)
  OBVIOUS
<1> HIDE DEF h, v
<1>3. h \o v \in WordSeqs /\ Len(h \o v) = Len(h) + Len(v)
  BY <1>1, Joins, Zenon
<1>4. h \o v \in WordSeqs /\ Len(h \o v) = 3
  BY <1>1, <1>3
<1>5. (h \o v) \o f \in WordSeqs /\ Len((h \o v) \o f) = Len(h \o v) + Len(f)
  BY <1>1, <1>4, Joins
<1>6. (h \o v) \o f \in WordSeqs /\ Len((h \o v) \o f) = 3 + Len(f)
  BY <1>1, <1>4, <1>5
<1>7. Holds(W, i, (h \o v) \o f) /\ Holds(W, i + Len((h \o v) \o f), rest)
  BY <1>2, <1>1, <1>6, SplitsPos, Zenon
<1>8. i + Len((h \o v) \o f) = i + 3 + Len(f) /\ i + 3 + Len(f) \in Nat \ {0}
  BY <1>1, <1>6
<1>9. Holds(W, i + 3 + Len(f), rest)
  BY <1>7, <1>8
<1>10. Holds(W, i, h \o v) /\ Holds(W, i + Len(h \o v), f)
  BY <1>7, <1>1, <1>4, SplitsPos, Zenon
<1>11. i + Len(h \o v) = i + 3 /\ i + 3 \in Nat \ {0}
  BY <1>1, <1>4
<1>12. Holds(W, i + 3, f)
  BY <1>10, <1>11
<1>13. Holds(W, i, h) /\ Holds(W, i + Len(h), v)
  BY <1>10, <1>1, SplitsPos, Zenon
<1>14. i + Len(h) = i + 1 /\ i + 1 \in Nat \ {0}
  BY <1>1
<1>15. Holds(W, i + 1, v)
  BY <1>13, <1>14
<1>16. k \in Nat
  BY <1>1
<1>17. Holds(W, i, <<k>>)
  BY <1>13 DEF h
<1>18. i <= Len(W) /\ W[i] = k
  BY <1>17, <1>16, Takes1
<1>19. i + 3 + Len(f) = i + 3 + Len(f)
  BY <1>1
<1>20. Holds(W, i + 3 + Len(f), rest)
  BY <1>19, <1>8, <1>9
<1>21. f \o rest \in WordSeqs
  BY <1>1, Joins
<1>22. Holds(W, i + 3, f \o rest)
  BY <1>20, <1>11, <1>12, <1>1, Splits
<1> QED
  BY <1>1, <1>8, <1>9, <1>11, <1>12, <1>13, <1>14, <1>15, <1>18, <1>22 DEF h, v

LEMMA SysStands ==
  ASSUME NEW W, Len(W) \in Nat, NEW i \in Nat \ {0}, NEW h \in WordSeqs, NEW v \in WordSeqs, NEW t \in WordSeqs, NEW z \in WordSeqs, NEW rest \in WordSeqs,
         Len(h) = 4, Len(v) = 2, Len(t) = 6,
         Holds(W, i, (((h \o v) \o t) \o z) \o rest)
  PROVE  /\ i <= Len(W) /\ W[i] = h[1] /\ i + 9 <= Len(W) /\ W[i + 9] = t[4]
         /\ i + 12 + Len(z) \in Nat \ {0} /\ Holds(W, i + 12 + Len(z), rest)
<1>1. h \in WordSeqs /\ v \in WordSeqs /\ t \in WordSeqs /\ z \in WordSeqs /\ rest \in WordSeqs
      /\ Len(h) = 4 /\ Len(v) = 2 /\ Len(t) = 6 /\ Len(z) \in Nat /\ Len(rest) \in Nat
  <2>1. h \in WordSeqs /\ Len(h) = 4
    BY Joins
  <2>2. v \in WordSeqs /\ Len(v) = 2
    BY Joins
  <2>3. t \in WordSeqs /\ Len(t) = 6
    BY Joins
  <2>4. z \in WordSeqs /\ Len(z) \in Nat
    BY Joins
  <2>5. rest \in WordSeqs /\ Len(rest) \in Nat
    BY Joins
  <2> QED
    BY <2>1, <2>2, <2>3, <2>4, <2>5
<1>2. Holds(W, i, (((h \o v) \o t) \o z) \o rest)
  OBVIOUS
<1>3. h \o v \in WordSeqs /\ Len(h \o v) = Len(h) + Len(v)
  BY <1>1, Joins, Zenon
<1>4. h \o v \in WordSeqs /\ Len(h \o v) = 6
  BY <1>1, <1>3
<1>5. (h \o v) \o t \in WordSeqs /\ Len((h \o v) \o t) = Len(h \o v) + Len(t)
  BY <1>1, <1>4, Joins, Zenon
<1>6. (h \o v) \o t \in WordSeqs /\ Len((h \o v) \o t) = 12
  BY <1>1, <1>4, <1>5
<1>7. ((h \o v) \o t) \o z \in WordSeqs /\ Len(((h \o v) \o t) \o z) = Len((h \o v) \o t) + Len(z)
  BY <1>1, <1>6, Joins
<1>8. ((h \o v) \o t) \o z \in WordSeqs /\ Len(((h \o v) \o t) \o z) = 12 + Len(z)
  BY <1>1, <1>6, <1>7
<1>9. Holds(W, i, ((h \o v) \o t) \o z) /\ Holds(W, i + Len(((h \o v) \o t) \o z), rest)
  BY <1>2, <1>1, <1>8, SplitsPos, Zenon
<1>10. i + Len(((h \o v) \o t) \o z) = i + 12 + Len(z) /\ i + 12 + Len(z) \in Nat \ {0}
  BY <1>1, <1>8
<1>11. Holds(W, i + 12 + Len(z), rest)
  BY <1>9, <1>10
<1>12. Holds(W, i, (h \o v) \o t) /\ Holds(W, i + Len((h \o v) \o t), z)
  BY <1>9, <1>1, <1>6, SplitsPos, Zenon
<1>13. i + Len((h \o v) \o t) = i + 12 /\ i + 12 \in Nat \ {0}
  BY <1>1, <1>6
<1>14. Holds(W, i + 12, z)
  BY <1>12, <1>13
<1>15. Holds(W, i, h \o v) /\ Holds(W, i + Len(h \o v), t)
  BY <1>12, <1>1, <1>4, SplitsPos, Zenon
<1>16. i + Len(h \o v) = i + 6 /\ i + 6 \in Nat \ {0}
  BY <1>1, <1>4
<1>17. Holds(W, i + 6, t)
  BY <1>15, <1>16
<1>18. Holds(W, i, h) /\ Holds(W, i + Len(h), v)
  BY <1>15, <1>1, SplitsPos, Zenon
<1>19. i + Len(h) = i + 4 /\ i + 4 \in Nat \ {0}
  BY <1>1
<1>20. Holds(W, i + 4, v)
  BY <1>18, <1>19
<1>21. i + 3 <= Len(W) /\ W[i] = h[1]
  BY <1>1, <1>18, Takes4, Zenon
<1>22. i + 6 + 5 <= Len(W) /\ W[i + 6 + 3] = t[4]
  BY <1>1, <1>16, <1>17, Takes6, Zenon
<1> QED
  BY <1>1, <1>10, <1>11, <1>13, <1>14, <1>16, <1>17, <1>18, <1>19, <1>20, <1>21, <1>22

LEMMA GlobsStands ==
  ASSUME NEW W, Len(W) \in Nat, NEW i \in Nat \ {0}, NEW s \in WordSeqs, NEW x \in WordSeqs, NEW d \in WordSeqs, NEW rest \in WordSeqs,
         Holds(W, i, ((<< 8 >> \o s) \o (x \o (d \o <<End>>))) \o rest)
  PROVE  /\ i <= Len(W) /\ W[i] = 8 /\ i + 1 + Len(s) \in Nat \ {0}
         /\ Holds(W, i + 1, s)
         /\ Holds(W, i + 1 + Len(s), x \o (d \o (<<End>> \o rest)))
<1> DEFINE h == << 8 >>
           e == <<End>>
<1>1. h \in WordSeqs /\ s \in WordSeqs /\ x \in WordSeqs /\ d \in WordSeqs /\ e \in WordSeqs /\ rest \in WordSeqs
      /\ Len(h) = 1 /\ Len(s) \in Nat /\ Len(x) \in Nat /\ Len(d) \in Nat /\ Len(e) = 1 /\ Len(rest) \in Nat
  <2>1. h \in WordSeqs /\ Len(h) = 1
    BY Tuples, Numbers0, Joins
  <2>2. s \in WordSeqs /\ Len(s) \in Nat
    BY Tuples, Numbers0, Joins
  <2>3. x \in WordSeqs /\ Len(x) \in Nat
    BY Tuples, Numbers0, Joins
  <2>4. d \in WordSeqs /\ Len(d) \in Nat
    BY Tuples, Numbers0, Joins
  <2>5. e \in WordSeqs /\ Len(e) = 1
    BY Tuples, Numbers0, Joins
  <2>6. rest \in WordSeqs /\ Len(rest) \in Nat
    BY Tuples, Numbers0, Joins
  <2> QED
    BY <2>1, <2>2, <2>3, <2>4, <2>5, <2>6
<1>2. Holds(W, i, ((h \o s) \o (x \o (d \o e))) \o rest)
  OBVIOUS
<1> HIDE DEF h, e
<1>3. h \o s \in WordSeqs /\ Len(h \o s) = Len(h) + Len(s)
  BY <1>1, Joins, Zenon
<1>4. h \o s \in WordSeqs /\ Len(h \o s) = 1 + Len(s)
  BY <1>1, <1>3
<1>5. d \o e \in WordSeqs /\ Len(d \o e) = Len(d) + Len(e)
  BY <1>1, Joins, Zenon
<1>6. d \o e \in WordSeqs /\ Len(d \o e) = 1 + Len(d)
  BY <1>1, <1>5
<1>7. x \o (d \o e) \in WordSeqs /\ Len(x \o (d \o e)) = Len(x) + Len(d \o e)
  BY <1>1, <1>6, Joins, Zenon
<1>8. x \o (d \o e) \in WordSeqs /\ Len(x \o (d \o e)) = 1 + Len(x) + Len(d)
  BY <1>1, <1>6, <1>7
<1>9. (h \o s) \o (x \o (d \o e)) \in WordSeqs /\ Len((h \o s) \o (x \o (d \o e))) = Len(h \o s) + Len(x \o (d \o e))
  BY <1>1, <1>4, <1>8, Joins, Zenon
<1>10. (h \o s) \o (x \o (d \o e)) \in WordSeqs /\ Len((h \o s) \o (x \o (d \o e))) = 2 + Len(s) + Len(x) + Len(d)
  BY <1>1, <1>4, <1>8, <1>9
<1>11. Holds(W, i, (h \o s) \o (x \o (d \o e))) /\ Holds(W, i + Len((h \o s) \o (x \o (d \o e))), rest)
  BY <1>2, <1>1, <1>10, SplitsPos, Zenon
<1>12. i + Len((h \o s) \o (x \o (d \o e))) = i + 2 + Len(s) + Len(x) + Len(d) /\ i + 2 + Len(s) + Len(x) + Len(d) \in Nat \ {0}
  BY <1>1, <1>10
<1>13. Holds(W, i + 2 + Len(s) + Len(x) + Len(d), rest)
  BY <1>11, <1>12
<1>14. Holds(W, i, h \o s) /\ Holds(W, i + Len(h \o s), x \o (d \o e))
  BY <1>11, <1>1, <1>4, <1>8, SplitsPos, Zenon
<1>15. i + Len(h \o s) = i + 1 + Len(s) /\ i + 1 + Len(s) \in Nat \ {0}
  BY <1>1, <1>4
<1>16. Holds(W, i + 1 + Len(s), x \o (d \o e))
  BY <1>14, <1>15
<1>17. Holds(W, i, h) /\ Holds(W, i + Len(h), s)
  BY <1>14, <1>1, SplitsPos, Zenon
<1>18. i + Len(h) = i + 1 /\ i + 1 \in Nat \ {0}
  BY <1>1
<1>19. Holds(W, i + 1, s)
  BY <1>17, <1>18
<1>20. Holds(W, i + 1 + Len(s), x) /\ Holds(W, i + 1 + Len(s) + Len(x), d \o e)
  BY <1>15, <1>16, <1>1, <1>6, SplitsPos
<1>21. i + 1 + Len(s) + Len(x) = i + 1 + Len(s) + Len(x) /\ i + 1 + Len(s) + Len(x) \in Nat \ {0}
  BY <1>1
<1>22. Holds(W, i + 1 + Len(s) + Len(x), d \o e)
  BY <1>20, <1>21
<1>23. Holds(W, i + 1 + Len(s) + Len(x), d) /\ Holds(W, i + 1 + Len(s) + Len(x) + Len(d), e)
  BY <1>21, <1>22, <1>1, SplitsPos
<1>24. i + 1 + Len(s) + Len(x) + Len(d) = i + 1 + Len(s) + Len(x) + Len(d) /\ i + 1 + Len(s) + Len(x) + Len(d) \in Nat \ {0}
  BY <1>1
<1>25. Holds(W, i + 1 + Len(s) + Len(x) + Len(d), e)
  BY <1>23, <1>24
<1>26. Holds(W, i, << 8 >>)
  BY <1>17 DEF h
<1>27. i <= Len(W) /\ W[i] = 8
  BY <1>26, Takes1
<1>28. i + 1 + Len(s) + Len(x) + Len(d) + Len(e) = i + 2 + Len(s) + Len(x) + Len(d)
  BY <1>1
<1>29. Holds(W, i + 1 + Len(s) + Len(x) + Len(d) + Len(e), rest)
  BY <1>28, <1>12, <1>13
<1>30. e \o rest \in WordSeqs
  BY <1>1, Joins
<1>31. Holds(W, i + 1 + Len(s) + Len(x) + Len(d), e \o rest)
  BY <1>29, <1>24, <1>25, <1>1, Splits, Zenon
<1>32. i + 1 + Len(s) + Len(x) + Len(d) = i + 1 + Len(s) + Len(x) + Len(d)
  BY <1>1
<1>33. Holds(W, i + 1 + Len(s) + Len(x) + Len(d), e \o rest)
  BY <1>32, <1>24, <1>31
<1>34. d \o (e \o rest) \in WordSeqs
  BY <1>1, <1>30, Joins
<1>35. Holds(W, i + 1 + Len(s) + Len(x), d \o (e \o rest))
  BY <1>33, <1>21, <1>23, <1>1, <1>30, Splits
<1>36. i + 1 + Len(s) + Len(x) = i + 1 + Len(s) + Len(x)
  BY <1>1
<1>37. Holds(W, i + 1 + Len(s) + Len(x), d \o (e \o rest))
  BY <1>36, <1>21, <1>35
<1>38. x \o (d \o (e \o rest)) \in WordSeqs
  BY <1>1, <1>30, <1>34, Joins
<1>39. Holds(W, i + 1 + Len(s), x \o (d \o (e \o rest)))
  BY <1>37, <1>15, <1>20, <1>1, <1>30, <1>34, Splits
<1> QED
  BY <1>1, <1>12, <1>13, <1>15, <1>17, <1>18, <1>19, <1>20, <1>21, <1>23, <1>24, <1>25, <1>27, <1>39 DEF h, e

LEMMA ModinfoStands ==
  ASSUME NEW W, Len(W) \in Nat, NEW i \in Nat \ {0}, NEW f \in WordSeqs, NEW rest \in WordSeqs,
         Holds(W, i, (<<9, 0, 0>> \o (f \o << 0 >>)) \o rest)
  PROVE  i <= Len(W) /\ W[i] = 9 /\ i + 3 \in Nat \ {0} /\ Holds(W, i + 3, f \o (<< 0 >> \o rest))
<1> DEFINE h == <<9, 0, 0>>
           z == << 0 >>
<1>1. h \in WordSeqs /\ f \in WordSeqs /\ z \in WordSeqs /\ rest \in WordSeqs
      /\ Len(h) = 3 /\ Len(f) \in Nat /\ Len(z) = 1 /\ Len(rest) \in Nat
  <2>1. h \in WordSeqs /\ Len(h) = 3
    BY Tuples
  <2>2. f \in WordSeqs /\ Len(f) \in Nat
    BY Tuples, Joins
  <2>3. z \in WordSeqs /\ Len(z) = 1
    BY Tuples, Joins
  <2>4. rest \in WordSeqs /\ Len(rest) \in Nat
    BY Tuples, Joins
  <2> QED
    BY <2>1, <2>2, <2>3, <2>4
<1>2. Holds(W, i, (h \o (f \o z)) \o rest)
  OBVIOUS
<1> HIDE DEF h, z
<1>3. f \o z \in WordSeqs /\ Len(f \o z) = Len(f) + Len(z)
  BY <1>1, Joins, Zenon
<1>4. f \o z \in WordSeqs /\ Len(f \o z) = 1 + Len(f)
  BY <1>1, <1>3
<1>5. h \o (f \o z) \in WordSeqs /\ Len(h \o (f \o z)) = Len(h) + Len(f \o z)
  BY <1>1, <1>4, Joins, Zenon
<1>6. h \o (f \o z) \in WordSeqs /\ Len(h \o (f \o z)) = 4 + Len(f)
  BY <1>1, <1>4, <1>5
<1>7. Holds(W, i, h \o (f \o z)) /\ Holds(W, i + Len(h \o (f \o z)), rest)
  BY <1>2, <1>1, <1>6, SplitsPos, Zenon
<1>8. i + Len(h \o (f \o z)) = i + 4 + Len(f) /\ i + 4 + Len(f) \in Nat \ {0}
  BY <1>1, <1>6
<1>9. Holds(W, i + 4 + Len(f), rest)
  BY <1>7, <1>8
<1>10. Holds(W, i, h) /\ Holds(W, i + Len(h), f \o z)
  BY <1>7, <1>1, <1>4, SplitsPos, Zenon
<1>11. i + Len(h) = i + 3 /\ i + 3 \in Nat \ {0}
  BY <1>1
<1>12. Holds(W, i + 3, f \o z)
  BY <1>10, <1>11
<1>13. Holds(W, i + 3, f) /\ Holds(W, i + 3 + Len(f), z)
  BY <1>11, <1>12, <1>1, SplitsPos
<1>14. i + 3 + Len(f) = i + 3 + Len(f) /\ i + 3 + Len(f) \in Nat \ {0}
  BY <1>1
<1>15. Holds(W, i + 3 + Len(f), z)
  BY <1>13, <1>14
<1>16. Holds(W, i, <<9, 0, 0>>)
  BY <1>10 DEF h
<1>17. W[i] = 9 /\ i <= Len(W)
  BY <1>16, Takes3
<1>18. i + 3 + Len(f) + Len(z) = i + 4 + Len(f)
  BY <1>1
<1>19. Holds(W, i + 3 + Len(f) + Len(z), rest)
  BY <1>18, <1>8, <1>9
<1>20. z \o rest \in WordSeqs
  BY <1>1, Joins
<1>21. Holds(W, i + 3 + Len(f), z \o rest)
  BY <1>19, <1>14, <1>15, <1>1, Splits, Zenon
<1>22. i + 3 + Len(f) = i + 3 + Len(f)
  BY <1>1
<1>23. Holds(W, i + 3 + Len(f), z \o rest)
  BY <1>22, <1>14, <1>21
<1>24. f \o (z \o rest) \in WordSeqs
  BY <1>1, <1>20, Joins
<1>25. Holds(W, i + 3, f \o (z \o rest))
  BY <1>23, <1>11, <1>13, <1>1, <1>20, Splits
<1> QED
  BY <1>1, <1>8, <1>9, <1>10, <1>11, <1>13, <1>14, <1>15, <1>17, <1>25 DEF h, z

LEMMA BodyStands ==
  ASSUME NEW W, Len(W) \in Nat, NEW i \in Nat \ {0}, NEW name \in Name, NEW f \in WordSeqs, NEW size \in Nat, NEW c \in WordSeqs, NEW rest \in WordSeqs,
         Holds(W, i, ((<<Bytes(name), End, 0>> \o name) \o ((f \o <<0, size>>) \o c)) \o rest)
  PROVE  /\ i <= Len(W) /\ W[i] = Bytes(name) /\ Holds(W, i + 3, name) /\ i + 3 + Len(name) \in Nat \ {0}
         /\ Holds(W, i + 3 + Len(name), f \o (<<0, size>> \o (c \o rest)))
<1> DEFINE h == <<Bytes(name), End, 0>>
           z == <<0, size>>
<1>1. h \in WordSeqs /\ name \in WordSeqs /\ f \in WordSeqs /\ z \in WordSeqs /\ c \in WordSeqs /\ rest \in WordSeqs
      /\ Len(h) = 3 /\ Len(name) \in Nat /\ Len(f) \in Nat /\ Len(z) = 2 /\ Len(c) \in Nat /\ Len(rest) \in Nat /\ Bytes(name) \in Nat /\ End \in Nat
  <2>1. Bytes(name) \in Nat
    BY NameSays, Tuples, Numbers0, Joins
  <2>2. End \in Nat
    BY NameSays, Tuples, Numbers0, Joins
  <2>3. h \in WordSeqs /\ Len(h) = 3
    BY <2>1, <2>2, NameSays, Tuples, Numbers0, Joins, Zenon
  <2>4. name \in WordSeqs /\ Len(name) \in Nat
    BY <2>1, <2>2, NameSays, Tuples, Numbers0, Joins
  <2>5. f \in WordSeqs /\ Len(f) \in Nat
    BY <2>1, <2>2, NameSays, Tuples, Numbers0, Joins
  <2>6. z \in WordSeqs /\ Len(z) = 2
    BY <2>1, <2>2, NameSays, Tuples, Numbers0, Joins
  <2>7. c \in WordSeqs /\ Len(c) \in Nat
    BY <2>1, <2>2, NameSays, Tuples, Numbers0, Joins
  <2>8. rest \in WordSeqs /\ Len(rest) \in Nat
    BY <2>1, <2>2, NameSays, Tuples, Numbers0, Joins
  <2> QED
    BY <2>1, <2>2, <2>3, <2>4, <2>5, <2>6, <2>7, <2>8
<1>2. Holds(W, i, ((h \o name) \o ((f \o z) \o c)) \o rest)
  OBVIOUS
<1> HIDE DEF h, z
<1>3. h \o name \in WordSeqs /\ Len(h \o name) = Len(h) + Len(name)
  BY <1>1, Joins, Zenon
<1>4. h \o name \in WordSeqs /\ Len(h \o name) = 3 + Len(name)
  BY <1>1, <1>3
<1>5. f \o z \in WordSeqs /\ Len(f \o z) = Len(f) + Len(z)
  BY <1>1, Joins, Zenon
<1>6. f \o z \in WordSeqs /\ Len(f \o z) = 2 + Len(f)
  BY <1>1, <1>5
<1>7. (f \o z) \o c \in WordSeqs /\ Len((f \o z) \o c) = Len(f \o z) + Len(c)
  BY <1>1, <1>6, Joins, Zenon
<1>8. (f \o z) \o c \in WordSeqs /\ Len((f \o z) \o c) = 2 + Len(f) + Len(c)
  BY <1>1, <1>6, <1>7
<1>9. (h \o name) \o ((f \o z) \o c) \in WordSeqs /\ Len((h \o name) \o ((f \o z) \o c)) = Len(h \o name) + Len((f \o z) \o c)
  BY <1>1, <1>4, <1>8, Joins, Zenon
<1>10. (h \o name) \o ((f \o z) \o c) \in WordSeqs /\ Len((h \o name) \o ((f \o z) \o c)) = 5 + Len(name) + Len(f) + Len(c)
  BY <1>1, <1>4, <1>8, <1>9
<1>11. Holds(W, i, (h \o name) \o ((f \o z) \o c)) /\ Holds(W, i + Len((h \o name) \o ((f \o z) \o c)), rest)
  BY <1>2, <1>1, <1>10, SplitsPos, Zenon
<1>12. i + Len((h \o name) \o ((f \o z) \o c)) = i + 5 + Len(name) + Len(f) + Len(c) /\ i + 5 + Len(name) + Len(f) + Len(c) \in Nat \ {0}
  BY <1>1, <1>10
<1>13. Holds(W, i + 5 + Len(name) + Len(f) + Len(c), rest)
  BY <1>11, <1>12
<1>14. Holds(W, i, h \o name) /\ Holds(W, i + Len(h \o name), (f \o z) \o c)
  BY <1>11, <1>1, <1>4, <1>8, SplitsPos, Zenon
<1>15. i + Len(h \o name) = i + 3 + Len(name) /\ i + 3 + Len(name) \in Nat \ {0}
  BY <1>1, <1>4
<1>16. Holds(W, i + 3 + Len(name), (f \o z) \o c)
  BY <1>14, <1>15
<1>17. Holds(W, i, h) /\ Holds(W, i + Len(h), name)
  BY <1>14, <1>1, SplitsPos, Zenon
<1>18. i + Len(h) = i + 3 /\ i + 3 \in Nat \ {0}
  BY <1>1
<1>19. Holds(W, i + 3, name)
  BY <1>17, <1>18
<1>20. Holds(W, i + 3 + Len(name), f \o z) /\ Holds(W, i + 3 + Len(name) + Len(f \o z), c)
  BY <1>15, <1>16, <1>1, <1>6, SplitsPos, Zenon
<1>21. i + 3 + Len(name) + Len(f \o z) = i + 5 + Len(name) + Len(f) /\ i + 5 + Len(name) + Len(f) \in Nat \ {0}
  BY <1>1, <1>6
<1>22. Holds(W, i + 5 + Len(name) + Len(f), c)
  BY <1>20, <1>21
<1>23. Holds(W, i + 3 + Len(name), f) /\ Holds(W, i + 3 + Len(name) + Len(f), z)
  BY <1>15, <1>20, <1>1, SplitsPos, Zenon
<1>24. i + 3 + Len(name) + Len(f) = i + 3 + Len(name) + Len(f) /\ i + 3 + Len(name) + Len(f) \in Nat \ {0}
  BY <1>1
<1>25. Holds(W, i + 3 + Len(name) + Len(f), z)
  BY <1>23, <1>24
<1>26. Bytes(name) \in Nat
  BY <1>1
<1>27. End \in Nat
  BY <1>1
<1>28. Holds(W, i, <<Bytes(name), End, 0>>)
  BY <1>17 DEF h
<1>29. i <= Len(W) /\ W[i] = Bytes(name)
  BY <1>28, <1>26, <1>27, Takes3
<1>30. i + 5 + Len(name) + Len(f) + Len(c) = i + 5 + Len(name) + Len(f) + Len(c)
  BY <1>1
<1>31. Holds(W, i + 5 + Len(name) + Len(f) + Len(c), rest)
  BY <1>30, <1>12, <1>13
<1>32. c \o rest \in WordSeqs
  BY <1>1, Joins
<1>33. Holds(W, i + 5 + Len(name) + Len(f), c \o rest)
  BY <1>31, <1>21, <1>22, <1>1, Splits
<1>34. i + 3 + Len(name) + Len(f) + Len(z) = i + 5 + Len(name) + Len(f)
  BY <1>1
<1>35. Holds(W, i + 3 + Len(name) + Len(f) + Len(z), c \o rest)
  BY <1>34, <1>21, <1>33
<1>36. z \o (c \o rest) \in WordSeqs
  BY <1>1, <1>32, Joins
<1>37. Holds(W, i + 3 + Len(name) + Len(f), z \o (c \o rest))
  BY <1>35, <1>24, <1>25, <1>1, <1>32, Splits, Zenon
<1>38. i + 3 + Len(name) + Len(f) = i + 3 + Len(name) + Len(f)
  BY <1>1
<1>39. Holds(W, i + 3 + Len(name) + Len(f), z \o (c \o rest))
  BY <1>38, <1>24, <1>37
<1>40. f \o (z \o (c \o rest)) \in WordSeqs
  BY <1>1, <1>32, <1>36, Joins
<1>41. Holds(W, i + 3 + Len(name), f \o (z \o (c \o rest)))
  BY <1>39, <1>15, <1>23, <1>1, <1>32, <1>36, Splits, Zenon
<1> QED
  BY <1>1, <1>12, <1>13, <1>15, <1>17, <1>18, <1>19, <1>21, <1>22, <1>23, <1>24, <1>25, <1>29, <1>41 DEF h, z

LEMMA ClassStands ==
  ASSUME NEW W, Len(W) \in Nat, NEW i \in Nat \ {0}, NEW count \in Nat, NEW delcode \in Nat, NEW odeloff \in Nat,
         NEW m \in WordSeqs, NEW a \in WordSeqs, NEW rest \in WordSeqs,
         Holds(W, i, (((<<count>> \o Long(delcode)) \o <<0, odeloff, 0>>) \o ((m \o <<End>>) \o (a \o <<End>>))) \o rest)
  PROVE  /\ i <= Len(W) /\ W[i] = count /\ Holds(W, i + 1, Long(delcode)) /\ i + 3 + 2 <= Len(W) /\ W[i + 3 + 1] = odeloff
         /\ i + 6 \in Nat \ {0} /\ Holds(W, i + 6, m \o (<<End>> \o (a \o (<<End>> \o rest))))
<1> DEFINE h == <<count>>
           v == Long(delcode)
           t == <<0, odeloff, 0>>
           e == <<End>>
           z == <<End>>
<1>1. h \in WordSeqs /\ v \in WordSeqs /\ t \in WordSeqs /\ m \in WordSeqs /\ e \in WordSeqs /\ a \in WordSeqs /\ z \in WordSeqs /\ rest \in WordSeqs
      /\ Len(h) = 1 /\ Len(v) = 2 /\ Len(t) = 3 /\ Len(m) \in Nat /\ Len(e) = 1 /\ Len(a) \in Nat /\ Len(z) = 1 /\ Len(rest) \in Nat /\ count \in Nat /\ odeloff \in Nat
  <2>1. count \in Nat
    BY LongSays, Tuples, Numbers0, Joins
  <2>2. odeloff \in Nat
    BY LongSays, Tuples, Numbers0, Joins
  <2>3. h \in WordSeqs /\ Len(h) = 1
    BY Tuples
  <2>4. v \in WordSeqs /\ Len(v) = 2
    BY <2>1, <2>2, LongSays, Tuples, Numbers0, Joins
  <2>5. t \in WordSeqs /\ Len(t) = 3
    BY Tuples
  <2>6. m \in WordSeqs /\ Len(m) \in Nat
    BY <2>1, <2>2, LongSays, Tuples, Numbers0, Joins
  <2>7. e \in WordSeqs /\ Len(e) = 1
    BY <2>1, <2>2, LongSays, Tuples, Numbers0, Joins
  <2>8. a \in WordSeqs /\ Len(a) \in Nat
    BY <2>1, <2>2, LongSays, Tuples, Numbers0, Joins
  <2>9. z \in WordSeqs /\ Len(z) = 1
    BY <2>1, <2>2, LongSays, Tuples, Numbers0, Joins
  <2>10. rest \in WordSeqs /\ Len(rest) \in Nat
    BY <2>1, <2>2, LongSays, Tuples, Numbers0, Joins
  <2> QED
    BY <2>1, <2>2, <2>3, <2>4, <2>5, <2>6, <2>7, <2>8, <2>9, <2>10
<1>2. Holds(W, i, (((h \o v) \o t) \o ((m \o e) \o (a \o z))) \o rest)
  OBVIOUS
<1> HIDE DEF h, v, t, e, z
<1>3. h \o v \in WordSeqs /\ Len(h \o v) = Len(h) + Len(v)
  BY <1>1, Joins, Zenon
<1>4. h \o v \in WordSeqs /\ Len(h \o v) = 3
  BY <1>1, <1>3
<1>5. (h \o v) \o t \in WordSeqs /\ Len((h \o v) \o t) = Len(h \o v) + Len(t)
  BY <1>1, <1>4, Joins, Zenon
<1>6. (h \o v) \o t \in WordSeqs /\ Len((h \o v) \o t) = 6
  BY <1>1, <1>4, <1>5
<1>7. m \o e \in WordSeqs /\ Len(m \o e) = Len(m) + Len(e)
  BY <1>1, Joins, Zenon
<1>8. m \o e \in WordSeqs /\ Len(m \o e) = 1 + Len(m)
  BY <1>1, <1>7
<1>9. a \o z \in WordSeqs /\ Len(a \o z) = Len(a) + Len(z)
  BY <1>1, Joins, Zenon
<1>10. a \o z \in WordSeqs /\ Len(a \o z) = 1 + Len(a)
  BY <1>1, <1>9
<1>11. (m \o e) \o (a \o z) \in WordSeqs /\ Len((m \o e) \o (a \o z)) = Len(m \o e) + Len(a \o z)
  BY <1>1, <1>8, <1>10, Joins, Zenon
<1>12. (m \o e) \o (a \o z) \in WordSeqs /\ Len((m \o e) \o (a \o z)) = 2 + Len(m) + Len(a)
  BY <1>1, <1>8, <1>10, <1>11
<1>13. ((h \o v) \o t) \o ((m \o e) \o (a \o z)) \in WordSeqs /\ Len(((h \o v) \o t) \o ((m \o e) \o (a \o z))) = Len((h \o v) \o t) + Len((m \o e) \o (a \o z))
  BY <1>1, <1>6, <1>12, Joins, Zenon
<1>14. ((h \o v) \o t) \o ((m \o e) \o (a \o z)) \in WordSeqs /\ Len(((h \o v) \o t) \o ((m \o e) \o (a \o z))) = 8 + Len(m) + Len(a)
  BY <1>1, <1>6, <1>12, <1>13
<1>15. Holds(W, i, ((h \o v) \o t) \o ((m \o e) \o (a \o z))) /\ Holds(W, i + Len(((h \o v) \o t) \o ((m \o e) \o (a \o z))), rest)
  BY <1>2, <1>1, <1>14, SplitsPos, Zenon
<1>16. i + Len(((h \o v) \o t) \o ((m \o e) \o (a \o z))) = i + 8 + Len(m) + Len(a) /\ i + 8 + Len(m) + Len(a) \in Nat \ {0}
  BY <1>1, <1>14
<1>17. Holds(W, i + 8 + Len(m) + Len(a), rest)
  BY <1>15, <1>16
<1>18. Holds(W, i, (h \o v) \o t) /\ Holds(W, i + Len((h \o v) \o t), (m \o e) \o (a \o z))
  BY <1>15, <1>1, <1>6, <1>12, SplitsPos, Zenon
<1>19. i + Len((h \o v) \o t) = i + 6 /\ i + 6 \in Nat \ {0}
  BY <1>1, <1>6
<1>20. Holds(W, i + 6, (m \o e) \o (a \o z))
  BY <1>18, <1>19
<1>21. Holds(W, i, h \o v) /\ Holds(W, i + Len(h \o v), t)
  BY <1>18, <1>1, <1>4, SplitsPos, Zenon
<1>22. i + Len(h \o v) = i + 3 /\ i + 3 \in Nat \ {0}
  BY <1>1, <1>4
<1>23. Holds(W, i + 3, t)
  BY <1>21, <1>22
<1>24. Holds(W, i, h) /\ Holds(W, i + Len(h), v)
  BY <1>21, <1>1, SplitsPos, Zenon
<1>25. i + Len(h) = i + 1 /\ i + 1 \in Nat \ {0}
  BY <1>1
<1>26. Holds(W, i + 1, v)
  BY <1>24, <1>25
<1>27. Holds(W, i + 6, m \o e) /\ Holds(W, i + 6 + Len(m \o e), a \o z)
  BY <1>19, <1>20, <1>1, <1>8, <1>10, SplitsPos, Zenon
<1>28. i + 6 + Len(m \o e) = i + 7 + Len(m) /\ i + 7 + Len(m) \in Nat \ {0}
  BY <1>1, <1>8
<1>29. Holds(W, i + 7 + Len(m), a \o z)
  BY <1>27, <1>28
<1>30. Holds(W, i + 6, m) /\ Holds(W, i + 6 + Len(m), e)
  BY <1>19, <1>27, <1>1, SplitsPos, Zenon
<1>31. i + 6 + Len(m) = i + 6 + Len(m) /\ i + 6 + Len(m) \in Nat \ {0}
  BY <1>1
<1>32. Holds(W, i + 6 + Len(m), e)
  BY <1>30, <1>31
<1>33. Holds(W, i + 7 + Len(m), a) /\ Holds(W, i + 7 + Len(m) + Len(a), z)
  BY <1>28, <1>29, <1>1, SplitsPos
<1>34. i + 7 + Len(m) + Len(a) = i + 7 + Len(m) + Len(a) /\ i + 7 + Len(m) + Len(a) \in Nat \ {0}
  BY <1>1
<1>35. Holds(W, i + 7 + Len(m) + Len(a), z)
  BY <1>33, <1>34
<1>36. count \in Nat
  BY <1>1
<1>37. odeloff \in Nat
  BY <1>1
<1>38. Holds(W, i, <<count>>)
  BY <1>24 DEF h
<1>39. i <= Len(W) /\ W[i] = count
  BY <1>38, <1>36, <1>37, Takes1
<1>40. Holds(W, i + 3, <<0, odeloff, 0>>)
  BY <1>22, <1>23 DEF t
<1>41. i + 3 + 2 <= Len(W) /\ W[i + 3 + 1] = odeloff
  BY <1>40, <1>22, <1>36, <1>37, Takes3, Zenon
<1>42. i + 7 + Len(m) + Len(a) + Len(z) = i + 8 + Len(m) + Len(a)
  BY <1>1
<1>43. Holds(W, i + 7 + Len(m) + Len(a) + Len(z), rest)
  BY <1>42, <1>16, <1>17
<1>44. z \o rest \in WordSeqs
  BY <1>1, Joins
<1>45. Holds(W, i + 7 + Len(m) + Len(a), z \o rest)
  BY <1>43, <1>34, <1>35, <1>1, Splits, Zenon
<1>46. i + 7 + Len(m) + Len(a) = i + 7 + Len(m) + Len(a)
  BY <1>1
<1>47. Holds(W, i + 7 + Len(m) + Len(a), z \o rest)
  BY <1>46, <1>34, <1>45
<1>48. a \o (z \o rest) \in WordSeqs
  BY <1>1, <1>44, Joins
<1>49. Holds(W, i + 7 + Len(m), a \o (z \o rest))
  BY <1>47, <1>28, <1>33, <1>1, <1>44, Splits
<1>50. i + 6 + Len(m) + Len(e) = i + 7 + Len(m)
  BY <1>1
<1>51. Holds(W, i + 6 + Len(m) + Len(e), a \o (z \o rest))
  BY <1>50, <1>28, <1>49
<1>52. e \o (a \o (z \o rest)) \in WordSeqs
  BY <1>1, <1>44, <1>48, Joins
<1>53. Holds(W, i + 6 + Len(m), e \o (a \o (z \o rest)))
  BY <1>51, <1>31, <1>32, <1>1, <1>44, <1>48, Splits, Zenon
<1>54. i + 6 + Len(m) = i + 6 + Len(m)
  BY <1>1
<1>55. Holds(W, i + 6 + Len(m), e \o (a \o (z \o rest)))
  BY <1>54, <1>31, <1>53
<1>56. m \o (e \o (a \o (z \o rest))) \in WordSeqs
  BY <1>1, <1>44, <1>48, <1>52, Joins
<1>57. Holds(W, i + 6, m \o (e \o (a \o (z \o rest))))
  BY <1>55, <1>19, <1>30, <1>1, <1>44, <1>48, <1>52, Splits, Zenon
<1> QED
  BY <1>1, <1>16, <1>17, <1>19, <1>22, <1>23, <1>24, <1>25, <1>26, <1>28, <1>30, <1>31, <1>32, <1>33, <1>34, <1>35, <1>39, <1>41, <1>57 DEF h, v, t, e, z

LEMMA PairStands ==
  ASSUME NEW W, Len(W) \in Nat, NEW i \in Nat \ {0}, NEW a \in Nat, NEW b \in Nat, NEW rest \in WordSeqs,
         Holds(W, i, <<a, b>> \o rest)
  PROVE  i + 1 <= Len(W) /\ W[i] = a /\ W[i + 1] = b /\ i + 2 \in Nat \ {0} /\ Holds(W, i + 2, rest)
<1> DEFINE h == <<a, b>>
<1>1. h \in WordSeqs /\ rest \in WordSeqs
      /\ Len(h) = 2 /\ Len(rest) \in Nat /\ a \in Nat /\ b \in Nat
  <2>1. a \in Nat
    BY Tuples, Joins
  <2>2. b \in Nat
    BY Tuples, Joins
  <2>3. h \in WordSeqs /\ Len(h) = 2
    BY <2>1, <2>2, Tuples, Joins
  <2>4. rest \in WordSeqs /\ Len(rest) \in Nat
    BY <2>1, <2>2, Tuples, Joins
  <2> QED
    BY <2>1, <2>2, <2>3, <2>4
<1>2. Holds(W, i, h \o rest)
  OBVIOUS
<1> HIDE DEF h
<1>3. Holds(W, i, h) /\ Holds(W, i + Len(h), rest)
  BY <1>2, <1>1, SplitsPos, Zenon
<1>4. i + Len(h) = i + 2 /\ i + 2 \in Nat \ {0}
  BY <1>1
<1>5. Holds(W, i + 2, rest)
  BY <1>3, <1>4
<1>6. a \in Nat
  BY <1>1
<1>7. b \in Nat
  BY <1>1
<1>8. Holds(W, i, <<a, b>>)
  BY <1>3 DEF h
<1>9. i + 1 <= Len(W) /\ W[i] = a /\ W[i + 1] = b
  BY <1>8, <1>6, <1>7, Takes2, Zenon
<1> QED
  BY <1>1, <1>3, <1>4, <1>5, <1>9 DEF h

LEMMA LibStands ==
  ASSUME NEW W, Len(W) \in Nat, NEW i \in Nat \ {0}, NEW name \in WordSeqs, NEW base \in WordSeqs, NEW f \in WordSeqs, NEW rest \in WordSeqs,
         Holds(W, i, (((((<< 6 >> \o name) \o << 0 >>) \o base) \o << 0 >>) \o (f \o << 255 >>)) \o rest)
  PROVE  /\ i <= Len(W) /\ W[i] = 6 /\ Holds(W, i + 1, name) /\ i + 1 + Len(name) \in Nat \ {0}
         /\ i + 1 + Len(name) <= Len(W) /\ W[i + 1 + Len(name)] = 0
         /\ i + 2 + Len(name) \in Nat \ {0} /\ Holds(W, i + 2 + Len(name), base)
         /\ i + 2 + Len(name) + Len(base) \in Nat \ {0}
         /\ i + 2 + Len(name) + Len(base) <= Len(W) /\ W[i + 2 + Len(name) + Len(base)] = 0
         /\ i + 3 + Len(name) + Len(base) \in Nat \ {0}
         /\ Holds(W, i + 3 + Len(name) + Len(base), f \o (<< 255 >> \o rest))
<1> DEFINE h == << 6 >>
           z == << 0 >>
           t == << 0 >>
           e == << 255 >>
<1>1. h \in WordSeqs /\ name \in WordSeqs /\ z \in WordSeqs /\ base \in WordSeqs /\ t \in WordSeqs /\ f \in WordSeqs /\ e \in WordSeqs /\ rest \in WordSeqs
      /\ Len(h) = 1 /\ Len(name) \in Nat /\ Len(z) = 1 /\ Len(base) \in Nat /\ Len(t) = 1 /\ Len(f) \in Nat /\ Len(e) = 1 /\ Len(rest) \in Nat
  <2>1. h \in WordSeqs /\ Len(h) = 1
    BY Tuples, Joins
  <2>2. name \in WordSeqs /\ Len(name) \in Nat
    BY Tuples, Joins
  <2>3. z \in WordSeqs /\ Len(z) = 1
    BY Tuples, Joins
  <2>4. base \in WordSeqs /\ Len(base) \in Nat
    BY Tuples, Joins
  <2>5. t \in WordSeqs /\ Len(t) = 1
    BY Tuples, Joins
  <2>6. f \in WordSeqs /\ Len(f) \in Nat
    BY Tuples, Joins
  <2>7. e \in WordSeqs /\ Len(e) = 1
    BY Tuples, Joins
  <2>8. rest \in WordSeqs /\ Len(rest) \in Nat
    BY Tuples, Joins
  <2> QED
    BY <2>1, <2>2, <2>3, <2>4, <2>5, <2>6, <2>7, <2>8
<1>2. Holds(W, i, (((((h \o name) \o z) \o base) \o t) \o (f \o e)) \o rest)
  OBVIOUS
<1> HIDE DEF h, z, t, e
<1>3. h \o name \in WordSeqs /\ Len(h \o name) = Len(h) + Len(name)
  BY <1>1, Joins, Zenon
<1>4. h \o name \in WordSeqs /\ Len(h \o name) = 1 + Len(name)
  BY <1>1, <1>3
<1>5. (h \o name) \o z \in WordSeqs /\ Len((h \o name) \o z) = Len(h \o name) + Len(z)
  BY <1>1, <1>4, Joins, Zenon
<1>6. (h \o name) \o z \in WordSeqs /\ Len((h \o name) \o z) = 2 + Len(name)
  BY <1>1, <1>4, <1>5
<1>7. ((h \o name) \o z) \o base \in WordSeqs /\ Len(((h \o name) \o z) \o base) = Len((h \o name) \o z) + Len(base)
  BY <1>1, <1>6, Joins, Zenon
<1>8. ((h \o name) \o z) \o base \in WordSeqs /\ Len(((h \o name) \o z) \o base) = 2 + Len(name) + Len(base)
  BY <1>1, <1>6, <1>7
<1>9. (((h \o name) \o z) \o base) \o t \in WordSeqs /\ Len((((h \o name) \o z) \o base) \o t) = Len(((h \o name) \o z) \o base) + Len(t)
  BY <1>1, <1>8, Joins, Zenon
<1>10. (((h \o name) \o z) \o base) \o t \in WordSeqs /\ Len((((h \o name) \o z) \o base) \o t) = 3 + Len(name) + Len(base)
  BY <1>1, <1>8, <1>9
<1>11. f \o e \in WordSeqs /\ Len(f \o e) = Len(f) + Len(e)
  BY <1>1, Joins, Zenon
<1>12. f \o e \in WordSeqs /\ Len(f \o e) = 1 + Len(f)
  BY <1>1, <1>11
<1>13. ((((h \o name) \o z) \o base) \o t) \o (f \o e) \in WordSeqs /\ Len(((((h \o name) \o z) \o base) \o t) \o (f \o e)) = Len((((h \o name) \o z) \o base) \o t) + Len(f \o e)
  BY <1>1, <1>10, <1>12, Joins, Zenon
<1>14. ((((h \o name) \o z) \o base) \o t) \o (f \o e) \in WordSeqs /\ Len(((((h \o name) \o z) \o base) \o t) \o (f \o e)) = 4 + Len(name) + Len(base) + Len(f)
  BY <1>1, <1>10, <1>12, <1>13
<1>15. Holds(W, i, ((((h \o name) \o z) \o base) \o t) \o (f \o e)) /\ Holds(W, i + Len(((((h \o name) \o z) \o base) \o t) \o (f \o e)), rest)
  BY <1>2, <1>1, <1>14, SplitsPos, Zenon
<1>16. i + Len(((((h \o name) \o z) \o base) \o t) \o (f \o e)) = i + 4 + Len(name) + Len(base) + Len(f) /\ i + 4 + Len(name) + Len(base) + Len(f) \in Nat \ {0}
  BY <1>1, <1>14
<1>17. Holds(W, i + 4 + Len(name) + Len(base) + Len(f), rest)
  BY <1>15, <1>16
<1>18. Holds(W, i, (((h \o name) \o z) \o base) \o t) /\ Holds(W, i + Len((((h \o name) \o z) \o base) \o t), f \o e)
  BY <1>15, <1>1, <1>10, <1>12, SplitsPos, Zenon
<1>19. i + Len((((h \o name) \o z) \o base) \o t) = i + 3 + Len(name) + Len(base) /\ i + 3 + Len(name) + Len(base) \in Nat \ {0}
  BY <1>1, <1>10
<1>20. Holds(W, i + 3 + Len(name) + Len(base), f \o e)
  BY <1>18, <1>19
<1>21. Holds(W, i, ((h \o name) \o z) \o base) /\ Holds(W, i + Len(((h \o name) \o z) \o base), t)
  BY <1>18, <1>1, <1>8, SplitsPos, Zenon
<1>22. i + Len(((h \o name) \o z) \o base) = i + 2 + Len(name) + Len(base) /\ i + 2 + Len(name) + Len(base) \in Nat \ {0}
  BY <1>1, <1>8
<1>23. Holds(W, i + 2 + Len(name) + Len(base), t)
  BY <1>21, <1>22
<1>24. Holds(W, i, (h \o name) \o z) /\ Holds(W, i + Len((h \o name) \o z), base)
  BY <1>21, <1>1, <1>6, SplitsPos, Zenon
<1>25. i + Len((h \o name) \o z) = i + 2 + Len(name) /\ i + 2 + Len(name) \in Nat \ {0}
  BY <1>1, <1>6
<1>26. Holds(W, i + 2 + Len(name), base)
  BY <1>24, <1>25
<1>27. Holds(W, i, h \o name) /\ Holds(W, i + Len(h \o name), z)
  BY <1>24, <1>1, <1>4, SplitsPos, Zenon
<1>28. i + Len(h \o name) = i + 1 + Len(name) /\ i + 1 + Len(name) \in Nat \ {0}
  BY <1>1, <1>4
<1>29. Holds(W, i + 1 + Len(name), z)
  BY <1>27, <1>28
<1>30. Holds(W, i, h) /\ Holds(W, i + Len(h), name)
  BY <1>27, <1>1, SplitsPos, Zenon
<1>31. i + Len(h) = i + 1 /\ i + 1 \in Nat \ {0}
  BY <1>1
<1>32. Holds(W, i + 1, name)
  BY <1>30, <1>31
<1>33. Holds(W, i + 3 + Len(name) + Len(base), f) /\ Holds(W, i + 3 + Len(name) + Len(base) + Len(f), e)
  BY <1>19, <1>20, <1>1, SplitsPos
<1>34. i + 3 + Len(name) + Len(base) + Len(f) = i + 3 + Len(name) + Len(base) + Len(f) /\ i + 3 + Len(name) + Len(base) + Len(f) \in Nat \ {0}
  BY <1>1
<1>35. Holds(W, i + 3 + Len(name) + Len(base) + Len(f), e)
  BY <1>33, <1>34
<1>36. Holds(W, i, << 6 >>)
  BY <1>30 DEF h
<1>37. i <= Len(W) /\ W[i] = 6
  BY <1>36, Takes1
<1>38. Holds(W, i + 1 + Len(name), << 0 >>)
  BY <1>28, <1>29 DEF z
<1>39. i + 1 + Len(name) <= Len(W) /\ W[i + 1 + Len(name)] = 0
  BY <1>38, <1>28, Takes1
<1>40. Holds(W, i + 2 + Len(name) + Len(base), << 0 >>)
  BY <1>22, <1>23 DEF t
<1>41. i + 2 + Len(name) + Len(base) <= Len(W) /\ W[i + 2 + Len(name) + Len(base)] = 0
  BY <1>40, <1>22, Takes1
<1>42. i + 3 + Len(name) + Len(base) + Len(f) + Len(e) = i + 4 + Len(name) + Len(base) + Len(f)
  BY <1>1
<1>43. Holds(W, i + 3 + Len(name) + Len(base) + Len(f) + Len(e), rest)
  BY <1>42, <1>16, <1>17
<1>44. e \o rest \in WordSeqs
  BY <1>1, Joins
<1>45. Holds(W, i + 3 + Len(name) + Len(base) + Len(f), e \o rest)
  BY <1>43, <1>34, <1>35, <1>1, Splits, Zenon
<1>46. i + 3 + Len(name) + Len(base) + Len(f) = i + 3 + Len(name) + Len(base) + Len(f)
  BY <1>1
<1>47. Holds(W, i + 3 + Len(name) + Len(base) + Len(f), e \o rest)
  BY <1>46, <1>34, <1>45
<1>48. f \o (e \o rest) \in WordSeqs
  BY <1>1, <1>44, Joins
<1>49. Holds(W, i + 3 + Len(name) + Len(base), f \o (e \o rest))
  BY <1>47, <1>19, <1>33, <1>1, <1>44, Splits
<1> QED
  BY <1>1, <1>16, <1>17, <1>19, <1>22, <1>23, <1>25, <1>26, <1>28, <1>29, <1>30, <1>31, <1>32, <1>33, <1>34, <1>35, <1>37, <1>39, <1>41, <1>49 DEF h, z, t, e

-----------------------------------------------------------------------------
(* What a module holds, and the words of its jobs.                         *)

LEMMA ModuleSays ==
  ASSUME NEW M \in Module
  PROVE  /\ M.consts \in Seq(Const) /\ M.objects \in Seq(Object) /\ M.code \in WordSeqs
         /\ M.relocs \in Seq(Reloc) /\ M.procs \in Seq(Proc) /\ M.xrefs \in Seq(Xref)
         /\ M.drels \in Seq(Seq(Ref)) /\ M.modinfo \in Seq(Use) /\ M.lib \in Seq(Library)
         /\ M.debug \in BOOLEAN /\ Len(M.code) \in Nat /\ Len(M.code) % 2 = 0
<1>1. M \in [consts : Seq(Const), objects : Seq(Object), code : Seq(Word), relocs : Seq(Reloc),
             procs : Seq(Proc), xrefs : Seq(Xref), drels : Seq(Seq(Ref)),
             modinfo : Seq(Use), lib : Seq(Library), debug : BOOLEAN]
  BY DEF Module
<1>2. /\ M.consts \in Seq(Const) /\ M.objects \in Seq(Object) /\ M.code \in Seq(Word)
      /\ M.relocs \in Seq(Reloc) /\ M.procs \in Seq(Proc) /\ M.xrefs \in Seq(Xref)
      /\ M.drels \in Seq(Seq(Ref)) /\ M.modinfo \in Seq(Use) /\ M.lib \in Seq(Library)
      /\ M.debug \in BOOLEAN
  BY <1>1
<1>3. M.code \in WordSeqs /\ Len(M.code) \in Nat
  <2>2. M.code \in Seq(Word) /\ Word \subseteq Nat
    BY <1>2, Numbers0
  <2>1. M.code \in Seq(Nat) /\ Len(M.code) \in Nat
    BY <2>2, Wider, Zenon
  <2> QED
    BY <2>1 DEF WordSeqs
<1>4. Len(M.code) % 2 = 0
  BY DEF Module
<1> QED
  BY <1>2, <1>3, <1>4, Zenon

LEMMA SizeSays ==
  ASSUME NEW V \in Nat, NEW body \in WordSeqs
  PROVE  /\ SizeOf(V, body) \in WordSeqs
         /\ V >= 6 => Len(SizeOf(V, body)) = 2
         /\ ~(V >= 6) => Len(SizeOf(V, body)) = 0
<1>1. Bytes(body) \in Nat
  BY Joins DEF Bytes
<1>2. Long(Bytes(body)) \in WordSeqs /\ Len(Long(Bytes(body))) = 2
  BY <1>1, LongSays
<1> QED
  BY <1>2, Tuples DEF SizeOf

LEMMA ObjectSays ==
  ASSUME NEW obj \in Object
  PROVE  /\ obj.name \in Name /\ obj.members \in Seq(Member) /\ obj.size \in Nat
         /\ obj.methods \in Seq(Method) /\ obj.oacc \in Seq(LongWord) /\ obj.delcode \in Nat /\ obj.odeloff \in Nat
         /\ Len(obj.methods) \in Nat /\ Len(obj.oacc) \in Nat /\ Len(obj.members) \in Nat
<1>1. /\ obj.name \in Name /\ obj.members \in Seq(Member) /\ obj.size \in Nat
      /\ obj.methods \in Seq(Method) /\ obj.oacc \in Seq(LongWord) /\ obj.delcode \in Nat /\ obj.odeloff \in Nat
  BY Numbers0, Zenon DEF Object
<1>2. Len(obj.methods) \in Nat
  BY <1>1
<1>3. Len(obj.oacc) \in Nat
  BY <1>1
<1>4. Len(obj.members) \in Nat
  BY <1>1
<1> QED
  BY <1>1, <1>2, <1>3, <1>4

LEMMA ClassSays ==
  ASSUME NEW obj \in Object
  PROVE  ClassWords(obj) \in WordSeqs
<1>1. CASE obj.methods = << >>
  BY <1>1, Tuples DEF ClassWords
<1>2. CASE obj.methods # << >>
  <2>1. PICK count \in Nat : count = 4 * Len(obj.methods) + 4
    BY ObjectSays
  <2>2. (<<count>> \o Long(obj.delcode)) \o <<0, obj.odeloff, 0>> \in WordSeqs
    <3>1. <<count>> \in WordSeqs /\ Long(obj.delcode) \in WordSeqs
      BY ObjectSays, Tuples, LongSays, Zenon
    <3>2. <<0, obj.odeloff, 0>> \in WordSeqs
      BY ObjectSays, Tuples
    <3> QED
      BY <3>1, <3>2, Joins
  <2>3. Flat(MethodWords(obj.methods)) \in WordSeqs /\ Flat(AccessWords(obj.oacc)) \in WordSeqs
    BY ObjectSays, MethodEntries, AccessEntries, FlatIs
  <2>4. (Flat(MethodWords(obj.methods)) \o <<End>>) \o (Flat(AccessWords(obj.oacc)) \o <<End>>) \in WordSeqs
    BY <2>3, Numbers0, Tuples, Joins
  <2> QED
    BY <1>2, <2>1, <2>2, <2>4, Joins DEF ClassWords
<1> QED
  BY <1>1, <1>2

\* What an object's job says of it.
ObjBody(V, obj) ==
  (<<Bytes(obj.name), End, 0>> \o obj.name)
  \o ((Flat(MemberWords(V, obj.members)) \o <<0, obj.size>>) \o (IF V >= 7 THEN ClassWords(obj) ELSE << >>))

LEMMA ObjBodySays ==
  ASSUME NEW V \in Nat, NEW obj \in Object
  PROVE  /\ (IF V >= 7 THEN ClassWords(obj) ELSE << >>) \in WordSeqs
         /\ Flat(MemberWords(V, obj.members)) \in WordSeqs
         /\ ObjBody(V, obj) \in WordSeqs
         /\ ObjJob(V, obj) = (<< 2 >> \o SizeOf(V, ObjBody(V, obj))) \o ObjBody(V, obj)
         /\ ObjJob(V, obj) \in WordSeqs
<1>1. (IF V >= 7 THEN ClassWords(obj) ELSE << >>) \in WordSeqs
  BY ClassSays, Tuples
<1>2. Flat(MemberWords(V, obj.members)) \in WordSeqs
  BY ObjectSays, MemberEntries, FlatIs, Zenon
<1>3. ObjBody(V, obj) \in WordSeqs
  <2>1. <<Bytes(obj.name), End, 0>> \in WordSeqs /\ obj.name \in WordSeqs
    BY ObjectSays, NameSays, Numbers0, Tuples, Zenon
  <2>2. <<Bytes(obj.name), End, 0>> \o obj.name \in WordSeqs
    BY <2>1, Joins
  <2>3. <<0, obj.size>> \in WordSeqs
    BY ObjectSays, Tuples
  <2> QED
    BY <1>1, <1>2, <2>2, <2>3, Joins, Zenon DEF ObjBody
<1>4. ObjJob(V, obj) = (<< 2 >> \o SizeOf(V, ObjBody(V, obj))) \o ObjBody(V, obj)
  BY DEF ObjJob, ObjBody
<1>5. ObjJob(V, obj) \in WordSeqs
  BY <1>3, <1>4, SizeSays, Tuples, Joins
<1> QED
  BY <1>1, <1>2, <1>3, <1>4, <1>5

LEMMA ObjEntries ==
  ASSUME NEW V \in Nat, NEW objects \in Seq(Object)
  PROVE  /\ ObjJobs(V, objects) \in Seq(WordSeqs) /\ Len(ObjJobs(V, objects)) = Len(objects)
         /\ \A i \in 1 .. Len(objects) :
              /\ objects[i] \in Object
              /\ ObjJobs(V, objects)[i] = ObjJob(V, objects[i])
<1>1. ASSUME NEW i \in 1 .. Len(objects)
      PROVE  /\ ObjJobs(V, objects)[i] \in WordSeqs
             /\ ObjJobs(V, objects)[i] = ObjJob(V, objects[i])
             /\ objects[i] \in Object
  <2>1. objects[i] \in Object
    OBVIOUS
  <2>2. /\ objects[i] \in Object
    BY <2>1, Numbers0
  <2>3. ObjJobs(V, objects)[i] = ObjJob(V, objects[i])
    <3>1. i \in DOMAIN objects
      OBVIOUS
    <3> QED
      BY <3>1 DEF ObjJobs
  <2>4. ObjJob(V, objects[i]) \in WordSeqs
    BY <2>2, Numbers0, NameSays, LongSays, Tuples, Joins, ObjBodySays, Zenon
  <2> QED
    BY <2>2, <2>3, <2>4
<1>2. ObjJobs(V, objects) \in [1 .. Len(objects) -> WordSeqs]
  <2>1. DOMAIN objects = 1 .. Len(objects)
    OBVIOUS
  <2>2. ObjJobs(V, objects) = [i \in 1 .. Len(objects) |-> ObjJobs(V, objects)[i]]
    BY <2>1 DEF ObjJobs
  <2> QED
    BY <1>1, <2>2
<1>3. ObjJobs(V, objects) \in Seq(WordSeqs) /\ Len(ObjJobs(V, objects)) = Len(objects)
  <2>1. Len(objects) \in Nat
    OBVIOUS
  <2> QED
    BY <1>2, <2>1, ArrayIs, Zenon
<1> QED
  BY <1>1, <1>3

LEMMA VectorSays ==
  ASSUME NEW v \in Vector
  PROVE  /\ v.name \in Seq(33 .. 254) /\ v.regs \in Seq(0 .. 15)
         /\ v.name \in WordSeqs /\ v.regs \in WordSeqs
         /\ (IF v.name = << >> THEN << 16 >> ELSE v.name \o IF v.regs = << >> THEN << 16 >> ELSE v.regs) \in WordSeqs
<1>1. v.name \in Seq(33 .. 254) /\ v.regs \in Seq(0 .. 15)
  BY DEF Vector
<1>2. v.name \in WordSeqs /\ v.regs \in WordSeqs
  <2> DEFINE S == 33 .. 254
             T == 0 .. 15
  <2>1. S \subseteq Nat /\ T \subseteq Nat /\ v.name \in Seq(S) /\ v.regs \in Seq(T)
    BY <1>1
  <2> HIDE DEF S, T
  <2>2. v.name \in Seq(Nat)
    BY <2>1, Wider, Zenon
  <2>3. v.regs \in Seq(Nat)
    BY <2>1, Wider, Zenon
  <2> QED
    BY <2>2, <2>3 DEF WordSeqs
<1>3. (IF v.regs = << >> THEN << 16 >> ELSE v.regs) \in WordSeqs
  BY <1>2, Tuples
<1> QED
  BY <1>1, <1>2, <1>3, Tuples, Joins, Zenon

LEMMA VectorEntries ==
  ASSUME NEW funcs \in Seq(Vector)
  PROVE  /\ VectorBytes(funcs) \in Seq(WordSeqs) /\ Len(VectorBytes(funcs)) = Len(funcs)
         /\ \A i \in 1 .. Len(funcs) :
              /\ funcs[i] \in Vector
              /\ VectorBytes(funcs)[i] = (IF funcs[i].name = << >> THEN << 16 >>
                  ELSE funcs[i].name \o IF funcs[i].regs = << >> THEN << 16 >> ELSE funcs[i].regs)
<1>1. ASSUME NEW i \in 1 .. Len(funcs)
      PROVE  /\ VectorBytes(funcs)[i] \in WordSeqs
             /\ VectorBytes(funcs)[i] = (IF funcs[i].name = << >> THEN << 16 >>
                  ELSE funcs[i].name \o IF funcs[i].regs = << >> THEN << 16 >> ELSE funcs[i].regs)
             /\ funcs[i] \in Vector
  <2>1. funcs[i] \in Vector
    OBVIOUS
  <2>2. /\ funcs[i] \in Vector
    BY <2>1, Numbers0
  <2>3. VectorBytes(funcs)[i] = (IF funcs[i].name = << >> THEN << 16 >>
                  ELSE funcs[i].name \o IF funcs[i].regs = << >> THEN << 16 >> ELSE funcs[i].regs)
    <3>1. i \in DOMAIN funcs
      OBVIOUS
    <3> QED
      BY <3>1 DEF VectorBytes
  <2>4. (IF funcs[i].name = << >> THEN << 16 >>
                  ELSE funcs[i].name \o IF funcs[i].regs = << >> THEN << 16 >> ELSE funcs[i].regs) \in WordSeqs
    BY <2>2, Numbers0, NameSays, LongSays, Tuples, Joins, VectorSays, Zenon
  <2> QED
    BY <2>2, <2>3, <2>4
<1>2. VectorBytes(funcs) \in [1 .. Len(funcs) -> WordSeqs]
  <2>1. DOMAIN funcs = 1 .. Len(funcs)
    OBVIOUS
  <2>2. VectorBytes(funcs) = [i \in 1 .. Len(funcs) |-> VectorBytes(funcs)[i]]
    BY <2>1 DEF VectorBytes
  <2> QED
    BY <1>1, <2>2, Zenon
<1>3. VectorBytes(funcs) \in Seq(WordSeqs) /\ Len(VectorBytes(funcs)) = Len(funcs)
  <2>1. Len(funcs) \in Nat
    OBVIOUS
  <2> QED
    BY <1>2, <2>1, ArrayIs
<1> QED
  BY <1>1, <1>3

LEMMA WordsAre ==
  ASSUME NEW S, S \subseteq Nat, NEW s \in Seq(S)
  PROVE  s \in WordSeqs /\ Len(s) \in Nat
<1>1. s \in Seq(Nat) /\ Len(s) \in Nat
  BY Wider, Zenon
<1> QED
  BY <1>1 DEF WordSeqs

LEMMA LibrarySays ==
  ASSUME NEW lib \in Library
  PROVE  /\ lib.name \in Chars /\ lib.base \in Chars /\ lib.funcs \in Seq(Vector)
         /\ lib.name \in WordSeqs /\ lib.base \in WordSeqs
         /\ Flat(VectorBytes(lib.funcs)) \in WordSeqs
         /\ LibJob(lib) \in WordSeqs
<1>1. lib.name \in Chars /\ lib.base \in Chars /\ lib.funcs \in Seq(Vector)
  BY DEF Library
<1>2. ASSUME NEW s \in Chars PROVE s \in WordSeqs
  <2> DEFINE S == 1 .. 255
  <2>1. S \subseteq Nat /\ s \in Seq(S)
    BY DEF Chars
  <2> HIDE DEF S
  <2> QED
    BY <2>1, WordsAre, Zenon
<1>3. lib.name \in WordSeqs /\ lib.base \in WordSeqs
  BY <1>1, <1>2
<1>4. Flat(VectorBytes(lib.funcs)) \in WordSeqs
  BY <1>1, VectorEntries, FlatIs
<1>5. << 6 >> \in WordSeqs /\ << 0 >> \in WordSeqs /\ << 255 >> \in WordSeqs
  BY Tuples
<1>6. ((((<< 6 >> \o lib.name) \o << 0 >>) \o lib.base) \o << 0 >>) \in WordSeqs
  BY <1>3, <1>5, Joins, Zenon
<1> QED
  BY <1>1, <1>3, <1>4, <1>5, <1>6, Joins DEF LibJob

-----------------------------------------------------------------------------
(* The jobs of a file.                                                     *)

LEMMA SysSays ==
  ASSUME NEW V \in Nat
  PROVE  /\ (IF V > 10 THEN LongZero ELSE << >>) \in WordSeqs
         /\ 10 + SysRest(V) = 12 + Len(IF V > 10 THEN LongZero ELSE << >>) /\ SysRest(V) \in Nat
         /\ <<5, 0, 0, 0>> \in WordSeqs /\ Len(<<5, 0, 0, 0>>) = 4
         /\ Long(4096) \in WordSeqs /\ Len(Long(4096)) = 2
         /\ <<0, 0, 0, V, 0, 0>> \in WordSeqs /\ Len(<<0, 0, 0, V, 0, 0>>) = 6
<1>1. /\ <<5, 0, 0, 0>> \in WordSeqs /\ Len(<<5, 0, 0, 0>>) = 4
      /\ <<0, 0, 0, V, 0, 0>> \in WordSeqs /\ Len(<<0, 0, 0, V, 0, 0>>) = 6
  BY Tuples, Zenon
<1>2. Long(4096) \in WordSeqs /\ Len(Long(4096)) = 2
  BY LongSays
<1>3. (IF V > 10 THEN LongZero ELSE << >>) \in WordSeqs
  BY Tuples DEF LongZero
<1>4. 10 + SysRest(V) = 12 + Len(IF V > 10 THEN LongZero ELSE << >>) /\ SysRest(V) \in Nat
  BY Tuples DEF LongZero, SysRest
<1> QED
  BY <1>1, <1>2, <1>3, <1>4

LEMMA SysJobSays ==
  ASSUME NEW V \in Nat
  PROVE  SysJob(V) \in WordSeqs
<1>1. /\ <<5, 0, 0, 0>> \in WordSeqs /\ Len(<<5, 0, 0, 0>>) = 4
      /\ <<0, 0, 0, V, 0, 0>> \in WordSeqs /\ Len(<<0, 0, 0, V, 0, 0>>) = 6
  BY Tuples, Zenon
<1>2. Long(4096) \in WordSeqs /\ Len(Long(4096)) = 2
  BY LongSays
<1>3. (IF V > 10 THEN LongZero ELSE << >>) \in WordSeqs
  BY Tuples DEF LongZero
<1>5. <<5, 0, 0, 0>> \o Long(4096) \in WordSeqs
  BY <1>1, <1>2, Joins
<1>6. (<<5, 0, 0, 0>> \o Long(4096)) \o <<0, 0, 0, V, 0, 0>> \in WordSeqs
  BY <1>1, <1>5, Joins
<1>7. ((<<5, 0, 0, 0>> \o Long(4096)) \o <<0, 0, 0, V, 0, 0>>) \o (IF V > 10 THEN LongZero ELSE << >>) \in WordSeqs
  BY <1>3, <1>6, Joins
<1>8. SysJob(V) \in WordSeqs
  BY <1>7 DEF SysJob
<1> QED
  BY <1>8

LEMMA ConstJobSays ==
  ASSUME NEW V \in Nat, NEW consts \in Seq(Const)
  PROVE  /\ Flat(ConstWords(consts)) \in WordSeqs /\ Flat(ConstWords(consts)) \o << 0 >> \in WordSeqs
         /\ ConstJob(V, consts) \in WordSeqs
<1>1. Flat(ConstWords(consts)) \in WordSeqs
  BY ConstEntries, FlatIs, Zenon
<1>2. Flat(ConstWords(consts)) \o << 0 >> \in WordSeqs
  BY <1>1, Tuples, Joins
<1>3. (<< 1 >> \o SizeOf(V, Flat(ConstWords(consts)) \o << 0 >>)) \o (Flat(ConstWords(consts)) \o << 0 >>) \in WordSeqs
  BY <1>2, SizeSays, Tuples, Joins, Zenon
<1> QED
  BY <1>1, <1>2, <1>3, Tuples DEF ConstJob

LEMMA CodeSays ==
  ASSUME NEW code \in WordSeqs
  PROVE  Len(code) \div 2 \in Nat /\ CodeJob(code) \in WordSeqs
<1>1. Len(code) \div 2 \in Nat
  BY Joins
<1>2. << 3 >> \in WordSeqs /\ Long(Len(code) \div 2) \in WordSeqs
  BY <1>1, Tuples, LongSays
<1> QED
  BY <1>1, <1>2, Joins DEF CodeJob

LEMMA ProcsJobSays ==
  ASSUME NEW procs \in Seq(Proc)
  PROVE  Flat(ProcWords(procs)) \in WordSeqs /\ ProcsJob(procs) \in WordSeqs
<1>1. Flat(ProcWords(procs)) \in WordSeqs
  BY ProcEntries, FlatIs
<1> QED
  BY <1>1, Tuples, Joins DEF ProcsJob

LEMMA RelocsJobSays ==
  ASSUME NEW relocs \in Seq(Reloc)
  PROVE  Flat(RelocWords(relocs)) \in WordSeqs /\ Len(relocs) \in Nat /\ RelocsJob(relocs) \in WordSeqs
<1>1. Flat(RelocWords(relocs)) \in WordSeqs
  BY RelocEntries, FlatIs
<1>2. Len(relocs) \in Nat
  OBVIOUS
<1>3. << 7 >> \o Long(Len(relocs)) \in WordSeqs
  BY <1>2, Tuples, LongSays, Joins
<1> QED
  BY <1>1, <1>2, <1>3, Joins DEF RelocsJob

LEMMA GlobsJobSays ==
  ASSUME NEW V \in Nat, NEW xrefs \in Seq(Xref), NEW drels \in Seq(Seq(Ref))
  PROVE  /\ Flat(XrefWords(V, xrefs)) \in WordSeqs /\ Flat(DrelWords(V, drels)) \in WordSeqs
         /\ (IF V >= 10 THEN <<SkipMark, 0, 0>> ELSE << >>) \in WordSeqs
         /\ GlobsJob(V, xrefs, drels) \in WordSeqs
<1>1. Flat(XrefWords(V, xrefs)) \in WordSeqs /\ Flat(DrelWords(V, drels)) \in WordSeqs
  BY XrefEntries, DrelEntries, FlatIs
<1>2. (IF V >= 10 THEN <<SkipMark, 0, 0>> ELSE << >>) \in WordSeqs
  BY Numbers0, Tuples DEF SkipMark
<1>3. << 8 >> \o (IF V >= 10 THEN <<SkipMark, 0, 0>> ELSE << >>) \in WordSeqs
  <2>1. << 8 >> \in WordSeqs
    BY Tuples
  <2> QED
    BY <1>2, <2>1, Joins, Zenon
<1>4. Flat(XrefWords(V, xrefs)) \o (Flat(DrelWords(V, drels)) \o <<End>>) \in WordSeqs
  BY <1>1, Numbers0, Tuples, Joins
<1> QED
  BY <1>1, <1>2, <1>3, <1>4, Joins DEF GlobsJob

LEMMA ModinfoJobSays ==
  ASSUME NEW modinfo \in Seq(Use)
  PROVE  Flat(UseWords(modinfo)) \in WordSeqs /\ ModinfoJob(modinfo) \in WordSeqs
<1>1. Flat(UseWords(modinfo)) \in WordSeqs
  BY UseEntries, FlatIs
<1> QED
  BY <1>1, Tuples, Joins DEF ModinfoJob

LEMMA LastJobSays ==
  ASSUME NEW M \in Module
  PROVE  LastJob(M) \in WordSeqs
<1>1. CASE M.debug
  BY <1>1, Tuples DEF LastJob
<1>2. CASE ~M.debug
  <2>1. (IF M.lib = << >> THEN << >> ELSE LibJob(M.lib[1])) \in WordSeqs
    <3>1. CASE M.lib = << >>
      BY <3>1, Tuples
    <3>2. CASE M.lib # << >>
      <4>1. M.lib \in Seq(Library)
        BY ModuleSays, Zenon
      <4>2. M.lib[1] \in Library
        BY <3>2, <4>1
      <4> QED
        BY <3>2, <4>2, LibrarySays
    <3> QED
      BY <3>1, <3>2
  <2> QED
    BY <1>2, <2>1, Tuples, Joins, Zenon DEF LastJob, Done
<1> QED
  BY <1>1, <1>2

LEMMA Ten ==
  ASSUME NEW S, NEW a1 \in S, NEW a2 \in S, NEW a3 \in S, NEW a4 \in S, NEW a5 \in S,
         NEW a6 \in S, NEW a7 \in S, NEW a8 \in S, NEW a9 \in S, NEW a10 \in S
  PROVE  LET t == <<a1, a2, a3, a4, a5, a6, a7, a8, a9, a10>>
         IN /\ t \in Seq(S) /\ Len(t) = 10
            /\ t[1] = a1 /\ t[2] = a2 /\ t[3] = a3 /\ t[4] = a4 /\ t[5] = a5
            /\ t[6] = a6 /\ t[7] = a7 /\ t[8] = a8 /\ t[9] = a9 /\ t[10] = a10
  OBVIOUS

LEMMA JobNos ==
  ASSUME NEW M, NEW V
  PROVE  /\ JobNo(M, V, 1) = Magic
         /\ JobNo(M, V, 2) = SysJob(V)
         /\ JobNo(M, V, 3) = CodedJob(M, CodeJob(M.code))
         /\ JobNo(M, V, 4) = CodedJob(M, RelocsJob(M.relocs))
         /\ JobNo(M, V, 5) = CodedJob(M, ProcsJob(M.procs))
         /\ JobNo(M, V, 6) = CodedJob(M, GlobsJob(V, M.xrefs, M.drels))
         /\ JobNo(M, V, 7) = Flat(ObjJobs(V, M.objects))
         /\ JobNo(M, V, 8) = ConstJob(V, M.consts)
         /\ JobNo(M, V, 9) = CodedJob(M, ModinfoJob(M.modinfo))
         /\ JobNo(M, V, 10) = LastJob(M)
  BY DEF JobNo

LEMMA JobsSay ==
  ASSUME NEW M \in Module, NEW V \in Nat
  PROVE  /\ JobsOf(M, V) \in Seq(WordSeqs) /\ Len(JobsOf(M, V)) = 10
         /\ \A k \in 1 .. 10 : JobsOf(M, V)[k] = JobNo(M, V, k) /\ JobNo(M, V, k) \in WordSeqs
<1>1. Magic \in WordSeqs /\ SysJob(V) \in WordSeqs
  <2>1. Magic \in WordSeqs
    BY Tuples DEF Magic
  <2>2. SysJob(V) \in WordSeqs
    BY SysJobSays
  <2> QED
    BY <2>1, <2>2
<1>2. Flat(ObjJobs(V, M.objects)) \in WordSeqs
  BY ModuleSays, ObjEntries, FlatIs, Zenon
<1>3. ConstJob(V, M.consts) \in WordSeqs
  BY ModuleSays, ConstJobSays, Zenon
<1>4. CodedJob(M, CodeJob(M.code)) \in WordSeqs
  BY ModuleSays, CodeSays, Tuples, Zenon DEF CodedJob
<1>5. CodedJob(M, ProcsJob(M.procs)) \in WordSeqs
  BY ModuleSays, ProcsJobSays, Tuples, Zenon DEF CodedJob
<1>6. CodedJob(M, RelocsJob(M.relocs)) \in WordSeqs
  BY ModuleSays, RelocsJobSays, Tuples, Zenon DEF CodedJob
<1>7. CodedJob(M, GlobsJob(V, M.xrefs, M.drels)) \in WordSeqs
  BY ModuleSays, GlobsJobSays, Tuples, Zenon DEF CodedJob
<1>8. CodedJob(M, ModinfoJob(M.modinfo)) \in WordSeqs
  BY ModuleSays, ModinfoJobSays, Tuples, Zenon DEF CodedJob
<1>9. LastJob(M) \in WordSeqs
  BY LastJobSays
<1> DEFINE t == <<Magic, SysJob(V), CodedJob(M, CodeJob(M.code)), CodedJob(M, RelocsJob(M.relocs)),
                  CodedJob(M, ProcsJob(M.procs)), CodedJob(M, GlobsJob(V, M.xrefs, M.drels)),
                  Flat(ObjJobs(V, M.objects)), ConstJob(V, M.consts),
                  CodedJob(M, ModinfoJob(M.modinfo)), LastJob(M)>>
<1>10. JobsOf(M, V) = t
  BY DEF JobsOf, CodedJob
<1>11. /\ t \in Seq(WordSeqs) /\ Len(t) = 10
       /\ t[1] = Magic
       /\ t[2] = SysJob(V)
       /\ t[3] = CodedJob(M, CodeJob(M.code))
       /\ t[4] = CodedJob(M, RelocsJob(M.relocs))
       /\ t[5] = CodedJob(M, ProcsJob(M.procs))
       /\ t[6] = CodedJob(M, GlobsJob(V, M.xrefs, M.drels))
       /\ t[7] = Flat(ObjJobs(V, M.objects))
       /\ t[8] = ConstJob(V, M.consts)
       /\ t[9] = CodedJob(M, ModinfoJob(M.modinfo))
       /\ t[10] = LastJob(M)
  BY <1>1, <1>2, <1>3, <1>4, <1>5, <1>6, <1>7, <1>8, <1>9, Ten
<1> HIDE DEF t
<1>12. ASSUME NEW k \in 1 .. 10 PROVE t[k] = JobNo(M, V, k) /\ JobNo(M, V, k) \in WordSeqs
  <2>1. k \in {1, 2, 3, 4, 5, 6, 7, 8, 9, 10}
    OBVIOUS
  <2>2. t[k] = JobNo(M, V, k)
    BY <1>11, <2>1, JobNos
  <2>3. t[k] \in WordSeqs
    <3>1. t \in Seq(WordSeqs) /\ Len(t) = 10
      BY <1>11
    <3>2. k \in 1 .. Len(t)
      BY <3>1
    <3> QED
      BY <3>1, <3>2, ElementOfSeq, Zenon
  <2> QED
    BY <2>2, <2>3
<1> QED
  BY <1>10, <1>11, <1>12

LEMMA LeftIs ==
  ASSUME NEW M \in Module, NEW V \in Nat
  PROVE  /\ Left(M, V, 11) = << >>
         /\ \A k \in 1 .. 10 : Left(M, V, k) = JobNo(M, V, k) \o Left(M, V, k + 1)
         /\ \A k \in 1 .. 11 : Left(M, V, k) \in WordSeqs
<1>1. /\ JobsOf(M, V) \in Seq(WordSeqs) /\ Len(JobsOf(M, V)) = 10
      /\ \A k \in 1 .. 10 : JobsOf(M, V)[k] = JobNo(M, V, k) /\ JobNo(M, V, k) \in WordSeqs
  BY JobsSay
<1> DEFINE s == JobsOf(M, V)
<1>2. s \in Seq(WordSeqs) /\ Len(s) = 10
  BY <1>1
<1> HIDE DEF s
<1>3. /\ From(s, 10 + 1) = << >>
      /\ \A k \in 1 .. 10 : From(s, k) = s[k] \o From(s, k + 1)
      /\ \A k \in 1 .. 10 + 1 : From(s, k) \in WordSeqs
  BY <1>2, FromIs, Zenon
<1>4. 10 + 1 = 11
  OBVIOUS
<1> QED
  BY <1>1, <1>3, <1>4, Zenon DEF Left, s

\* What follows an object, or the i-th of them.
LEMMA ObjectsLeftIs ==
  ASSUME NEW M \in Module, NEW V \in Nat
  PROVE  /\ ObjectsLeft(M, V, 1) = Left(M, V, 7)
         /\ ObjJobs(V, M.objects) \in Seq(WordSeqs) /\ Len(ObjJobs(V, M.objects)) = Len(M.objects)
         /\ Len(M.objects) \in Nat
         /\ \A i \in 1 .. Len(M.objects) :
              M.objects[i] \in Object /\ ObjJobs(V, M.objects)[i] = ObjJob(V, M.objects[i])
         /\ \A i \in 1 .. Len(M.objects) + 1 : ObjectsLeft(M, V, i) \in WordSeqs
<1>1. M.objects \in Seq(Object)
  BY ModuleSays, Zenon
<1>2. /\ ObjJobs(V, M.objects) \in Seq(WordSeqs) /\ Len(ObjJobs(V, M.objects)) = Len(M.objects)
      /\ \A i \in 1 .. Len(M.objects) :
           M.objects[i] \in Object /\ ObjJobs(V, M.objects)[i] = ObjJob(V, M.objects[i])
  BY <1>1, ObjEntries
<1>3. Len(M.objects) \in Nat
  BY <1>1
<1>4. Left(M, V, 7) = Flat(ObjJobs(V, M.objects)) \o Left(M, V, 8)
  <2>1. 7 \in 1 .. 10 /\ 7 + 1 = 8
    OBVIOUS
  <2> QED
    <3>1. Left(M, V, 7) = JobNo(M, V, 7) \o Left(M, V, 7 + 1)
      BY <2>1, LeftIs, Zenon
    <3> QED
      BY <2>1, <3>1, JobNos, Zenon
<1>5. ObjectsLeft(M, V, 1) = Left(M, V, 7)
  BY <1>4 DEF ObjectsLeft, Flat
<1>6. ASSUME NEW i \in 1 .. Len(M.objects) + 1 PROVE ObjectsLeft(M, V, i) \in WordSeqs
  <2>1. From(ObjJobs(V, M.objects), i) \in WordSeqs
    BY <1>2, FromIs, Zenon
  <2>2. Left(M, V, 8) \in WordSeqs
    BY LeftIs
  <2> QED
    BY <2>1, <2>2, Joins DEF ObjectsLeft
<1> QED
  BY <1>2, <1>3, <1>5, <1>6

-----------------------------------------------------------------------------
(* What is known, entry by entry.                                          *)

LEMMA FirstOfSays ==
  ASSUME NEW T, NEW s \in Seq(T)
  PROVE  /\ FirstOf(s, 0) = << >>
         /\ \A j \in 1 .. Len(s) : FirstOf(s, j) = Append(FirstOf(s, j - 1), s[j])
         /\ FirstOf(s, Len(s)) = s
         /\ \A j \in 0 .. Len(s) : FirstOf(s, j) \in Seq(T) /\ Len(FirstOf(s, j)) = j
<1>1. FirstOf(s, 0) = << >>
  BY SubSeqEmpty DEF FirstOf
<1>2. FirstOf(s, Len(s)) = s
  BY SubSeqFull DEF FirstOf
<1>3. ASSUME NEW j \in 0 .. Len(s)
      PROVE  /\ FirstOf(s, j) \in Seq(T) /\ Len(FirstOf(s, j)) = j
             /\ \A k \in 1 .. j : FirstOf(s, j)[k] = s[k]
  BY DEF FirstOf
<1>4. ASSUME NEW j \in 1 .. Len(s) PROVE FirstOf(s, j) = Append(FirstOf(s, j - 1), s[j])
  <2> DEFINE a == FirstOf(s, j)
             b == FirstOf(s, j - 1)
             c == Append(b, s[j])
  <2>1. j \in 0 .. Len(s) /\ j - 1 \in 0 .. Len(s) /\ s[j] \in T /\ j \in Nat
    OBVIOUS
  <2>2. /\ a \in Seq(T) /\ Len(a) = j /\ \A k \in 1 .. j : a[k] = s[k]
        /\ b \in Seq(T) /\ Len(b) = j - 1 /\ \A k \in 1 .. j - 1 : b[k] = s[k]
    BY <1>3, <2>1
  <2> HIDE DEF a, b
  <2>3. c \in Seq(T) /\ Len(c) = j /\ c[j] = s[j] /\ \A k \in 1 .. j - 1 : c[k] = b[k]
    BY <2>1, <2>2
  <2>4. ASSUME NEW k \in 1 .. j PROVE a[k] = c[k]
    <3>1. CASE k = j
      BY <2>1, <2>2, <2>3, <3>1
    <3>2. CASE k # j
      <4>1. k \in 1 .. j - 1
        BY <2>1, <3>2
      <4> QED
        BY <2>2, <2>3, <4>1
    <3> QED
      BY <3>1, <3>2, Zenon
  <2>5. a = c
    <3> HIDE DEF c
    <3> QED
      BY <2>1, <2>2, <2>3, <2>4, SeqEqual
  <2> QED
    BY <2>5 DEF a, b
<1> QED
  BY <1>1, <1>2, <1>3, <1>4

-----------------------------------------------------------------------------
(* Maps.                                                                   *)

\* The last entry of a name, with one entry more.
LEMMA LastOfOthers ==
  ASSUME NEW T, NEW s \in Seq(T), NEW e \in T, NEW n, n # e.name
  PROVE  LastOf(Append(s, e), n) = LastOf(s, n)
<1> DEFINE t == Append(s, e)
<1>0. Len(s) \in Nat /\ DOMAIN s = 1 .. Len(s) /\ DOMAIN t = 1 .. Len(s) + 1 /\ t[Len(s) + 1] = e
      /\ \A i \in 1 .. Len(s) : t[i] = s[i]
  OBVIOUS
<1> HIDE DEF t
<1>1. \A i : (i \in DOMAIN t /\ t[i].name = n /\ \A k \in DOMAIN t : t[k].name = n => k <= i)
         <=> (i \in DOMAIN s /\ s[i].name = n /\ \A k \in DOMAIN s : s[k].name = n => k <= i)
  BY <1>0
<1> QED
  BY <1>1, Zenon DEF LastOf, t

LEMMA LastOfOne ==
  ASSUME NEW T, NEW s \in Seq(T), NEW e \in T
  PROVE  LastOf(Append(s, e), e.name) = Len(s) + 1
<1> DEFINE t == Append(s, e)
           P(i) == i \in DOMAIN t /\ t[i].name = e.name /\ \A k \in DOMAIN t : t[k].name = e.name => k <= i
<1>0. Len(s) \in Nat /\ DOMAIN t = 1 .. Len(s) + 1 /\ t[Len(s) + 1] = e
  OBVIOUS
<1> HIDE DEF t
<1>1. P(Len(s) + 1) /\ \A i : P(i) => i = Len(s) + 1
  BY <1>0
<1>2. LastOf(t, e.name) = CHOOSE i : P(i)
  BY Zenon DEF LastOf
<1> HIDE DEF P
<1>3. P(CHOOSE i : P(i))
  BY <1>1, Zenon
<1> QED
  BY <1>1, <1>2, <1>3 DEF t

LEMMA LastThere ==
  ASSUME NEW T, NEW s \in Seq(T), NEW j \in DOMAIN s
  PROVE  LastOf(s, s[j].name) \in DOMAIN s
<1> DEFINE n == s[j].name
           P(i) == i \in DOMAIN s /\ s[i].name = n /\ \A k \in DOMAIN s : s[k].name = n => k <= i
           S == {l \in Nat : \E i \in DOMAIN s : s[i].name = n /\ l = Len(s) - i}
<1>0. Len(s) \in Nat /\ DOMAIN s = 1 .. Len(s)
  OBVIOUS
<1>1. PICK l \in S : \A k \in S : k >= l
  <2>1. Len(s) - j \in S
    BY <1>0
  <2> HIDE DEF S
  <2>2. S \in SUBSET Nat
    BY DEF S
  <2>3. PICK l \in S : ~ \E k \in S : <<k, l>> \in OpToRel(<, Nat)
    BY <2>1, <2>2, WFMin, NatLessThanWellFounded
  <2>4. ASSUME NEW k \in S PROVE k >= l
    <3>1. ~ (k < l)
      BY <2>2, <2>3 DEF OpToRel
    <3> QED
      BY <2>2, <3>1
  <2> QED
    BY <2>4
<1>2. PICK i \in DOMAIN s : s[i].name = n /\ l = Len(s) - i
  BY <1>1
<1>3. P(i)
  BY <1>0, <1>1, <1>2
<1>4. LastOf(s, n) = CHOOSE k : P(k)
  BY Zenon DEF LastOf
<1> HIDE DEF P
<1>5. P(CHOOSE k : P(k))
  BY <1>3, Zenon
<1> QED
  BY <1>4, <1>5 DEF P

\* With one entry more, its name has its value.
LEMMA MappedAppend ==
  ASSUME NEW T, NEW s \in Seq(T), NEW e \in T
  PROVE  Mapped(Append(s, e)) = Put(Mapped(s), e.name, e.value)
<1> DEFINE t == Append(s, e)
<1>0. Len(s) \in Nat /\ DOMAIN s = 1 .. Len(s) /\ DOMAIN t = 1 .. Len(s) + 1 /\ t[Len(s) + 1] = e
      /\ \A i \in 1 .. Len(s) : t[i] = s[i]
  OBVIOUS
<1> HIDE DEF t
<1>1. {t[i].name : i \in DOMAIN t} = {e.name} \cup {s[i].name : i \in DOMAIN s}
  BY <1>0
<1>2. ASSUME NEW n \in {t[i].name : i \in DOMAIN t}
      PROVE t[LastOf(t, n)].value = IF n = e.name THEN e.value ELSE Mapped(s)[n]
  <2>1. CASE n = e.name
    BY <1>0, <2>1, LastOfOne DEF t
  <2>2. CASE n # e.name
    <3>1. n \in {s[i].name : i \in DOMAIN s}
      BY <1>1, <2>2
    <3>2. LastOf(t, n) = LastOf(s, n)
      BY <2>2, LastOfOthers DEF t
    <3>3. PICK j \in DOMAIN s : s[j].name = n
      BY <3>1
    <3>4. LastOf(s, n) \in DOMAIN s
      BY <3>3, LastThere
    <3> QED
      BY <1>0, <2>2, <3>1, <3>2, <3>4 DEF Mapped
  <2> QED
    BY <2>1, <2>2
<1>3. Mapped(t) = [n \in {t[i].name : i \in DOMAIN t} |-> t[LastOf(t, n)].value]
  BY DEF Mapped
<1>4. DOMAIN Mapped(s) = {s[i].name : i \in DOMAIN s}
  BY DEF Mapped
<1>5. Put(Mapped(s), e.name, e.value)
      = [n \in {t[i].name : i \in DOMAIN t} |-> IF n = e.name THEN e.value ELSE Mapped(s)[n]]
  BY <1>1, <1>4 DEF Put
<1> QED
  BY <1>2, <1>3, <1>5 DEF t

LEMMA MappedNone ==
  Mapped(<< >>) = << >>
  BY DEF Mapped

LEMMA MappedGrows ==
  ASSUME NEW T, NEW s \in Seq(T), NEW j \in 1 .. Len(s)
  PROVE  Mapped(FirstOf(s, j)) = Put(Mapped(FirstOf(s, j - 1)), s[j].name, s[j].value)
<1>1. FirstOf(s, j) = Append(FirstOf(s, j - 1), s[j]) /\ s[j] \in T
  BY FirstOfSays
<1>2. FirstOf(s, j - 1) \in Seq(T)
  <2>1. j - 1 \in 0 .. Len(s)
    OBVIOUS
  <2> QED
    BY <2>1, FirstOfSays
<1> QED
  BY <1>1, <1>2, MappedAppend, Zenon

\* A value that is put twice.
LEMMA PutAgain ==
  ASSUME NEW map, NEW n, NEW x, NEW y
  PROVE  Put(map, n, x)[n] = x /\ [Put(map, n, x) EXCEPT ![n] = y] = Put(map, n, y)
<1> DEFINE S == DOMAIN map \cup {n}
           a == [k \in S |-> IF k = n THEN x ELSE map[k]]
<1>1. [a EXCEPT ![n] = y] = [k \in S |-> IF k = n THEN y ELSE a[k]]
  OBVIOUS
<1>2. \A k \in S : (IF k = n THEN y ELSE a[k]) = IF k = n THEN y ELSE map[k]
  OBVIOUS
<1>3. a[n] = x
  OBVIOUS
<1> QED
  BY <1>1, <1>2, <1>3 DEF Put

-----------------------------------------------------------------------------
(* What is known, entry by entry, and before each job.                     *)

\* A record whose field is changed twice.
LEMMA Twice ==
  ASSUME NEW f, NEW x \in DOMAIN f, NEW a, NEW b
  PROVE  /\ [[f EXCEPT ![x] = a] EXCEPT ![x] = b] = [f EXCEPT ![x] = b]
         /\ [f EXCEPT ![x] = a][x] = a /\ DOMAIN [f EXCEPT ![x] = a] = DOMAIN f
  BY Zenon

LEMMA HeldAre ==
  ASSUME NEW M \in Module, NEW V \in Nat
  PROVE  /\ \E T : HeldObjects(M.objects, V) \in Seq(T)
         /\ Len(HeldObjects(M.objects, V)) = Len(M.objects)
         /\ \A i \in 1 .. Len(M.objects) :
           HeldObjects(M.objects, V)[i] = [name |-> M.objects[i].name, value |-> HeldObject(M.objects[i], V)]
         /\ \E T : HeldProcs(M) \in Seq(T)
         /\ Len(HeldProcs(M)) = Len(M.procs)
         /\ \A i \in 1 .. Len(M.procs) : HeldProcs(M)[i] = HeldProc(M.procs[i])
         /\ \E T : HeldRelocs(M) \in Seq(T)
         /\ Len(HeldRelocs(M)) = Len(M.relocs)
         /\ \A i \in 1 .. Len(M.relocs) : HeldRelocs(M)[i] = HeldReloc(M.relocs[i], M.code)
<1>1. /\ \E T : HeldObjects(M.objects, V) \in Seq(T)
      /\ Len(HeldObjects(M.objects, V)) = Len(M.objects)
      /\ \A i \in 1 .. Len(M.objects) :
           HeldObjects(M.objects, V)[i] = [name |-> M.objects[i].name, value |-> HeldObject(M.objects[i], V)]
  <2>1. Len(M.objects) \in Nat /\ DOMAIN M.objects = 1 .. Len(M.objects)
    BY ModuleSays
  <2> DEFINE h(i) == [name |-> M.objects[i].name, value |-> HeldObject(M.objects[i], V)]
  <2>2. HeldObjects(M.objects, V) = [i \in 1 .. Len(M.objects) |-> h(i)]
    BY <2>1 DEF HeldObjects
  <2> DEFINE T == {h(i) : i \in 1 .. Len(M.objects)}
  <2>3. HeldObjects(M.objects, V) \in [1 .. Len(M.objects) -> T]
    BY <2>2
  <2>4. \A i \in 1 .. Len(M.objects) :
           HeldObjects(M.objects, V)[i] = [name |-> M.objects[i].name, value |-> HeldObject(M.objects[i], V)]
    BY <2>2
  <2> HIDE DEF T
  <2>5. HeldObjects(M.objects, V) \in Seq(T) /\ Len(HeldObjects(M.objects, V)) = Len(M.objects)
    BY <2>1, <2>3, ArrayIs
  <2> QED
    BY <2>4, <2>5
<1>2. /\ \E T : HeldProcs(M) \in Seq(T)
      /\ Len(HeldProcs(M)) = Len(M.procs)
      /\ \A i \in 1 .. Len(M.procs) : HeldProcs(M)[i] = HeldProc(M.procs[i])
  <2>1. Len(M.procs) \in Nat /\ DOMAIN M.procs = 1 .. Len(M.procs)
    BY ModuleSays
  <2>2. HeldProcs(M) = [i \in 1 .. Len(M.procs) |-> HeldProc(M.procs[i])]
    BY <2>1 DEF HeldProcs
  <2> DEFINE T == {HeldProc(M.procs[i]) : i \in 1 .. Len(M.procs)}
  <2>3. HeldProcs(M) \in [1 .. Len(M.procs) -> T]
    BY <2>2
  <2>4. \A i \in 1 .. Len(M.procs) : HeldProcs(M)[i] = HeldProc(M.procs[i])
    BY <2>2
  <2> HIDE DEF T
  <2>5. HeldProcs(M) \in Seq(T) /\ Len(HeldProcs(M)) = Len(M.procs)
    BY <2>1, <2>3, ArrayIs
  <2> QED
    BY <2>4, <2>5
<1>3. /\ \E T : HeldRelocs(M) \in Seq(T)
      /\ Len(HeldRelocs(M)) = Len(M.relocs)
      /\ \A i \in 1 .. Len(M.relocs) : HeldRelocs(M)[i] = HeldReloc(M.relocs[i], M.code)
  <2>1. Len(M.relocs) \in Nat /\ DOMAIN M.relocs = 1 .. Len(M.relocs)
    BY ModuleSays
  <2>2. HeldRelocs(M) = [i \in 1 .. Len(M.relocs) |-> HeldReloc(M.relocs[i], M.code)]
    BY <2>1 DEF HeldRelocs
  <2> DEFINE T == {HeldReloc(M.relocs[i], M.code) : i \in 1 .. Len(M.relocs)}
  <2>3. HeldRelocs(M) \in [1 .. Len(M.relocs) -> T]
    BY <2>2
  <2>4. \A i \in 1 .. Len(M.relocs) : HeldRelocs(M)[i] = HeldReloc(M.relocs[i], M.code)
    BY <2>2
  <2> HIDE DEF T
  <2>5. HeldRelocs(M) \in Seq(T) /\ Len(HeldRelocs(M)) = Len(M.relocs)
    BY <2>1, <2>3, ArrayIs
  <2> QED
    BY <2>4, <2>5
<1> QED
  BY <1>1, <1>2, <1>3

Fields == {"version", "objects", "consts", "code", "procs", "relocs", "xrefs", "drels", "modinfo", "lib", "partial"}

LEMMA FieldsSay ==
  DOMAIN Nothing = Fields
  BY DEF Nothing, Fields

LEMMA JobOfSays ==
  ASSUME NEW x \in Fields
  PROVE  /\ JobOf[x] \in 2 .. 10
         /\ x = "version" <=> JobOf[x] = 2
         /\ x = "code" <=> JobOf[x] = 3
         /\ x = "relocs" <=> JobOf[x] = 4
         /\ x = "procs" <=> JobOf[x] = 5
         /\ x \in {"xrefs", "drels"} <=> JobOf[x] = 6
         /\ x = "objects" <=> JobOf[x] = 7
         /\ x = "consts" <=> JobOf[x] = 8
         /\ x = "modinfo" <=> JobOf[x] = 9
         /\ x \in {"lib", "partial"} <=> JobOf[x] = 10
  BY DEF JobOf, Fields

LEMMA HeldSays ==
  ASSUME NEW M, NEW V
  PROVE  /\ Held(M, V).version = V /\ Held(M, V).objects = Mapped(HeldObjects(M.objects, V))
         /\ Held(M, V).consts = Mapped(M.consts)
         /\ Held(M, V).code = M.code /\ Held(M, V).procs = HeldProcs(M) /\ Held(M, V).relocs = HeldRelocs(M)
         /\ Held(M, V).xrefs = M.xrefs /\ Held(M, V).drels = M.drels /\ Held(M, V).modinfo = M.modinfo
         /\ Held(M, V).partial = M.debug
  BY DEF Held, HeldProcs, HeldRelocs

LEMMA BeforeSays ==
  ASSUME NEW M, NEW V
  PROVE  /\ \A k : DOMAIN Before(M, V, k) = Fields
         /\ \A k : \A x \in Fields : Before(M, V, k)[x] = IF JobOf[x] < k THEN Held(M, V)[x] ELSE Nothing[x]
         /\ DOMAIN Nothing = Fields
         /\ Before(M, V, 2) = Nothing
         /\ Before(M, V, 3) = [Nothing EXCEPT !.version = V]
         /\ Before(M, V, 4) = [Before(M, V, 3) EXCEPT !.code = M.code]
         /\ Before(M, V, 5) = [Before(M, V, 4) EXCEPT !.relocs = HeldRelocs(M)]
         /\ Before(M, V, 6) = [Before(M, V, 5) EXCEPT !.procs = HeldProcs(M)]
         /\ Before(M, V, 7) = [Before(M, V, 6) EXCEPT !.xrefs = M.xrefs, !.drels = M.drels]
         /\ Before(M, V, 8) = [Before(M, V, 7) EXCEPT !.objects = Mapped(HeldObjects(M.objects, V))]
         /\ Before(M, V, 9) = [Before(M, V, 8) EXCEPT !.consts = Mapped(M.consts)]
         /\ Before(M, V, 10) = [Before(M, V, 9) EXCEPT !.modinfo = M.modinfo]
<1>1. DOMAIN Nothing = Fields
  BY FieldsSay
<1>2. /\ \A k : DOMAIN Before(M, V, k) = Fields
      /\ \A k : \A x \in Fields : Before(M, V, k)[x] = IF JobOf[x] < k THEN Held(M, V)[x] ELSE Nothing[x]
  BY <1>1 DEF Before
<1>3. Before(M, V, 2) = Nothing
  <2>1. \A x \in Fields : ~ (JobOf[x] < 2)
    BY JobOfSays
  <2>2. Nothing = [x \in Fields |-> Nothing[x]]
    BY <1>1 DEF Nothing
  <2> QED
    BY <1>1, <2>1, <2>2 DEF Before
<1>4. Before(M, V, 3) = [Nothing EXCEPT !.version = V]
  <2>1. \A x \in Fields : JobOf[x] < 3 <=> x = "version"
    BY JobOfSays
  <2>2. Nothing = [x \in Fields |-> Nothing[x]]
    BY <1>1 DEF Nothing
  <2>3. Held(M, V).version = V
    BY HeldSays
  <2> QED
    BY <1>1, <2>1, <2>2, <2>3 DEF Before
<1>5. Before(M, V, 4) = [Before(M, V, 3) EXCEPT !.code = M.code]
  <2>1. \A x \in Fields : JobOf[x] < 4 <=> JobOf[x] < 3 \/ x = "code"
    BY JobOfSays
  <2>2. Held(M, V).code = M.code
    BY HeldSays
  <2> QED
    BY <1>1, <2>1, <2>2, Zenon DEF Before
<1>6. Before(M, V, 5) = [Before(M, V, 4) EXCEPT !.relocs = HeldRelocs(M)]
  <2>1. \A x \in Fields : JobOf[x] < 5 <=> JobOf[x] < 4 \/ x = "relocs"
    BY JobOfSays
  <2>2. Held(M, V).relocs = HeldRelocs(M)
    BY HeldSays
  <2> QED
    BY <1>1, <2>1, <2>2, Zenon DEF Before
<1>7. Before(M, V, 6) = [Before(M, V, 5) EXCEPT !.procs = HeldProcs(M)]
  <2>1. \A x \in Fields : JobOf[x] < 6 <=> JobOf[x] < 5 \/ x = "procs"
    BY JobOfSays
  <2>2. Held(M, V).procs = HeldProcs(M)
    BY HeldSays
  <2> QED
    BY <1>1, <2>1, <2>2, Zenon DEF Before
<1>8. Before(M, V, 8) = [Before(M, V, 7) EXCEPT !.objects = Mapped(HeldObjects(M.objects, V))]
  <2>1. \A x \in Fields : JobOf[x] < 8 <=> JobOf[x] < 7 \/ x = "objects"
    BY JobOfSays
  <2>2. Held(M, V).objects = Mapped(HeldObjects(M.objects, V))
    BY HeldSays
  <2> QED
    BY <1>1, <2>1, <2>2, Zenon DEF Before
<1>9. Before(M, V, 9) = [Before(M, V, 8) EXCEPT !.consts = Mapped(M.consts)]
  <2>1. \A x \in Fields : JobOf[x] < 9 <=> JobOf[x] < 8 \/ x = "consts"
    BY JobOfSays
  <2>2. Held(M, V).consts = Mapped(M.consts)
    BY HeldSays
  <2> QED
    BY <1>1, <2>1, <2>2, Zenon DEF Before
<1>10. Before(M, V, 10) = [Before(M, V, 9) EXCEPT !.modinfo = M.modinfo]
  <2>1. \A x \in Fields : JobOf[x] < 10 <=> JobOf[x] < 9 \/ x = "modinfo"
    BY JobOfSays
  <2>2. Held(M, V).modinfo = M.modinfo
    BY HeldSays
  <2> QED
    BY <1>1, <2>1, <2>2, Zenon DEF Before
<1>11. Before(M, V, 7) = [Before(M, V, 6) EXCEPT !.xrefs = M.xrefs, !.drels = M.drels]
  <2>1. \A x \in Fields : JobOf[x] < 7 <=> JobOf[x] < 6 \/ x = "xrefs" \/ x = "drels"
    BY JobOfSays
  <2>2. Held(M, V).xrefs = M.xrefs /\ Held(M, V).drels = M.drels
    BY HeldSays
  <2> QED
    BY <1>1, <2>1, <2>2, Zenon DEF Before
<1> QED
  BY <1>1, <1>2, <1>3, <1>4, <1>5, <1>6, <1>7, <1>8, <1>9, <1>10, <1>11


\* One more entry is known.
LEMMA Grows ==
  ASSUME NEW f, NEW x \in DOMAIN f, NEW T, NEW s \in Seq(T), NEW j \in 1 .. Len(s)
  PROVE  /\ [[f EXCEPT ![x] = FirstOf(s, j - 1)] EXCEPT ![x] = Append(@, s[j])] = [f EXCEPT ![x] = FirstOf(s, j)]
         /\ [f EXCEPT ![x] = FirstOf(s, Len(s))] = [f EXCEPT ![x] = s]
  BY FirstOfSays

\* One more name is known.
LEMMA ConstsGrow ==
  ASSUME NEW f, "consts" \in DOMAIN f, NEW a, NEW b, NEW n, NEW v, b = Put(a, n, v), NEW g, g = [f EXCEPT !.consts = a]
  PROVE  [g EXCEPT !.consts = Put(@, n, v)] = [f EXCEPT !.consts = b]
<1>2. g.consts = a
  OBVIOUS
<1>3. \A c : [g EXCEPT !.consts = c] = [f EXCEPT !.consts = c]
  OBVIOUS
<1>4. Put(g.consts, n, v) = b
  BY <1>2, Zenon
<1>5. [g EXCEPT !.consts = Put(g.consts, n, v)] = [g EXCEPT !.consts = b]
  BY <1>4, Zenon
<1> QED
  BY <1>3, <1>5, Zenon

\* No entry is known.
LEMMA NoneKnown ==
  ASSUME NEW M, NEW V, NEW k \in 2 .. 10, NEW x \in Fields, JobOf[x] >= k, Nothing[x] = << >>, NEW a, a = << >>
  PROVE  [Before(M, V, k) EXCEPT ![x] = a] = Before(M, V, k)
<1>1. Before(M, V, k)[x] = a
  <2>1. JobOf[x] \in 2 .. 10
    BY JobOfSays
  <2>2. Before(M, V, k)[x] = IF JobOf[x] < k THEN Held(M, V)[x] ELSE Nothing[x]
    BY FieldsSay DEF Before
  <2> QED
    BY <2>1, <2>2
<1>2. DOMAIN Before(M, V, k) = Fields
  BY BeforeSays, Zenon
<1>3. Before(M, V, k) = [field \in DOMAIN Before(M, V, k) |-> Before(M, V, k)[field]]
  BY DEF Before
<1> QED
  BY <1>1, <1>2, <1>3

LEMMA GrowsFrom ==
  ASSUME NEW M, NEW V, NEW k \in 2 .. 10, NEW x \in Fields, JobOf[x] >= k, Nothing[x] = << >>, NEW T, NEW s \in Seq(T)
  PROVE  [Before(M, V, k) EXCEPT ![x] = FirstOf(s, 0)] = Before(M, V, k)
<1> DEFINE a == FirstOf(s, 0)
<1>1. a = << >>
  BY FirstOfSays
<1> HIDE DEF a
<1>2. [Before(M, V, k) EXCEPT ![x] = a] = Before(M, V, k)
  BY <1>1, NoneKnown
<1> QED
  BY <1>2 DEF a

-----------------------------------------------------------------------------
(* Jobs that are not there.                                                *)

LEMMA NotEmpty ==
  ASSUME NEW a \in WordSeqs, NEW b \in WordSeqs, a # << >>
  PROVE  a \o b # << >>
  BY DEF WordSeqs

LEMMA NoCode ==
  ASSUME NEW M \in Module, M.code = << >>
  PROVE  /\ M.relocs = << >> /\ M.procs = << >> /\ M.xrefs = << >> /\ M.drels = << >> /\ M.modinfo = << >>
         /\ HeldProcs(M) = << >> /\ HeldRelocs(M) = << >>
<1>1. <<M.relocs, M.procs, M.xrefs, M.drels, M.modinfo>> = << << >>, << >>, << >>, << >>, << >> >>
  BY DEF Module
<1>2. M.relocs = << >> /\ M.procs = << >> /\ M.xrefs = << >> /\ M.drels = << >> /\ M.modinfo = << >>
  BY <1>1
<1>3. HeldProcs(M) = << >>
  BY <1>2 DEF HeldProcs
<1>4. HeldRelocs(M) = << >>
  BY <1>2 DEF HeldRelocs
<1> QED
  BY <1>2, <1>3, <1>4

LEMMA Filled ==
  ASSUME NEW M \in Module, NEW V \in Nat
  PROVE  /\ M.consts # << >> => ConstJob(V, M.consts) # << >>
         /\ CodeJob(M.code) # << >> /\ ProcsJob(M.procs) # << >> /\ RelocsJob(M.relocs) # << >>
         /\ GlobsJob(V, M.xrefs, M.drels) # << >> /\ ModinfoJob(M.modinfo) # << >> /\ LastJob(M) # << >>
<1>0. \A a \in Nat : <<a>> \in WordSeqs /\ <<a>> # << >>
  BY Tuples, Zenon
<1>1. M.consts # << >> => ConstJob(V, M.consts) # << >>
  <2> DEFINE b == Flat(ConstWords(M.consts)) \o << 0 >>
             s == SizeOf(V, b)
  <2>1. b \in WordSeqs /\ s \in WordSeqs
    BY ModuleSays, ConstJobSays, SizeSays, Zenon
  <2> HIDE DEF b, s
  <2>2. << 1 >> \o s \in WordSeqs /\ << 1 >> \o s # << >>
    BY <1>0, <2>1, NotEmpty, Joins
  <2>3. (<< 1 >> \o s) \o b # << >>
    BY <2>1, <2>2, NotEmpty
  <2> QED
    BY <2>3 DEF ConstJob, b, s
<1>2. CodeJob(M.code) # << >>
  <2>1. << 3 >> \o Long(Len(M.code) \div 2) \in WordSeqs /\ << 3 >> \o Long(Len(M.code) \div 2) # << >>
    BY <1>0, ModuleSays, CodeSays, LongSays, NotEmpty, Joins, Zenon
  <2> QED
    BY <2>1, ModuleSays, NotEmpty DEF CodeJob
<1>3. ProcsJob(M.procs) # << >>
  <2>1. Flat(ProcWords(M.procs)) \o << 0 >> \in WordSeqs
    BY <1>0, ModuleSays, ProcsJobSays, Joins, Zenon
  <2> QED
    BY <1>0, <2>1, NotEmpty DEF ProcsJob
<1>4. RelocsJob(M.relocs) # << >>
  <2>1. << 7 >> \o Long(Len(M.relocs)) \in WordSeqs /\ << 7 >> \o Long(Len(M.relocs)) # << >>
    BY <1>0, ModuleSays, RelocsJobSays, LongSays, NotEmpty, Joins, Zenon
  <2> QED
    BY <2>1, ModuleSays, RelocsJobSays, NotEmpty DEF RelocsJob
<1>5. GlobsJob(V, M.xrefs, M.drels) # << >>
  <2> DEFINE s == IF V >= 10 THEN <<SkipMark, 0, 0>> ELSE << >>
             r == Flat(XrefWords(V, M.xrefs)) \o (Flat(DrelWords(V, M.drels)) \o <<End>>)
  <2>1. s \in WordSeqs /\ r \in WordSeqs
    BY <1>0, Numbers0, ModuleSays, GlobsJobSays, Joins, Zenon
  <2> HIDE DEF s, r
  <2>2. << 8 >> \o s \in WordSeqs /\ << 8 >> \o s # << >>
    BY <1>0, <2>1, NotEmpty, Joins
  <2>3. (<< 8 >> \o s) \o r # << >>
    BY <2>1, <2>2, NotEmpty
  <2> QED
    BY <2>3 DEF GlobsJob, s, r
<1>6. ModinfoJob(M.modinfo) # << >>
  <2>1. <<9, 0, 0>> \in WordSeqs /\ <<9, 0, 0>> # << >>
    BY Tuples
  <2>2. Flat(UseWords(M.modinfo)) \o << 0 >> \in WordSeqs
    BY <1>0, ModuleSays, ModinfoJobSays, Joins, Zenon
  <2> QED
    BY <2>1, <2>2, NotEmpty DEF ModinfoJob
<1>7. LastJob(M) # << >>
  <2>1. CASE M.debug
    <3>1. <<10, 1, 1>> # << >>
      BY Tuples
    <3> QED
      BY <2>1, <3>1 DEF LastJob
  <2>2. CASE ~M.debug
    <3>1. LastJob(M) = (IF M.lib = << >> THEN << >> ELSE LibJob(M.lib[1])) \o <<Done>>
      BY <2>2 DEF LastJob
    <3>2. CASE M.lib = << >>
      <4>1. << >> \o <<Done>> = <<Done>>
        BY <1>0, ConcatEmptySeq DEF WordSeqs, Done
      <4> QED
        BY <1>0, <3>1, <3>2, <4>1 DEF Done
    <3>3. CASE M.lib # << >>
      <4>1. M.lib \in Seq(Library)
        BY ModuleSays, Zenon
      <4>2. M.lib[1] \in Library
        BY <3>3, <4>1
      <4>3. LibJob(M.lib[1]) \in WordSeqs
        BY <4>2, LibrarySays
      <4> DEFINE l == LibJob(M.lib[1])
      <4>4. Len(l \o <<Done>>) = Len(l) + 1 /\ Len(l) \in Nat
        BY <1>0, <4>3, Joins, Tuples DEF Done
      <4> HIDE DEF l
      <4>5. l \o <<Done>> # << >>
        BY <4>4
      <4> QED
        BY <3>1, <3>3, <4>5 DEF l
    <3> QED
      BY <3>2, <3>3
  <2> QED
    BY <2>1, <2>2
<1> QED
  BY <1>1, <1>2, <1>3, <1>4, <1>5, <1>6, <1>7

LEMMA NothingSays ==
  /\ Nothing.consts = << >> /\ Nothing.objects = << >> /\ Nothing.code = << >> /\ Nothing.relocs = << >>
  /\ Nothing.procs = << >> /\ Nothing.xrefs = << >> /\ Nothing.drels = << >> /\ Nothing.modinfo = << >>
  /\ Nothing.lib = << >> /\ Nothing.partial = FALSE /\ Nothing.version = 0
  BY DEF Nothing

LEMMA SameBefore ==
  ASSUME NEW M, NEW V, NEW k \in 2 .. 10, \A x \in Fields : JobOf[x] = k => Held(M, V)[x] = Nothing[x]
  PROVE  Before(M, V, k + 1) = Before(M, V, k)
<1>1. ASSUME NEW x \in Fields
      PROVE  (IF JobOf[x] < k + 1 THEN Held(M, V)[x] ELSE Nothing[x]) = (IF JobOf[x] < k THEN Held(M, V)[x] ELSE Nothing[x])
  <2>1. JobOf[x] \in 2 .. 10
    BY JobOfSays
  <2> QED
    BY <2>1
<1> QED
  BY <1>1, FieldsSay DEF Before

LEMMA EmptyJob ==
  ASSUME NEW M \in Module, NEW V \in Nat, NEW k \in 3 .. 9, JobNo(M, V, k) = << >>, k = 7 => M.objects = << >>
  PROVE  Before(M, V, k + 1) = Before(M, V, k) /\ Left(M, V, k + 1) = Left(M, V, k)
<1>1. Left(M, V, k + 1) = Left(M, V, k)
  <2>1. Left(M, V, k + 1) \in WordSeqs
    <3>1. k + 1 \in 1 .. 11
      OBVIOUS
    <3> QED
      BY <3>1, LeftIs
  <2>2. << >> \o Left(M, V, k + 1) = Left(M, V, k + 1)
    BY <2>1, ConcatEmptySeq DEF WordSeqs
  <2>3. k \in 1 .. 10
    OBVIOUS
  <2> QED
    BY <2>2, <2>3, LeftIs, Zenon
<1>2. ASSUME NEW x \in Fields, JobOf[x] = k PROVE Held(M, V)[x] = Nothing[x]
  <2>1. CASE k = 8
    <3>1. M.consts = << >>
      BY <2>1, JobNos, Filled
    <3>2. x = "consts"
      BY <1>2, <2>1, JobOfSays
    <3> QED
      BY <3>1, <3>2, HeldSays, NothingSays, MappedNone
  <2>3. CASE k = 7
    <3>1. Mapped(HeldObjects(M.objects, V)) = << >>
      BY <2>3, MappedNone DEF HeldObjects
    <3>2. x = "objects"
      BY <1>2, <2>3, JobOfSays
    <3> QED
      BY <3>1, <3>2, HeldSays, NothingSays
  <2>2. CASE k # 7 /\ k # 8
    <3>1. M.code = << >>
      <4>1. \A job : job # << >> /\ CodedJob(M, job) = << >> => M.code = << >>
        BY DEF CodedJob
      <4>2. k \in {3, 4, 5, 6, 9}
        BY <2>2
      <4> QED
        BY <4>1, <4>2, JobNos, Filled
    <3>2. x \in {"code", "procs", "relocs", "xrefs", "drels", "modinfo"}
      <4>1. k \in {3, 4, 5, 6, 9}
        BY <2>2
      <4> QED
        BY <1>2, <4>1, JobOfSays
    <3>3. /\ Held(M, V).code = << >> /\ Held(M, V).procs = << >> /\ Held(M, V).relocs = << >>
          /\ Held(M, V).xrefs = << >> /\ Held(M, V).drels = << >> /\ Held(M, V).modinfo = << >>
      BY <3>1, HeldSays, NoCode
    <3> QED
      BY <3>2, <3>3, NothingSays
  <2> QED
    BY <2>1, <2>2, <2>3
<1>3. k \in 2 .. 10
  OBVIOUS
<1>4. Before(M, V, k + 1) = Before(M, V, k)
  BY <1>2, <1>3, SameBefore
<1> QED
  BY <1>1, <1>4

LEMMA NoObjects ==
  ASSUME NEW M \in Module, NEW V \in Nat, M.objects = << >>
  PROVE  JobNo(M, V, 7) = << >>
<1>1. ObjJobs(V, M.objects) = << >>
  BY DEF ObjJobs
<1>2. ObjJobs(V, M.objects) \in Seq(WordSeqs) /\ Len(ObjJobs(V, M.objects)) = 0
  <2>1. << >> \in Seq(WordSeqs) /\ Len(<< >>) = 0
    OBVIOUS
  <2> QED
    BY <1>1, <2>1, Zenon
<1>3. From(ObjJobs(V, M.objects), 0 + 1) = << >>
  BY <1>2, FromIs
<1> QED
  BY <1>3, JobNos DEF Flat

\* The next job that is there.
Present(M, V, n) == IF n = 7 THEN M.objects # << >> ELSE JobNo(M, V, n) # << >>
NextJob(M, V, k, n) == Present(M, V, n) /\ Left(M, V, n) = Left(M, V, k) /\ Before(M, V, n) = Before(M, V, k)

LEMMA NextJobs ==
  ASSUME NEW M \in Module, NEW V \in Nat
  PROVE  \A k \in 3 .. 10 : \E n \in 3 .. 10 : NextJob(M, V, k, n)
<1> DEFINE P(k) == \E n \in 3 .. 10 : NextJob(M, V, k, n)
<1>1. ASSUME NEW k \in 3 .. 9, P(k + 1) PROVE P(k)
  <2>1. CASE ~Present(M, V, k)
    <3>0. JobNo(M, V, k) = << >> /\ (k = 7 => M.objects = << >>)
      BY <2>1, NoObjects DEF Present
    <3>1. Before(M, V, k + 1) = Before(M, V, k) /\ Left(M, V, k + 1) = Left(M, V, k)
      BY <3>0, EmptyJob
    <3> QED
      BY <1>1, <3>1 DEF NextJob
  <2>2. CASE Present(M, V, k)
    BY <2>2 DEF NextJob
  <2> QED
    BY <2>1, <2>2
<1>2. P(10)
  <2>1. JobNo(M, V, 10) # << >>
    BY JobNos, Filled
  <2> QED
    BY <2>1 DEF NextJob, Present
<1> HIDE DEF P
<1>3. /\ 9 \in 3 .. 9 /\ 8 \in 3 .. 9 /\ 7 \in 3 .. 9 /\ 6 \in 3 .. 9 /\ 5 \in 3 .. 9 /\ 4 \in 3 .. 9 /\ 3 \in 3 .. 9
      /\ 9 + 1 = 10 /\ 8 + 1 = 9 /\ 7 + 1 = 8 /\ 6 + 1 = 7 /\ 5 + 1 = 6 /\ 4 + 1 = 5 /\ 3 + 1 = 4
  OBVIOUS
<1>4. P(9)
  BY <1>1, <1>2, <1>3
<1>5. P(8)
  BY <1>1, <1>4, <1>3
<1>6. P(7)
  BY <1>1, <1>5, <1>3
<1>7. P(6)
  BY <1>1, <1>6, <1>3
<1>8. P(5)
  BY <1>1, <1>7, <1>3
<1>9. P(4)
  BY <1>1, <1>8, <1>3
<1>12. P(3)
  BY <1>1, <1>9, <1>3
<1>10. \A k \in {3, 4, 5, 6, 7, 8, 9, 10} : P(k)
  BY <1>2, <1>4, <1>5, <1>6, <1>7, <1>8, <1>9, <1>12
<1>11. \A k \in 3 .. 10 : P(k)
  BY <1>10
<1> QED
  BY <1>11 DEF P

-----------------------------------------------------------------------------
(* The actions of each loop.                                               *)

LEMMA Loops ==
  /\ ConstsEnd \/ ReadConst => mode = "consts"
  /\ MembersEnd \/ ReadMember => mode = "members"
  /\ NoClass \/ Class => mode = "class"
  /\ MethodsEnd \/ ReadMethod => mode = "methods"
  /\ OaccEnd \/ ReadAccess => mode = "oacc"
  /\ ProcsEnd \/ ReadProc => mode = "procs"
  /\ ReadDefault \/ DefaultsEnd => mode = "defaults"
  /\ ReadReloc \/ RelocsEnd => mode = "relocs"
  /\ GlobsEnd \/ ReadGlob => mode = "globs"
  /\ ReadRef \/ RefsEnd => mode = "refs"
  /\ ModinfoEnd \/ ReadSubmodule => mode = "submodules"
  /\ SymbolsEnd \/ ReadSymbol => mode = "symbols"
  /\ ReadPlace \/ PlacesEnd => mode = "places"
  /\ ReadVector \/ EmptySlot \/ VectorsEnd => mode = "vectors"
  /\ Start => mode = "start"
  /\ Jobs => mode = "jobs"
  /\ FirstWordMissing => mode \in WordFirst
<1>1. ConstsEnd \/ ReadConst => mode = "consts"
  BY Zenon DEF ConstsEnd, ReadConst, Ends
<1>2. MembersEnd \/ ReadMember => mode = "members"
  BY Zenon DEF MembersEnd, ReadMember, Ends
<1>3. NoClass \/ Class => mode = "class"
  BY Zenon DEF NoClass, Class, Ends
<1>4. MethodsEnd \/ ReadMethod => mode = "methods"
  BY Zenon DEF MethodsEnd, ReadMethod, Ends
<1>5. OaccEnd \/ ReadAccess => mode = "oacc"
  BY Zenon DEF OaccEnd, ReadAccess, Ends
<1>6. ProcsEnd \/ ReadProc => mode = "procs"
  BY Zenon DEF ProcsEnd, ReadProc, Ends
<1>7. ReadDefault \/ DefaultsEnd => mode = "defaults"
  BY Zenon DEF ReadDefault, DefaultsEnd, Ends
<1>8. ReadReloc \/ RelocsEnd => mode = "relocs"
  BY Zenon DEF ReadReloc, RelocsEnd, Ends
<1>9. GlobsEnd \/ ReadGlob => mode = "globs"
  BY DEF GlobsEnd, ReadGlob, Ends
<1>10. ReadRef \/ RefsEnd => mode = "refs"
  BY Zenon DEF ReadRef, RefsEnd, Ends
<1>11. ModinfoEnd \/ ReadSubmodule => mode = "submodules"
  BY DEF ModinfoEnd, ReadSubmodule, Ends
<1>12. SymbolsEnd \/ ReadSymbol => mode = "symbols"
  BY Zenon DEF SymbolsEnd, ReadSymbol, Ends
<1>13. ReadPlace \/ PlacesEnd => mode = "places"
  BY Zenon DEF ReadPlace, PlacesEnd, Ends
<1>14. ReadVector \/ EmptySlot \/ VectorsEnd => mode = "vectors"
  BY DEF ReadVector, EmptySlot, VectorsEnd, Ends
<1>15. Start => mode = "start"
  BY DEF Start, Ends
<1>16. Jobs => mode = "jobs"
  BY Zenon DEF Jobs, AtJob, JobsEnd, UnknownJob, Sys, Consts, Obj, Code, ProcTable, Relocs, Globs, Modinfo, Lib
<1>17. FirstWordMissing => mode \in WordFirst
  BY DEF FirstWordMissing
<1> QED
  BY <1>1, <1>2, <1>3, <1>4, <1>5, <1>6, <1>7, <1>8, <1>9, <1>10, <1>11, <1>12, <1>13, <1>14, <1>15, <1>16, <1>17

LEMMA InLoop ==
  ASSUME Read
  PROVE  /\ mode = "consts" => FirstWordMissing \/ ConstsEnd \/ ReadConst
         /\ mode = "members" => FirstWordMissing \/ MembersEnd \/ ReadMember
         /\ mode = "class" => FirstWordMissing \/ NoClass \/ Class
         /\ mode = "methods" => FirstWordMissing \/ MethodsEnd \/ ReadMethod
         /\ mode = "oacc" => FirstWordMissing \/ OaccEnd \/ ReadAccess
         /\ mode = "procs" => FirstWordMissing \/ ProcsEnd \/ ReadProc
         /\ mode = "defaults" => ReadDefault \/ DefaultsEnd
         /\ mode = "relocs" => ReadReloc \/ RelocsEnd
         /\ mode = "globs" => FirstWordMissing \/ GlobsEnd \/ ReadGlob
         /\ mode = "refs" => ReadRef \/ RefsEnd
         /\ mode = "submodules" => FirstWordMissing \/ ModinfoEnd \/ ReadSubmodule
         /\ mode = "symbols" => FirstWordMissing \/ SymbolsEnd \/ ReadSymbol
         /\ mode = "places" => ReadPlace \/ PlacesEnd
         /\ mode = "vectors" => ReadVector \/ EmptySlot \/ VectorsEnd
         /\ mode = "start" => Start
         /\ mode = "jobs" => Jobs
         /\ mode \notin {"done", "error"}
  BY Loops DEF Read, Objects, CodeParts, Vectors, WordFirst

-----------------------------------------------------------------------------
(* What ends the reading of a file that was cut.                           *)

LEMMA KnownFields ==
  ASSUME NEW M, NEW V, NEW k, NEW i, NEW x, NEW a
  PROVE  /\ DOMAIN Before(M, V, k) = DOMAIN Nothing
         /\ DOMAIN [Before(M, V, k) EXCEPT ![x] = a] = DOMAIN Nothing
  BY BeforeSays, Zenon

LEMMA Thrown1 ==
  ASSUME NEW M, NEW V, NEW W, cut, DOMAIN out = DOMAIN Nothing, Throw
  PROVE  ReaderInv(M, V, W)'
<1>1. mode' = "done" /\ out' = [out EXCEPT !.partial = TRUE] /\ cut' = cut
  BY DEF Throw, source
<1>2. "partial" \in DOMAIN out
  BY FieldsSay DEF Fields
<1>3. DOMAIN out' = DOMAIN Nothing /\ out'.partial
  BY <1>1, <1>2
<1> QED
  BY <1>1, <1>3 DEF ReaderInv, DoneInv, Thrown

\* A name that is read: it is there, or nothing after it is.
LEMMA NameThere ==
  ASSUME NEW W, Begins(W), NEW i \in Nat \ {0}, NEW name \in Name, Holds(W, i, name)
  PROVE  NameAt(i, Bytes(name)) = name \/ (cut /\ ~Has(i + Len(name)))
<1>1. name \in WordSeqs /\ Len(name) \in Nat \ {0}
  BY NameSays
<1>2. NameAt(i, Bytes(name)) = WordsAt(i, Len(name))
  BY <1>1, WordsThere
<1> QED
  BY <1>1, <1>2, WordsThere

\* ... and it is there if something after it is.
LEMMA NameRead ==
  ASSUME NEW W, Begins(W), NEW i \in Nat \ {0}, NEW name \in Name, Holds(W, i, name),
         NEW n \in Nat, n >= i + Len(name), Has(n)
  PROVE  NameAt(i, Bytes(name)) = name
<1>1. Len(name) \in Nat
  BY NameSays
<1>2. Has(i + Len(name))
  BY <1>1 DEF Has, Begins
<1> QED
  BY <1>2, NameThere

LEMMA LostNext ==
  ASSUME NEW M, NEW V, NEW W, cut, UNCHANGED source, mode' \in {"consts", "members", "refs", "symbols"},
         NEW n \in Nat, o' = n, ~Has(n), DOMAIN out' = DOMAIN Nothing
  PROVE  ReaderInv(M, V, W)'
<1>1. cut' /\ file' = file
  BY DEF source
<1>2. ~Has(n)'
  BY <1>1 DEF Has
<1>3. Lost'
  BY <1>1, <1>2 DEF Lost, Has
<1> QED
  BY <1>3 DEF ReaderInv

LEMMA LostStep ==
  ASSUME NEW M, NEW V, NEW W, Begins(W), Lost, Read
  PROVE  ReaderInv(M, V, W)'
<1>1. cut /\ o \in Nat /\ ~Has(o) /\ DOMAIN out = DOMAIN Nothing /\ mode \in {"consts", "members", "refs", "symbols"}
  BY DEF Lost
<1>2. ~Has(o + 1)
  BY <1>1 DEF Has, Begins
<1>3. Throw
  <2>1. CASE mode = "consts"
    <3>1. FirstWordMissing \/ ConstsEnd \/ ReadConst
      BY <2>1, InLoop
    <3> QED
      BY <1>1, <3>1, Zenon DEF FirstWordMissing, ConstsEnd, ReadConst, Ends
  <2>2. CASE mode = "members"
    <3>1. FirstWordMissing \/ MembersEnd \/ ReadMember
      BY <2>2, InLoop
    <3> QED
      BY <1>1, <3>1, Zenon DEF FirstWordMissing, MembersEnd, ReadMember, Ends
  <2>3. CASE mode = "refs"
    <3>1. ReadRef \/ RefsEnd
      BY <2>3, InLoop
    <3> QED
      BY <1>2, <3>1 DEF ReadRef, RefsEnd, Reading
  <2>4. CASE mode = "symbols"
    <3>1. FirstWordMissing \/ SymbolsEnd \/ ReadSymbol
      BY <2>4, InLoop
    <3> QED
      BY <1>1, <3>1, Zenon DEF FirstWordMissing, SymbolsEnd, ReadSymbol, Ends
  <2> QED
    BY <1>1, <2>1, <2>2, <2>3, <2>4
<1> QED
  BY <1>1, <1>3, Thrown1

-----------------------------------------------------------------------------
(* At the next job, at the next object.                                    *)

LEMMA ObjectArrives1 ==
  ASSUME NEW M \in Module, NEW V \in Nat, NEW W, NEW i \in 1 .. Len(M.objects),
         mode' = "jobs", o' \in Nat \ {0}, Holds(W, o', ObjectsLeft(M, V, i)), out' = ObjectsOut(M, V, i - 1)
  PROVE  ReaderInv(M, V, W)'
<1>1. i \in DOMAIN M.objects
  BY ModuleSays
<1>2. ObjectAt(M, V, W, i)'
  BY DEF ObjectAt, In
<1>3. JobsInv(M, V, W)'
  BY <1>1, <1>2 DEF JobsInv
<1> QED
  BY <1>3 DEF ReaderInv

\* No object is known before the first.
LEMMA ObjectsNone ==
  ASSUME NEW M \in Module, NEW V \in Nat
  PROVE  ObjectsOut(M, V, 1 - 1) = Before(M, V, 7)
<1>1. "objects" \in Fields /\ JobOf["objects"] >= 7 /\ Nothing["objects"] = << >>
  <2>1. "objects" \in Fields
    BY DEF Fields
  <2>2. JobOf["objects"] = 7
    BY <2>1, JobOfSays
  <2> QED
    BY <2>1, <2>2, NothingSays
<1>2. ObjectsKnown(M, V, 1 - 1) = << >>
  <2>1. FirstOf(HeldObjects(M.objects, V), 0) = << >> /\ 1 - 1 = 0
    BY HeldAre, FirstOfSays
  <2> QED
    BY <2>1, MappedNone DEF ObjectsKnown
<1>3. 7 \in 2 .. 10
  OBVIOUS
<1>4. [Before(M, V, 7) EXCEPT !["objects"] = ObjectsKnown(M, V, 1 - 1)] = Before(M, V, 7)
  BY <1>1, <1>2, <1>3, NoneKnown
<1> QED
  BY <1>4 DEF ObjectsOut

LEMMA JobArrives ==
  ASSUME NEW M \in Module, NEW V \in Nat, NEW W, NEW k \in 3 .. 10,
         mode' = "jobs", o' \in Nat \ {0}, Holds(W, o', Left(M, V, k)), out' = Before(M, V, k)
  PROVE  ReaderInv(M, V, W)'
<1>1. PICK n \in 3 .. 10 : NextJob(M, V, k, n)
  BY NextJobs
<1>2. Present(M, V, n) /\ Holds(W, o', Left(M, V, n)) /\ out' = Before(M, V, n)
  BY <1>1 DEF NextJob
<1>3. CASE n # 7
  <2>1. JobAt(M, V, W, n)'
    BY <1>2 DEF JobAt, In
  <2>2. (JobNo(M, V, n) # << >>)'
    BY <1>2, <1>3 DEF Present
  <2>3. n \in (2 .. 10) \ {7}
    BY <1>3
  <2>4. JobsInv(M, V, W)'
    BY <2>1, <2>2, <2>3, Zenon DEF JobsInv
  <2> QED
    BY <2>4 DEF ReaderInv
<1>4. CASE n = 7
  <2>1. 1 \in 1 .. Len(M.objects)
    BY <1>2, <1>4, ModuleSays DEF Present
  <2>2. Holds(W, o', ObjectsLeft(M, V, 1)) /\ out' = ObjectsOut(M, V, 1 - 1)
    BY <1>2, <1>4, ObjectsLeftIs, ObjectsNone
  <2> QED
    BY <2>1, <2>2, ObjectArrives1
<1> QED
  BY <1>3, <1>4

LEMMA ObjectArrives ==
  ASSUME NEW M \in Module, NEW V \in Nat, NEW W, NEW i \in 1 .. Len(M.objects) + 1,
         mode' = "jobs", o' \in Nat \ {0}, Holds(W, o', ObjectsLeft(M, V, i)), out' = ObjectsOut(M, V, i - 1)
  PROVE  ReaderInv(M, V, W)'
<1>0. Len(M.objects) \in Nat
  BY ObjectsLeftIs
<1>1. CASE i \in 1 .. Len(M.objects)
  BY <1>1, ObjectArrives1
<1>2. CASE i = Len(M.objects) + 1
  <2>1. Holds(W, o', Left(M, V, 8))
    <3>1. ObjJobs(V, M.objects) \in Seq(WordSeqs) /\ Len(ObjJobs(V, M.objects)) = Len(M.objects)
      BY ObjectsLeftIs
    <3>2. Left(M, V, 8) \in WordSeqs
      BY LeftIs
    <3> QED
      BY <1>2, <3>1, <3>2, NoEntry DEF ObjectsLeft
  <2>2. ObjectsOut(M, V, i - 1) = Before(M, V, 8)
    <3>1. i - 1 = Len(HeldObjects(M.objects, V))
      BY <1>0, <1>2, HeldAre
    <3>2. FirstOf(HeldObjects(M.objects, V), i - 1) = HeldObjects(M.objects, V)
      BY <3>1, HeldAre, FirstOfSays
    <3>3. Before(M, V, 8) = [Before(M, V, 7) EXCEPT !.objects = Mapped(HeldObjects(M.objects, V))]
      BY BeforeSays, Zenon
    <3> QED
      BY <3>2, <3>3 DEF ObjectsOut, ObjectsKnown
  <2>3. 8 \in 3 .. 10
    OBVIOUS
  <2> QED
    BY <2>1, <2>2, <2>3, JobArrives
<1> QED
  BY <1>0, <1>1, <1>2


-----------------------------------------------------------------------------
(* The steps of each loop.                                                 *)

LEMMA FileSays ==
  ASSUME NEW M, NEW V, NEW W, FileInv(M, V, W)
  PROVE  M \in Module /\ V \in Nat /\ Begins(W) /\ Len(W) \in Nat /\ Len(file) \in Nat /\ Len(file) >= 2
  BY DEF FileInv, Begins

LEMMA WordMissing ==
  ASSUME NEW W, Begins(W), NEW i \in Nat \ {0}, i <= Len(W), ~Has(i)
  PROVE  cut
  BY WordThere

LEMMA ConstsArrive ==
  ASSUME NEW M, NEW V, NEW W, NEW j \in 1 .. Len(M.consts) + 1,
         mode' = "consts", o' \in Nat \ {0}, Holds(W, o', ConstsLeft(M, V, j)),
         out' = [Before(M, V, 8) EXCEPT !.consts = Mapped(FirstOf(M.consts, j - 1))]
  PROVE  ReaderInv(M, V, W)'
<1>1. ConstsAt(M, V, W, j)'
  BY DEF ConstsAt, In
<1> QED
  BY <1>1 DEF ReaderInv

LEMMA ConstsStep ==
  ASSUME NEW M, NEW V, NEW W, FileInv(M, V, W), NEW j \in 1 .. Len(M.consts) + 1, ConstsAt(M, V, W, j), Read
  PROVE  ReaderInv(M, V, W)'
<1>1. /\ M \in Module /\ V \in Nat /\ Begins(W) /\ Len(W) \in Nat
      /\ M.consts \in Seq(Const) /\ Len(M.consts) \in Nat
  <2>1. M \in Module /\ V \in Nat /\ Begins(W) /\ Len(W) \in Nat
    BY FileSays
  <2>2. M.consts \in Seq(Const)
    BY <2>1, ModuleSays, Zenon
  <2> QED
    BY <2>1, <2>2
<1>2. /\ mode = "consts" /\ o \in Nat \ {0} /\ Holds(W, o, From(ConstWords(M.consts), j) \o (<< 0 >> \o Left(M, V, 9)))
      /\ out = [Before(M, V, 8) EXCEPT !.consts = Mapped(FirstOf(M.consts, j - 1))]
  BY DEF ConstsAt, In, ConstsLeft
<1>3. DOMAIN out = DOMAIN Nothing
  BY <1>2, KnownFields
<1>4. FirstWordMissing \/ ConstsEnd \/ ReadConst
  BY <1>2, InLoop
<1>5. << 0 >> \o Left(M, V, 9) \in WordSeqs /\ Left(M, V, 9) \in WordSeqs
  <2>1. Left(M, V, 9) \in WordSeqs
    BY <1>1, LeftIs
  <2> QED
    BY <2>1, Tuples, Joins
<1>6. ConstWords(M.consts) \in Seq(WordSeqs) /\ Len(ConstWords(M.consts)) = Len(M.consts)
  BY <1>1, ConstEntries, Zenon
<1>7. CASE j = Len(M.consts) + 1
  <2>1. Holds(W, o, << 0 >> \o Left(M, V, 9))
    BY <1>2, <1>5, <1>6, <1>7, NoEntry
  <2>2. o <= Len(W) /\ W[o] = 0 /\ o + 1 \in Nat \ {0} /\ Holds(W, o + 1, Left(M, V, 9))
    BY <1>1, <1>2, <1>5, <2>1, OneStands
  <2>3. CASE FirstWordMissing
    <3>1. ~Has(o) /\ Throw
      BY <2>3 DEF FirstWordMissing
    <3> QED
      BY <1>1, <1>2, <1>3, <2>2, <3>1, WordMissing, Thrown1
  <2>4. CASE ConstsEnd
    <3>1. mode' = "jobs" /\ o' = o + 1 /\ out' = out
      BY <2>4 DEF ConstsEnd, Goto, Same
    <3>2. out = Before(M, V, 9)
      <4>1. j - 1 = Len(M.consts) /\ FirstOf(M.consts, Len(M.consts)) = M.consts
        BY <1>1, <1>7, FirstOfSays
      <4>2. Before(M, V, 9) = [Before(M, V, 8) EXCEPT !.consts = Mapped(M.consts)]
        BY BeforeSays, Zenon
      <4> QED
        BY <1>2, <4>1, <4>2
    <3>3. 9 \in 3 .. 10
      OBVIOUS
    <3> QED
      BY <1>1, <2>2, <3>1, <3>2, <3>3, JobArrives
  <2>5. CASE ReadConst
    <3>1. Has(o) /\ file[o] # 0
      BY <2>5 DEF ReadConst
    <3> QED
      BY <1>1, <1>2, <2>2, <3>1, WordThere
  <2> QED
    BY <1>4, <2>3, <2>4, <2>5
<1>8. CASE j \in 1 .. Len(M.consts)
  <2> DEFINE name == M.consts[j].name
             value == M.consts[j].value
             rest == From(ConstWords(M.consts), j + 1) \o (<< 0 >> \o Left(M, V, 9))
  <2>1. name \in Name /\ value \in Nat /\ M.consts[j] = [name |-> name, value |-> value]
        /\ ConstWords(M.consts)[j] = (<<Bytes(name)>> \o Long(value)) \o name
    BY <1>1, <1>8, ConstEntries, Zenon
  <2>2. Holds(W, o, ((<<Bytes(name)>> \o Long(value)) \o name) \o rest) /\ rest \in WordSeqs
    BY <1>1, <1>2, <1>5, <1>6, <1>8, <2>1, NextEntry, Zenon
  <2>3. rest = ConstsLeft(M, V, j + 1)
    BY DEF ConstsLeft
  <2>4. j + 1 \in 1 .. Len(M.consts) + 1 /\ (j + 1) - 1 = j
    BY <1>1, <1>8
  <2> HIDE DEF name, value, rest
  <2>5. /\ o <= Len(W) /\ W[o] = Bytes(name) /\ Holds(W, o + 1, Long(value)) /\ Holds(W, o + 3, name)
        /\ o + 3 + Len(name) \in Nat \ {0} /\ Holds(W, o + 3 + Len(name), rest)
    BY <1>1, <1>2, <2>1, <2>2, ConstStands, Zenon
  <2>6. Has(o) => file[o] = Bytes(name) /\ file[o] # 0 /\ file[o] \div 2 = Len(name)
    <3>1. Bytes(name) # 0 /\ Bytes(name) \div 2 = Len(name)
      BY <2>1, NameSays
    <3>2. Has(o) => file[o] = W[o]
      BY <1>1, <1>2, WordThere
    <3> QED
      BY <2>5, <3>1, <3>2, Zenon
  <2>7. CASE FirstWordMissing
    <3>1. ~Has(o) /\ Throw
      BY <2>7 DEF FirstWordMissing
    <3> QED
      BY <1>1, <1>2, <1>3, <2>5, <3>1, WordMissing, Thrown1
  <2>8. CASE ConstsEnd
    BY <2>6, <2>8 DEF ConstsEnd, Ends
  <2>9. CASE ReadConst
    <3>0. o + 1 \in Nat \ {0} /\ o + 2 \in Nat \ {0} /\ o + 3 \in Nat \ {0} /\ o + 1 + 1 = o + 2
      BY <1>2
    <3>1. o + 2 <= Len(W) /\ (Has(o + 2) => LongAt(o + 1) = value)
      BY <1>1, <2>1, <2>5, <3>0, LongThere, Zenon
    <3>2. CASE ~Has(o + 2)
      <4>1. Throw
        BY <2>9, <3>2 DEF ReadConst, Reading
      <4> QED
        BY <1>1, <1>3, <3>0, <3>1, <3>2, <4>1, WordMissing, Thrown1
    <3>3. CASE Has(o + 2)
      <4>1. /\ out' = [out EXCEPT !.consts = Put(@, NameAt(o + 3, file[o]), LongAt(o + 1))]
            /\ mode' = "consts" /\ o' = o + 3 + file[o] \div 2 /\ UNCHANGED source /\ Has(o)
        BY <2>9, <3>3 DEF ReadConst, Reading, Goto
      <4>2. o' = o + 3 + Len(name)
        BY <2>6, <4>1
      <4>3. CASE NameAt(o + 3, Bytes(name)) = name
        <5>1. out' = [out EXCEPT !.consts = Put(@, name, value)]
          BY <2>1, <2>6, <3>1, <3>3, <4>1, <4>3, Zenon
        <5>2. "consts" \in DOMAIN Before(M, V, 8)
          BY FieldsSay DEF Before, Fields
        <5>3. out' = [Before(M, V, 8) EXCEPT !.consts = Mapped(FirstOf(M.consts, j))]
          <6>1. name = M.consts[j].name /\ value = M.consts[j].value
            BY DEF name, value
          <6>2. Mapped(FirstOf(M.consts, j)) = Put(Mapped(FirstOf(M.consts, j - 1)), name, value)
            BY <1>1, <1>8, <6>1, MappedGrows
          <6>3. [out EXCEPT !.consts = Put(@, name, value)]
                = [Before(M, V, 8) EXCEPT !.consts = Mapped(FirstOf(M.consts, j))]
            BY <1>2, <5>2, <6>2, ConstsGrow, Zenon
          <6> QED
            BY <5>1, <6>3, Zenon
        <5> QED
          BY <2>2, <2>3, <2>4, <2>5, <4>1, <4>2, <5>3, ConstsArrive, Zenon
      <4>4. CASE cut /\ ~Has(o + 3 + Len(name))
        <5>1. DOMAIN out' = DOMAIN Nothing
          BY <1>3, <4>1
        <5>2. mode' \in {"consts", "members", "refs", "symbols"} /\ o + 3 + Len(name) \in Nat
          BY <2>5, <4>1
        <5> QED
          BY <4>1, <4>2, <4>4, <5>1, <5>2, LostNext
      <4> QED
        BY <1>1, <2>1, <2>5, <3>0, <4>3, <4>4, NameThere, Zenon
    <3> QED
      BY <3>2, <3>3
  <2> QED
    BY <1>4, <2>7, <2>8, <2>9
<1> QED
  BY <1>1, <1>7, <1>8


-----------------------------------------------------------------------------
(* The members of an object.                                               *)

LEMMA HeldMembersSay ==
  ASSUME NEW members \in Seq(Member)
  PROVE  /\ \E T : HeldMembers(members) \in Seq(T)
         /\ Len(HeldMembers(members)) = Len(members)
         /\ \A j \in 1 .. Len(members) :
              HeldMembers(members)[j] =
                [name |-> members[j].name, value |-> [offset |-> members[j].offset, val |-> members[j].val]]
<1>1. Len(members) \in Nat /\ DOMAIN members = 1 .. Len(members)
  OBVIOUS
<1> DEFINE h(j) == [name |-> members[j].name, value |-> [offset |-> members[j].offset, val |-> members[j].val]]
           T == {h(j) : j \in 1 .. Len(members)}
<1>2. HeldMembers(members) = [j \in 1 .. Len(members) |-> h(j)]
  BY <1>1 DEF HeldMembers
<1>3. HeldMembers(members) \in [1 .. Len(members) -> T]
  BY <1>2, Zenon
<1> HIDE DEF T
<1>4. HeldMembers(members) \in Seq(T) /\ Len(HeldMembers(members)) = Len(members)
  BY <1>1, <1>3, ArrayIs
<1> QED
  BY <1>2, <1>4, Zenon

\* One more field of a record that is being filled.
LEMMA PairChanges ==
  ASSUME NEW n, NEW a, NEW b, NEW p, p = [name |-> n, members |-> a]
  PROVE  p.members = a /\ [p EXCEPT !.members = b] = [name |-> n, members |-> b]
  OBVIOUS

LEMMA PartGrows ==
  ASSUME NEW n, NEW a, NEW b, NEW p, NEW name, NEW value, b = Put(a, name, value),
         p = [name |-> n, members |-> a]
  PROVE  [p EXCEPT !.members = Put(@, name, value)] = [name |-> n, members |-> b]
<1>2. p.members = a /\ [p EXCEPT !.members = b] = [name |-> n, members |-> b]
  BY PairChanges
<1>3. Put(p.members, name, value) = b
  BY <1>2, Zenon
<1>4. [p EXCEPT !.members = Put(p.members, name, value)] = [p EXCEPT !.members = b]
  BY <1>3, Zenon
<1> QED
  BY <1>2, <1>4

LEMMA VersionKnown ==
  ASSUME NEW M, NEW V, NEW k, k \in 3 .. 10
  PROVE  Before(M, V, k).version = V /\ "version" \in DOMAIN Before(M, V, k)
<1>1. "version" \in Fields
  BY DEF Fields
<1>2. JobOf["version"] = 2
  BY <1>1, JobOfSays
<1> QED
  BY <1>1, <1>2, FieldsSay, HeldSays DEF Before

LEMMA ObjectPartSays ==
  ASSUME NEW M, NEW V, NEW i, NEW obj
  PROVE  /\ DOMAIN ObjectPart(M, V, i, obj) = DOMAIN Nothing
         /\ ObjectPart(M, V, i, obj).version = V
         /\ ObjectPart(M, V, i, obj).objects = Put(ObjectsKnown(M, V, i - 1), M.objects[i].name, obj)
<1> DEFINE a == Put(ObjectsKnown(M, V, i - 1), M.objects[i].name, obj)
<1>1. ObjectPart(M, V, i, obj) = [Before(M, V, 7) EXCEPT !.objects = a]
  BY DEF ObjectPart
<1>2. "objects" \in DOMAIN Before(M, V, 7)
  BY FieldsSay DEF Before, Fields
<1> HIDE DEF a
<1>3. ObjectPart(M, V, i, obj).objects = a
  BY <1>1, <1>2
<1>4. ObjectPart(M, V, i, obj).version = V
  BY <1>1, VersionKnown
<1> QED
  BY <1>1, <1>3, <1>4, KnownFields DEF a

\* The object that is known as a whole.
LEMMA ObjectKnown ==
  ASSUME NEW M \in Module, NEW V \in Nat, NEW i \in 1 .. Len(M.objects)
  PROVE  ObjectPart(M, V, i, HeldObject(M.objects[i], V)) = ObjectsOut(M, V, i)
<1> DEFINE s == HeldObjects(M.objects, V)
           e == HeldObject(M.objects[i], V)
<1>1. i \in 1 .. Len(s) /\ s[i] = [name |-> M.objects[i].name, value |-> e]
  BY HeldAre
<1>2. PICK T : s \in Seq(T)
  BY HeldAre
<1> HIDE DEF s, e
<1>3. s[i].name = M.objects[i].name /\ s[i].value = e
  BY <1>1
<1>4. Mapped(FirstOf(s, i)) = Put(Mapped(FirstOf(s, i - 1)), M.objects[i].name, e)
  BY <1>1, <1>2, <1>3, MappedGrows
<1> QED
  BY <1>4 DEF ObjectPart, ObjectsOut, ObjectsKnown, s, e

LEMMA MembersArrive ==
  ASSUME NEW M \in Module, NEW V, NEW W, NEW i \in 1 .. Len(M.objects), NEW j \in 1 .. Len(M.objects[i].members) + 1,
         mode' = "members", o' \in Nat \ {0}, Holds(W, o', MembersLeft(M, V, i, j)),
         out' = ObjectsOut(M, V, i - 1),
         part' = [name |-> M.objects[i].name, members |-> Mapped(FirstOf(HeldMembers(M.objects[i].members), j - 1))]
  PROVE  ReaderInv(M, V, W)'
<1>1. MembersAt(M, V, W, i, j)'
  BY DEF MembersAt, In
<1>2. i \in DOMAIN M.objects
  BY ModuleSays
<1>3. ObjectsInv(M, V, W)'
  BY <1>1, <1>2 DEF ObjectsInv
<1> QED
  BY <1>3 DEF ReaderInv

LEMMA ClassArrives ==
  ASSUME NEW M \in Module, NEW V, NEW W, NEW i \in 1 .. Len(M.objects), V >= 7,
         mode' = "class", o' \in Nat \ {0}, Holds(W, o', ClassWords(M.objects[i]) \o ObjectsLeft(M, V, i + 1)),
         out' = ObjectPart(M, V, i, ObjectWith(M.objects[i], V, << >>, << >>, 0, 0)), part'.name = M.objects[i].name
  PROVE  ReaderInv(M, V, W)'
<1>1. ClassAt(M, V, W, i)'
  BY DEF ClassAt, In
<1>2. i \in DOMAIN M.objects
  BY ModuleSays
<1>3. ObjectsInv(M, V, W)'
  BY <1>1, <1>2 DEF ObjectsInv
<1> QED
  BY <1>3 DEF ReaderInv


LEMMA MembersStep ==
  ASSUME NEW M, NEW V, NEW W, FileInv(M, V, W), NEW i \in 1 .. Len(M.objects),
         NEW j \in 1 .. Len(M.objects[i].members) + 1, MembersAt(M, V, W, i, j), Read
  PROVE  ReaderInv(M, V, W)'
<1> DEFINE obj == M.objects[i]
           members == obj.members
           known == HeldMembers(members)
           class == IF V >= 7 THEN ClassWords(obj) ELSE << >>
           left == ObjectsLeft(M, V, i + 1)
<1>1. M \in Module /\ V \in Nat /\ Begins(W) /\ Len(W) \in Nat
  BY FileSays
<1>2. obj \in Object /\ Len(M.objects) \in Nat /\ i + 1 \in 1 .. Len(M.objects) + 1
  BY <1>1, ObjectsLeftIs
<1>3. members \in Seq(Member) /\ Len(members) \in Nat /\ obj.size \in Nat
  BY <1>2, ObjectSays
<1>4. class \in WordSeqs /\ left \in WordSeqs
  BY <1>1, <1>2, ObjBodySays, ObjectsLeftIs, Zenon
<1>5. /\ mode = "members" /\ o \in Nat \ {0}
      /\ Holds(W, o, From(MemberWords(V, members), j) \o (<<0, obj.size>> \o (class \o left)))
      /\ out = ObjectsOut(M, V, i - 1) /\ part = [name |-> obj.name, members |-> Mapped(FirstOf(known, j - 1))]
  BY DEF MembersAt, In, MembersLeft
<1>a. MembersLeft(M, V, i, j + 1) = From(MemberWords(V, members), j + 1) \o (<<0, obj.size>> \o (class \o left))
  BY DEF MembersLeft
<1>6. DOMAIN out = DOMAIN Nothing /\ out.version = V
  <2>1. out = [Before(M, V, 7) EXCEPT !.objects = ObjectsKnown(M, V, i - 1)]
    BY <1>5 DEF ObjectsOut
  <2>2. DOMAIN out = DOMAIN Nothing
    BY <2>1, KnownFields
  <2>3. Before(M, V, 7).version = V /\ "version" \in DOMAIN Before(M, V, 7)
    BY VersionKnown
  <2> QED
    BY <2>1, <2>2, <2>3
<1>7. FirstWordMissing \/ MembersEnd \/ ReadMember
  BY <1>5, InLoop
<1>8. class \o left \in WordSeqs /\ <<0, obj.size>> \o (class \o left) \in WordSeqs
  BY <1>3, <1>4, Tuples, Joins, Zenon
<1>9. MemberWords(V, members) \in Seq(WordSeqs) /\ Len(MemberWords(V, members)) = Len(members)
  BY <1>1, <1>3, MemberEntries, Zenon
<1>10. /\ Len(known) = Len(members) /\ \E T : known \in Seq(T)
       /\ \A k \in 1 .. Len(members) :
            known[k] = [name |-> members[k].name, value |-> [offset |-> members[k].offset, val |-> members[k].val]]
  BY <1>1, <1>3, HeldMembersSay, Zenon
<1>b. j \in 1 .. Len(members) + 1
  OBVIOUS
<1>c. obj.name = M.objects[i].name /\ members = M.objects[i].members
  OBVIOUS
<1>d. class = IF V >= 7 THEN ClassWords(obj) ELSE << >>
  OBVIOUS
<1>e. ObjectWith(obj, V, << >>, << >>, 0, 0)
      = [name |-> obj.name, members |-> Mapped(known), size |-> obj.size, methods |-> << >>, oacc |-> << >>, delcode |-> 0, odeloff |-> 0]
  BY DEF ObjectWith
<1>f. V < 7 => HeldObject(obj, V) = ObjectWith(obj, V, << >>, << >>, 0, 0)
  BY <1>1 DEF HeldObject, ObjectWith
<1>g. known = HeldMembers(M.objects[i].members) /\ obj = M.objects[i] /\ left = ObjectsLeft(M, V, i + 1)
  OBVIOUS
<1> HIDE DEF obj, members, known, class, left
<1>11. CASE j = Len(members) + 1
  <2>1. Holds(W, o, <<0, obj.size>> \o (class \o left))
    BY <1>5, <1>8, <1>9, <1>11, NoEntry
  <2>2. o + 1 <= Len(W) /\ W[o] = 0 /\ W[o + 1] = obj.size /\ o + 2 \in Nat \ {0} /\ Holds(W, o + 2, class \o left)
    BY <1>1, <1>3, <1>5, <1>8, <2>1, PairStands, Zenon
  <2>3. CASE FirstWordMissing
    <3>1. ~Has(o) /\ Throw
      BY <2>3 DEF FirstWordMissing
    <3>2. o <= Len(W)
      BY <1>1, <1>5, <2>2
    <3> QED
      BY <1>1, <1>5, <1>6, <3>1, <3>2, WordMissing, Thrown1
  <2>4. CASE ReadMember
    <3>1. Has(o) /\ file[o] # 0
      BY <2>4 DEF ReadMember
    <3> QED
      BY <1>1, <1>5, <2>2, <3>1, WordThere
  <2>5. CASE MembersEnd
    <3>0. o + 1 \in Nat \ {0}
      BY <1>5
    <3>1. CASE ~Has(o + 1)
      <4>1. Throw
        BY <2>5, <3>1 DEF MembersEnd, Reading
      <4> QED
        BY <1>1, <1>6, <2>2, <3>0, <3>1, <4>1, WordMissing, Thrown1
    <3>2. CASE Has(o + 1)
      <4>1. /\ out' = [out EXCEPT !.objects =
                    Put(@, part.name, [name |-> part.name, members |-> part.members, size |-> file[o + 1],
                               methods |-> << >>, oacc |-> << >>, delcode |-> 0, odeloff |-> 0])]
            /\ mode' = (IF out.version >= 7 THEN "class" ELSE "jobs") /\ o' = o + 2 /\ part' = part
        BY <2>5, <3>2 DEF MembersEnd, Reading, Goto
      <4>2. file[o + 1] = obj.size
        BY <1>1, <2>2, <3>0, <3>2, WordThere, Zenon
      <4>3. part.name = obj.name /\ part.members = Mapped(known)
        <5>1. FirstOf(known, Len(known)) = known /\ j - 1 = Len(known)
          BY <1>3, <1>10, <1>11, FirstOfSays
        <5> QED
          BY <1>5, <5>1
      <4> DEFINE w == ObjectWith(obj, V, << >>, << >>, 0, 0)
                 b3 == Before(M, V, 7)
                 s == ObjectsKnown(M, V, i - 1)
      <4>4. out' = [out EXCEPT !.objects = Put(@, obj.name, w)]
        BY <1>e, <4>1, <4>2, <4>3, Zenon
      <4>5. out = [b3 EXCEPT !.objects = s] /\ "objects" \in DOMAIN b3
        BY <1>5, FieldsSay DEF ObjectsOut, Before, Fields
      <4> HIDE DEF w, b3, s
      <4>6. out' = [b3 EXCEPT !.objects = Put(s, obj.name, w)]
        <5>1. out.objects = s
          BY <4>5
        <5>2. out' = [out EXCEPT !.objects = Put(s, obj.name, w)]
          BY <4>4, <5>1
        <5> QED
          BY <4>5, <5>2, Zenon
      <4>7. out' = ObjectPart(M, V, i, w)
        BY <1>g, <4>6 DEF ObjectPart, b3, s
      <4>8. CASE V >= 7
        <5>1. mode' = "class"
          BY <1>6, <4>1, <4>8
        <5>2. Holds(W, o', ClassWords(obj) \o left)
          BY <1>d, <2>2, <4>1, <4>8
        <5> QED
          <6>1. part'.name = M.objects[i].name
            BY <1>g, <4>1, <4>3
          <6> QED
            BY <1>1, <1>g, <2>2, <4>1, <4>7, <4>8, <5>1, <5>2, <6>1, ClassArrives, Zenon DEF w
      <4>9. CASE ~(V >= 7)
        <5>1. mode' = "jobs"
          BY <1>6, <4>1, <4>9
        <5>2. Holds(W, o', left)
          <6>1. << >> \o left = left
            BY <1>4, ConcatEmptySeq DEF WordSeqs
          <6> QED
            BY <1>d, <2>2, <4>1, <4>9, <6>1
        <5>3. out' = ObjectsOut(M, V, (i + 1) - 1)
          <6>1. w = HeldObject(obj, V)
            BY <1>1, <1>f, <4>9 DEF w
          <6>2. (i + 1) - 1 = i
            BY <1>2
          <6> QED
            BY <1>1, <1>g, <4>7, <6>1, <6>2, ObjectKnown
        <5> QED
          BY <1>1, <1>2, <1>g, <2>2, <4>1, <5>1, <5>2, <5>3, ObjectArrives, Zenon
      <4> QED
        BY <4>8, <4>9
    <3> QED
      BY <3>1, <3>2
  <2> QED
    BY <1>7, <2>3, <2>4, <2>5
<1>12. CASE j \in 1 .. Len(members)
  <2> DEFINE m == members[j]
             rest == From(MemberWords(V, members), j + 1) \o (<<0, obj.size>> \o (class \o left))
             type == m.type
  <2>1. /\ m.name \in Name /\ m.val \in Nat /\ m.offset \in Nat /\ type \in Name \cup {<< >>}
        /\ MemberWords(V, members)[j] = (<<Bytes(m.name), m.val, m.offset>> \o m.name) \o TypeWords(V, type)
    BY <1>1, <1>3, <1>12, MemberEntries, Zenon
  <2>2. Holds(W, o, ((<<Bytes(m.name), m.val, m.offset>> \o m.name) \o TypeWords(V, type)) \o rest) /\ rest \in WordSeqs
    BY <1>1, <1>5, <1>8, <1>9, <1>12, <2>1, NextEntry, Zenon
  <2>3. rest = MembersLeft(M, V, i, j + 1)
    BY <1>a, Zenon
  <2>4. j + 1 \in 1 .. Len(members) + 1 /\ (j + 1) - 1 = j
    BY <1>3, <1>12
  <2>5. known[j] = [name |-> m.name, value |-> [offset |-> m.offset, val |-> m.val]]
    BY <1>10, <1>12
  <2> HIDE DEF m, rest, type
  <2> DEFINE t == o + 3 + Len(m.name)
  <2>6. /\ o + 2 <= Len(W) /\ W[o] = Bytes(m.name) /\ W[o + 1] = m.val /\ W[o + 2] = m.offset /\ Holds(W, o + 3, m.name)
        /\ t \in Nat \ {0} /\ Holds(W, t, TypeWords(V, type) \o rest)
    BY <1>1, <1>5, <2>1, <2>2, MemberStands, Zenon
  <2>7. o <= Len(W) /\ o + 1 \in Nat \ {0} /\ o + 2 \in Nat \ {0} /\ o + 3 \in Nat \ {0}
    <3>1. o + 2 <= Len(W)
      BY <2>6
    <3> QED
      BY <1>1, <1>5, <3>1
  <2>8. Has(o) => file[o] = Bytes(m.name) /\ file[o] # 0 /\ file[o] \div 2 = Len(m.name)
    <3>1. Bytes(m.name) # 0 /\ Bytes(m.name) \div 2 = Len(m.name)
      BY <2>1, NameSays
    <3>2. Has(o) => file[o] = W[o]
      BY <1>1, <1>5, WordThere, Zenon
    <3> QED
      BY <2>6, <3>1, <3>2
  <2>9. CASE FirstWordMissing
    <3>1. ~Has(o) /\ Throw
      BY <2>9 DEF FirstWordMissing
    <3> QED
      BY <1>1, <1>5, <1>6, <2>7, <3>1, WordMissing, Thrown1, Zenon
  <2>10. CASE MembersEnd
    BY <2>8, <2>10 DEF MembersEnd, Ends
  <2>11. CASE ReadMember
    <3>1. Has(o)
      BY <2>11 DEF ReadMember
    <3>2. file[o] = Bytes(m.name) /\ o + 3 + file[o] \div 2 = t
      BY <2>8, <3>1
    <3> DEFINE add == part' = [part EXCEPT !.members =
                        Put(@, NameAt(o + 3, file[o]), [offset |-> file[o + 2], val |-> file[o + 1]])]
    <3>3. IF ~Has(o + 2) THEN Throw
          ELSE IF V < 6 THEN add /\ UNCHANGED <<source, todo, out>> /\ mode' = "members" /\ o' = t
          ELSE IF ~Has(t) THEN Throw
          ELSE IF ~IsNegative(file[t]) THEN add /\ UNCHANGED <<source, todo, out>> /\ mode' = "members" /\ o' = t + 1
          ELSE IF ~Has(t + 1) THEN Throw
          ELSE /\ add /\ mode' = "members" /\ o' = t + 2 + file[t + 1] \div 2
               /\ UNCHANGED <<source, todo, out>>
      <4> HIDE DEF t
      <4> QED
        BY <1>6, <2>11, <3>2, Zenon DEF ReadMember, Reading, Goto
    <3>4. ASSUME add, NameAt(o + 3, file[o]) = m.name, Has(o + 2)
          PROVE  part' = [name |-> obj.name, members |-> Mapped(FirstOf(known, (j + 1) - 1))]
      <4>1. file[o + 1] = m.val /\ file[o + 2] = m.offset
        <5>1. Has(o + 1)
          BY <1>1, <1>5, <3>4 DEF Has, Begins
        <5>2. file[o + 1] = W[o + 1] /\ file[o + 2] = W[o + 2]
          BY <1>1, <2>7, <3>4, <5>1, WordThere, Zenon
        <5> QED
          BY <2>6, <5>2
      <4>2. part' = [part EXCEPT !.members = Put(@, m.name, [offset |-> m.offset, val |-> m.val])]
        BY <3>4, <4>1, Zenon
      <4>3. j \in 1 .. Len(known)
        BY <1>10, <1>12
      <4> QED
        <5>1. PICK T : known \in Seq(T)
          BY <1>10
        <5> DEFINE value == [offset |-> m.offset, val |-> m.val]
        <5>2. known[j].name = m.name /\ known[j].value = value
          BY <2>5
        <5> HIDE DEF value
        <5>4. [part EXCEPT !.members = Put(@, m.name, value)]
              = [name |-> obj.name, members |-> Mapped(FirstOf(known, j))]
          <6>1. Mapped(FirstOf(known, j)) = Put(Mapped(FirstOf(known, j - 1)), m.name, value)
            BY <4>3, <5>1, <5>2, MappedGrows
          <6> QED
            BY <1>5, <6>1, PartGrows
        <5>3. [part EXCEPT !.members = Put(@, m.name, [offset |-> m.offset, val |-> m.val])]
              = [name |-> obj.name, members |-> Mapped(FirstOf(known, j))]
          BY <5>4 DEF value
        <5> QED
          BY <2>4, <4>2, <5>3
    <3> HIDE DEF t, add
    <3>5. ASSUME NEW n \in Nat, NameAt(o + 3, file[o]) = m.name, Has(o + 2),
                 add, UNCHANGED <<source, todo, out>>, mode' = "members", o' = n, n # 0,
                 Holds(W, n, rest)
          PROVE  ReaderInv(M, V, W)'
      <4>1. part' = [name |-> obj.name, members |-> Mapped(FirstOf(known, (j + 1) - 1))]
        BY <3>4, <3>5
      <4>2. out' = ObjectsOut(M, V, i - 1)
        BY <1>5, <3>5
      <4> QED
        BY <1>1, <1>g, <2>3, <2>4, <3>5, <4>1, <4>2, <1>c, MembersArrive, Zenon
    <3>6. ASSUME NEW n \in Nat, o' = n, cut, ~Has(n), UNCHANGED <<source, todo, out>>, mode' = "members"
          PROVE  ReaderInv(M, V, W)'
      <4>1. DOMAIN out' = DOMAIN Nothing /\ UNCHANGED source
        BY <1>6, <3>6
      <4> QED
        BY <3>6, <4>1, LostNext
    <3>7. ASSUME NEW n \in Nat \ {0}, n <= Len(W), ~Has(n), Throw
          PROVE  ReaderInv(M, V, W)'
      BY <1>1, <1>6, <3>7, WordMissing, Thrown1
    <3>8. NameAt(o + 3, file[o]) = m.name \/ (cut /\ ~Has(t))
      BY <1>1, <2>1, <2>6, <2>7, <3>2, NameThere, Zenon DEF t
    <3>9. CASE ~Has(o + 2)
      BY <2>6, <2>7, <3>3, <3>7, <3>9
    <3>10. CASE Has(o + 2) /\ V < 6
      <4>1. add /\ UNCHANGED <<source, todo, out>> /\ mode' = "members" /\ o' = t
        BY <3>3, <3>10
      <4>2. Holds(W, t, rest)
        BY <1>1, <2>1, <2>2, <2>6, <3>10, TypeStands, Zenon
      <4>3. t \in Nat /\ t # 0
        BY <2>6
      <4>4. CASE NameAt(o + 3, file[o]) = m.name
        BY <3>5, <3>10, <4>1, <4>2, <4>3, <4>4
      <4>5. CASE cut /\ ~Has(t)
        BY <3>6, <4>1, <4>3, <4>5
      <4> QED
        BY <3>8, <4>4, <4>5
    <3>11. CASE Has(o + 2) /\ ~(V < 6)
      <4>0. V >= 6
        BY <1>1, <3>11
      <4>1. CASE type = << >>
        <5>1. t <= Len(W) /\ W[t] = 0 /\ Holds(W, t + 1, rest)
          BY <1>1, <2>1, <2>2, <2>6, <4>0, <4>1, TypeStands
        <5>2. t + 1 \in Nat /\ t + 1 # 0 /\ t \in Nat \ {0}
          BY <2>6
        <5>3. CASE ~Has(t)
          BY <3>3, <3>7, <3>11, <5>1, <5>2, <5>3
        <5>4. CASE Has(t)
          <6>1. ~IsNegative(file[t])
            <7>1. file[t] = 0
              BY <1>1, <5>1, <5>2, <5>4, WordThere
            <7> QED
              BY <7>1, Numbers0 DEF IsNegative
          <6>2. add /\ UNCHANGED <<source, todo, out>> /\ mode' = "members" /\ o' = t + 1
            BY <3>3, <3>11, <5>4, <6>1
          <6>4. NameAt(o + 3, file[o]) = m.name
            BY <3>8, <5>4
          <6> QED
            BY <3>5, <3>11, <5>1, <5>2, <6>2, <6>4
        <5> QED
          BY <5>3, <5>4
      <4>2. CASE type # << >>
        <5>1. /\ type \in Name /\ t + 1 <= Len(W) /\ W[t] = End /\ W[t + 1] = Bytes(type) /\ Holds(W, t + 2, type)
              /\ t + 2 + Len(type) \in Nat \ {0} /\ Holds(W, t + 2 + Len(type), rest)
          BY <1>1, <2>1, <2>2, <2>6, <4>0, <4>2, TypeStands, Zenon
        <5>2. t + 1 \in Nat \ {0} /\ t + 2 \in Nat \ {0} /\ t \in Nat \ {0} /\ t <= Len(W)
          <6>1. t \in Nat \ {0} /\ t + 1 <= Len(W)
            BY <2>6, <5>1
          <6> QED
            BY <1>1, <6>1
        <5>3. CASE ~Has(t)
          BY <3>3, <3>7, <3>11, <5>2, <5>3
        <5>4. CASE Has(t)
          <6>1. IsNegative(file[t])
            <7>1. file[t] = End
              BY <1>1, <5>1, <5>2, <5>4, WordThere, Zenon
            <7> QED
              BY <7>1, Numbers0 DEF IsNegative
          <6>2. NameAt(o + 3, file[o]) = m.name
            BY <3>8, <5>4
          <6>3. CASE ~Has(t + 1)
            BY <3>3, <3>7, <3>11, <5>1, <5>2, <5>4, <6>1, <6>3
          <6>4. CASE Has(t + 1)
            <7>1. /\ add /\ mode' = "members" /\ o' = t + 2 + file[t + 1] \div 2
                  /\ UNCHANGED <<source, todo, out>>
              BY <3>3, <3>11, <5>4, <6>1, <6>4
            <7>2. file[t + 1] = Bytes(type)
              BY <1>1, <5>1, <5>2, <6>4, WordThere, Zenon
            <7>3. o' = t + 2 + Len(type)
              BY <5>1, <7>1, <7>2, NameSays, Zenon
            <7>4. t + 2 + Len(type) \in Nat /\ t + 2 + Len(type) # 0
              BY <5>1
            <7> QED
              BY <3>5, <3>11, <5>1, <6>2, <7>1, <7>3, <7>4
          <6> QED
            BY <6>3, <6>4
        <5> QED
          BY <5>3, <5>4
      <4> QED
        BY <4>1, <4>2
    <3> QED
      BY <3>9, <3>10, <3>11
  <2> QED
    BY <1>7, <2>9, <2>10, <2>11
<1> QED
  BY <1>b, <1>11, <1>12, <1>3

-----------------------------------------------------------------------------
(* The class of an object.                                                 *)

\* The object that is read changes.
LEMMA LastChanges ==
  ASSUME NEW M \in Module, NEW V \in Nat, NEW i \in 1 .. Len(M.objects), NEW x, NEW y, out = ObjectPart(M, V, i, x),
         part.name = M.objects[i].name
  PROVE  out.objects[part.name] = x /\ [out EXCEPT !.objects[part.name] = y] = ObjectPart(M, V, i, y)
<1> DEFINE known == ObjectsKnown(M, V, i - 1)
           n == M.objects[i].name
           f == Before(M, V, 7)
           a == Put(known, n, x)
           b == Put(known, n, y)
<1>1. out = [f EXCEPT !.objects = a] /\ "objects" \in DOMAIN f /\ ObjectPart(M, V, i, y) = [f EXCEPT !.objects = b]
  BY FieldsSay DEF ObjectPart, Before, Fields
<1>2. a[n] = x /\ [a EXCEPT ![n] = y] = b
  <2> HIDE DEF known, n
  <2> QED
    BY PutAgain
<1>3. part.name = n
  OBVIOUS
<1> HIDE DEF known, n, f, a, b
<1>4. out.objects = a
  BY <1>1
<1>5. [out EXCEPT !.objects = b] = [f EXCEPT !.objects = b]
  BY <1>1, Zenon
<1>6. [out EXCEPT !.objects[part.name] = y] = [out EXCEPT !.objects = b]
  BY <1>2, <1>3, <1>4, Zenon
<1> QED
  BY <1>1, <1>2, <1>3, <1>4, <1>5, <1>6

LEMMA MethodsChange ==
  ASSUME NEW obj, NEW V, NEW m, NEW a, NEW d, NEW f, NEW b, NEW x, x = ObjectWith(obj, V, m, a, d, f)
  PROVE  x.methods = m /\ [x EXCEPT !.methods = b] = ObjectWith(obj, V, b, a, d, f)
  BY DEF ObjectWith

LEMMA AccessChanges ==
  ASSUME NEW obj, NEW V, NEW m, NEW a, NEW d, NEW f, NEW b, NEW x, x = ObjectWith(obj, V, m, a, d, f)
  PROVE  x.oacc = a /\ [x EXCEPT !.oacc = b] = ObjectWith(obj, V, m, b, d, f)
  BY DEF ObjectWith

LEMMA HeldMethodsSay ==
  ASSUME NEW methods \in Seq(Method)
  PROVE  /\ \E T : HeldMethods(methods) \in Seq(T)
         /\ Len(HeldMethods(methods)) = Len(methods)
         /\ \A j \in 1 .. Len(methods) :
              HeldMethods(methods)[j] = [name |-> methods[j].name, slot |-> methods[j].slot, args |-> methods[j].args]
<1>1. Len(methods) \in Nat /\ DOMAIN methods = 1 .. Len(methods)
  OBVIOUS
<1> DEFINE h(j) == [name |-> methods[j].name, slot |-> methods[j].slot, args |-> methods[j].args]
           T == {h(j) : j \in 1 .. Len(methods)}
<1>2. HeldMethods(methods) = [j \in 1 .. Len(methods) |-> h(j)]
  BY <1>1 DEF HeldMethods
<1>3. HeldMethods(methods) \in [1 .. Len(methods) -> T]
  BY <1>2
<1> HIDE DEF T
<1>4. HeldMethods(methods) \in Seq(T) /\ Len(HeldMethods(methods)) = Len(methods)
  BY <1>1, <1>3, ArrayIs
<1> QED
  BY <1>2, <1>4, Zenon

LEMMA MethodsArrive ==
  ASSUME NEW M \in Module, NEW V, NEW W, NEW i \in 1 .. Len(M.objects), NEW j \in 1 .. Len(M.objects[i].methods) + 1,
         V >= 7, M.objects[i].methods # << >>,
         mode' = "methods", o' \in Nat \ {0}, Holds(W, o', MethodsLeft(M, V, i, j)), out' = MethodsOut(M, V, i, j),
         part'.name = M.objects[i].name
  PROVE  ReaderInv(M, V, W)'
<1>1. MethodsAt(M, V, W, i, j)'
  BY DEF MethodsAt, In
<1>2. i \in DOMAIN M.objects
  BY ModuleSays
<1>3. ObjectsInv(M, V, W)'
  BY <1>1, <1>2 DEF ObjectsInv
<1> QED
  BY <1>3 DEF ReaderInv

LEMMA AccessArrives ==
  ASSUME NEW M \in Module, NEW V, NEW W, NEW i \in 1 .. Len(M.objects), NEW j \in 1 .. Len(M.objects[i].oacc) + 1,
         V >= 7, M.objects[i].methods # << >>,
         mode' = "oacc", o' \in Nat \ {0}, Holds(W, o', AccessLeft(M, V, i, j)), out' = AccessOut(M, V, i, j),
         part'.name = M.objects[i].name
  PROVE  ReaderInv(M, V, W)'
<1>1. OaccAt(M, V, W, i, j)'
  BY DEF OaccAt, In
<1>2. i \in DOMAIN M.objects
  BY ModuleSays
<1>3. ObjectsInv(M, V, W)'
  BY <1>1, <1>2 DEF ObjectsInv
<1> QED
  BY <1>3 DEF ReaderInv

LEMMA ClassStep ==
  ASSUME NEW M, NEW V, NEW W, FileInv(M, V, W), NEW i \in 1 .. Len(M.objects), ClassAt(M, V, W, i), Read
  PROVE  ReaderInv(M, V, W)'
<1> DEFINE obj == M.objects[i]
           left == ObjectsLeft(M, V, i + 1)
           x == ObjectWith(obj, V, << >>, << >>, 0, 0)
<1>1. M \in Module /\ V \in Nat /\ Begins(W) /\ Len(W) \in Nat
  BY FileSays
<1>2. obj \in Object /\ Len(M.objects) \in Nat /\ i + 1 \in 1 .. Len(M.objects) + 1 /\ (i + 1) - 1 = i
  BY <1>1, ObjectsLeftIs
<1>3. left \in WordSeqs
  BY <1>1, <1>2, ObjectsLeftIs
<1>4. /\ V >= 7 /\ mode = "class" /\ o \in Nat \ {0} /\ Holds(W, o, ClassWords(obj) \o left)
      /\ out = ObjectPart(M, V, i, x) /\ part.name = M.objects[i].name
  BY DEF ClassAt, In
<1>5. DOMAIN out = DOMAIN Nothing
  BY <1>4, ObjectPartSays
<1>6. FirstWordMissing \/ NoClass \/ Class
  BY <1>4, InLoop
<1>7. obj = M.objects[i] /\ left = ObjectsLeft(M, V, i + 1) /\ x = ObjectWith(obj, V, << >>, << >>, 0, 0)
  OBVIOUS
<1> HIDE DEF obj, left, x
<1>8. CASE obj.methods = << >>
  <2>1. Holds(W, o, << 0 >> \o left)
    BY <1>4, <1>8 DEF ClassWords
  <2>2. o <= Len(W) /\ W[o] = 0 /\ o + 1 \in Nat \ {0} /\ Holds(W, o + 1, left)
    BY <1>1, <1>3, <1>4, <2>1, OneStands
  <2>3. CASE FirstWordMissing
    <3>1. ~Has(o) /\ Throw
      BY <2>3 DEF FirstWordMissing
    <3> QED
      BY <1>1, <1>4, <1>5, <2>2, <3>1, WordMissing, Thrown1
  <2>4. CASE NoClass
    <3>1. mode' = "jobs" /\ o' = o + 1 /\ out' = out
      BY <2>4 DEF NoClass, Goto, Same
    <3>2. x = HeldObject(obj, V)
      BY <1>7, <1>8 DEF ObjectWith, HeldObject
    <3>3. out' = ObjectsOut(M, V, (i + 1) - 1)
      BY <1>1, <1>2, <1>4, <1>7, <3>1, <3>2, ObjectKnown
    <3> QED
      BY <1>1, <1>2, <1>7, <2>2, <3>1, <3>3, ObjectArrives
  <2>5. CASE Class
    <3>1. Has(o) /\ file[o] # 0
      BY <2>5 DEF Class
    <3> QED
      BY <1>1, <1>4, <2>2, <3>1, WordThere
  <2> QED
    BY <1>6, <2>3, <2>4, <2>5
<1>9. CASE obj.methods # << >>
  <2> DEFINE m == Flat(MethodWords(obj.methods))
             a == Flat(AccessWords(obj.oacc))
  <2>1. PICK count \in Nat : count = 4 * Len(obj.methods) + 4 /\ count # 0
    BY <1>2, ObjectSays
  <2>2. m \in WordSeqs /\ a \in WordSeqs
    BY <1>2, ObjectSays, MethodEntries, AccessEntries, FlatIs
  <2>3. obj.delcode \in Nat /\ obj.odeloff \in Nat /\ obj.methods \in Seq(Method) /\ Len(obj.methods) \in Nat
    BY <1>2, ObjectSays
  <2>4. Holds(W, o, (((<<count>> \o Long(obj.delcode)) \o <<0, obj.odeloff, 0>>) \o ((m \o <<End>>) \o (a \o <<End>>))) \o left)
    BY <1>4, <1>9, <2>1 DEF ClassWords
  <2>5. MethodsLeft(M, V, i, 1) = m \o (<<End>> \o (a \o (<<End>> \o left)))
    BY <1>7 DEF MethodsLeft, AccessLeft, Flat
  <2> HIDE DEF m, a
  <2>6. /\ o <= Len(W) /\ W[o] = count /\ Holds(W, o + 1, Long(obj.delcode)) /\ o + 3 + 2 <= Len(W)
        /\ W[o + 3 + 1] = obj.odeloff
        /\ o + 6 \in Nat \ {0} /\ Holds(W, o + 6, m \o (<<End>> \o (a \o (<<End>> \o left))))
    <3>1. Len(W) \in Nat /\ o \in Nat \ {0} /\ obj.delcode \in Nat /\ obj.odeloff \in Nat /\ count \in Nat
      BY <1>1, <1>4, <2>1, <2>3
    <3> QED
      BY <1>3, <2>2, <2>4, <3>1, ClassStands, SMTT(60)
  <2>7. CASE FirstWordMissing
    <3>1. ~Has(o) /\ Throw
      BY <2>7 DEF FirstWordMissing
    <3> QED
      BY <1>1, <1>4, <1>5, <2>6, <3>1, WordMissing, Thrown1
  <2>8. CASE NoClass
    <3>1. Has(o) /\ file[o] = 0
      BY <2>8 DEF NoClass, Ends
    <3> QED
      BY <1>1, <1>4, <2>1, <2>6, <3>1, WordThere
  <2>9. CASE Class
    <3>0. /\ o + 1 \in Nat \ {0} /\ o + 4 \in Nat \ {0} /\ o + 5 \in Nat \ {0} /\ o + 5 <= Len(W)
          /\ W[o + 4] = obj.odeloff
      <4>1. o \in Nat \ {0}
        BY <1>4
      <4>2. o + 3 + 2 <= Len(W) /\ W[o + 3 + 1] = obj.odeloff
        BY <2>6
      <4>3. o + 1 \in Nat \ {0} /\ o + 4 \in Nat \ {0} /\ o + 5 \in Nat \ {0} /\ o + 3 + 2 = o + 5 /\ o + 3 + 1 = o + 4
        BY <4>1
      <4> QED
        BY <4>2, <4>3
    <3>1. CASE ~Has(o + 5)
      <4>1. Throw
        BY <2>9, <3>1 DEF Class, Reading
      <4> QED
        BY <1>1, <1>5, <3>0, <3>1, <4>1, WordMissing, Thrown1
    <3>2. CASE Has(o + 5)
      <4>1. Has(o + 4) /\ Has(o + 1 + 1)
        BY <1>1, <1>4, <3>2 DEF Has, Begins
      <4>2. LongAt(o + 1) = obj.delcode
        BY <1>1, <2>3, <2>6, <3>0, <4>1, LongThere, Zenon
      <4>3. file[o + 4] = obj.odeloff
        BY <1>1, <3>0, <4>1, WordThere, Zenon
      <4>4. /\ out' = [out EXCEPT !.objects[part.name] = [@ EXCEPT !.delcode = LongAt(o + 1), !.odeloff = file[o + 4]]]
            /\ mode' = "methods" /\ o' = o + 6 /\ part' = part
        BY <2>9, <3>2 DEF Class, Reading, Goto
      <4> DEFINE y == ObjectWith(obj, V, << >>, << >>, obj.delcode, obj.odeloff)
      <4>5. [out.objects[part.name] EXCEPT !.delcode = LongAt(o + 1), !.odeloff = file[o + 4]] = y
        <5>1. out.objects[part.name] = x
          BY <1>1, <1>4, LastChanges
        <5>2. [x EXCEPT !.delcode = obj.delcode, !.odeloff = obj.odeloff] = y
          <6>1. [ObjectWith(obj, V, << >>, << >>, 0, 0) EXCEPT !.delcode = obj.delcode, !.odeloff = obj.odeloff] = y
            <7>1. [ObjectWith(obj, V, << >>, << >>, 0, 0) EXCEPT !.delcode = obj.delcode]
                  = ObjectWith(obj, V, << >>, << >>, obj.delcode, 0)
              BY DEF ObjectWith
            <7>2. [ObjectWith(obj, V, << >>, << >>, obj.delcode, 0) EXCEPT !.odeloff = obj.odeloff]
                  = ObjectWith(obj, V, << >>, << >>, obj.delcode, obj.odeloff)
              BY DEF ObjectWith
            <7> QED
              BY <7>1, <7>2, Zenon
          <6> QED
            BY <1>7, <6>1
        <5> QED
          BY <4>2, <4>3, <5>1, <5>2, Zenon
      <4>6. out' = ObjectPart(M, V, i, y)
        <5> HIDE DEF y
        <5>1. out' = [out EXCEPT !.objects[part.name] = y]
          BY <4>4, <4>5
        <5> QED
          BY <1>1, <1>4, <5>1, LastChanges
      <4>7. FirstOf(HeldMethods(obj.methods), 1 - 1) = << >>
        <5>1. 1 - 1 = 0
          OBVIOUS
        <5> QED
          BY <2>3, <5>1, HeldMethodsSay, FirstOfSays
      <4>8. out' = MethodsOut(M, V, i, 1)
        BY <1>7, <4>6, <4>7 DEF MethodsOut
      <4>9. 1 \in 1 .. Len(obj.methods) + 1
        BY <2>3
      <4> QED
        <5>1. 1 \in 1 .. Len(M.objects[i].methods) + 1 /\ M.objects[i].methods # << >>
          BY <1>7, <1>9, <4>9
        <5>2. /\ Holds(W, o', MethodsLeft(M, V, i, 1)) /\ o' \in Nat \ {0} /\ mode' = "methods"
              /\ part'.name = M.objects[i].name
          BY <1>4, <2>5, <2>6, <4>4, Zenon
        <5> QED
          BY <1>1, <1>4, <4>8, <5>1, <5>2, MethodsArrive
    <3> QED
      BY <3>1, <3>2
  <2> QED
    BY <1>6, <2>7, <2>8, <2>9
<1> QED
  BY <1>8, <1>9


LEMMA MethodEnds ==
  ASSUME NEW a \in Nat, NEW b \in Nat, NEW c \in Nat
  PROVE  a + 3 + b + 2 + c = a + 5 + b + c
  OBVIOUS

LEMMA MethodsStep ==
  ASSUME NEW M, NEW V, NEW W, FileInv(M, V, W), NEW i \in 1 .. Len(M.objects),
         NEW j \in 1 .. Len(M.objects[i].methods) + 1, MethodsAt(M, V, W, i, j), Read
  PROVE  ReaderInv(M, V, W)'
<1> DEFINE obj == M.objects[i]
           methods == obj.methods
           known == HeldMethods(methods)
           next == AccessLeft(M, V, i, 1)
           x == ObjectWith(obj, V, FirstOf(known, j - 1), << >>, obj.delcode, obj.odeloff)
<1>1. M \in Module /\ V \in Nat /\ Begins(W) /\ Len(W) \in Nat
  BY FileSays
<1>2. obj \in Object /\ Len(M.objects) \in Nat /\ i + 1 \in 1 .. Len(M.objects) + 1
  BY <1>1, ObjectsLeftIs
<1>3. methods \in Seq(Method) /\ Len(methods) \in Nat /\ obj.oacc \in Seq(LongWord) /\ Len(obj.oacc) \in Nat
  BY <1>2, ObjectSays
<1>4. next \in WordSeqs /\ <<End>> \o next \in WordSeqs
  <2>1. From(AccessWords(obj.oacc), 1) \in WordSeqs
    BY <1>3, AccessEntries, FlatIs DEF Flat
  <2>2. ObjectsLeft(M, V, i + 1) \in WordSeqs /\ <<End>> \in WordSeqs
    BY <1>1, <1>2, ObjectsLeftIs, Numbers0, Tuples, Zenon
  <2>3. next \in WordSeqs
    BY <2>1, <2>2, Joins DEF AccessLeft
  <2> QED
    BY <2>2, <2>3, Joins
<1>5. /\ V >= 7 /\ methods # << >> /\ mode = "methods" /\ o \in Nat \ {0}
      /\ Holds(W, o, From(MethodWords(methods), j) \o (<<End>> \o next))
      /\ out = ObjectPart(M, V, i, x) /\ part.name = M.objects[i].name
  BY DEF MethodsAt, In, MethodsLeft, MethodsOut
<1>6. DOMAIN out = DOMAIN Nothing
  BY <1>5, ObjectPartSays
<1>7. FirstWordMissing \/ MethodsEnd \/ ReadMethod
  BY <1>5, InLoop
<1>8. MethodWords(methods) \in Seq(WordSeqs) /\ Len(MethodWords(methods)) = Len(methods)
  BY <1>3, MethodEntries
<1>9. /\ Len(known) = Len(methods)
      /\ \A k \in 1 .. Len(methods) :
           known[k] = [name |-> methods[k].name, slot |-> methods[k].slot, args |-> methods[k].args]
  BY <1>3, HeldMethodsSay, Zenon
<1>10. PICK T : known \in Seq(T)
  BY <1>3, HeldMethodsSay
<1>b. j \in 1 .. Len(methods) + 1
  OBVIOUS
<1>c. /\ known = HeldMethods(M.objects[i].methods) /\ methods = M.objects[i].methods /\ obj = M.objects[i]
      /\ next = AccessLeft(M, V, i, 1)
      /\ MethodsLeft(M, V, i, j + 1) = From(MethodWords(methods), j + 1) \o (<<End>> \o next)
  BY DEF MethodsLeft
<1>d. x = ObjectWith(obj, V, FirstOf(known, j - 1), << >>, obj.delcode, obj.odeloff)
  OBVIOUS
<1> HIDE DEF obj, methods, known, next, x
<1>11. CASE j = Len(methods) + 1
  <2>1. Holds(W, o, <<End>> \o next)
    BY <1>4, <1>5, <1>8, <1>11, NoEntry
  <2>2. o <= Len(W) /\ W[o] = End /\ o + 1 \in Nat \ {0} /\ Holds(W, o + 1, next)
    BY <1>1, <1>4, <1>5, <2>1, Numbers0, OneStands
  <2>3. CASE FirstWordMissing
    <3>1. ~Has(o) /\ Throw
      BY <2>3 DEF FirstWordMissing
    <3> QED
      BY <1>1, <1>5, <1>6, <2>2, <3>1, WordMissing, Thrown1
  <2>4. CASE ReadMethod
    <3>1. Has(o) /\ file[o] # End
      BY <2>4 DEF ReadMethod
    <3> QED
      BY <1>1, <1>5, <2>2, <3>1, WordThere
  <2>5. CASE MethodsEnd
    <3>1. mode' = "oacc" /\ o' = o + 1 /\ out' = out /\ part' = part
      BY <2>5 DEF MethodsEnd, Goto, Same
    <3>2. FirstOf(known, j - 1) = known
      <4>1. j - 1 = Len(known)
        BY <1>3, <1>9, <1>11
      <4> QED
        BY <1>10, <4>1, FirstOfSays
    <3>3. FirstOf(M.objects[i].oacc, 1 - 1) = << >>
      <4>1. 1 - 1 = 0
        OBVIOUS
      <4> QED
        BY <1>3, <1>c, <4>1, FirstOfSays
    <3>4. out' = AccessOut(M, V, i, 1)
      BY <1>5, <1>c, <1>d, <3>1, <3>2, <3>3 DEF AccessOut
    <3>5. 1 \in 1 .. Len(M.objects[i].oacc) + 1 /\ M.objects[i].methods # << >>
      BY <1>3, <1>5, <1>c
    <3>6. Holds(W, o', AccessLeft(M, V, i, 1)) /\ o' \in Nat \ {0} /\ part'.name = M.objects[i].name
      BY <1>5, <1>c, <2>2, <3>1
    <3> QED
      BY <1>1, <1>5, <3>1, <3>4, <3>5, <3>6, AccessArrives, Zenon
  <2> QED
    BY <1>7, <2>3, <2>4, <2>5
<1>12. CASE j \in 1 .. Len(methods)
  <2> DEFINE m == methods[j]
             rest == From(MethodWords(methods), j + 1) \o (<<End>> \o next)
             n == Len(m.name)
             d == Len(Flat(LongsOf(m.defaults)))
  <2>1. /\ m.name \in Name /\ m.slot \in Nat /\ m.args \in Nat /\ m.defaults \in Seq(LongWord)
        /\ MethodWords(methods)[j] = ((<<1, m.slot>> \o Named(m.name)) \o <<m.args, Len(m.defaults)>>) \o Flat(LongsOf(m.defaults))
    BY <1>3, <1>12, MethodEntries, Zenon
  <2>2. /\ Holds(W, o, (((<<1, m.slot>> \o Named(m.name)) \o <<m.args, Len(m.defaults)>>) \o Flat(LongsOf(m.defaults))) \o rest)
        /\ rest \in WordSeqs
    BY <1>1, <1>4, <1>5, <1>8, <1>12, <2>1, NextEntry, Zenon
  <2>3. rest = MethodsLeft(M, V, i, j + 1)
    BY <1>c, Zenon
  <2>4. j + 1 \in 1 .. Len(methods) + 1 /\ (j + 1) - 1 = j
    BY <1>3, <1>12
  <2>5. known[j] = [name |-> m.name, slot |-> m.slot, args |-> m.args]
    BY <1>9, <1>12
  <2>a. n \in Nat /\ d = 2 * Len(m.defaults) /\ Len(m.defaults) \in Nat
    BY <2>1, NameSays, LongsSay, Zenon
  <2> HIDE DEF m, rest
  <2>6. /\ o + 2 <= Len(W) /\ W[o] = 1 /\ W[o + 1] = m.slot /\ W[o + 2] = Bytes(m.name) /\ Holds(W, o + 3, m.name)
        /\ o + 3 + n \in Nat \ {0} /\ o + 3 + n + 1 <= Len(W)
        /\ W[o + 3 + n] = m.args /\ W[o + 3 + n + 1] = Len(m.defaults)
        /\ o + 5 + n + d \in Nat \ {0} /\ Holds(W, o + 5 + n + d, rest)
    <3>1. Len(W) \in Nat /\ o \in Nat \ {0} /\ m.slot \in Nat /\ m.name \in Name /\ m.args \in Nat /\ m.defaults \in Seq(LongWord)
      BY <1>1, <1>5, <2>1
    <3> QED
      BY <2>2, <3>1, MethodStands, ZenonT(60)
  <2> HIDE DEF n, d
  <2>7. o <= Len(W) /\ o + 1 \in Nat \ {0} /\ o + 2 \in Nat \ {0} /\ o + 3 \in Nat \ {0} /\ o + 3 + n + 1 \in Nat \ {0}
    <3>1. o + 2 <= Len(W)
      BY <2>6
    <3> QED
      BY <1>1, <1>5, <2>a, <3>1
  <2>8. Has(o) => file[o] # End
    <3>1. Has(o) => file[o] = W[o]
      BY <1>1, <1>5, WordThere, Zenon
    <3> QED
      BY <2>6, <3>1, Numbers0
  <2>9. CASE FirstWordMissing
    <3>1. ~Has(o) /\ Throw
      BY <2>9 DEF FirstWordMissing
    <3> QED
      BY <1>1, <1>5, <1>6, <2>7, <3>1, WordMissing, Thrown1, Zenon
  <2>10. CASE MethodsEnd
    BY <2>8, <2>10 DEF MethodsEnd, Ends
  <2>11. CASE ReadMethod
    <3>1. CASE ~Has(o + 2)
      <4>1. Throw
        BY <2>11, <3>1 DEF ReadMethod, Reading
      <4> QED
        BY <1>1, <1>6, <2>6, <2>7, <3>1, <4>1, WordMissing, Thrown1, Zenon
    <3>2. CASE Has(o + 2)
      <4>1. Has(o + 1) /\ file[o + 2] = Bytes(m.name) /\ file[o + 1] = m.slot
        <5>1. Has(o + 1)
          BY <1>1, <1>5, <3>2 DEF Has, Begins
        <5> QED
          BY <1>1, <2>6, <2>7, <3>2, <5>1, WordThere, Zenon
      <4>2. o + 3 + file[o + 2] \div 2 = o + 3 + n
        <5>1. Bytes(m.name) \div 2 = n
          BY <2>1, NameSays, Zenon DEF n
        <5> QED
          BY <4>1, <5>1
      <4>3. IF ~Has(o + 3 + n + 1) THEN Throw
            ELSE /\ out' = [out EXCEPT !.objects[part.name].methods =
                           Append(@, [name |-> NameAt(o + 3, file[o + 2]), slot |-> file[o + 1],
                                      args |-> file[o + 3 + n]])]
                 /\ mode' = "methods" /\ o' = o + 3 + n + 2 + 2 * file[o + 3 + n + 1] /\ part' = part
        BY <2>11, <3>2, <4>2 DEF ReadMethod, Reading, Goto
      <4>4. CASE ~Has(o + 3 + n + 1)
        BY <1>1, <1>6, <2>6, <2>7, <4>3, <4>4, WordMissing, Thrown1, Zenon
      <4>5. CASE Has(o + 3 + n + 1)
        <5>1. Has(o + 3 + n)
          <6>1. o + 3 + n \in Int
            BY <2>6
          <6> QED
            BY <1>1, <4>5, <6>1 DEF Has, Begins
        <5>2. file[o + 3 + n] = m.args /\ file[o + 3 + n + 1] = Len(m.defaults)
          BY <1>1, <2>6, <2>7, <4>5, <5>1, WordThere, Zenon
        <5>3. NameAt(o + 3, file[o + 2]) = m.name
          BY <1>1, <2>1, <2>6, <2>7, <4>1, <5>1, NameThere, Zenon DEF n
        <5> DEFINE e == known[j]
                   z == [out.objects[part.name] EXCEPT !.methods = Append(@, e)]
        <5>4. out' = [out EXCEPT !.objects[part.name] = z]
          <6>1. e = [name |-> NameAt(o + 3, file[o + 2]), slot |-> file[o + 1], args |-> file[o + 3 + n]]
            BY <2>5, <4>1, <5>2, <5>3
          <6> HIDE DEF e
          <6> QED
            BY <4>3, <4>5, <6>1
        <5> DEFINE b == FirstOf(known, j)
                   y == ObjectWith(obj, V, b, << >>, obj.delcode, obj.odeloff)
        <5>5. b = Append(FirstOf(known, j - 1), e)
          BY <1>9, <1>10, <1>12, FirstOfSays
        <5> HIDE DEF b, e
        <5>6. x.methods = FirstOf(known, j - 1) /\ [x EXCEPT !.methods = b] = y
          BY <1>d, MethodsChange
        <5>7. out.objects[part.name] = x
          BY <1>1, <1>5, LastChanges
        <5>8. z = y
          BY <5>5, <5>6, <5>7, Zenon
        <5>9. out' = ObjectPart(M, V, i, y)
          <6> HIDE DEF y, z
          <6>1. out' = [out EXCEPT !.objects[part.name] = y]
            BY <5>4, <5>8
          <6> QED
            BY <1>1, <1>5, <6>1, LastChanges
        <5>10. out' = MethodsOut(M, V, i, j + 1)
          BY <1>c, <2>4, <5>9 DEF MethodsOut, b
        <5>11. o' = o + 5 + n + d /\ mode' = "methods"
          <6>1. o' = o + 3 + n + 2 + 2 * Len(m.defaults) /\ mode' = "methods"
            BY <4>3, <4>5, <5>2
          <6>2. d = 2 * Len(m.defaults) /\ d \in Nat /\ n \in Nat /\ o \in Nat
            BY <1>5, <2>a
          <6>3. o' = o + 3 + n + 2 + d
            BY <6>1, <6>2
          <6>4. o + 3 + n + 2 + d = o + 5 + n + d
            BY <6>2, MethodEnds, Zenon
          <6> QED
            BY <6>1, <6>3, <6>4
        <5>12. Holds(W, o', MethodsLeft(M, V, i, j + 1)) /\ o' \in Nat \ {0} /\ part'.name = M.objects[i].name
          BY <1>5, <2>3, <2>6, <4>3, <4>5, <5>11
        <5>13. j + 1 \in 1 .. Len(M.objects[i].methods) + 1 /\ M.objects[i].methods # << >>
          BY <1>5, <1>c, <2>4
        <5> QED
          BY <1>1, <1>5, <5>10, <5>11, <5>12, <5>13, MethodsArrive, Zenon
      <4> QED
        BY <4>4, <4>5
    <3> QED
      BY <3>1, <3>2
  <2> QED
    BY <1>7, <2>9, <2>10, <2>11
<1> QED
  BY <1>b, <1>11, <1>12, <1>3

LEMMA AccessStep ==
  ASSUME NEW M, NEW V, NEW W, FileInv(M, V, W), NEW i \in 1 .. Len(M.objects),
         NEW j \in 1 .. Len(M.objects[i].oacc) + 1, OaccAt(M, V, W, i, j), Read
  PROVE  ReaderInv(M, V, W)'
<1> DEFINE obj == M.objects[i]
           oacc == obj.oacc
           known == HeldMethods(obj.methods)
           next == ObjectsLeft(M, V, i + 1)
           x == ObjectWith(obj, V, known, FirstOf(oacc, j - 1), obj.delcode, obj.odeloff)
<1>1. M \in Module /\ V \in Nat /\ Begins(W) /\ Len(W) \in Nat
  BY FileSays
<1>2. obj \in Object /\ Len(M.objects) \in Nat /\ i + 1 \in 1 .. Len(M.objects) + 1 /\ (i + 1) - 1 = i
  BY <1>1, ObjectsLeftIs
<1>3. oacc \in Seq(LongWord) /\ Len(oacc) \in Nat
  BY <1>2, ObjectSays
<1>4. next \in WordSeqs /\ <<End>> \o next \in WordSeqs
  <2>1. next \in WordSeqs /\ <<End>> \in WordSeqs
    BY <1>1, <1>2, ObjectsLeftIs, Numbers0, Tuples, Zenon
  <2> QED
    BY <2>1, Joins
<1>5. /\ V >= 7 /\ obj.methods # << >> /\ mode = "oacc" /\ o \in Nat \ {0}
      /\ Holds(W, o, From(AccessWords(oacc), j) \o (<<End>> \o next))
      /\ out = ObjectPart(M, V, i, x) /\ part.name = M.objects[i].name
  BY DEF OaccAt, In, AccessLeft, AccessOut
<1>6. DOMAIN out = DOMAIN Nothing
  BY <1>5, ObjectPartSays
<1>7. FirstWordMissing \/ OaccEnd \/ ReadAccess
  BY <1>5, InLoop DEF WordFirst
<1>8. AccessWords(oacc) \in Seq(WordSeqs) /\ Len(AccessWords(oacc)) = Len(oacc)
  BY <1>3, AccessEntries
<1>b. j \in 1 .. Len(oacc) + 1
  OBVIOUS
<1>c. /\ known = HeldMethods(M.objects[i].methods) /\ oacc = M.objects[i].oacc /\ obj = M.objects[i]
      /\ next = ObjectsLeft(M, V, i + 1)
      /\ AccessLeft(M, V, i, j + 1) = From(AccessWords(oacc), j + 1) \o (<<End>> \o next)
  BY DEF AccessLeft
<1>d. x = ObjectWith(obj, V, known, FirstOf(oacc, j - 1), obj.delcode, obj.odeloff)
  OBVIOUS
<1>e. HeldObject(obj, V) = ObjectWith(obj, V, known, oacc, obj.delcode, obj.odeloff)
  BY <1>5 DEF HeldObject, ObjectWith
<1> HIDE DEF obj, oacc, known, next, x
<1>11. CASE j = Len(oacc) + 1
  <2>1. Holds(W, o, <<End>> \o next)
    BY <1>4, <1>5, <1>8, <1>11, NoEntry
  <2>2. o <= Len(W) /\ W[o] = End /\ o + 1 \in Nat \ {0} /\ Holds(W, o + 1, next)
    <3>1. End \in Nat
      BY Numbers0
    <3> QED
      BY <1>1, <1>4, <1>5, <2>1, <3>1, OneStands
  <2>3. CASE FirstWordMissing
    <3>1. ~Has(o) /\ Throw
      BY <2>3 DEF FirstWordMissing
    <3> QED
      BY <1>1, <1>5, <1>6, <2>2, <3>1, WordMissing, Thrown1
  <2>4. CASE ReadAccess
    <3>1. Has(o) /\ file[o] # End
      BY <2>4 DEF ReadAccess
    <3> QED
      BY <1>1, <1>5, <2>2, <3>1, WordThere
  <2>5. CASE OaccEnd
    <3>1. mode' = "jobs" /\ o' = o + 1 /\ out' = out
      BY <2>5 DEF OaccEnd, Goto, Same
    <3>2. FirstOf(oacc, j - 1) = oacc
      <4>1. j - 1 = Len(oacc)
        BY <1>3, <1>11
      <4> QED
        BY <1>3, <4>1, FirstOfSays
    <3>3. out' = ObjectsOut(M, V, (i + 1) - 1)
      BY <1>1, <1>2, <1>5, <1>c, <1>d, <1>e, <3>1, <3>2, ObjectKnown
    <3> QED
      BY <1>1, <1>2, <1>c, <2>2, <3>1, <3>3, ObjectArrives, Zenon
  <2> QED
    BY <1>7, <2>3, <2>4, <2>5
<1>12. CASE j \in 1 .. Len(oacc)
  <2> DEFINE value == oacc[j]
             rest == From(AccessWords(oacc), j + 1) \o (<<End>> \o next)
  <2>1. value \in Nat /\ AccessWords(oacc)[j] = << 0 >> \o Long(value)
    BY <1>3, <1>12, AccessEntries
  <2>2. Holds(W, o, (<< 0 >> \o Long(value)) \o rest) /\ rest \in WordSeqs
    BY <1>1, <1>4, <1>5, <1>8, <1>12, <2>1, NextEntry, Zenon
  <2>3. rest = AccessLeft(M, V, i, j + 1)
    BY <1>c, Zenon
  <2>4. j + 1 \in 1 .. Len(oacc) + 1 /\ (j + 1) - 1 = j
    BY <1>3, <1>12
  <2> DEFINE b == FirstOf(oacc, j)
  <2>5. b = Append(FirstOf(oacc, j - 1), value)
    BY <1>3, <1>12, FirstOfSays
  <2> HIDE DEF value, rest
  <2>6. /\ o <= Len(W) /\ W[o] = 0 /\ Holds(W, o + 1, Long(value))
        /\ o + 3 \in Nat \ {0} /\ Holds(W, o + 3, rest)
    BY <1>1, <1>5, <2>1, <2>2, AccessStands
  <2>7. o + 1 \in Nat \ {0} /\ o + 2 \in Nat \ {0} /\ o + 1 + 1 = o + 2
    BY <1>5
  <2>8. Has(o) => file[o] # End
    <3>1. Has(o) => file[o] = W[o]
      BY <1>1, <1>5, WordThere
    <3> QED
      BY <2>6, <3>1, Numbers0
  <2>9. CASE FirstWordMissing
    <3>1. ~Has(o) /\ Throw
      BY <2>9 DEF FirstWordMissing
    <3> QED
      BY <1>1, <1>5, <1>6, <2>6, <3>1, WordMissing, Thrown1
  <2>10. CASE OaccEnd
    BY <2>8, <2>10 DEF OaccEnd, Ends
  <2>11. CASE ReadAccess
    <3>0. o + 2 <= Len(W) /\ (Has(o + 2) => LongAt(o + 1) = value)
      BY <1>1, <2>1, <2>6, <2>7, LongThere, Zenon
    <3>1. CASE ~Has(o + 2)
      <4>1. Throw
        BY <2>11, <3>1 DEF ReadAccess, Reading
      <4> QED
        BY <1>1, <1>6, <2>7, <3>0, <3>1, <4>1, WordMissing, Thrown1
    <3>2. CASE Has(o + 2)
      <4> DEFINE z == [out.objects[part.name] EXCEPT !.oacc = Append(@, LongAt(o + 1))]
      <4>1. /\ out' = [out EXCEPT !.objects[part.name] = z]
            /\ mode' = "oacc" /\ o' = o + 3 /\ part' = part
        BY <2>11, <3>2 DEF ReadAccess, Reading, Goto
      <4> DEFINE y == ObjectWith(obj, V, known, b, obj.delcode, obj.odeloff)
      <4> HIDE DEF b
      <4>2. x.oacc = FirstOf(oacc, j - 1) /\ [x EXCEPT !.oacc = b] = y
        BY <1>d, AccessChanges
      <4>3. out.objects[part.name] = x
        BY <1>1, <1>5, LastChanges
      <4>4. z = y
        BY <2>5, <3>0, <3>2, <4>2, <4>3, Zenon
      <4>5. out' = ObjectPart(M, V, i, y)
        <5> HIDE DEF y, z
        <5>1. out' = [out EXCEPT !.objects[part.name] = y]
          BY <4>1, <4>4
        <5> QED
          BY <1>1, <1>5, <5>1, LastChanges
      <4>6. out' = AccessOut(M, V, i, j + 1)
        BY <1>c, <2>4, <4>5 DEF AccessOut, b
      <4>7. Holds(W, o', AccessLeft(M, V, i, j + 1)) /\ o' \in Nat \ {0} /\ part'.name = M.objects[i].name
        BY <1>5, <2>3, <2>6, <4>1
      <4>8. j + 1 \in 1 .. Len(M.objects[i].oacc) + 1 /\ M.objects[i].methods # << >>
        BY <1>5, <1>c, <2>4
      <4> QED
        BY <1>1, <1>5, <4>1, <4>6, <4>7, <4>8, AccessArrives, Zenon
    <3> QED
      BY <3>1, <3>2
  <2> QED
    BY <1>7, <2>9, <2>10, <2>11
<1> QED
  BY <1>b, <1>11, <1>12, <1>3

-----------------------------------------------------------------------------
(* Procedures, labels and relocations.                                     *)

LEMMA ProcsArrive ==
  ASSUME NEW M, NEW V, NEW W, NEW j \in 1 .. Len(M.procs) + 1,
         mode' = "procs", o' \in Nat \ {0}, Holds(W, o', ProcsLeft(M, V, j)), out' = ProcsOut(M, V, j)
  PROVE  ReaderInv(M, V, W)'
<1>1. ProcsAt(M, V, W, j)'
  BY DEF ProcsAt, In
<1>2. ProcTableInv(M, V, W)'
  BY <1>1 DEF ProcTableInv
<1> QED
  BY <1>2 DEF ReaderInv

LEMMA DefaultsArrive ==
  ASSUME NEW M \in Module, NEW V, NEW W, NEW j \in 1 .. Len(M.procs), NEW d \in 1 .. Len(M.procs[j].defaults) + 1,
         M.procs[j].kind = "proc",
         mode' = "defaults", o' \in Nat \ {0}, Holds(W, o', DefaultsLeft(M, V, j, d)), out' = ProcsOut(M, V, j),
         part' = [name |-> M.procs[j].name, offset |-> M.procs[j].offset, args |-> M.procs[j].args,
                  defaults |-> FirstOf(M.procs[j].defaults, d - 1)],
         todo' = Len(M.procs[j].defaults) + 1 - d
  PROVE  ReaderInv(M, V, W)'
<1>1. DefaultsAt(M, V, W, j, d)'
  BY DEF DefaultsAt, In
<1>2. j \in DOMAIN M.procs
  BY ModuleSays
<1>3. ProcTableInv(M, V, W)'
  BY <1>1, <1>2 DEF ProcTableInv
<1> QED
  BY <1>3 DEF ReaderInv

LEMMA RelocsArrive ==
  ASSUME NEW M, NEW V, NEW W, NEW j \in 1 .. Len(M.relocs) + 1,
         mode' = "relocs", o' \in Nat \ {0}, Holds(W, o', From(RelocWords(M.relocs), j) \o Left(M, V, 5)),
         out' = RelocsOut(M, V, j),
         todo' = Len(M.relocs) + 1 - j
  PROVE  ReaderInv(M, V, W)'
<1>1. RelocsAt(M, V, W, j)'
  BY DEF RelocsAt, In
<1>2. ProcTableInv(M, V, W)'
  BY <1>1 DEF ProcTableInv
<1> QED
  BY <1>2 DEF ReaderInv

\* One more procedure is known.
LEMMA ProcsGrow ==
  ASSUME NEW M \in Module, NEW V \in Nat, NEW j \in 1 .. Len(M.procs), NEW e, e = HeldProc(M.procs[j]),
         out = ProcsOut(M, V, j), out' = [out EXCEPT !.procs = Append(@, e)]
  PROVE  out' = ProcsOut(M, V, j + 1)
<1> DEFINE s == HeldProcs(M)
<1>1. PICK T : s \in Seq(T)
  BY HeldAre
<1>2. Len(s) = Len(M.procs) /\ Len(M.procs) \in Nat /\ j \in 1 .. Len(s) /\ s[j] = e /\ (j + 1) - 1 = j
  BY HeldAre, ModuleSays
<1> DEFINE f == Before(M, V, 5)
           a == FirstOf(s, j - 1)
           b == FirstOf(s, j)
<1>3. b = Append(a, e)
  BY <1>1, <1>2, FirstOfSays
<1>4. "procs" \in DOMAIN f
  BY FieldsSay DEF Before, Fields
<1>5. out = [f EXCEPT !.procs = a]
  BY DEF ProcsOut
<1>6. ProcsOut(M, V, j + 1) = [f EXCEPT !.procs = b]
  BY <1>2 DEF ProcsOut
<1> HIDE DEF f, a, b, s
<1>7. [[f EXCEPT !.procs = a] EXCEPT !.procs = Append(@, e)] = [f EXCEPT !.procs = b]
  BY <1>3, <1>4, Zenon
<1> QED
  BY <1>5, <1>6, <1>7

LEMMA Further ==
  ASSUME NEW a \in Nat, NEW b \in Nat
  PROVE  /\ a + 1 + b + 2 = a + 3 + b /\ a + 1 + b + 3 = a + 3 + b + 1 /\ a + 1 + b + 5 = a + 3 + b + 3
         /\ a + 1 + b + 6 = a + 3 + b + 4 /\ a + 1 + b + 1 = a + 2 + b
  OBVIOUS

LEMMA ProcsStep ==
  ASSUME NEW M, NEW V, NEW W, FileInv(M, V, W), NEW j \in 1 .. Len(M.procs) + 1, ProcsAt(M, V, W, j), Read
  PROVE  ReaderInv(M, V, W)'
<1> DEFINE table == M.procs
           next == Left(M, V, 6)
<1>1. M \in Module /\ V \in Nat /\ Begins(W) /\ Len(W) \in Nat
  BY FileSays
<1>2. table \in Seq(Proc) /\ Len(table) \in Nat
  <2>1. table \in Seq(Proc)
    BY <1>1, ModuleSays, Zenon
  <2> QED
    BY <2>1
<1>3. next \in WordSeqs /\ << 0 >> \o next \in WordSeqs
  <2>1. next \in WordSeqs
    BY <1>1, LeftIs
  <2> QED
    BY <2>1, Tuples, Joins
<1>4. /\ mode = "procs" /\ o \in Nat \ {0} /\ out = ProcsOut(M, V, j)
      /\ Holds(W, o, From(ProcWords(table), j) \o (<< 0 >> \o next))
  BY DEF ProcsAt, In, ProcsLeft
<1>5. DOMAIN out = DOMAIN Nothing
  BY <1>4, KnownFields DEF ProcsOut
<1>6. FirstWordMissing \/ ProcsEnd \/ ReadProc
  BY <1>4, InLoop
<1>7. ProcWords(table) \in Seq(WordSeqs) /\ Len(ProcWords(table)) = Len(table)
  BY <1>2, ProcEntries
<1>8. /\ j \in 1 .. Len(table) + 1 /\ table = M.procs /\ next = Left(M, V, 6)
      /\ ProcsLeft(M, V, j + 1) = From(ProcWords(table), j + 1) \o (<< 0 >> \o next)
  BY DEF ProcsLeft
<1> HIDE DEF table, next
<1>9. CASE j = Len(table) + 1
  <2>1. Holds(W, o, << 0 >> \o next)
    BY <1>3, <1>4, <1>7, <1>9, NoEntry
  <2>2. o <= Len(W) /\ W[o] = 0 /\ o + 1 \in Nat \ {0} /\ Holds(W, o + 1, next)
    BY <1>1, <1>3, <1>4, <2>1, OneStands
  <2>3. CASE FirstWordMissing
    <3>1. ~Has(o) /\ Throw
      BY <2>3 DEF FirstWordMissing
    <3> QED
      BY <1>1, <1>4, <1>5, <2>2, <3>1, WordMissing, Thrown1
  <2>4. CASE ProcsEnd
    <3>1. mode' = "jobs" /\ o' = o + 1 /\ out' = out
      BY <2>4 DEF ProcsEnd, Goto, Same
    <3>2. out = Before(M, V, 6)
      <4>0. PICK T : HeldProcs(M) \in Seq(T)
        BY <1>1, HeldAre, Zenon
      <4>1. j - 1 = Len(HeldProcs(M)) /\ FirstOf(HeldProcs(M), j - 1) = HeldProcs(M)
        <5>1. j - 1 = Len(HeldProcs(M))
          <6>1. Len(HeldProcs(M)) = Len(M.procs)
            BY <1>1, HeldAre
          <6> QED
            BY <1>2, <1>8, <1>9, <6>1
        <5> QED
          BY <4>0, <5>1, FirstOfSays
      <4>2. Before(M, V, 6) = [Before(M, V, 5) EXCEPT !.procs = HeldProcs(M)]
        BY BeforeSays, Zenon
      <4> QED
        BY <1>4, <4>1, <4>2 DEF ProcsOut
    <3>3. 6 \in 3 .. 10
      OBVIOUS
    <3> QED
      BY <1>1, <1>8, <2>2, <3>1, <3>2, <3>3, JobArrives
  <2>5. CASE ReadProc
    <3>1. Has(o) /\ 0 < file[o]
      BY <2>5 DEF ReadProc
    <3>2. file[o] = 0
      BY <1>1, <1>4, <2>2, <3>1, WordThere
    <3> QED
      BY <3>1, <3>2
  <2> QED
    BY <1>6, <2>3, <2>4, <2>5
<1>10. CASE j \in 1 .. Len(table)
  <2> DEFINE p == table[j]
             rest == From(ProcWords(table), j + 1) \o (<< 0 >> \o next)
             n == Len(p.name)
             tail == ProcTail(p)
  <2>1. p \in Proc /\ ProcWords(table)[j] = (Named(p.name) \o Long(p.offset)) \o tail
    BY <1>2, <1>10, ProcEntries, Zenon
  <2>2. p.name \in Name /\ p.offset \in Nat /\ p.args \in Nat /\ p.kind \in {"proc", "label"} /\ tail \in WordSeqs
        /\ p.defaults \in Seq(LongWord) /\ Len(p.defaults) \in Nat
    BY <2>1, ProcTailSays
  <2>3. Holds(W, o, ((Named(p.name) \o Long(p.offset)) \o tail) \o rest) /\ rest \in WordSeqs
    BY <1>1, <1>3, <1>4, <1>7, <1>10, <2>1, NextEntry, Zenon
  <2>4. rest = ProcsLeft(M, V, j + 1) /\ j + 1 \in 1 .. Len(table) + 1
    BY <1>2, <1>8, <1>10
  <2>5. n \in Nat /\ Bytes(p.name) \div 2 = n /\ 0 < Bytes(p.name) /\ Bytes(p.name) < Half
    BY <2>2, NameSays, Zenon
  <2>5a. p = M.procs[j]
    BY <1>8
  <2> HIDE DEF p, rest
  <2>6. /\ o <= Len(W) /\ W[o] = Bytes(p.name) /\ Holds(W, o + 1, p.name)
        /\ o + 1 + n \in Nat \ {0} /\ Holds(W, o + 1 + n, Long(p.offset))
        /\ o + 3 + n \in Nat \ {0} /\ Holds(W, o + 3 + n, tail \o rest)
    BY <1>1, <1>4, <2>2, <2>3, ProcStands, Zenon
  <2>7. n = Len(p.name) /\ tail = ProcTail(p)
    OBVIOUS
  <2> HIDE DEF n, tail
  <2>8. Has(o) => file[o] = Bytes(p.name)
    BY <1>1, <1>4, <2>6, WordThere, Zenon
  <2>9. CASE FirstWordMissing
    <3>1. ~Has(o) /\ Throw
      BY <2>9 DEF FirstWordMissing
    <3> QED
      BY <1>1, <1>4, <1>5, <2>6, <3>1, WordMissing, Thrown1
  <2>10. CASE ProcsEnd
    <3>1. Has(o) /\ (file[o] = 0 \/ file[o] >= Half)
      BY <2>10 DEF ProcsEnd, IsNegative
    <3> QED
      BY <2>5, <2>8, <3>1, Numbers0, NameSays, <2>2
  <2>11. CASE ReadProc
    <3>1. Has(o) /\ file[o] \div 2 = n
      BY <2>5, <2>8, <2>11 DEF ReadProc
    <3>2. /\ o + 1 + n + 2 = o + 3 + n /\ o + 1 + n + 3 = o + 3 + n + 1 /\ o + 1 + n + 5 = o + 3 + n + 3
          /\ o + 1 + n + 6 = o + 3 + n + 4
      BY <1>4, <2>5, Further
    <3> DEFINE at == o + 3 + n
               head == [name |-> NameAt(o + 1, file[o]), offset |-> LongAt(o + 1 + n)]
    <3>3. IF ~Has(at) THEN Throw
          ELSE CASE file[at] = 1 ->
                      IF ~Has(at + 3) THEN Throw
                      ELSE /\ part' = [name |-> head.name, offset |-> head.offset, args |-> file[at + 1], defaults |-> << >>]
                           /\ todo' = file[at + 3] /\ mode' = "defaults" /\ o' = at + 4 /\ out' = out
                 [] file[at] = 2 ->
                      /\ out' = [out EXCEPT !.procs =
                                   Append(@, [name |-> head.name, offset |-> head.offset, kind |-> "label",
                                              args |-> 0, defaults |-> << >>])]
                      /\ mode' = "procs" /\ o' = at + 1
                 [] OTHER -> Throw
      <4> DEFINE t == o + 1 + n
                 h == [name |-> NameAt(o + 1, file[o]), offset |-> LongAt(t)]
      <4>1. t = o + 1 + file[o] \div 2
        BY <3>1
      <4>2. IF ~Has(t + 2) THEN Throw
          ELSE CASE file[t + 2] = 1 ->
                      IF ~Has(t + 5) THEN Throw
                      ELSE /\ part' = [name |-> h.name, offset |-> h.offset, args |-> file[t + 3], defaults |-> << >>]
                           /\ todo' = file[t + 5] /\ mode' = "defaults" /\ o' = t + 6 /\ out' = out
                 [] file[t + 2] = 2 ->
                      /\ out' = [out EXCEPT !.procs =
                                   Append(@, [name |-> h.name, offset |-> h.offset, kind |-> "label",
                                              args |-> 0, defaults |-> << >>])]
                      /\ mode' = "procs" /\ o' = t + 3
                 [] OTHER -> Throw
        <5> HIDE DEF t
        <5> QED
          BY <2>11, <4>1 DEF ReadProc, Reading, Goto
      <4>3. t + 3 = at + 1
        BY <3>2
      <4> QED
        BY <3>2, <4>2
    <3>4. at \in Nat \ {0} /\ at + 1 \in Nat \ {0} /\ at + 3 \in Nat \ {0} /\ at + 4 \in Nat \ {0} /\ o + 1 \in Nat \ {0}
      BY <1>4, <2>5
    <3>5. Holds(W, at, tail \o rest) /\ at >= o + 1 + n /\ at \in Nat
      BY <1>4, <2>5, <2>6
    <3>6. Has(at) => head.name = p.name /\ head.offset = p.offset
      <4>1. SUFFICES ASSUME Has(at) PROVE head.name = p.name /\ head.offset = p.offset
        OBVIOUS
      <4>2. NameAt(o + 1, file[o]) = p.name
        <5>1. NameAt(o + 1, Bytes(p.name)) = p.name
          BY <1>1, <2>2, <2>6, <2>7, <3>4, <3>5, <4>1, NameRead, ZenonT(30)
        <5> QED
          BY <2>8, <3>1, <5>1
      <4>3. Has(o + 1 + n + 1)
        <5>1. o + 1 + n + 1 <= at /\ o + 1 + n + 1 \in Int
          BY <1>4, <2>5
        <5> HIDE DEF at
        <5> QED
          BY <1>1, <3>4, <4>1, <5>1 DEF Has, Begins
      <4>4. LongAt(o + 1 + n) = p.offset
        BY <1>1, <2>2, <2>6, <4>3, LongThere, Zenon
      <4> QED
        BY <4>2, <4>4
    <3> HIDE DEF at, head
    <3>7. CASE p.kind = "label"
      <4>1. at <= Len(W) /\ W[at] = 2 /\ Holds(W, at + 1, rest)
        BY <1>1, <2>1, <2>3, <2>7, <3>4, <3>5, <3>7, LabelStands
      <4>2. CASE ~Has(at)
        BY <1>1, <1>5, <3>3, <3>4, <4>1, <4>2, WordMissing, Thrown1, Zenon
      <4>3. CASE Has(at)
        <5>1. file[at] = 2
          BY <1>1, <3>4, <4>1, <4>3, WordThere
        <5> DEFINE e == [name |-> head.name, offset |-> head.offset, kind |-> "label", args |-> 0, defaults |-> << >>]
        <5>2. out' = [out EXCEPT !.procs = Append(@, e)] /\ mode' = "procs" /\ o' = at + 1
          BY <3>3, <4>3, <5>1
        <5>3. e = HeldProc(p)
          <6>1. p.args = 0 /\ p.defaults = << >>
            <7>1. j \in DOMAIN M.procs /\ M.procs[j].kind = "label"
              BY <1>2, <1>8, <1>10, <2>5a, <3>7
            <7>2. M.procs[j].args = 0 /\ M.procs[j].defaults = << >>
              BY <1>1, <7>1, Zenon DEF Module
            <7> QED
              BY <2>5a, <7>2
          <6> QED
            BY <3>6, <3>7, <4>3, <6>1 DEF HeldProc
        <5> HIDE DEF e
        <5>4. out' = ProcsOut(M, V, j + 1)
          <6>1. j \in 1 .. Len(M.procs) /\ e = HeldProc(M.procs[j])
            BY <1>8, <1>10, <2>5a, <5>3
          <6> QED
            BY <1>1, <1>4, <5>2, <6>1, ProcsGrow, Zenon
        <5>5. Holds(W, o', ProcsLeft(M, V, j + 1)) /\ o' \in Nat \ {0} /\ j + 1 \in 1 .. Len(M.procs) + 1
          BY <1>8, <2>4, <3>4, <4>1, <5>2
        <5> QED
          BY <5>2, <5>4, <5>5, ProcsArrive
      <4> QED
        BY <4>2, <4>3
    <3>8. CASE p.kind = "proc"
      <4>1. /\ at + 3 <= Len(W) /\ W[at] = 1 /\ W[at + 1] = p.args /\ W[at + 3] = Len(p.defaults)
            /\ Holds(W, at + 4, Flat(LongsOf(p.defaults)) \o (<<Bytes(p.extra)>> \o (p.extra \o rest)))
        BY <1>1, <2>1, <2>3, <2>7, <3>4, <3>5, <3>8, TailStands
      <4>2. at <= Len(W)
        BY <1>1, <3>4, <4>1
      <4>3. CASE ~Has(at)
        BY <1>1, <1>5, <3>3, <3>4, <4>2, <4>3, WordMissing, Thrown1, Zenon
      <4>4. CASE Has(at)
        <5>1. file[at] = 1
          BY <1>1, <3>4, <4>1, <4>4, WordThere
        <5>2. IF ~Has(at + 3) THEN Throw
              ELSE /\ part' = [name |-> head.name, offset |-> head.offset, args |-> file[at + 1], defaults |-> << >>]
                   /\ todo' = file[at + 3] /\ mode' = "defaults" /\ o' = at + 4 /\ out' = out
          BY <3>3, <4>4, <5>1
        <5>3. CASE ~Has(at + 3)
          BY <1>1, <1>5, <3>4, <4>1, <5>2, <5>3, WordMissing, Thrown1, Zenon
        <5>4. CASE Has(at + 3)
          <6>1. Has(at + 1)
            BY <1>1, <3>4, <5>4 DEF Has, Begins
          <6>2. file[at + 1] = p.args /\ file[at + 3] = Len(p.defaults)
            BY <1>1, <3>4, <4>1, <5>4, <6>1, WordThere
          <6>3. part' = [name |-> p.name, offset |-> p.offset, args |-> p.args, defaults |-> << >>]
            BY <3>6, <4>4, <5>2, <5>4, <6>2
          <6>4. FirstOf(p.defaults, 1 - 1) = << >> /\ Len(p.defaults) + 1 - 1 = Len(p.defaults)
                /\ 1 \in 1 .. Len(p.defaults) + 1
            <7>1. 1 - 1 = 0
              OBVIOUS
            <7>2. FirstOf(p.defaults, 0) = << >>
              BY <2>2, FirstOfSays
            <7> QED
              BY <2>2, <7>1, <7>2
          <6>5. DefaultsLeft(M, V, j, 1) = Flat(LongsOf(p.defaults)) \o (<<Bytes(p.extra)>> \o (p.extra \o rest))
            BY <2>4, <2>5a DEF DefaultsLeft, Flat
          <6>6. /\ 1 \in 1 .. Len(M.procs[j].defaults) + 1 /\ M.procs[j].kind = "proc" /\ j \in 1 .. Len(M.procs)
                /\ part' = [name |-> M.procs[j].name, offset |-> M.procs[j].offset, args |-> M.procs[j].args,
                            defaults |-> FirstOf(M.procs[j].defaults, 1 - 1)]
                /\ todo' = Len(M.procs[j].defaults) + 1 - 1
            BY <1>8, <1>10, <2>5a, <3>8, <5>2, <5>4, <6>2, <6>3, <6>4, Zenon
          <6>7. mode' = "defaults" /\ o' \in Nat \ {0} /\ Holds(W, o', DefaultsLeft(M, V, j, 1)) /\ out' = ProcsOut(M, V, j)
            BY <1>4, <3>4, <4>1, <5>2, <5>4, <6>5, Zenon
          <6> QED
            BY <1>1, <6>6, <6>7, DefaultsArrive
        <5> QED
          BY <5>3, <5>4
      <4> QED
        BY <4>3, <4>4
    <3> QED
      BY <2>2, <3>7, <3>8
  <2> QED
    BY <1>6, <2>9, <2>10, <2>11
<1> QED
  BY <1>2, <1>8, <1>9, <1>10


LEMMA DefaultChanges ==
  ASSUME NEW n, NEW o1, NEW a1, NEW a, NEW b, NEW p, p = [name |-> n, offset |-> o1, args |-> a1, defaults |-> a]
  PROVE  p.defaults = a /\ [p EXCEPT !.defaults = b] = [name |-> n, offset |-> o1, args |-> a1, defaults |-> b]
  OBVIOUS

LEMMA Halved ==
  ASSUME NEW n \in Nat
  PROVE  (2 * n) \div 2 = n
  OBVIOUS

LEMMA DefaultsStep ==
  ASSUME NEW M, NEW V, NEW W, FileInv(M, V, W), NEW j \in 1 .. Len(M.procs),
         NEW d \in 1 .. Len(M.procs[j].defaults) + 1, DefaultsAt(M, V, W, j, d), Read
  PROVE  ReaderInv(M, V, W)'
<1> DEFINE p == M.procs[j]
           defaults == p.defaults
           next == p.extra \o ProcsLeft(M, V, j + 1)
           seqs == LongsOf(defaults)
<1>1. M \in Module /\ V \in Nat /\ Begins(W) /\ Len(W) \in Nat
  BY FileSays
<1>2. p \in Proc /\ Len(M.procs) \in Nat /\ j + 1 \in 1 .. Len(M.procs) + 1
  <2>1. M.procs \in Seq(Proc)
    BY <1>1, ModuleSays, Zenon
  <2> QED
    BY <2>1
<1>3. /\ p.name \in Name /\ p.offset \in Nat /\ p.args \in Nat /\ defaults \in Seq(LongWord) /\ Len(defaults) \in Nat
      /\ p.extra \in WordSeqs /\ Len(p.extra) \in Nat
  BY <1>2, ProcTailSays
<1>4. ProcsLeft(M, V, j + 1) \in WordSeqs
  <2>1. M.procs \in Seq(Proc)
    BY <1>1, ModuleSays, Zenon
  <2>2. ProcWords(M.procs) \in Seq(WordSeqs) /\ Len(ProcWords(M.procs)) = Len(M.procs)
    BY <2>1, ProcEntries
  <2>3. From(ProcWords(M.procs), j + 1) \in WordSeqs
    BY <1>2, <2>2, FromIs, Zenon
  <2>4. Left(M, V, 6) \in WordSeqs /\ << 0 >> \in WordSeqs
    BY <1>1, LeftIs, Tuples
  <2>5. << 0 >> \o Left(M, V, 6) \in WordSeqs
    BY <2>4, Joins
  <2> QED
    BY <2>3, <2>5, Joins DEF ProcsLeft
<1>5. next \in WordSeqs /\ Bytes(p.extra) \in Nat /\ <<Bytes(p.extra)>> \o next \in WordSeqs
  <2>1. next \in WordSeqs
    BY <1>3, <1>4, Joins
  <2>2. Bytes(p.extra) \in Nat
    BY <1>3 DEF Bytes
  <2> QED
    BY <2>1, <2>2, Tuples, Joins
<1>6. /\ p.kind = "proc" /\ mode = "defaults" /\ o \in Nat \ {0} /\ out = ProcsOut(M, V, j)
      /\ Holds(W, o, From(seqs, d) \o (<<Bytes(p.extra)>> \o next))
      /\ part = [name |-> p.name, offset |-> p.offset, args |-> p.args, defaults |-> FirstOf(defaults, d - 1)]
      /\ todo = Len(defaults) + 1 - d
  BY DEF DefaultsAt, In, DefaultsLeft
<1>7. DOMAIN out = DOMAIN Nothing
  BY <1>6, KnownFields DEF ProcsOut
<1>8. ReadDefault \/ DefaultsEnd
  BY <1>6, InLoop
<1>9. seqs \in Seq(WordSeqs) /\ Len(seqs) = Len(defaults)
  BY <1>3, LongEntries
<1>10. /\ d \in 1 .. Len(defaults) + 1 /\ defaults = M.procs[j].defaults /\ p = M.procs[j]
       /\ seqs = LongsOf(defaults) /\ next = p.extra \o ProcsLeft(M, V, j + 1) /\ defaults = p.defaults
       /\ DefaultsLeft(M, V, j, d + 1) = From(seqs, d + 1) \o (<<Bytes(p.extra)>> \o next)
  BY DEF DefaultsLeft
<1> HIDE DEF p, defaults, next, seqs
<1>11. CASE d = Len(defaults) + 1
  <2>1. Holds(W, o, <<Bytes(p.extra)>> \o next)
    BY <1>5, <1>6, <1>9, <1>11, NoEntry
  <2>2. o <= Len(W) /\ W[o] = Bytes(p.extra) /\ o + 1 \in Nat \ {0} /\ Holds(W, o + 1, next)
    BY <1>1, <1>5, <1>6, <2>1, OneStands, Zenon
  <2>3. todo = 0
    BY <1>3, <1>6, <1>11
  <2>4. DefaultsEnd
    BY <1>8, <2>3 DEF ReadDefault
  <2>5. CASE ~Has(o)
    <3>1. Throw
      BY <2>4, <2>5 DEF DefaultsEnd, Reading
    <3> QED
      BY <1>1, <1>6, <1>7, <2>2, <2>5, <3>1, WordMissing, Thrown1
  <2>6. CASE Has(o)
    <3> DEFINE e == [name |-> part.name, offset |-> part.offset, kind |-> "proc", args |-> part.args, defaults |-> part.defaults]
    <3>1. out' = [out EXCEPT !.procs = Append(@, e)] /\ mode' = "procs" /\ o' = o + 1 + file[o] \div 2
      BY <2>4, <2>6 DEF DefaultsEnd, Reading, Goto
    <3>2. file[o] \div 2 = Len(p.extra)
      <4>1. file[o] = 2 * Len(p.extra)
        BY <1>1, <1>6, <2>2, <2>6, WordThere DEF Bytes
      <4> QED
        BY <1>3, <4>1, Halved, Zenon
    <3>3. e = HeldProc(p)
      <4>1. d - 1 = Len(defaults)
        BY <1>3, <1>11
      <4>2. FirstOf(defaults, d - 1) = p.defaults
        BY <1>3, <1>10, <4>1, FirstOfSays, Zenon
      <4>3. part = [name |-> p.name, offset |-> p.offset, args |-> p.args, defaults |-> p.defaults]
        BY <1>6, <4>2
      <4>4. part.name = p.name /\ part.offset = p.offset /\ part.args = p.args /\ part.defaults = p.defaults
        BY <4>3
      <4> QED
        BY <1>6, <4>4 DEF HeldProc
    <3> HIDE DEF e
    <3>4. out' = ProcsOut(M, V, j + 1)
      <4>1. e = HeldProc(M.procs[j])
        BY <1>10, <3>3
      <4> QED
        BY <1>1, <1>6, <3>1, <4>1, ProcsGrow, Zenon
    <3>5. Holds(W, o + 1 + Len(p.extra), ProcsLeft(M, V, j + 1)) /\ o + 1 + Len(p.extra) \in Nat \ {0}
      <4>1. Holds(W, o + 1, p.extra \o ProcsLeft(M, V, j + 1))
        BY <1>10, <2>2
      <4> QED
        BY <1>1, <1>3, <1>4, <2>2, <4>1, SplitsPos, Zenon
    <3>6. Holds(W, o', ProcsLeft(M, V, j + 1)) /\ o' \in Nat \ {0}
      BY <3>1, <3>2, <3>5
    <3> QED
      BY <1>2, <3>1, <3>4, <3>6, ProcsArrive, Zenon
  <2> QED
    BY <2>5, <2>6
<1>12. CASE d \in 1 .. Len(defaults)
  <2> DEFINE value == defaults[d]
             rest == From(seqs, d + 1) \o (<<Bytes(p.extra)>> \o next)
  <2>1. value \in Nat /\ seqs[d] = Long(value)
    BY <1>3, <1>10, <1>12, LongEntries, Zenon
  <2>2. Holds(W, o, Long(value) \o rest) /\ rest \in WordSeqs
    BY <1>1, <1>5, <1>6, <1>9, <1>12, <2>1, NextEntry
  <2>3. rest = DefaultsLeft(M, V, j, d + 1) /\ d + 1 \in 1 .. Len(defaults) + 1 /\ (d + 1) - 1 = d
        /\ todo > 0 /\ todo # 0 /\ todo - 1 = Len(defaults) + 1 - (d + 1)
    <3>1. d \in Nat \ {0} /\ d <= Len(defaults) /\ Len(defaults) \in Nat /\ todo = Len(defaults) + 1 - d
      BY <1>3, <1>6, <1>12
    <3>2. todo > 0 /\ todo # 0 /\ todo - 1 = Len(defaults) + 1 - (d + 1)
      BY <3>1
    <3>3. d + 1 \in 1 .. Len(defaults) + 1 /\ (d + 1) - 1 = d
      BY <3>1
    <3> QED
      BY <1>10, <3>2, <3>3, Zenon
  <2> DEFINE b == FirstOf(defaults, d)
             a == FirstOf(defaults, d - 1)
  <2>4. b = Append(a, value)
    BY <1>3, <1>12, FirstOfSays
  <2>4a. b = FirstOf(defaults, d) /\ a = FirstOf(defaults, d - 1)
    OBVIOUS
  <2> HIDE DEF value, rest, a, b
  <2>5. Holds(W, o, Long(value)) /\ o + 2 \in Nat \ {0} /\ Holds(W, o + 2, rest)
    BY <1>1, <1>6, <2>1, <2>2, LongStands
  <2>6. o + 1 <= Len(W) /\ (Has(o + 1) => LongAt(o) = value) /\ o + 1 \in Nat \ {0}
    BY <1>1, <1>6, <2>1, <2>5, LongThere
  <2>7. ReadDefault
    BY <1>8, <2>3, Zenon DEF DefaultsEnd
  <2>8. CASE ~Has(o + 1)
    <3>1. Throw
      BY <2>7, <2>8 DEF ReadDefault, Reading
    <3> QED
      BY <1>1, <1>7, <2>6, <2>8, <3>1, WordMissing, Thrown1
  <2>9. CASE Has(o + 1)
    <3>1. /\ part' = [part EXCEPT !.defaults = Append(@, LongAt(o))]
          /\ todo' = todo - 1 /\ o' = o + 2 /\ mode' = mode /\ out' = out
      BY <2>7, <2>9 DEF ReadDefault, Reading
    <3>2. part' = [name |-> p.name, offset |-> p.offset, args |-> p.args, defaults |-> b]
      <4>1. part = [name |-> p.name, offset |-> p.offset, args |-> p.args, defaults |-> a]
        BY <1>6, <2>4a
      <4>2. part.defaults = a /\ [part EXCEPT !.defaults = b] = [name |-> p.name, offset |-> p.offset, args |-> p.args, defaults |-> b]
        BY <4>1, DefaultChanges
      <4>3. Append(part.defaults, LongAt(o)) = b
        BY <2>4, <2>6, <2>9, <4>2
      <4> QED
        BY <3>1, <4>2, <4>3
    <3>3. /\ d + 1 \in 1 .. Len(M.procs[j].defaults) + 1 /\ M.procs[j].kind = "proc"
          /\ part' = [name |-> M.procs[j].name, offset |-> M.procs[j].offset, args |-> M.procs[j].args,
                      defaults |-> FirstOf(M.procs[j].defaults, (d + 1) - 1)]
          /\ todo' = Len(M.procs[j].defaults) + 1 - (d + 1)
      BY <1>6, <1>10, <2>3, <2>4a, <3>1, <3>2, Zenon
    <3>4. mode' = "defaults" /\ o' \in Nat \ {0} /\ Holds(W, o', DefaultsLeft(M, V, j, d + 1)) /\ out' = ProcsOut(M, V, j)
      BY <1>6, <2>3, <2>5, <3>1
    <3> QED
      BY <1>1, <3>3, <3>4, DefaultsArrive, Zenon
  <2> QED
    BY <2>8, <2>9
<1> QED
  BY <1>3, <1>10, <1>11, <1>12

LEMMA Modulo ==
  ASSUME NEW m \in Nat \ {0}, NEW x \in 0 .. m - 1, NEW k \in Nat
  PROVE  (x + m * k) % m = x
  OBVIOUS

LEMMA IfuncOffset ==
  ASSUME NEW x \in Nat, x < 512 * Half
  PROVE  (x + 2 * Half * Half) % (512 * Half) = x
<1>1. Half \in Nat /\ Half % 256 = 0 /\ Half > 0
  BY EmodAssumption
<1>2. PICK k \in Nat : Half = 256 * k
  <2>1. Half = 256 * (Half \div 256) /\ Half \div 256 \in Nat
    BY <1>1
  <2> QED
    BY <2>1, Zenon
<1>3. 2 * Half * Half = (512 * Half) * k
  <2>1. 2 * Half * Half = Half * (2 * Half)
    BY <1>1
  <2>2. 2 * Half = 512 * k
    BY <1>1, <1>2
  <2>3. Half * (512 * k) = (512 * Half) * k
    BY <1>1, <1>2
  <2> QED
    BY <2>1, <2>2, <2>3
<1> DEFINE m == 512 * Half
<1>4. m \in Nat \ {0} /\ x \in 0 .. m - 1
  BY <1>1
<1>5. (x + m * k) % m = x
  <2> HIDE DEF m
  <2> QED
    BY <1>2, <1>4, Modulo
<1> QED
  BY <1>3, <1>5

LEMMA CodeKnown ==
  ASSUME NEW M, NEW V, NEW k, k \in 4 .. 10
  PROVE  Before(M, V, k).code = M.code
<1>1. "code" \in Fields
  BY DEF Fields
<1>2. JobOf["code"] = 3
  BY <1>1, JobOfSays
<1> QED
  BY <1>1, <1>2, FieldsSay, HeldSays DEF Before

LEMMA RelocRead ==
  ASSUME NEW M \in Module, NEW j \in 1 .. Len(M.relocs), NEW r, NEW e,
         r = M.relocs[j].offset + (IF M.relocs[j].ifunc THEN 2 * Half * Half ELSE 0),
         e = [offset |-> IF r >= 2 * Half * Half THEN r % (512 * Half) ELSE r, ifunc |-> r >= 2 * Half * Half,
              num |-> IF r >= 2 * Half * Half
                      THEN CodeByte(M.code, (IF r >= 2 * Half * Half THEN r % (512 * Half) ELSE r) + 3) ELSE 0]
  PROVE  e = HeldReloc(M.relocs[j], M.code)
<1> DEFINE x == M.relocs[j]
<1>1. M.relocs \in Seq(Reloc)
  BY ModuleSays, Zenon
<1>2. x \in Reloc /\ j \in DOMAIN M.relocs
  BY <1>1
<1>3. x.offset \in Nat /\ x.ifunc \in BOOLEAN /\ 2 * Half * Half \in Nat
  BY <1>2, RelocSays
<1>4. x.offset < IF x.ifunc THEN 512 * Half ELSE 2 * Half * Half
  BY <1>2 DEF Module
<1> HIDE DEF x
<1>5. CASE x.ifunc
  <2>1. r = x.offset + 2 * Half * Half /\ r >= 2 * Half * Half
    BY <1>3, <1>5 DEF x
  <2>2. r % (512 * Half) = x.offset
    BY <1>3, <1>4, <1>5, <2>1, IfuncOffset
  <2>3. e = [offset |-> x.offset, ifunc |-> TRUE, num |-> CodeByte(M.code, x.offset + 3)]
    BY <2>1, <2>2, Zenon
  <2> QED
    BY <1>3, <1>5, <2>3, Zenon DEF HeldReloc, x
<1>6. CASE ~x.ifunc
  <2>1. r = x.offset /\ ~(r >= 2 * Half * Half)
    BY <1>3, <1>4, <1>6 DEF x
  <2> DEFINE neg == r >= 2 * Half * Half
  <2>1a. neg = FALSE
    BY <2>1
  <2>1b. e = [offset |-> IF neg THEN r % (512 * Half) ELSE r, ifunc |-> neg,
              num |-> IF neg THEN CodeByte(M.code, (IF neg THEN r % (512 * Half) ELSE r) + 3) ELSE 0]
    OBVIOUS
  <2> HIDE DEF neg
  <2>2. e = [offset |-> x.offset, ifunc |-> FALSE, num |-> 0]
    BY <2>1, <2>1a, <2>1b, Zenon
  <2> QED
    BY <1>3, <1>6, <2>2, Zenon DEF HeldReloc, x
<1> QED
  BY <1>5, <1>6


LEMMA RelocsGrow ==
  ASSUME NEW M \in Module, NEW V \in Nat, NEW j \in 1 .. Len(M.relocs), NEW e, e = HeldReloc(M.relocs[j], M.code),
         out = RelocsOut(M, V, j), out' = [out EXCEPT !.relocs = Append(@, e)]
  PROVE  out' = RelocsOut(M, V, j + 1)
<1> DEFINE s == HeldRelocs(M)
<1>1. PICK T : s \in Seq(T)
  BY HeldAre
<1>2. Len(s) = Len(M.relocs) /\ Len(M.relocs) \in Nat /\ j \in 1 .. Len(s) /\ s[j] = e /\ (j + 1) - 1 = j
  BY HeldAre, ModuleSays
<1> DEFINE f == Before(M, V, 4)
           a == FirstOf(s, j - 1)
           b == FirstOf(s, j)
<1>3. b = Append(a, e)
  BY <1>1, <1>2, FirstOfSays
<1>4. "relocs" \in DOMAIN f
  BY FieldsSay DEF Before, Fields
<1>5. out = [f EXCEPT !.relocs = a] /\ RelocsOut(M, V, j + 1) = [f EXCEPT !.relocs = b]
  BY <1>2 DEF RelocsOut
<1> HIDE DEF f, a, b
<1>7. [[f EXCEPT !.relocs = a] EXCEPT !.relocs = Append(@, e)] = [f EXCEPT !.relocs = b]
  BY <1>3, <1>4, Zenon
<1> QED
  BY <1>5, <1>7

LEMMA RelocsStep ==
  ASSUME NEW M, NEW V, NEW W, FileInv(M, V, W), NEW j \in 1 .. Len(M.relocs) + 1, RelocsAt(M, V, W, j), Read
  PROVE  ReaderInv(M, V, W)'
<1> DEFINE relocs == M.relocs
           next == Left(M, V, 5)
           seqs == RelocWords(relocs)
           known == HeldRelocs(M)
<1>1. M \in Module /\ V \in Nat /\ Begins(W) /\ Len(W) \in Nat
  BY FileSays
<1>2. relocs \in Seq(Reloc) /\ Len(relocs) \in Nat
  <2>1. relocs \in Seq(Reloc)
    BY <1>1, ModuleSays, Zenon
  <2> QED
    BY <2>1
<1>3. next \in WordSeqs
  BY <1>1, LeftIs
<1>4. /\ mode = "relocs" /\ o \in Nat \ {0} /\ Holds(W, o, From(seqs, j) \o next)
      /\ out = RelocsOut(M, V, j) /\ todo = Len(relocs) + 1 - j
  BY DEF RelocsAt, In
<1>5. DOMAIN out = DOMAIN Nothing
  BY <1>4, KnownFields DEF RelocsOut
<1>6. ReadReloc \/ RelocsEnd
  BY <1>4, InLoop
<1>7. seqs \in Seq(WordSeqs) /\ Len(seqs) = Len(relocs)
  BY <1>2, RelocEntries
<1>8. /\ j \in 1 .. Len(relocs) + 1 /\ relocs = M.relocs /\ next = Left(M, V, 5) /\ seqs = RelocWords(relocs) /\ seqs = RelocWords(M.relocs)
      /\ known = HeldRelocs(M)
  OBVIOUS
<1> HIDE DEF relocs, next, seqs, known
<1>9. CASE j = Len(relocs) + 1
  <2>1. Holds(W, o, next)
    BY <1>3, <1>4, <1>7, <1>9, NoEntry
  <2>2. todo = 0 /\ j - 1 = Len(relocs)
    BY <1>2, <1>4, <1>9
  <2>3. RelocsEnd
    BY <1>6, <2>2 DEF ReadReloc
  <2>4. mode' = "jobs" /\ o' = o /\ out' = out
    BY <2>3 DEF RelocsEnd, Goto, Same
  <2>5. out = Before(M, V, 5)
    <3>1. PICK T : known \in Seq(T)
      BY <1>1, <1>8, HeldAre
    <3>2. Len(known) = Len(relocs)
      BY <1>1, <1>8, HeldAre
    <3>3. FirstOf(known, j - 1) = known
      BY <2>2, <3>1, <3>2, FirstOfSays
    <3>4. Before(M, V, 5) = [Before(M, V, 4) EXCEPT !.relocs = known]
      BY <1>8, BeforeSays, Zenon
    <3> QED
      BY <1>4, <1>8, <3>3, <3>4 DEF RelocsOut
  <2>6. 5 \in 3 .. 10
    OBVIOUS
  <2> QED
    BY <1>1, <1>4, <1>8, <2>1, <2>4, <2>5, <2>6, JobArrives
<1>10. CASE j \in 1 .. Len(relocs)
  <2> DEFINE x == relocs[j]
             value == x.offset + IF x.ifunc THEN 2 * Half * Half ELSE 0
             rest == From(seqs, j + 1) \o next
  <2>1. value \in Nat /\ seqs[j] = Long(value)
    BY <1>2, <1>8, <1>10, RelocEntries, RelocSays
  <2>2. Holds(W, o, Long(value) \o rest) /\ rest \in WordSeqs
    BY <1>1, <1>3, <1>4, <1>7, <1>10, <2>1, NextEntry
  <2>3. /\ rest = From(seqs, j + 1) \o next /\ j + 1 \in 1 .. Len(relocs) + 1 /\ (j + 1) - 1 = j
        /\ todo > 0 /\ todo # 0 /\ todo - 1 = Len(relocs) + 1 - (j + 1)
    <3>1. j \in Nat \ {0} /\ j <= Len(relocs) /\ Len(relocs) \in Nat /\ todo = Len(relocs) + 1 - j
      BY <1>2, <1>4, <1>10
    <3>2. todo > 0 /\ todo # 0 /\ todo - 1 = Len(relocs) + 1 - (j + 1)
      BY <3>1
    <3>3. j + 1 \in 1 .. Len(relocs) + 1 /\ (j + 1) - 1 = j
      BY <3>1
    <3> QED
      BY <3>2, <3>3
  <2>4. value = M.relocs[j].offset + (IF M.relocs[j].ifunc THEN 2 * Half * Half ELSE 0)
    BY <1>8
  <2> HIDE DEF x, value, rest
  <2>5. Holds(W, o, Long(value)) /\ o + 2 \in Nat \ {0} /\ Holds(W, o + 2, rest)
    BY <1>1, <1>4, <2>1, <2>2, LongStands
  <2>6. o + 1 <= Len(W) /\ (Has(o + 1) => LongAt(o) = value) /\ o + 1 \in Nat \ {0}
    BY <1>1, <1>4, <2>1, <2>5, LongThere
  <2>7. ReadReloc
    BY <1>6, <2>3 DEF RelocsEnd
  <2>8. CASE ~Has(o + 1)
    <3>1. Throw
      BY <2>7, <2>8 DEF ReadReloc, Reading
    <3> QED
      BY <1>1, <1>5, <2>6, <2>8, <3>1, WordMissing, Thrown1
  <2>9. CASE Has(o + 1)
    <3> DEFINE r == LongAt(o)
               offset == IF r >= 2 * Half * Half THEN r % (512 * Half) ELSE r
               e == [offset |-> offset, ifunc |-> r >= 2 * Half * Half,
                     num |-> IF r >= 2 * Half * Half THEN CodeByte(M.code, offset + 3) ELSE 0]
    <3>0. out.code = M.code
      <4> DEFINE a == FirstOf(HeldRelocs(M), j - 1)
      <4> HIDE DEF a
      <4>1. out = [Before(M, V, 4) EXCEPT !.relocs = a]
        BY <1>4 DEF a, RelocsOut
      <4>2. 4 \in 4 .. 10
        OBVIOUS
      <4> QED
        BY <4>1, <4>2, CodeKnown
    <3>1. /\ out' = [out EXCEPT !.relocs = Append(@, e)]
          /\ todo' = todo - 1 /\ o' = o + 2 /\ mode' = mode
      BY <2>7, <2>9, <3>0 DEF ReadReloc, Reading
    <3>2. r = value
      BY <2>6, <2>9
    <3> HIDE DEF r
    <3>3. j \in 1 .. Len(M.relocs) /\ r = M.relocs[j].offset + (IF M.relocs[j].ifunc THEN 2 * Half * Half ELSE 0)
      BY <1>8, <1>10, <2>4, <3>2
    <3>4. e = HeldReloc(M.relocs[j], M.code)
      BY <1>1, <3>3, RelocRead
    <3> HIDE DEF e
    <3>5. out' = RelocsOut(M, V, j + 1)
      BY <1>1, <1>4, <3>1, <3>3, <3>4, RelocsGrow, Zenon
    <3>6. /\ j + 1 \in 1 .. Len(M.relocs) + 1 /\ todo' = Len(M.relocs) + 1 - (j + 1)
          /\ Holds(W, o', From(RelocWords(M.relocs), j + 1) \o Left(M, V, 5))
          /\ mode' = "relocs" /\ o' \in Nat \ {0}
      BY <1>4, <1>8, <2>3, <2>5, <3>1, Zenon
    <3> QED
      BY <3>5, <3>6, RelocsArrive, Zenon
  <2> QED
    BY <2>8, <2>9
<1> QED
  BY <1>2, <1>8, <1>9, <1>10

=============================================================================
