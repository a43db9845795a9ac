---------------------------- MODULE ModuleProofs ----------------------------
(***************************************************************************)
(* What is proved about binary modules.                                    *)
(*                                                                         *)
(* Their files, for any modules of any size: each is read as what it was   *)
(* written to hold, and of one that was cut, what is found is sound.       *)
(*                                                                         *)
(* Linking, for any library of modules, any references between them and    *)
(* any program.                                                            *)
(***************************************************************************)
EXTENDS EmodFileProofs, Linker

-----------------------------------------------------------------------------
(* Linking.                                                                *)

\* No label of a module is a procedure that another binary module exports.  (Labels are
\* given out first come, first served, so the one emitted first would be called.)
LabelsApart ==
  \A m, n \in Names : m # n /\ Found[n].kind = "binary" =>
    Found[m].places \cap Found[n].procs = {}

\* What a binary module exports has a name of its own: no other module and no program
\* defines it too.
ExportsApart ==
  /\ \A m, n \in Names : m # n /\ Found[n].kind = "binary" =>
       /\ Found[m].procs \cap Found[n].procs = {}
       /\ Found[m].classes \cap Found[n].classes = {}
  /\ \A n \in Names : Found[n].kind = "binary" => ProgramMay \cap Found[n].procs = {}

-----------------------------------------------------------------------------
(* The inductive invariant, part by part.                                  *)

\* The modules that are loaded are the linked ones, each linked once.
LoadedInv ==
  /\ loaded = LinkedNames
  /\ \A n \in loaded : Found[n].kind = "binary"
  /\ IsInjective(linked)

\* A registration under way is that of a linked module, and it has one at most.
StackFits(st) ==
  /\ \A i \in DOMAIN st : st[i].name \in loaded
  /\ \A i, j \in DOMAIN st : st[i].name = st[j].name => i = j

\* What a linked module refers to is linked, or its registration will come to it; to
\* what is in also it comes in this step.
ClosedBut(st, also) ==
  \A n \in loaded : \A r \in Found[n].refs :
    Found[r.sub].kind = "binary" =>
      \/ r.sub \in loaded \cup also
      \/ \E i \in DOMAIN st : st[i].name = n /\ r \in st[i].todo

RegistrationInv ==
  /\ StackFits(stack)
  /\ ClosedBut(stack, {})
  /\ phase # "imports" => stack = << >>

\* A binary module is the first to export p of those linked.
FirstExporter(n, p) ==
  \E i \in DOMAIN linked :
    /\ linked[i] = n /\ p \in Found[n].procs
    /\ \A j \in 1 .. i - 1 : p \notin Found[linked[j]].procs

\* Who sem says a procedure is of has it, and was the first to.
ProcsInv ==
  /\ \A p \in Procs :
       /\ procs[p] \in Names =>
            \/ Found[procs[p]].kind = "binary" /\ p \in binary /\ FirstExporter(procs[p], p)
            \/ [name |-> p, from |-> procs[p]] \in sources
       /\ procs[p] = Main => p \in program /\ phase # "imports"
       /\ phase # "imports" /\ p \in program => procs[p] = Main
  /\ \A n \in loaded : \A p \in Found[n].procs : procs[p] # None
  /\ \A p \in binary : \E n \in loaded : p \in Found[n].procs

SourcesInv ==
  \A s \in sources :
    /\ Found[s.from].kind = "source" /\ s.name \in Found[s.from].procs
    /\ procs[s.name] = s.from \/ procs[s.name] = Main
    /\ \A t \in sources : t.name = s.name => t = s

ClassesInv ==
  /\ \A c \in Classes :
       classes[c] # None => classes[c] \in loaded /\ c \in Found[classes[c]].classes
  /\ \A n \in loaded : \A c \in Found[n].classes : classes[c] # None

SemInv == LoadedInv /\ RegistrationInv /\ ProcsInv /\ SourcesInv /\ ClassesInv

Labels(n) == Found[n].procs \cup Found[n].places

\* The owner of a label is the first in the order program, sources, linked modules.
LabelFirst(p) ==
  IF p \in program THEN proc[p] = Main
  ELSE IF \E s \in sources : s.name = p THEN [name |-> p, from |-> proc[p]] \in sources
  ELSE \/ proc[p] = None /\ \A i \in 1 .. done : p \notin Labels(linked[i])
       \/ \E i \in 1 .. done : /\ proc[p] = linked[i] /\ p \in Labels(linked[i])
                               /\ \A j \in 1 .. i - 1 : p \notin Labels(linked[j])

GenInv ==
  /\ phase \in {"imports", "procs"} =>
       done = 0 /\ \A c \in Classes : descr[c] = None
  /\ phase \in {"link", "finished"} => \A p \in Procs : LabelFirst(p)
  /\ \A c \in Classes :
       /\ descr[c] # None => descr[c] = classes[c]
       /\ \A i \in 1 .. done : classes[c] = linked[i] => descr[c] = linked[i]
  /\ phase = "finished" => done = Len(linked)

LinkInv == TypeOK /\ SemInv /\ GenInv
-----------------------------------------------------------------------------
(* Sequences.                                                              *)

LEMMA AppendFacts ==
  ASSUME NEW S, NEW st \in Seq(S), NEW e \in S
  PROVE  /\ Append(st, e) \in Seq(S)
         /\ DOMAIN Append(st, e) = 1 .. Len(st) + 1
         /\ Len(Append(st, e)) = Len(st) + 1
         /\ \A i \in 1 .. Len(st) : Append(st, e)[i] = st[i]
         /\ Append(st, e)[Len(st) + 1] = e
  OBVIOUS

LEMMA FrontFacts ==
  ASSUME NEW S, NEW st \in Seq(S), st # << >>
  PROVE  /\ Front(st) \in Seq(S)
         /\ Len(st) \in Nat \ {0}
         /\ Len(Front(st)) = Len(st) - 1
         /\ DOMAIN Front(st) = 1 .. Len(st) - 1
         /\ \A i \in 1 .. Len(st) - 1 : Front(st)[i] = st[i]
         /\ Last(st) = st[Len(st)]
         /\ Last(st) \in S
<1>1. Len(st) \in Nat \ {0} /\ DOMAIN st = 1 .. Len(st)
  OBVIOUS
<1>2. Front(st) = SubSeq(st, 1, Len(st) - 1)
  BY DEF Front
<1>3. Front(st) \in Seq(S) /\ Len(Front(st)) = Len(st) - 1
  BY <1>1, <1>2
<1>4. \A i \in 1 .. Len(st) - 1 : Front(st)[i] = st[i]
  BY <1>1, <1>2
<1> QED
  BY <1>1, <1>3, <1>4 DEF Last

\* The stack with another entry on top.
OnTop(st, e) == Append(Front(st), e)

LEMMA RestFacts ==
  ASSUME NEW S, NEW st \in Seq(S), st # << >>, NEW e \in S
  PROVE  /\ OnTop(st, e) \in Seq(S)
         /\ DOMAIN OnTop(st, e) = 1 .. Len(st)
         /\ \A i \in 1 .. Len(st) - 1 : OnTop(st, e)[i] = st[i]
         /\ OnTop(st, e)[Len(st)] = e
<1>1. Front(st) \in Seq(S) /\ Len(Front(st)) = Len(st) - 1 /\ Len(st) \in Nat \ {0}
      /\ \A i \in 1 .. Len(st) - 1 : Front(st)[i] = st[i]
  BY FrontFacts
<1>2. /\ Append(Front(st), e) \in Seq(S)
      /\ DOMAIN Append(Front(st), e) = 1 .. Len(st)
      /\ \A i \in 1 .. Len(st) - 1 : Append(Front(st), e)[i] = Front(st)[i]
      /\ Append(Front(st), e)[Len(st)] = e
  BY <1>1, AppendFacts
<1> QED
  BY <1>1, <1>2 DEF OnTop

-----------------------------------------------------------------------------
(* Init.                                                                   *)

Entry == [name : Names, todo : SUBSET Refs]

LEMMA InitInv == Init => LinkInv
<1> SUFFICES ASSUME Init PROVE LinkInv
  OBVIOUS
<1> USE LinkerAssumption DEF Init
<1>1. TypeOK
  BY DEF TypeOK, Owners
<1>2. LinkedNames = {} /\ DOMAIN linked = {} /\ DOMAIN stack = {}
  BY DEF LinkedNames
<1>3. LoadedInv
  BY <1>2 DEF LoadedInv, IsInjective
<1>4. RegistrationInv
  BY <1>2 DEF RegistrationInv, StackFits, ClosedBut
<1>5. ProcsInv /\ SourcesInv /\ ClassesInv
  BY Zenon DEF ProcsInv, SourcesInv, ClassesInv, Main, None
<1>6. GenInv
  BY DEF GenInv
<1> QED
  BY <1>1, <1>3, <1>4, <1>5, <1>6 DEF LinkInv, SemInv

-----------------------------------------------------------------------------
(* Analysis: registering modules.                                          *)

\* Nothing of the code generator changes while sem works.
LEMMA GenImports ==
  ASSUME GenInv, phase = "imports", phase' \in {"imports", "procs"}, UNCHANGED genVars
  PROVE  GenInv'
  BY DEF GenInv, genVars

LEMMA RegisterInv ==
  ASSUME LinkInv, phase = "imports", imported' \in 0 .. MaxImports,
         NEW n \in Names, Found[n].kind = "binary", n \notin loaded,
         NEW below \in Seq(Entry), StackFits(below), ClosedBut(below, {n}),
         Register(n, below),
         UNCHANGED <<program, sources, genVars, phase>>
  PROVE  LinkInv'
<1>0. /\ TypeOK /\ LoadedInv /\ RegistrationInv /\ ProcsInv /\ SourcesInv /\ ClassesInv /\ GenInv
      /\ Found[n].procs \subseteq Procs /\ Found[n].classes \subseteq Classes
      /\ Found[n].refs \subseteq Refs
      /\ Main \notin Names /\ None \notin Names
  BY LinkerAssumption DEF LinkInv, SemInv
<1>1. /\ loaded' = loaded \cup {n}
      /\ classes' = FirstWins(classes, Found[n].classes, n)
      /\ procs' = FirstWins(procs, Found[n].procs, n)
      /\ binary' = binary \cup {p \in Found[n].procs : procs[p] = None}
      /\ linked' = Append(linked, n)
      /\ stack' = Append(below, [name |-> n, todo |-> Found[n].refs])
  BY DEF Register
<1>2. linked \in Seq(Names) /\ Len(linked) \in Nat /\ DOMAIN linked = 1 .. Len(linked)
  BY <1>0 DEF TypeOK
<1>3. /\ linked' \in Seq(Names)
      /\ Len(linked') = Len(linked) + 1
      /\ DOMAIN linked' = 1 .. Len(linked) + 1
      /\ \A i \in 1 .. Len(linked) : linked'[i] = linked[i]
      /\ linked'[Len(linked) + 1] = n
  BY <1>1, <1>2, AppendFacts
<1>4. /\ stack' \in Seq(Entry)
      /\ Len(below) \in Nat /\ DOMAIN below = 1 .. Len(below)
      /\ DOMAIN stack' = 1 .. Len(below) + 1
      /\ \A i \in 1 .. Len(below) : stack'[i] = below[i]
      /\ stack'[Len(below) + 1] = [name |-> n, todo |-> Found[n].refs]
  <2>1. [name |-> n, todo |-> Found[n].refs] \in Entry
    BY <1>0 DEF Entry
  <2> QED
    BY <1>1, <2>1, AppendFacts
<1>5. /\ \A p \in Procs : procs'[p] = IF p \in Found[n].procs /\ procs[p] = None THEN n ELSE procs[p]
      /\ procs' \in [Procs -> Owners]
  BY <1>0, <1>1 DEF FirstWins, TypeOK, Owners
<1>6. /\ \A c \in Classes : classes'[c] = IF c \in Found[n].classes /\ classes[c] = None THEN n ELSE classes[c]
      /\ classes' \in [Classes -> Owners]
  BY <1>0, <1>1 DEF FirstWins, TypeOK, Owners
<1>7. TypeOK'
  <2>1. loaded' \subseteq Names /\ binary' \subseteq Procs /\ done' \in 0 .. Len(linked')
    BY <1>0, <1>1, <1>2, <1>3 DEF TypeOK, genVars
  <2> QED
    BY <1>0, <1>3, <1>4, <1>5, <1>6, <2>1 DEF TypeOK, Entry, genVars
<1>8. LoadedInv'
  <2>1. LinkedNames' = LinkedNames \cup {n}
    BY <1>2, <1>3 DEF LinkedNames
  <2>2. \A i \in 1 .. Len(linked) : linked[i] # n
    BY <1>0, <1>2 DEF LoadedInv, LinkedNames
  <2>3. IsInjective(linked)'
    BY <1>0, <1>2, <1>3, <2>2 DEF LoadedInv, IsInjective
  <2> QED
    BY <1>0, <1>1, <2>1, <2>3 DEF LoadedInv
<1>9. RegistrationInv'
  <2>1. StackFits(stack)'
    <3>1. \A i \in 1 .. Len(below) : below[i].name # n
      BY <1>4 DEF StackFits
    <3> QED
      BY <1>1, <1>4, <3>1 DEF StackFits
  <2>2. ClosedBut(stack, {})'
    <3> SUFFICES ASSUME NEW m \in loaded', NEW r \in Found[m].refs, Found[r.sub].kind = "binary"
                 PROVE  \/ r.sub \in loaded'
                        \/ \E i \in DOMAIN stack' : stack'[i].name = m /\ r \in stack'[i].todo
      BY DEF ClosedBut
    <3>1. CASE m = n
      BY <1>4, <3>1
    <3>2. CASE m # n
      <4>1. \/ r.sub \in loaded \cup {n}
            \/ \E i \in DOMAIN below : below[i].name = m /\ r \in below[i].todo
        BY <1>1, <3>2 DEF ClosedBut
      <4> QED
        BY <1>1, <1>4, <4>1
    <3> QED
      BY <3>1, <3>2
  <2> QED
    BY <2>1, <2>2 DEF RegistrationInv
<1>10. ProcsInv'
  <2>1. ASSUME NEW p \in Procs, procs[p] = None, p \in Found[n].procs
        PROVE  p \in binary' /\ FirstExporter(n, p)'
    <3>1. \A j \in 1 .. Len(linked) : p \notin Found[linked[j]].procs
      BY <1>0, <1>2, <2>1 DEF ProcsInv, LoadedInv, LinkedNames
    <3>2. /\ Len(linked) + 1 \in DOMAIN linked'
          /\ \A j \in 1 .. (Len(linked) + 1) - 1 : linked'[j] = linked[j]
      BY <1>2, <1>3
    <3> QED
      <4>1. linked'[Len(linked) + 1] = n /\ p \in binary'
        BY <1>1, <1>3, <2>1
      <4>2. \A j \in 1 .. (Len(linked) + 1) - 1 : p \notin Found[linked'[j]].procs
        BY <1>2, <3>1, <3>2
      <4> QED
        BY <2>1, <3>2, <4>1, <4>2 DEF FirstExporter
  <2>2. ASSUME NEW p \in Procs, NEW m, FirstExporter(m, p) PROVE FirstExporter(m, p)'
    BY <1>2, <1>3, <2>2 DEF FirstExporter
  <2>3. ASSUME NEW p \in Procs
        PROVE  /\ procs'[p] \in Names =>
                    \/ Found[procs'[p]].kind = "binary" /\ p \in binary' /\ FirstExporter(procs[p], p)'
                    \/ [name |-> p, from |-> procs'[p]] \in sources'
               /\ procs'[p] # Main
    <3>1. CASE p \in Found[n].procs /\ procs[p] = None
      BY <1>0, <1>5, <2>1, <3>1 DEF FirstExporter
    <3>2. CASE ~(p \in Found[n].procs /\ procs[p] = None)
      BY <1>0, <1>1, <1>5, <2>2, <3>2 DEF ProcsInv
    <3> QED
      BY <3>1, <3>2
  <2>4. \A m \in loaded' : \A p \in Found[m].procs : procs'[p] # None
    BY <1>0, <1>1, <1>5, LinkerAssumption DEF ProcsInv, TypeOK
  <2>5. \A p \in binary' : \E m \in loaded' : p \in Found[m].procs
    BY <1>0, <1>1 DEF ProcsInv
  <2> QED
    BY <2>3, <2>4, <2>5 DEF ProcsInv
<1>11. SourcesInv'
  <2>1. \A s \in sources : s.name \in Procs /\ s.from \in Names
    BY <1>0 DEF TypeOK
  <2> QED
    BY <1>0, <1>5, <2>1, Zenon DEF SourcesInv, Main, None
<1>12. ClassesInv'
  <2>1. ASSUME NEW c \in Classes, classes'[c] # None
        PROVE  classes'[c] \in loaded' /\ c \in Found[classes'[c]].classes
    BY <1>0, <1>1, <1>6, <2>1 DEF ClassesInv
  <2>2. ASSUME NEW m \in loaded', NEW c \in Found[m].classes
        PROVE  classes'[c] # None
    <3>1. c \in Classes
      BY <1>0, <1>1, LinkerAssumption DEF TypeOK
    <3> QED
      BY <1>0, <1>1, <1>6, <2>2, <3>1 DEF ClassesInv
  <2> QED
    BY <2>1, <2>2 DEF ClassesInv
<1>13. GenInv'
  BY <1>0, GenImports
<1> QED
  BY <1>7, <1>8, <1>9, <1>10, <1>11, <1>12, <1>13 DEF LinkInv, SemInv

\* A module or name that registers nothing.
LEMMA PassedOver ==
  ASSUME LinkInv, imported' \in 0 .. MaxImports, phase = "imports",
         UNCHANGED <<program, loaded, procs, binary, classes, linked, sources, genVars, phase>>,
         stack' \in Seq(Entry), StackFits(stack'), ClosedBut(stack', {})
  PROVE  LinkInv'
<1>0. TypeOK /\ LoadedInv /\ RegistrationInv /\ ProcsInv /\ SourcesInv /\ ClassesInv /\ GenInv
  BY DEF LinkInv, SemInv
<1>1. TypeOK'
  BY <1>0 DEF TypeOK, Entry, genVars
<1>2. LoadedInv' /\ ProcsInv' /\ SourcesInv' /\ ClassesInv'
  BY <1>0 DEF LoadedInv, LinkedNames, ProcsInv, FirstExporter, SourcesInv, ClassesInv
<1>3. RegistrationInv'
  BY DEF RegistrationInv, StackFits, ClosedBut
<1>4. GenInv'
  BY <1>0, GenImports
<1> QED
  BY <1>1, <1>2, <1>3, <1>4 DEF LinkInv, SemInv

LEMMA ImportInv ==
  ASSUME LinkInv, NEW n \in Names, Import(n)
  PROVE  LinkInv'
<1>0. /\ TypeOK /\ LoadedInv /\ RegistrationInv /\ ProcsInv /\ SourcesInv /\ ClassesInv /\ GenInv
      /\ Found[n].procs \subseteq Procs
      /\ Main \notin Names /\ None \notin Names
  BY LinkerAssumption DEF LinkInv, SemInv
<1>1. /\ phase = "imports" /\ stack = << >> /\ imported' \in 0 .. MaxImports
      /\ UNCHANGED <<program, genVars, phase>>
  BY <1>0, LinkerAssumption DEF Import, TypeOK
<1>2. /\ << >> \in Seq(Entry) /\ DOMAIN << >> = {}
      /\ StackFits(<< >>) /\ ClosedBut(<< >>, {}) /\ ClosedBut(<< >>, {n})
  BY <1>0, <1>1 DEF RegistrationInv, StackFits, ClosedBut
<1>3. CASE Found[n].kind = "binary" /\ ~IsLoaded(n)
  <2>1. Register(n, << >>) /\ UNCHANGED sources
    BY <1>3 DEF Import
  <2> QED
    BY <1>1, <1>2, <1>3, <2>1, RegisterInv, Zenon DEF IsLoaded
<1>4. CASE Found[n].kind = "source"
  <2>1. /\ sources' = sources \cup {[name |-> p, from |-> n] : p \in NewExports(n)}
        /\ procs' = FirstWins(procs, Found[n].procs, n)
        /\ UNCHANGED <<stack, loaded, binary, classes, linked>>
    BY <1>4 DEF Import
  <2>2. /\ \A p \in Procs : procs'[p] = IF p \in Found[n].procs /\ procs[p] = None THEN n ELSE procs[p]
        /\ procs' \in [Procs -> Owners]
    BY <1>0, <2>1 DEF FirstWins, TypeOK, Owners
  <2>3. NewExports(n) \subseteq Procs /\ \A s \in sources : s.name \in Procs /\ s.from \in Names
    BY <1>0 DEF NewExports, TypeOK
  <2>4. TypeOK'
    <3>1. sources' \subseteq [name : Procs, from : Names]
      BY <1>0, <2>1, <2>3 DEF TypeOK
    <3> QED
      BY <1>0, <1>1, <2>1, <2>2, <3>1 DEF TypeOK, genVars
  <2>5. LoadedInv' /\ RegistrationInv' /\ ClassesInv'
    BY <1>0, <1>1, <2>1 DEF LoadedInv, LinkedNames, RegistrationInv, StackFits, ClosedBut, ClassesInv
  <2>6. ProcsInv'
    <3>1. ASSUME NEW p \in Procs
          PROVE  /\ procs'[p] \in Names =>
                      \/ Found[procs'[p]].kind = "binary" /\ p \in binary' /\ FirstExporter(procs[p], p)'
                      \/ [name |-> p, from |-> procs'[p]] \in sources'
                 /\ procs'[p] # Main
      <4>1. CASE p \in Found[n].procs /\ procs[p] = None
        BY <1>0, <2>1, <2>2, <4>1 DEF NewExports
      <4>2. CASE ~(p \in Found[n].procs /\ procs[p] = None)
        BY <1>0, <1>1, <2>1, <2>2, <4>2 DEF ProcsInv, FirstExporter
      <4> QED
        BY <4>1, <4>2
    <3>2. ASSUME NEW m \in loaded', NEW p \in Found[m].procs
          PROVE  procs'[p] # None
      <4>1. p \in Procs
        BY <1>0, <2>1, LinkerAssumption DEF TypeOK
      <4> QED
        BY <1>0, <2>1, <2>2, <4>1 DEF ProcsInv
    <3>3. \A p \in binary' : \E m \in loaded' : p \in Found[m].procs
      BY <1>0, <2>1 DEF ProcsInv
    <3> QED
      BY <1>1, <3>1, <3>2, <3>3 DEF ProcsInv
  <2>7. SourcesInv'
    <3>1. ASSUME NEW s \in sources'
          PROVE  /\ Found[s.from].kind = "source" /\ s.name \in Found[s.from].procs
                 /\ s.name \in Procs /\ procs'[s.name] = s.from
                 /\ s = [name |-> s.name, from |-> s.from]
      <4>1. CASE s \in sources
        <5>1. procs[s.name] = s.from /\ s.from \in Names /\ s.name \in Procs
              /\ s = [name |-> s.name, from |-> s.from]
          BY <1>0, <1>1, <2>3, <4>1, Zenon DEF SourcesInv, ProcsInv, TypeOK
        <5> QED
          BY <1>0, <2>2, <4>1, <5>1 DEF SourcesInv
      <4>2. CASE s \notin sources
        BY <1>4, <2>1, <2>2, <2>3, <4>2 DEF NewExports
      <4> QED
        BY <4>1, <4>2
    <3> QED
      BY <3>1 DEF SourcesInv
  <2> QED
    BY <1>0, <1>1, <2>4, <2>5, <2>6, <2>7, GenImports DEF LinkInv, SemInv
<1>5. CASE ~(Found[n].kind = "binary" /\ ~IsLoaded(n)) /\ Found[n].kind # "source"
  <2>1. UNCHANGED <<stack, loaded, procs, binary, classes, linked, sources>>
    BY <1>5 DEF Import
  <2> QED
    BY <1>1, <1>2, <2>1, PassedOver
<1> QED
  BY <1>3, <1>4, <1>5

\* The stack with one entry of the top done: it still fits, and closes all but that entry.
TopDone(r) == [Top EXCEPT !.todo = @ \ {r}]

Rest(r) == OnTop(stack, TopDone(r))

LEMMA RestFits ==
  ASSUME LinkInv, stack # << >>, NEW r \in Top.todo
  PROVE  Rest(r) \in Seq(Entry) /\ StackFits(Rest(r)) /\ ClosedBut(Rest(r), {r.sub})
<1>0. TypeOK /\ RegistrationInv
  BY DEF LinkInv, SemInv
<1>1. /\ stack \in Seq(Entry) /\ Top \in Entry /\ Top = stack[Len(stack)]
      /\ Len(stack) \in Nat \ {0} /\ DOMAIN stack = 1 .. Len(stack)
  <2>1. stack \in Seq(Entry)
    BY <1>0 DEF TypeOK, Entry
  <2> QED
    BY <2>1, FrontFacts DEF Top
<1>2. TopDone(r) \in Entry /\ TopDone(r).name = Top.name /\ TopDone(r).todo = Top.todo \ {r}
  BY <1>1 DEF Entry, TopDone
<1>3. /\ Rest(r) \in Seq(Entry) /\ DOMAIN Rest(r) = 1 .. Len(stack)
      /\ \A i \in 1 .. Len(stack) - 1 : Rest(r)[i] = stack[i]
      /\ Rest(r)[Len(stack)] = TopDone(r)
  <2>1. stack \in Seq(Entry) /\ stack # << >> /\ TopDone(r) \in Entry
    BY <1>1, <1>2
  <2>2. /\ OnTop(stack, TopDone(r)) \in Seq(Entry) /\ DOMAIN OnTop(stack, TopDone(r)) = 1 .. Len(stack)
        /\ \A i \in 1 .. Len(stack) - 1 : OnTop(stack, TopDone(r))[i] = stack[i]
        /\ OnTop(stack, TopDone(r))[Len(stack)] = TopDone(r)
    BY <2>1, RestFacts
  <2> QED
    BY <2>2 DEF Rest
<1>4. \A i \in 1 .. Len(stack) : /\ Rest(r)[i].name = stack[i].name
                                 /\ stack[i].todo \ {r} \subseteq Rest(r)[i].todo
  <2> TAKE i \in 1 .. Len(stack)
  <2>1. CASE i = Len(stack)
    BY <1>1, <1>2, <1>3, <2>1
  <2>2. CASE i # Len(stack)
    BY <1>1, <1>3, <2>2
  <2> QED
    BY <2>1, <2>2
<1>5. StackFits(Rest(r))
  BY <1>0, <1>1, <1>3, <1>4 DEF RegistrationInv, StackFits
<1>6. ClosedBut(Rest(r), {r.sub})
  BY <1>0, <1>1, <1>3, <1>4 DEF RegistrationInv, ClosedBut
<1> QED
  BY <1>3, <1>5, <1>6

LEMMA FollowInv == ASSUME LinkInv, Follow PROVE LinkInv'
<1>1. PICK r \in Top.todo :
        IF ~IsLoaded(r.sub) /\ Found[r.sub].kind = "binary"
        THEN Register(r.sub, Rest(r))
        ELSE stack' = Rest(r) /\ UNCHANGED <<loaded, procs, binary, classes, linked>>
  BY Zenon DEF Follow, Rest, OnTop, TopDone
<1>2. /\ phase = "imports" /\ stack # << >>
      /\ UNCHANGED <<program, imported, sources, genVars, phase>>
  BY DEF Follow
<1>3. Rest(r) \in Seq(Entry) /\ StackFits(Rest(r)) /\ ClosedBut(Rest(r), {r.sub})
  BY <1>2, RestFits, Zenon
<1>4. imported' \in 0 .. MaxImports /\ r.sub \in Names
  <2>1. Top \in Entry
    BY <1>2, FrontFacts, Zenon DEF LinkInv, TypeOK, Entry, Top
  <2> QED
    BY <1>2, <2>1 DEF LinkInv, TypeOK, Entry, Refs
<1>5. CASE ~IsLoaded(r.sub) /\ Found[r.sub].kind = "binary"
  <2>1. Register(r.sub, Rest(r))
    BY <1>1, <1>5
  <2> QED
    BY <1>2, <1>3, <1>4, <1>5, <2>1, RegisterInv DEF IsLoaded
<1>6. CASE ~(~IsLoaded(r.sub) /\ Found[r.sub].kind = "binary")
  <2>1. stack' = Rest(r) /\ UNCHANGED <<loaded, procs, binary, classes, linked>>
    BY <1>1, <1>6
  <2>2. ClosedBut(Rest(r), {})
    BY <1>3, <1>6 DEF ClosedBut, IsLoaded
  <2> QED
    BY <1>2, <1>3, <1>4, <2>1, <2>2, PassedOver
<1> QED
  BY <1>5, <1>6

LEMMA RegisteredInv == ASSUME LinkInv, Registered PROVE LinkInv'
<1>1. /\ phase = "imports" /\ stack # << >> /\ Top.todo = {} /\ stack' = Front(stack)
      /\ UNCHANGED <<program, imported, loaded, procs, binary, classes, linked, sources, genVars, phase>>
  BY DEF Registered
<1>2. TypeOK /\ RegistrationInv
  BY DEF LinkInv, SemInv
<1>3. /\ Front(stack) \in Seq(Entry) /\ Len(stack) \in Nat \ {0}
      /\ DOMAIN stack = 1 .. Len(stack)
      /\ DOMAIN Front(stack) = 1 .. Len(stack) - 1
      /\ \A i \in 1 .. Len(stack) - 1 : Front(stack)[i] = stack[i]
      /\ stack[Len(stack)].todo = {}
  <2>1. stack \in Seq(Entry)
    BY <1>2 DEF TypeOK, Entry
  <2> QED
    BY <1>1, <2>1, FrontFacts DEF Top
<1>4. StackFits(Front(stack))
  BY <1>2, <1>3 DEF RegistrationInv, StackFits
<1>5. ClosedBut(Front(stack), {})
  <2> SUFFICES ASSUME NEW n \in loaded, NEW r \in Found[n].refs, Found[r.sub].kind = "binary",
                      r.sub \notin loaded
               PROVE  \E i \in DOMAIN Front(stack) :
                        Front(stack)[i].name = n /\ r \in Front(stack)[i].todo
    BY DEF ClosedBut
  <2>1. PICK i \in DOMAIN stack : stack[i].name = n /\ r \in stack[i].todo
    BY <1>2 DEF RegistrationInv, ClosedBut
  <2>2. i # Len(stack)
    BY <1>3, <2>1
  <2> QED
    BY <1>3, <2>1, <2>2
<1>6. imported' \in 0 .. MaxImports
  BY <1>1, <1>2 DEF TypeOK
<1> QED
  BY <1>1, <1>3, <1>4, <1>5, <1>6, PassedOver

LEMMA CollectProcsInv == ASSUME LinkInv, CollectProcs PROVE LinkInv'
<1>0. /\ TypeOK /\ LoadedInv /\ RegistrationInv /\ ProcsInv /\ SourcesInv /\ ClassesInv /\ GenInv
      /\ program \subseteq Procs /\ Main \notin Names /\ Main # None
  BY LinkerAssumption, Zenon DEF LinkInv, SemInv, TypeOK, Main, None
<1>1. /\ phase = "imports" /\ stack = << >> /\ phase' = "procs"
      /\ procs' = [p \in Procs |-> IF p \in program THEN Main ELSE procs[p]]
      /\ UNCHANGED <<program, imported, stack, loaded, binary, classes, linked, sources, genVars>>
  BY DEF CollectProcs
<1>2. TypeOK'
  <2>1. procs' \in [Procs -> Owners]
    BY <1>0, <1>1 DEF TypeOK, Owners
  <2> QED
    BY <1>0, <1>1, <2>1 DEF TypeOK, genVars
<1>3. LoadedInv' /\ RegistrationInv' /\ ClassesInv'
  BY <1>0, <1>1 DEF LoadedInv, LinkedNames, RegistrationInv, StackFits, ClosedBut, ClassesInv
<1>4. ProcsInv'
  <2>1. ASSUME NEW n \in loaded, NEW p \in Found[n].procs PROVE procs'[p] # None
    <3>1. p \in Procs
      BY <1>0, LinkerAssumption DEF TypeOK
    <3> QED
      BY <1>0, <1>1, <3>1 DEF ProcsInv
  <2> QED
    BY <1>0, <1>1, <2>1 DEF ProcsInv, FirstExporter
<1>5. SourcesInv'
  BY <1>0, <1>1 DEF SourcesInv, TypeOK
<1>6. GenInv'
  BY <1>0, <1>1, GenImports
<1> QED
  BY <1>2, <1>3, <1>4, <1>5, <1>6 DEF LinkInv, SemInv

-----------------------------------------------------------------------------
(* Code generation: giving out labels.                                     *)

LEMMA SemKept ==
  ASSUME SemInv, phase # "imports", phase' # "imports", UNCHANGED <<program, semVars>>
  PROVE  SemInv'
  BY DEF SemInv, semVars, LoadedInv, LinkedNames, RegistrationInv, StackFits, ClosedBut,
         ProcsInv, FirstExporter, SourcesInv, ClassesInv

LEMMA EmitProcsInv == ASSUME LinkInv, EmitProcs PROVE LinkInv'
<1>0. TypeOK /\ SemInv /\ GenInv
  BY DEF LinkInv
<1>1. /\ phase = "procs" /\ phase' = "link" /\ done' = done /\ done = 0
      /\ UNCHANGED <<program, semVars, descr>>
      /\ sources \subseteq [name : Procs, from : Names]
  BY <1>0 DEF EmitProcs, GenInv, TypeOK
<1>2. ASSUME NEW p \in Procs
      PROVE  proc'[p] \in Owners /\ LabelFirst(p)'
  <2>1. proc'[p] = IF p \in program THEN Main
                   ELSE IF \E s \in sources : s.name = p
                        THEN (CHOOSE s \in sources : s.name = p).from
                        ELSE None
    BY DEF EmitProcs
  <2>2. CASE p \in program
    BY <1>1, <2>1, <2>2 DEF LabelFirst, Owners
  <2>3. CASE p \notin program /\ \E s \in sources : s.name = p
    <3> DEFINE s == CHOOSE s \in sources : s.name = p
    <3>1. s \in sources /\ s.name = p
      BY <2>3
    <3> HIDE DEF s
    <3>2. s = [name |-> p, from |-> s.from] /\ s.from \in Names
      BY <1>1, <3>1
    <3>3. proc'[p] = s.from
      BY <2>1, <2>3 DEF s
    <3> QED
      BY <1>1, <2>3, <3>1, <3>2, <3>3 DEF LabelFirst, Owners, semVars
  <2>4. CASE p \notin program /\ ~\E s \in sources : s.name = p
    BY <1>1, <2>1, <2>4 DEF LabelFirst, Owners, semVars
  <2> QED
    BY <2>2, <2>3, <2>4
<1>3. TypeOK'
  <2>1. proc' \in [Procs -> Owners]
    BY <1>2, Zenon DEF EmitProcs
  <2> QED
    BY <1>0, <1>1, <2>1 DEF TypeOK, semVars
<1>4. GenInv'
  BY <1>0, <1>1, <1>2 DEF GenInv, semVars
<1> QED
  BY <1>0, <1>1, <1>3, <1>4, SemKept DEF LinkInv

LEMMA EmitModuleInv == ASSUME LinkInv, EmitModule PROVE LinkInv'
<1>0. /\ TypeOK /\ SemInv /\ GenInv
      /\ Main \notin Names /\ None \notin Names /\ Main # None
  BY LinkerAssumption, Zenon DEF LinkInv, Main, None
<1> DEFINE n == linked[done + 1]
<1>1. /\ phase = "link" /\ phase' = phase /\ done' = done + 1
      /\ done \in Nat /\ done + 1 \in 1 .. Len(linked)
      /\ UNCHANGED <<program, semVars>>
      /\ n \in Names
      /\ Labels(n) \subseteq Procs
  <2>1. done \in Nat /\ done + 1 \in 1 .. Len(linked) /\ linked \in Seq(Names)
    BY <1>0 DEF EmitModule, TypeOK
  <2>2. n \in Names
    BY <2>1
  <2> QED
    BY <2>1, <2>2, LinkerAssumption DEF EmitModule, Labels
<1>2. /\ proc' = FirstWins(proc, Labels(n), n)
      /\ descr' = FirstWins(descr, Builders(n), n)
  BY DEF EmitModule, Labels
<1> HIDE DEF n
<1>3. /\ \A p \in Procs : proc'[p] = IF p \in Labels(n) /\ proc[p] = None THEN n ELSE proc[p]
      /\ proc' \in [Procs -> Owners]
  BY <1>0, <1>1, <1>2 DEF FirstWins, TypeOK, Owners
<1>4. /\ \A c \in Classes : descr'[c] = IF classes[c] = n /\ descr[c] = None THEN n ELSE descr[c]
      /\ descr' \in [Classes -> Owners]
  BY <1>0, <1>1, <1>2 DEF FirstWins, Builders, TypeOK, Owners
<1>5. ASSUME NEW p \in Procs PROVE LabelFirst(p)'
  <2>1. LabelFirst(p)
    BY <1>0, <1>1 DEF GenInv
  <2>2. \A i \in 1 .. done + 1 : i \in 1 .. done \/ (linked[i] = n /\ i = done + 1)
    BY <1>1 DEF n
  <2>3. CASE p \in program
    <3>1. proc[p] = Main
      BY <2>1, <2>3 DEF LabelFirst
    <3>2. proc'[p] = Main /\ program' = program
      BY <1>0, <1>1, <1>3, <3>1
    <3> QED
      BY <2>3, <3>2 DEF LabelFirst
  <2>4. CASE p \notin program /\ \E s \in sources : s.name = p
    <3>1. [name |-> p, from |-> proc[p]] \in sources
      BY <2>1, <2>4 DEF LabelFirst
    <3>2. proc[p] \in Names
      BY <1>0, <3>1 DEF TypeOK
    <3> QED
      BY <1>0, <1>1, <1>3, <2>4, <3>1, <3>2 DEF LabelFirst, semVars
  <2>5. CASE p \notin program /\ ~\E s \in sources : s.name = p
    <3>1. CASE proc[p] = None /\ p \notin Labels(n)
      <4>1. \A i \in 1 .. done : p \notin Labels(linked[i])
        BY <1>0, <2>1, <2>5, <3>1 DEF LabelFirst, TypeOK
      <4> QED
        BY <1>1, <1>3, <2>2, <2>5, <3>1, <4>1 DEF LabelFirst, semVars, Labels
    <3>2. CASE proc[p] = None /\ p \in Labels(n)
      <4>1. \A i \in 1 .. done : p \notin Labels(linked[i])
        BY <1>0, <2>1, <2>5, <3>2 DEF LabelFirst, TypeOK
      <4>2. \A j \in 1 .. (done + 1) - 1 : p \notin Labels(linked[j])
        BY <1>1, <4>1
      <4>3. done + 1 \in 1 .. done + 1 /\ linked[done + 1] = n
        BY <1>1 DEF n
      <4> QED
        BY <1>1, <1>3, <2>5, <3>2, <4>2, <4>3 DEF LabelFirst, semVars, Labels
    <3>3. CASE proc[p] # None
      <4>1. PICK i \in 1 .. done : /\ proc[p] = linked[i] /\ p \in Labels(linked[i])
                                   /\ \A j \in 1 .. i - 1 : p \notin Labels(linked[j])
        BY <2>1, <2>5, <3>3 DEF LabelFirst
      <4>2. i \in 1 .. done + 1
        BY <1>1
      <4> QED
        BY <1>1, <1>3, <2>5, <3>3, <4>1, <4>2 DEF LabelFirst, semVars, Labels
    <3> QED
      BY <3>1, <3>2, <3>3
  <2> QED
    BY <2>3, <2>4, <2>5
<1>6. ASSUME NEW c \in Classes
      PROVE  /\ descr'[c] # None => descr'[c] = classes[c]
             /\ \A i \in 1 .. done + 1 : classes[c] = linked[i] => descr'[c] = linked[i]
  <2>1. /\ descr[c] # None => descr[c] = classes[c]
        /\ \A i \in 1 .. done : classes[c] = linked[i] => descr[c] = linked[i]
    BY <1>0 DEF GenInv
  <2>2. \A i \in 1 .. done + 1 : i \in 1 .. done \/ linked[i] = n
    BY <1>1 DEF n
  <2>3. CASE classes[c] = n /\ descr[c] = None
    <3>1. descr'[c] = n
      BY <1>4, <2>3
    <3> QED
      BY <2>3, <3>1
  <2>4. CASE ~(classes[c] = n /\ descr[c] = None)
    <3>1. descr'[c] = descr[c]
      BY <1>4, <2>4
    <3> QED
      BY <1>1, <2>1, <2>2, <2>4, <3>1
  <2> QED
    BY <2>3, <2>4
<1>7. TypeOK'
  BY <1>0, <1>1, <1>3, <1>4 DEF TypeOK, semVars
<1>8. GenInv'
  BY <1>1, <1>5, <1>6 DEF GenInv, semVars
<1> QED
  BY <1>0, <1>1, <1>7, <1>8, SemKept DEF LinkInv

LEMMA FinishInv == ASSUME LinkInv, Finish PROVE LinkInv'
<1>0. TypeOK /\ SemInv /\ GenInv
  BY DEF LinkInv
<1>1. TypeOK'
  BY <1>0 DEF Finish, TypeOK, semVars, genVars
<1>2. GenInv'
  BY <1>0 DEF Finish, GenInv, semVars, genVars, LabelFirst, Labels
<1> QED
  BY <1>0, <1>1, <1>2, SemKept DEF LinkInv, Finish

LEMMA StutterInv == ASSUME LinkInv, UNCHANGED vars PROVE LinkInv'
<1>1. TypeOK' /\ LoadedInv' /\ ClassesInv' /\ SourcesInv'
  BY DEF LinkInv, SemInv, vars, semVars, genVars, TypeOK, LoadedInv, LinkedNames, SourcesInv, ClassesInv
<1>2. RegistrationInv'
  BY DEF LinkInv, SemInv, vars, semVars, RegistrationInv, StackFits, ClosedBut
<1>3. ProcsInv'
  BY DEF LinkInv, SemInv, vars, semVars, ProcsInv, FirstExporter
<1>4. GenInv'
  BY DEF LinkInv, vars, semVars, genVars, GenInv, LabelFirst, Labels
<1> QED
  BY <1>1, <1>2, <1>3, <1>4 DEF LinkInv, SemInv, vars, semVars

-----------------------------------------------------------------------------
(* Theorems.                                                               *)

\* The inductive invariant of linking.
THEOREM LinkInvariant == Spec => []LinkInv
<1>1. LinkInv /\ [Next]_vars => LinkInv'
  BY ImportInv, FollowInv, RegisteredInv, CollectProcsInv, EmitProcsInv, EmitModuleInv,
     FinishInv, StutterInv DEF Next, Registering
<1> QED
  BY <1>1, InitInv, PTL DEF Spec

\* The tables of sem.js and codegen.js keep their types.
THEOREM LinkerTypes == Spec => []TypeOK
<1>1. LinkInv => TypeOK
  BY DEF LinkInv
<1> QED
  BY <1>1, LinkInvariant, PTL

\* registerBinaryModule links a module once, whoever imports it and however the
\* references go round in circles (_binLoaded is set before MODINFO is followed).
THEOREM LinkerLinksOnce == Spec => []LinkedOnce
<1>1. LinkInv => LinkedOnce
  BY DEF LinkInv, SemInv, LoadedInv, RegistrationInv, StackFits, LinkedOnce, IsInjective
<1> QED
  BY <1>1, LinkInvariant, PTL

\* After analysis, what a linked module refers to is linked as well if it is binary.
THEOREM LinkerClosed == Spec => []ClosureLinked
<1>1. LinkInv => ClosureLinked
  BY DEF LinkInv, SemInv, LoadedInv, RegistrationInv, ClosedBut, ClosureLinked
<1> QED
  BY <1>1, LinkInvariant, PTL

\* The procedure sem.js checked a call against is the one codegen.js gives the label to,
\* though each has its own order of first come, first served: program, sources as they
\* were imported, binary modules as they were linked.
LEMMA OwnersAgree ==
  ASSUME LabelsApart, LinkInv, phase = "finished", NEW p \in Procs, procs[p] # None
  PROVE  proc[p] = procs[p]
<1>0. /\ TypeOK /\ LoadedInv /\ ProcsInv /\ SourcesInv /\ LabelFirst(p)
      /\ done = Len(linked) /\ linked \in Seq(Names) /\ Len(linked) \in Nat
      /\ DOMAIN linked = 1 .. done
  BY DEF LinkInv, SemInv, GenInv, TypeOK
<1>1. CASE p \in program
  BY <1>0, <1>1, Zenon DEF ProcsInv, LabelFirst
<1>2. CASE p \notin program /\ \E s \in sources : s.name = p
  <2>1. [name |-> p, from |-> proc[p]] \in sources
    BY <1>0, <1>2 DEF LabelFirst
  <2>2. procs[p] = proc[p] \/ procs[p] = Main
    BY <1>0, <2>1 DEF SourcesInv
  <2> QED
    BY <1>0, <1>2, <2>2, Zenon DEF ProcsInv
<1>3. CASE p \notin program /\ ~\E s \in sources : s.name = p
  <2>1. procs[p] \in Names
    BY <1>0, <1>3, Zenon DEF ProcsInv, TypeOK, Owners
  <2>2. Found[procs[p]].kind = "binary" /\ FirstExporter(procs[p], p)
    BY <1>0, <1>3, <2>1, Zenon DEF ProcsInv
  <2>3. PICK i \in 1 .. done : /\ linked[i] = procs[p] /\ p \in Found[procs[p]].procs
                               /\ \A j \in 1 .. i - 1 : p \notin Found[linked[j]].procs
    BY <1>0, <2>2 DEF FirstExporter
  <2>4. PICK k \in 1 .. done : /\ proc[p] = linked[k] /\ p \in Labels(linked[k])
                               /\ \A j \in 1 .. k - 1 : p \notin Labels(linked[j])
    BY <1>0, <1>3, <2>3 DEF LabelFirst, Labels
  <2>5. ~(i < k)
    BY <2>3, <2>4 DEF Labels
  <2>6. ~(k < i)
    <3> SUFFICES ASSUME k < i PROVE FALSE
      OBVIOUS
    <3>1. p \in Found[linked[k]].places
      BY <2>3, <2>4 DEF Labels
    <3>2. linked[k] # linked[i] /\ linked[k] \in Names
      BY <1>0 DEF LoadedInv, IsInjective
    <3> QED
      BY <2>1, <2>2, <2>3, <3>1, <3>2 DEF LabelsApart
  <2> QED
    BY <2>3, <2>4, <2>5, <2>6
<1> QED
  BY <1>1, <1>2, <1>3

\* The procedure sem.js checked a call against is the one the assembler's label leads
\* to: of two that have its name, both passes take the same.
THEOREM LinkerPassesAgree == ASSUME LabelsApart PROVE Spec => []PassesAgree
<1>1. LinkInv => PassesAgree
  BY OwnersAgree DEF PassesAgree
<1> QED
  BY <1>1, LinkInvariant, PTL

\* A module's reference reaches the module it names, or address 0 when that module is
\* not a linked one: never somebody else's procedure or class of the same name.
LEMMA ReferenceLands ==
  ASSUME LabelsApart, ExportsApart, LinkInv, phase = "finished",
         NEW n \in LinkedNames, NEW r \in Found[n].refs, Exports(r.sub, r)
  PROVE  Bound(r) \in {r.sub} \cup (IF Found[r.sub].kind = "binary" THEN {} ELSE {None})
<1>0. /\ TypeOK /\ LoadedInv /\ ProcsInv /\ SourcesInv /\ ClassesInv /\ GenInv
      /\ RegistrationInv
      /\ n \in loaded /\ n \in Names /\ loaded \subseteq Names
      /\ done = Len(linked) /\ linked \in Seq(Names) /\ DOMAIN linked = 1 .. done
      /\ None \notin Names
  BY LinkerAssumption DEF LinkInv, SemInv, LoadedInv, GenInv, TypeOK
<1>1. r.sub \in Names /\ r.symbol \in Procs \cup Classes /\ r.to \in {"proc", "class"}
  BY <1>0, LinkerAssumption DEF Refs
<1>2. Found[r.sub].kind = "binary" => r.sub \in loaded
  BY <1>0 DEF RegistrationInv, ClosedBut
<1>3. Found[r.sub].procs \subseteq Procs /\ Found[r.sub].classes \subseteq Classes
  BY <1>1, LinkerAssumption
<1>4. CASE r.to = "proc"
  <2> DEFINE p == r.symbol
  <2>1. p \in Procs /\ p \in Found[r.sub].procs
    BY <1>3, <1>4 DEF Exports
  <2>2. Bound(r) = IF p \in binary THEN proc[p] ELSE None
    BY <1>4 DEF Bound
  <2> HIDE DEF p
  <2>3. CASE Found[r.sub].kind = "binary"
    <3>1. procs[p] # None /\ p \notin program
      BY <1>0, <1>1, <1>2, <2>1, <2>3 DEF ProcsInv, ExportsApart, TypeOK
    <3>2. procs[p] \in Names
      BY <1>0, <2>1, <3>1, Zenon DEF ProcsInv, TypeOK, Owners
    <3>3. p \in Found[procs[p]].procs
      BY <1>0, <2>1, <3>2, Zenon DEF ProcsInv, FirstExporter, SourcesInv
    <3>4. procs[p] = r.sub
      BY <1>1, <2>1, <2>3, <3>2, <3>3 DEF ExportsApart
    <3>5. [name |-> p, from |-> procs[p]] \notin sources
      BY <1>0, <2>3, <3>4 DEF SourcesInv
    <3>6. p \in binary
      BY <1>0, <2>1, <3>2, <3>5 DEF ProcsInv
    <3> QED
      BY <2>1, <2>2, <3>1, <3>4, <3>6, OwnersAgree
  <2>4. CASE Found[r.sub].kind # "binary"
    <3>1. p \notin binary
      BY <1>0, <1>1, <2>1, <2>4 DEF ProcsInv, LoadedInv, ExportsApart
    <3> QED
      BY <2>2, <2>4, <3>1
  <2> QED
    BY <2>3, <2>4
<1>5. CASE r.to = "class"
  <2> DEFINE c == r.symbol
  <2>1. c \in Classes /\ c \in Found[r.sub].classes
    BY <1>3, <1>5 DEF Exports
  <2>2. Bound(r) = IF classes[c] # None THEN descr[c] ELSE None
    BY <1>5 DEF Bound
  <2> HIDE DEF c
  <2>3. classes[c] # None => /\ classes[c] \in loaded /\ c \in Found[classes[c]].classes
                             /\ Found[classes[c]].kind = "binary"
    BY <1>0, <2>1 DEF ClassesInv, LoadedInv
  <2>4. CASE Found[r.sub].kind = "binary"
    <3>1. classes[c] = r.sub /\ classes[c] # None
      BY <1>0, <1>1, <1>2, <2>1, <2>3, <2>4 DEF ClassesInv, ExportsApart
    <3>2. PICK i \in 1 .. done : linked[i] = r.sub
      BY <1>0, <1>2, <2>4 DEF LoadedInv, LinkedNames
    <3>3. descr[c] = r.sub
      BY <1>0, <2>1, <3>1, <3>2 DEF GenInv
    <3> QED
      BY <2>2, <3>1, <3>3
  <2>5. CASE Found[r.sub].kind # "binary"
    <3>1. classes[c] = None
      BY <1>0, <1>1, <2>1, <2>3, <2>5 DEF ExportsApart
    <3> QED
      BY <2>2, <2>5, <3>1
  <2> QED
    BY <2>4, <2>5
<1> QED
  BY <1>1, <1>4, <1>5

\* A module's placeholder call leads to the module that it names in its MODINFO entry.
THEOREM LinkerReferencesLand ==
  ASSUME LabelsApart, ExportsApart PROVE Spec => []ReferencesLand
<1>1. LinkInv => ReferencesLand
  BY ReferenceLands DEF ReferencesLand
<1> QED
  BY <1>1, LinkInvariant, PTL


-----------------------------------------------------------------------------
(* Reading a file: the loops that EmodFileProofs has not come to.  Globals.  *)

LEMMA GlobsAre ==
  ASSUME NEW M \in Module, NEW V \in Nat
  PROVE  /\ M.xrefs \in Seq(Xref) /\ Len(M.xrefs) \in Nat /\ M.drels \in Seq(Seq(Ref)) /\ Len(M.drels) \in Nat
         /\ XrefWords(V, M.xrefs) \in Seq(WordSeqs) /\ Len(XrefWords(V, M.xrefs)) = Len(M.xrefs)
         /\ DrelWords(V, M.drels) \in Seq(WordSeqs) /\ Len(DrelWords(V, M.drels)) = Len(M.drels)
         /\ Left(M, V, 7) \in WordSeqs /\ <<End>> \o Left(M, V, 7) \in WordSeqs
         /\ \A j \in 1 .. Len(M.drels) + 1 : DrelsLeft(M, V, j) \in WordSeqs
         /\ \A j \in 1 .. Len(M.xrefs) + 1 : XrefsLeft(M, V, j) \in WordSeqs
<1>1. M.xrefs \in Seq(Xref) /\ Len(M.xrefs) \in Nat /\ M.drels \in Seq(Seq(Ref)) /\ Len(M.drels) \in Nat
  <2>1. M.xrefs \in Seq(Xref) /\ M.drels \in Seq(Seq(Ref))
    BY ModuleSays, Zenon
  <2> QED
    BY <2>1
<1>2. XrefWords(V, M.xrefs) \in Seq(WordSeqs) /\ Len(XrefWords(V, M.xrefs)) = Len(M.xrefs)
  BY <1>1, XrefEntries
<1>3. DrelWords(V, M.drels) \in Seq(WordSeqs) /\ Len(DrelWords(V, M.drels)) = Len(M.drels)
  BY <1>1, DrelEntries
<1>4. Left(M, V, 7) \in WordSeqs /\ <<End>> \o Left(M, V, 7) \in WordSeqs
  <2>1. Left(M, V, 7) \in WordSeqs
    BY LeftIs
  <2>2. <<End>> \in WordSeqs
    BY Numbers0, Tuples
  <2> QED
    BY <2>1, <2>2, Joins
<1>5. ASSUME NEW j \in 1 .. Len(M.drels) + 1 PROVE DrelsLeft(M, V, j) \in WordSeqs
  <2>1. From(DrelWords(V, M.drels), j) \in WordSeqs
    BY <1>3, FromIs, Zenon
  <2> QED
    BY <1>4, <2>1, Joins DEF DrelsLeft
<1>6. ASSUME NEW j \in 1 .. Len(M.xrefs) + 1 PROVE XrefsLeft(M, V, j) \in WordSeqs
  <2>1. From(XrefWords(V, M.xrefs), j) \in WordSeqs
    BY <1>2, FromIs, Zenon
  <2>2. 1 \in 1 .. Len(M.drels) + 1
    BY <1>1
  <2>3. DrelsLeft(M, V, 1) \in WordSeqs
    BY <1>5, <2>2
  <2> QED
    BY <2>1, <2>3, Joins DEF XrefsLeft
<1> QED
  BY <1>1, <1>2, <1>3, <1>4, <1>5, <1>6

LEMMA GlobsOutSay ==
  ASSUME NEW M, NEW V, NEW j
  PROVE  /\ DOMAIN XrefsOut(M, V, j) = DOMAIN Nothing /\ XrefsOut(M, V, j).version = V
         /\ DOMAIN DrelsOut(M, V, j) = DOMAIN Nothing /\ DrelsOut(M, V, j).version = V
<1> DEFINE f == Before(M, V, 6)
           a == FirstOf(M.xrefs, j - 1)
           x == M.xrefs
           b == FirstOf(M.drels, j - 1)
<1>1. DOMAIN f = DOMAIN Nothing
  BY KnownFields
<1>2. f.version = V
  BY VersionKnown
<1> HIDE DEF f, a, x, b
<1>3. DOMAIN [f EXCEPT !.xrefs = a] = DOMAIN Nothing /\ [f EXCEPT !.xrefs = a].version = V
  BY <1>1, <1>2, FieldsSay DEF Fields
<1>4. DOMAIN [f EXCEPT !.xrefs = x, !.drels = b] = DOMAIN Nothing /\ [f EXCEPT !.xrefs = x, !.drels = b].version = V
  BY <1>1, <1>2, FieldsSay DEF Fields
<1> QED
  BY <1>3, <1>4 DEF XrefsOut, DrelsOut, f, a, x, b

LEMMA XrefsGrow ==
  ASSUME NEW M \in Module, NEW V \in Nat, NEW j \in 1 .. Len(M.xrefs), NEW e, e = M.xrefs[j],
         out = XrefsOut(M, V, j), out' = [out EXCEPT !.xrefs = Append(@, e)]
  PROVE  out' = XrefsOut(M, V, j + 1)
<1> DEFINE s == M.xrefs
           f == Before(M, V, 6)
           a == FirstOf(s, j - 1)
           b == FirstOf(s, j)
<1>1. s \in Seq(Xref) /\ Len(s) \in Nat /\ (j + 1) - 1 = j
  BY GlobsAre
<1>2. b = Append(a, e)
  BY <1>1, FirstOfSays
<1>3. "xrefs" \in DOMAIN f
  BY FieldsSay DEF Before, Fields
<1>4. out = [f EXCEPT !.xrefs = a] /\ XrefsOut(M, V, j + 1) = [f EXCEPT !.xrefs = b]
  BY <1>1 DEF XrefsOut
<1> HIDE DEF f, a, b, s
<1>5. [[f EXCEPT !.xrefs = a] EXCEPT !.xrefs = Append(@, e)] = [f EXCEPT !.xrefs = b]
  BY <1>2, <1>3, Zenon
<1> QED
  BY <1>4, <1>5

LEMMA DrelsGrow ==
  ASSUME NEW M \in Module, NEW V \in Nat, NEW j \in 1 .. Len(M.drels), NEW e, e = M.drels[j],
         out = DrelsOut(M, V, j), out' = [out EXCEPT !.drels = Append(@, e)]
  PROVE  out' = DrelsOut(M, V, j + 1)
<1> DEFINE s == M.drels
           f == [Before(M, V, 6) EXCEPT !.xrefs = M.xrefs]
           a == FirstOf(s, j - 1)
           b == FirstOf(s, j)
<1>1. s \in Seq(Seq(Ref)) /\ Len(s) \in Nat /\ (j + 1) - 1 = j
  BY GlobsAre
<1>2. b = Append(a, e)
  BY <1>1, FirstOfSays, Zenon
<1>3. "drels" \in DOMAIN f
  BY FieldsSay DEF Before, Fields
<1>4. out = [f EXCEPT !.drels = a] /\ DrelsOut(M, V, j + 1) = [f EXCEPT !.drels = b]
  BY <1>1, Zenon DEF DrelsOut
<1> HIDE DEF f, a, b, s
<1>5. [[f EXCEPT !.drels = a] EXCEPT !.drels = Append(@, e)] = [f EXCEPT !.drels = b]
  BY <1>2, <1>3, Zenon
<1> QED
  BY <1>4, <1>5

\* All of the one kind, none of the other; and all of both.
LEMMA GlobsKnown ==
  ASSUME NEW M \in Module, NEW V \in Nat
  PROVE  /\ XrefsOut(M, V, 1) = Before(M, V, 6)
         /\ XrefsOut(M, V, Len(M.xrefs) + 1) = DrelsOut(M, V, 1)
         /\ DrelsOut(M, V, Len(M.drels) + 1) = Before(M, V, 7)
<1> DEFINE f == Before(M, V, 6)
           x == M.xrefs
           d == M.drels
<1>1. /\ FirstOf(x, 1 - 1) = << >> /\ FirstOf(x, (Len(x) + 1) - 1) = x
      /\ FirstOf(d, 1 - 1) = << >> /\ FirstOf(d, (Len(d) + 1) - 1) = d
  <2>1. x \in Seq(Xref) /\ d \in Seq(Seq(Ref)) /\ 1 - 1 = 0 /\ (Len(x) + 1) - 1 = Len(x) /\ (Len(d) + 1) - 1 = Len(d)
    BY GlobsAre
  <2>2. FirstOf(x, 0) = << >> /\ FirstOf(x, Len(x)) = x
    BY <2>1, FirstOfSays
  <2>3. FirstOf(d, 0) = << >> /\ FirstOf(d, Len(d)) = d
    BY <2>1, FirstOfSays
  <2> QED
    BY <2>1, <2>2, <2>3
<1>2. f = [y \in Fields |-> f[y]] /\ f.xrefs = << >> /\ f.drels = << >> /\ "xrefs" \in Fields /\ "drels" \in Fields
  <2>1. "xrefs" \in Fields /\ "drels" \in Fields
    BY DEF Fields
  <2>2. JobOf["xrefs"] = 6 /\ JobOf["drels"] = 6
    BY <2>1, JobOfSays
  <2>3. f.xrefs = << >> /\ f.drels = << >>
    BY <2>1, <2>2, FieldsSay, NothingSays DEF Before
  <2>4. f = [y \in Fields |-> f[y]]
    BY FieldsSay DEF Before
  <2> QED
    BY <2>1, <2>3, <2>4
<1>3. Before(M, V, 7) = [f EXCEPT !.xrefs = x, !.drels = d]
  BY BeforeSays, Zenon
<1>4. /\ XrefsOut(M, V, 1) = [f EXCEPT !.xrefs = << >>] /\ XrefsOut(M, V, Len(M.xrefs) + 1) = [f EXCEPT !.xrefs = x]
      /\ DrelsOut(M, V, 1) = [f EXCEPT !.xrefs = x, !.drels = << >>]
      /\ DrelsOut(M, V, Len(M.drels) + 1) = [f EXCEPT !.xrefs = x, !.drels = d]
  BY <1>1, Zenon DEF XrefsOut, DrelsOut
<1> HIDE DEF f, x, d
<1>5. [f EXCEPT !.xrefs = << >>] = f
  BY <1>2
<1>6. [f EXCEPT !.xrefs = x, !.drels = << >>] = [f EXCEPT !.xrefs = x]
  BY <1>2, Zenon
<1> QED
  BY <1>3, <1>4, <1>5, <1>6 DEF f

LEMMA DrelsArrive ==
  ASSUME NEW M, NEW V, NEW W, NEW j \in 1 .. Len(M.drels) + 1,
         mode' = "globs", o' \in Nat \ {0}, Holds(W, o', DrelsLeft(M, V, j)), out' = DrelsOut(M, V, j)
  PROVE  ReaderInv(M, V, W)'
<1>1. DrelsAt(M, V, W, j)'
  BY DEF DrelsAt, In
<1>2. GlobsInv(M, V, W)'
  BY <1>1 DEF GlobsInv
<1> QED
  BY <1>2 DEF ReaderInv

LEMMA XrefsArrive ==
  ASSUME NEW M \in Module, NEW V \in Nat, NEW W, NEW j \in 1 .. Len(M.xrefs) + 1,
         mode' = "globs", o' \in Nat \ {0}, Holds(W, o', XrefsLeft(M, V, j)), out' = XrefsOut(M, V, j)
  PROVE  ReaderInv(M, V, W)'
<1>1. CASE j \in 1 .. Len(M.xrefs)
  <2>1. j \in DOMAIN M.xrefs
    BY <1>1, GlobsAre
  <2>2. XrefsAt(M, V, W, j)'
    BY DEF XrefsAt, In
  <2>3. GlobsInv(M, V, W)'
    BY <2>1, <2>2 DEF GlobsInv
  <2> QED
    BY <2>3 DEF ReaderInv
<1>2. CASE j = Len(M.xrefs) + 1
  <2>1. 1 \in 1 .. Len(M.drels) + 1
    BY GlobsAre
  <2>2. DrelsLeft(M, V, 1) \in WordSeqs
    BY <2>1, GlobsAre
  <2>3. Holds(W, o', DrelsLeft(M, V, 1))
    <3>1. XrefWords(V, M.xrefs) \in Seq(WordSeqs) /\ Len(XrefWords(V, M.xrefs)) = Len(M.xrefs)
      BY GlobsAre
    <3> QED
      BY <1>2, <2>2, <3>1, NoEntry DEF XrefsLeft
  <2>4. out' = DrelsOut(M, V, 1)
    BY <1>2, GlobsKnown
  <2> QED
    BY <2>1, <2>3, <2>4, DrelsArrive
<1>3. Len(M.xrefs) \in Nat
  BY GlobsAre
<1> QED
  BY <1>1, <1>2, <1>3

LEMMA XrefRefsArrive ==
  ASSUME NEW M \in Module, NEW V \in Nat, NEW W, NEW j \in 1 .. Len(M.xrefs), NEW d \in 1 .. Len(M.xrefs[j].refs) + 1,
         mode' = "refs", o' \in Nat \ {0}, Holds(W, o', RefsLeft(V, M.xrefs[j].refs, d, XrefsLeft(M, V, j + 1))),
         out' = XrefsOut(M, V, j),
         part' = [named |-> TRUE, name |-> M.xrefs[j].name, refs |-> FirstOf(M.xrefs[j].refs, d - 1)]
  PROVE  ReaderInv(M, V, W)'
<1>1. XrefRefsAt(M, V, W, j, d)'
  BY DEF XrefRefsAt, In
<1>2. j \in DOMAIN M.xrefs
  BY GlobsAre
<1>3. GlobsInv(M, V, W)'
  BY <1>1, <1>2 DEF GlobsInv
<1> QED
  BY <1>3 DEF ReaderInv

LEMMA DrelRefsArrive ==
  ASSUME NEW M \in Module, NEW V \in Nat, NEW W, NEW j \in 1 .. Len(M.drels), NEW d \in 1 .. Len(M.drels[j]) + 1,
         mode' = "refs", o' \in Nat \ {0}, Holds(W, o', RefsLeft(V, M.drels[j], d, DrelsLeft(M, V, j + 1))),
         out' = DrelsOut(M, V, j), part' = [named |-> FALSE, name |-> << >>, refs |-> FirstOf(M.drels[j], d - 1)]
  PROVE  ReaderInv(M, V, W)'
<1>1. DrelRefsAt(M, V, W, j, d)'
  BY DEF DrelRefsAt, In
<1>2. j \in DOMAIN M.drels
  BY GlobsAre
<1>3. GlobsInv(M, V, W)'
  BY <1>1, <1>2, Zenon DEF GlobsInv
<1> QED
  BY <1>3 DEF ReaderInv


LEMMA RefsChange ==
  ASSUME NEW n, NEW t, NEW a, NEW b, NEW p, p = [named |-> t, name |-> n, refs |-> a]
  PROVE  p.refs = a /\ [p EXCEPT !.refs = b] = [named |-> t, name |-> n, refs |-> b]
  OBVIOUS

\* In the references of an entry, whichever kind it is.
LEMMA RefFollows ==
  ASSUME NEW M, NEW V \in Nat, NEW W, Begins(W), Len(W) \in Nat, NEW refs \in Seq(Ref), NEW d \in 1 .. Len(refs),
         NEW next \in WordSeqs, mode = "refs", o \in Nat \ {0}, Holds(W, o, RefsLeft(V, refs, d, next)),
         DOMAIN out = DOMAIN Nothing, out.version = V,
         NEW t, NEW n, part = [named |-> t, name |-> n, refs |-> FirstOf(refs, d - 1)], Read
  PROVE  \/ ReaderInv(M, V, W)'
         \/ /\ mode' = "refs" /\ o' \in Nat \ {0} /\ Holds(W, o', RefsLeft(V, refs, d + 1, next)) /\ out' = out
            /\ part' = [named |-> t, name |-> n, refs |-> FirstOf(refs, d)]
<1> DEFINE seqs == RefWords(V, refs)
           value == refs[d]
           rest == From(seqs, d + 1) \o (LongZero \o next)
           a == FirstOf(refs, d - 1)
           b == FirstOf(refs, d)
           step == IF V >= 10 THEN 1 ELSE 0
<1>1. seqs \in Seq(WordSeqs) /\ Len(seqs) = Len(refs)
  BY RefEntries
<1>2. value \in Nat \ {0} /\ seqs[d] = Long(value) \o (IF V >= 10 THEN << 0 >> ELSE << >>)
  BY RefEntries, Zenon
<1>3. LongZero \o next \in WordSeqs
  BY RefListSays, Joins
<1>4. Holds(W, o, (Long(value) \o (IF V >= 10 THEN << 0 >> ELSE << >>)) \o rest) /\ rest \in WordSeqs
  <2>1. Holds(W, o, From(seqs, d) \o (LongZero \o next))
    BY DEF RefsLeft
  <2>2. d \in 1 .. Len(seqs)
    BY <1>1
  <2> HIDE DEF value, seqs
  <2> QED
    BY <1>1, <1>2, <1>3, <2>1, <2>2, NextEntry, Zenon
<1>5. RefsLeft(V, refs, d + 1, next) = rest
  BY DEF RefsLeft
<1>6. b = Append(a, value)
  BY FirstOfSays, Zenon
<1>7. part = [named |-> t, name |-> n, refs |-> a]
  OBVIOUS
<1> HIDE DEF seqs, value, rest, a
<1>8. Holds(W, o, Long(value)) /\ o + 2 + step \in Nat \ {0} /\ Holds(W, o + 2 + step, rest)
  BY <1>2, <1>4, RefStands, Zenon
<1> HIDE DEF b
<1>9. o + 1 <= Len(W) /\ (Has(o + 1) => LongAt(o) = value) /\ o + 1 \in Nat \ {0}
  BY <1>2, <1>8, LongThere
<1>10. ReadRef \/ RefsEnd
  BY InLoop
<1>11. ReadRef
  BY <1>2, <1>9, <1>10 DEF RefsEnd
<1>12. CASE ~Has(o + 1)
  <2>1. Throw
    BY <1>11, <1>12 DEF ReadRef, Reading
  <2> QED
    BY <1>9, <1>12, <2>1, WordMissing, Thrown1
<1>13. CASE Has(o + 1)
  <2>1. part' = [part EXCEPT !.refs = Append(@, LongAt(o))] /\ o' = o + 2 + step /\ mode' = mode /\ out' = out
    BY <1>11, <1>13, Zenon DEF ReadRef, Reading
  <2>2. part.refs = a /\ [part EXCEPT !.refs = b] = [named |-> t, name |-> n, refs |-> b]
    BY <1>7, RefsChange
  <2>3. Append(part.refs, LongAt(o)) = b
    BY <1>6, <1>9, <1>13, <2>2
  <2>4. part' = [named |-> t, name |-> n, refs |-> b]
    BY <2>1, <2>2, <2>3, Zenon
  <2>5. mode' = "refs" /\ o' \in Nat \ {0} /\ Holds(W, o', RefsLeft(V, refs, d + 1, next)) /\ out' = out
    BY <1>5, <1>8, <2>1
  <2> QED
    BY <2>4, <2>5 DEF b
<1> QED
  BY <1>12, <1>13

LEMMA RefsOver ==
  ASSUME NEW M, NEW V \in Nat, NEW W, Begins(W), Len(W) \in Nat, NEW refs \in Seq(Ref), NEW d, d = Len(refs) + 1,
         NEW next \in WordSeqs, mode = "refs", o \in Nat \ {0}, Holds(W, o, RefsLeft(V, refs, d, next)),
         DOMAIN out = DOMAIN Nothing, Read
  PROVE  ReaderInv(M, V, W)' \/ (RefsEnd /\ mode' = "globs" /\ o' \in Nat \ {0} /\ Holds(W, o', next))
<1>1. RefWords(V, refs) \in Seq(WordSeqs) /\ Len(RefWords(V, refs)) = Len(refs)
  BY RefEntries
<1>2. LongZero \o next \in WordSeqs
  BY RefListSays, Joins
<1>3. Holds(W, o, <<0, 0>> \o next)
  BY <1>1, <1>2, NoEntry DEF RefsLeft, LongZero
<1>4. o + 1 <= Len(W) /\ W[o] = 0 /\ W[o + 1] = 0 /\ o + 2 \in Nat \ {0} /\ Holds(W, o + 2, next)
  BY <1>3, PairStands
<1>5. o + 1 \in Nat \ {0} /\ o <= Len(W)
  BY <1>4
<1>6. ReadRef \/ RefsEnd
  BY InLoop
<1>7. CASE ~Has(o + 1)
  <2>1. Throw
    BY <1>6, <1>7 DEF ReadRef, Reading, RefsEnd
  <2> QED
    BY <1>4, <1>5, <1>7, <2>1, WordMissing, Thrown1
<1>8. CASE Has(o + 1)
  <2>1. Has(o)
    BY <1>8 DEF Has, Begins
  <2>2. file[o] = 0 /\ file[o + 1] = 0
    BY <1>4, <1>5, <1>8, <2>1, WordThere
  <2>3. LongAt(o) = 0
    BY <2>2, Numbers0 DEF LongAt
  <2>4. RefsEnd
    BY <1>6, <1>8, <2>3 DEF ReadRef, Reading
  <2>5. mode' = "globs" /\ o' = o + 2
    BY <2>4 DEF RefsEnd, Goto
  <2> QED
    BY <1>4, <2>4, <2>5
<1> QED
  BY <1>7, <1>8

LEMMA XrefsStep ==
  ASSUME NEW M, NEW V, NEW W, FileInv(M, V, W), NEW j \in 1 .. Len(M.xrefs), XrefsAt(M, V, W, j), Read
  PROVE  ReaderInv(M, V, W)'
<1> DEFINE xref == M.xrefs[j]
           name == xref.name
           rest == XrefsLeft(M, V, j + 1)
           n == Len(name)
<1>1. M \in Module /\ V \in Nat /\ Begins(W) /\ Len(W) \in Nat
  BY FileSays
<1>2. /\ name \in Name /\ xref.refs \in Seq(Ref)
      /\ XrefWords(V, M.xrefs)[j] = Named(name) \o RefList(V, xref.refs)
  BY <1>1, GlobsAre, XrefEntries, Zenon
<1>3. mode = "globs" /\ o \in Nat \ {0} /\ Holds(W, o, XrefsLeft(M, V, j)) /\ out = XrefsOut(M, V, j)
  BY DEF XrefsAt, In
<1>4. DOMAIN out = DOMAIN Nothing
  BY <1>3, GlobsOutSay
<1>5. j + 1 \in 1 .. Len(M.xrefs) + 1 /\ 1 \in 1 .. Len(M.drels) + 1
  BY <1>1, GlobsAre
<1>6. rest \in WordSeqs /\ DrelsLeft(M, V, 1) \in WordSeqs
  BY <1>1, <1>5, GlobsAre
<1>7. Holds(W, o, (Named(name) \o RefList(V, xref.refs)) \o rest)
  <2>1. XrefWords(V, M.xrefs) \in Seq(WordSeqs) /\ Len(XrefWords(V, M.xrefs)) = Len(M.xrefs)
    BY <1>1, GlobsAre
  <2>2. j \in 1 .. Len(XrefWords(V, M.xrefs))
    BY <2>1
  <2>3. Holds(W, o, From(XrefWords(V, M.xrefs), j) \o DrelsLeft(M, V, 1))
    BY <1>3 DEF XrefsLeft
  <2>4. Holds(W, o, XrefWords(V, M.xrefs)[j] \o (From(XrefWords(V, M.xrefs), j + 1) \o DrelsLeft(M, V, 1)))
    BY <1>1, <1>3, <1>6, <2>1, <2>2, <2>3, NextEntry
  <2> QED
    BY <1>2, <2>4 DEF XrefsLeft
<1>8. n \in Nat /\ Bytes(name) \div 2 = n /\ 0 < Bytes(name) /\ Bytes(name) < Half /\ Bytes(name) \in Nat
  BY <1>2, NameSays, Zenon
<1>9. xref = M.xrefs[j] /\ name = M.xrefs[j].name /\ rest = XrefsLeft(M, V, j + 1) /\ name = xref.name
  OBVIOUS
<1> HIDE DEF xref, name, rest
<1>10. /\ o <= Len(W) /\ W[o] = Bytes(name) /\ Holds(W, o + 1, name)
       /\ o + 1 + n \in Nat \ {0} /\ Holds(W, o + 1 + n, Flat(RefWords(V, xref.refs)) \o (LongZero \o rest))
  BY <1>1, <1>2, <1>3, <1>6, <1>7, XrefStands
<1>11. n = Len(name)
  OBVIOUS
<1> HIDE DEF n
<1>12. Has(o) => file[o] = Bytes(name)
  BY <1>1, <1>3, <1>10, WordThere
<1>13. FirstWordMissing \/ GlobsEnd \/ ReadGlob
  BY <1>3, InLoop
<1>14. CASE FirstWordMissing
  <2>1. ~Has(o) /\ Throw
    BY <1>14 DEF FirstWordMissing
  <2> QED
    BY <1>1, <1>3, <1>4, <1>10, <2>1, WordMissing, Thrown1
<1>15. CASE GlobsEnd
  <2>1. Has(o) /\ file[o] >= Half
    BY <1>15 DEF GlobsEnd, IsNegative
  <2> QED
    BY <1>8, <1>12, <2>1, Numbers0
<1>16. CASE ReadGlob
  <2>1. /\ Has(o) /\ part' = [named |-> file[o] > 0, name |-> NameAt(o + 1, file[o]), refs |-> << >>]
        /\ mode' = "refs" /\ o' = o + 1 + file[o] \div 2 /\ out' = out /\ UNCHANGED source
    BY <1>16 DEF ReadGlob, Goto
  <2>2. o' = o + 1 + n /\ (file[o] > 0) = TRUE
    BY <1>8, <1>12, <2>1
  <2>3. NameAt(o + 1, Bytes(name)) = name \/ (cut /\ ~Has(o + 1 + n))
    <3>1. o + 1 \in Nat \ {0}
      BY <1>3
    <3> QED
      BY <1>1, <1>2, <1>10, <1>11, <3>1, NameThere, Zenon
  <2>4. CASE NameAt(o + 1, Bytes(name)) = name
    <3>1. part' = [named |-> TRUE, name |-> name, refs |-> << >>]
      BY <1>12, <2>1, <2>2, <2>4, Zenon
    <3>2. FirstOf(xref.refs, 1 - 1) = << >> /\ 1 \in 1 .. Len(xref.refs) + 1
      <4>1. 1 - 1 = 0
        OBVIOUS
      <4>2. FirstOf(xref.refs, 0) = << >>
        BY <1>2, FirstOfSays
      <4> QED
        BY <1>2, <4>1, <4>2
    <3>3. part' = [named |-> TRUE, name |-> M.xrefs[j].name, refs |-> FirstOf(M.xrefs[j].refs, 1 - 1)]
          /\ 1 \in 1 .. Len(M.xrefs[j].refs) + 1
      BY <1>9, <3>1, <3>2, Zenon
    <3>4. Holds(W, o', RefsLeft(V, M.xrefs[j].refs, 1, XrefsLeft(M, V, j + 1))) /\ o' \in Nat \ {0}
      BY <1>9, <1>10, <2>2 DEF RefsLeft, Flat
    <3> QED
      BY <1>1, <1>3, <2>1, <3>3, <3>4, XrefRefsArrive, Zenon
  <2>5. CASE cut /\ ~Has(o + 1 + n)
    <3>1. mode' \in {"consts", "members", "refs", "symbols"} /\ o + 1 + n \in Nat /\ DOMAIN out' = DOMAIN Nothing
      BY <1>4, <1>10, <2>1
    <3> QED
      BY <2>1, <2>2, <2>5, <3>1, LostNext
  <2> QED
    BY <2>3, <2>4, <2>5
<1> QED
  BY <1>13, <1>14, <1>15, <1>16

LEMMA XrefRefsStep ==
  ASSUME NEW M, NEW V, NEW W, FileInv(M, V, W), NEW j \in 1 .. Len(M.xrefs),
         NEW d \in 1 .. Len(M.xrefs[j].refs) + 1, XrefRefsAt(M, V, W, j, d), Read
  PROVE  ReaderInv(M, V, W)'
<1> DEFINE xref == M.xrefs[j]
           refs == xref.refs
           next == XrefsLeft(M, V, j + 1)
<1>1. M \in Module /\ V \in Nat /\ Begins(W) /\ Len(W) \in Nat
  BY FileSays
<1>2. xref.name \in Name /\ refs \in Seq(Ref) /\ xref = [name |-> xref.name, refs |-> refs]
  <2>1. M.xrefs \in Seq(Xref)
    BY <1>1, GlobsAre
  <2>2. M.xrefs[j] \in Xref
    BY <2>1
  <2>3. xref \in [name : Name, refs : Seq(Ref)]
    BY <2>2 DEF Xref
  <2> HIDE DEF xref
  <2> QED
    BY <2>3
<1>3. Len(refs) \in Nat
  BY <1>2
<1>4. j + 1 \in 1 .. Len(M.xrefs) + 1
  BY <1>1, GlobsAre
<1>5. next \in WordSeqs
  BY <1>1, <1>4, GlobsAre
<1>6. /\ mode = "refs" /\ o \in Nat \ {0} /\ out = XrefsOut(M, V, j)
      /\ Holds(W, o, RefsLeft(V, refs, d, next))
      /\ part = [named |-> TRUE, name |-> xref.name, refs |-> FirstOf(refs, d - 1)]
  BY DEF XrefRefsAt, In
<1>7. DOMAIN out = DOMAIN Nothing /\ out.version = V
  BY <1>6, GlobsOutSay
<1>8. /\ xref = M.xrefs[j] /\ refs = M.xrefs[j].refs /\ next = XrefsLeft(M, V, j + 1) /\ d \in 1 .. Len(refs) + 1
      /\ refs = xref.refs
  OBVIOUS
<1> HIDE DEF xref, refs, next
<1>9. CASE d \in 1 .. Len(refs)
  <2>1. \/ ReaderInv(M, V, W)'
        \/ /\ mode' = "refs" /\ o' \in Nat \ {0} /\ Holds(W, o', RefsLeft(V, refs, d + 1, next)) /\ out' = out
           /\ part' = [named |-> TRUE, name |-> xref.name, refs |-> FirstOf(refs, d)]
    BY <1>1, <1>2, <1>5, <1>6, <1>7, <1>9, RefFollows
  <2>2. ASSUME /\ mode' = "refs" /\ o' \in Nat \ {0} /\ Holds(W, o', RefsLeft(V, refs, d + 1, next)) /\ out' = out
               /\ part' = [named |-> TRUE, name |-> xref.name, refs |-> FirstOf(refs, d)]
        PROVE  ReaderInv(M, V, W)'
    <3>1. (d + 1) - 1 = d /\ d + 1 \in 1 .. Len(refs) + 1
      BY <1>3, <1>9
    <3>2. /\ d + 1 \in 1 .. Len(M.xrefs[j].refs) + 1
          /\ Holds(W, o', RefsLeft(V, M.xrefs[j].refs, d + 1, XrefsLeft(M, V, j + 1)))
          /\ part' = [named |-> TRUE, name |-> M.xrefs[j].name, refs |-> FirstOf(M.xrefs[j].refs, (d + 1) - 1)]
      BY <1>8, <2>2, <3>1, Zenon
    <3> QED
      BY <1>1, <1>6, <2>2, <3>2, XrefRefsArrive, Zenon
  <2> QED
    BY <2>1, <2>2
<1>10. CASE d = Len(refs) + 1
  <2>1. ReaderInv(M, V, W)' \/ (RefsEnd /\ mode' = "globs" /\ o' \in Nat \ {0} /\ Holds(W, o', next))
    BY <1>1, <1>2, <1>5, <1>6, <1>7, <1>10, RefsOver
  <2>2. ASSUME RefsEnd /\ mode' = "globs" /\ o' \in Nat \ {0} /\ Holds(W, o', next)
        PROVE  ReaderInv(M, V, W)'
    <3>1. FirstOf(refs, d - 1) = refs
      <4>1. d - 1 = Len(refs)
        BY <1>3, <1>10
      <4> QED
        BY <1>2, <4>1, FirstOfSays
    <3>2. part.named = TRUE /\ part.name = xref.name /\ part.refs = refs
      BY <1>6, <3>1
    <3> DEFINE e == [name |-> part.name, refs |-> part.refs]
    <3>3. out' = [out EXCEPT !.xrefs = Append(@, e)]
      BY <2>2, <3>2 DEF RefsEnd
    <3>4. e = M.xrefs[j]
      BY <1>2, <1>8, <3>2
    <3> HIDE DEF e
    <3>5. out' = XrefsOut(M, V, j + 1)
      BY <1>1, <1>6, <3>3, <3>4, XrefsGrow, Zenon
    <3> QED
      BY <1>1, <1>4, <1>8, <2>2, <3>5, XrefsArrive
  <2> QED
    BY <2>1, <2>2
<1> QED
  BY <1>3, <1>8, <1>9, <1>10


LEMMA DrelsStep ==
  ASSUME NEW M, NEW V, NEW W, FileInv(M, V, W), NEW j \in 1 .. Len(M.drels) + 1, DrelsAt(M, V, W, j), Read
  PROVE  ReaderInv(M, V, W)'
<1> DEFINE refs == M.drels[j]
           rest == DrelsLeft(M, V, j + 1)
           seqs == DrelWords(V, M.drels)
           next == Left(M, V, 7)
<1>1. M \in Module /\ V \in Nat /\ Begins(W) /\ Len(W) \in Nat
  BY FileSays
<1>2. /\ mode = "globs" /\ o \in Nat \ {0} /\ Holds(W, o, From(seqs, j) \o (<<End>> \o next))
      /\ out = DrelsOut(M, V, j)
  BY DEF DrelsAt, In, DrelsLeft
<1>3. DOMAIN out = DOMAIN Nothing
  BY <1>2, GlobsOutSay
<1>4. seqs \in Seq(WordSeqs) /\ Len(seqs) = Len(M.drels) /\ next \in WordSeqs /\ <<End>> \o next \in WordSeqs
      /\ M.drels \in Seq(Seq(Ref)) /\ Len(M.drels) \in Nat
  BY <1>1, GlobsAre, Zenon
<1>5. FirstWordMissing \/ GlobsEnd \/ ReadGlob
  BY <1>2, InLoop
<1>6. CASE j = Len(M.drels) + 1
  <2> HIDE DEF seqs, next
  <2>1. Holds(W, o, <<End>> \o next)
    BY <1>2, <1>4, <1>6, NoEntry
  <2>2. o <= Len(W) /\ W[o] = End /\ o + 1 \in Nat \ {0} /\ Holds(W, o + 1, next)
    BY <1>1, <1>2, <1>4, <2>1, Numbers0, OneStands
  <2>3. CASE FirstWordMissing
    <3>1. ~Has(o) /\ Throw
      BY <2>3 DEF FirstWordMissing
    <3> QED
      BY <1>1, <1>2, <1>3, <2>2, <3>1, WordMissing, Thrown1
  <2>4. CASE GlobsEnd
    <3>1. mode' = "jobs" /\ o' = o + 1 /\ out' = out
      BY <2>4 DEF GlobsEnd, Goto, Same
    <3>2. out' = Before(M, V, 7)
      BY <1>1, <1>2, <1>6, <3>1, GlobsKnown
    <3>3. 7 \in 3 .. 10 /\ Holds(W, o', Left(M, V, 7)) /\ o' \in Nat \ {0}
      BY <2>2, <3>1 DEF next
    <3> QED
      BY <1>1, <3>1, <3>2, <3>3, JobArrives
  <2>5. CASE ReadGlob
    <3>1. Has(o) /\ ~(file[o] >= Half)
      BY <2>5 DEF ReadGlob, IsNegative
    <3>2. file[o] = End
      BY <1>1, <1>2, <2>2, <3>1, WordThere
    <3> QED
      BY <3>1, <3>2, Numbers0
  <2> QED
    BY <1>5, <2>3, <2>4, <2>5
<1>7. CASE j \in 1 .. Len(M.drels)
  <2>1. refs \in Seq(Ref) /\ seqs[j] = << 0 >> \o RefList(V, refs)
    BY <1>1, <1>4, <1>7, DrelEntries, Zenon
  <2>2. rest = From(seqs, j + 1) \o (<<End>> \o next) /\ rest \in WordSeqs /\ j + 1 \in 1 .. Len(M.drels) + 1
    <3>1. j + 1 \in 1 .. Len(M.drels) + 1
      BY <1>4, <1>7
    <3>2. rest \in WordSeqs
      BY <1>1, <3>1, GlobsAre
    <3> QED
      BY <3>1, <3>2 DEF DrelsLeft
  <2>3. Holds(W, o, (<< 0 >> \o RefList(V, refs)) \o rest)
    <3> HIDE DEF seqs, rest, refs, next
    <3>1. j \in 1 .. Len(seqs)
      BY <1>4, <1>7
    <3>2. Holds(W, o, seqs[j] \o (From(seqs, j + 1) \o (<<End>> \o next)))
      BY <1>1, <1>2, <1>4, <3>1, NextEntry
    <3> QED
      BY <2>1, <2>2, <3>2
  <2>4. refs = M.drels[j] /\ rest = DrelsLeft(M, V, j + 1)
    OBVIOUS
  <2> HIDE DEF refs, rest, seqs, next
  <2>5. o <= Len(W) /\ W[o] = 0 /\ o + 1 \in Nat \ {0} /\ Holds(W, o + 1, Flat(RefWords(V, refs)) \o (LongZero \o rest))
    BY <1>1, <1>2, <2>1, <2>2, <2>3, DrelStands, Zenon
  <2>6. Has(o) => file[o] = 0
    BY <1>1, <1>2, <2>5, WordThere
  <2>7. CASE FirstWordMissing
    <3>1. ~Has(o) /\ Throw
      BY <2>7 DEF FirstWordMissing
    <3> QED
      BY <1>1, <1>2, <1>3, <2>5, <3>1, WordMissing, Thrown1
  <2>8. CASE GlobsEnd
    <3>1. Has(o) /\ file[o] >= Half
      BY <2>8 DEF GlobsEnd, IsNegative
    <3> QED
      BY <2>6, <3>1, Numbers0
  <2>9. CASE ReadGlob
    <3>1. /\ Has(o) /\ part' = [named |-> file[o] > 0, name |-> NameAt(o + 1, file[o]), refs |-> << >>]
          /\ mode' = "refs" /\ o' = o + 1 + file[o] \div 2 /\ out' = out
      BY <2>9 DEF ReadGlob, Goto
    <3>2. o' = o + 1 /\ (file[o] > 0) = FALSE
      BY <1>2, <2>6, <3>1
    <3>3. NameAt(o + 1, file[o]) = << >>
      <4>1. Bytes(<< >>) = 0 /\ << >> \in WordSeqs /\ Len(<< >>) = 0
        BY Tuples DEF Bytes
      <4>2. Holds(W, o + 1, << >>)
        BY <1>1, <1>2, <2>5, <4>1 DEF Holds
      <4>3. /\ NameAt(o + 1, 0) = WordsAt(o + 1, 0)
            /\ \/ WordsAt(o + 1, 0) = << >>
               \/ \E n \in 0 .. 0 : WordsAt(o + 1, 0) = SubSeq(<< >>, 1, n)
        BY <1>1, <2>5, <4>1, <4>2, WordsThere
      <4>4. SubSeq(<< >>, 1, 0) = << >>
        OBVIOUS
      <4> QED
        BY <2>6, <3>1, <4>3, <4>4
    <3>4. part' = [named |-> FALSE, name |-> << >>, refs |-> << >>]
      BY <3>1, <3>2, <3>3, Zenon
    <3>5. FirstOf(refs, 1 - 1) = << >> /\ 1 \in 1 .. Len(refs) + 1
      <4>1. 1 - 1 = 0
        OBVIOUS
      <4>2. FirstOf(refs, 0) = << >>
        BY <2>1, FirstOfSays
      <4> QED
        BY <2>1, <4>1, <4>2
    <3>6. Holds(W, o', RefsLeft(V, M.drels[j], 1, DrelsLeft(M, V, j + 1))) /\ o' \in Nat \ {0}
      BY <2>4, <2>5, <3>2 DEF RefsLeft, Flat
    <3>7. 1 \in 1 .. Len(M.drels[j]) + 1 /\ part' = [named |-> FALSE, name |-> << >>, refs |-> FirstOf(M.drels[j], 1 - 1)]
      BY <2>4, <3>4, <3>5, Zenon
    <3> QED
      BY <1>1, <1>2, <1>7, <3>1, <3>6, <3>7, DrelRefsArrive
  <2> QED
    BY <1>5, <2>7, <2>8, <2>9
<1> QED
  BY <1>4, <1>6, <1>7

LEMMA DrelRefsStep ==
  ASSUME NEW M, NEW V, NEW W, FileInv(M, V, W), NEW j \in 1 .. Len(M.drels),
         NEW d \in 1 .. Len(M.drels[j]) + 1, DrelRefsAt(M, V, W, j, d), Read
  PROVE  ReaderInv(M, V, W)'
<1> DEFINE refs == M.drels[j]
           next == DrelsLeft(M, V, j + 1)
           none == << >>
<1>1. M \in Module /\ V \in Nat /\ Begins(W) /\ Len(W) \in Nat
  BY FileSays
<1>2. refs \in Seq(Ref) /\ j + 1 \in 1 .. Len(M.drels) + 1
  <2>1. M.drels \in Seq(Seq(Ref)) /\ Len(M.drels) \in Nat
    BY <1>1, GlobsAre
  <2> QED
    BY <2>1
<1>3. Len(refs) \in Nat
  BY <1>2
<1>5. next \in WordSeqs
  BY <1>1, <1>2, GlobsAre
<1>6. /\ mode = "refs" /\ o \in Nat \ {0} /\ out = DrelsOut(M, V, j)
      /\ Holds(W, o, RefsLeft(V, refs, d, next))
      /\ part = [named |-> FALSE, name |-> none, refs |-> FirstOf(refs, d - 1)]
  BY DEF DrelRefsAt, In
<1>7. DOMAIN out = DOMAIN Nothing /\ out.version = V
  BY <1>6, GlobsOutSay
<1>8. refs = M.drels[j] /\ next = DrelsLeft(M, V, j + 1) /\ d \in 1 .. Len(refs) + 1 /\ none = << >>
  OBVIOUS
<1> HIDE DEF refs, next, none
<1>9. CASE d \in 1 .. Len(refs)
  <2>1. \/ ReaderInv(M, V, W)'
        \/ /\ mode' = "refs" /\ o' \in Nat \ {0} /\ Holds(W, o', RefsLeft(V, refs, d + 1, next)) /\ out' = out
           /\ part' = [named |-> FALSE, name |-> none, refs |-> FirstOf(refs, d)]
    BY <1>1, <1>2, <1>5, <1>6, <1>7, <1>9, RefFollows
  <2>2. ASSUME /\ mode' = "refs" /\ o' \in Nat \ {0} /\ Holds(W, o', RefsLeft(V, refs, d + 1, next)) /\ out' = out
               /\ part' = [named |-> FALSE, name |-> none, refs |-> FirstOf(refs, d)]
        PROVE  ReaderInv(M, V, W)'
    <3>1. (d + 1) - 1 = d /\ d + 1 \in 1 .. Len(refs) + 1
      BY <1>3, <1>9
    <3>2. /\ d + 1 \in 1 .. Len(M.drels[j]) + 1
          /\ Holds(W, o', RefsLeft(V, M.drels[j], d + 1, DrelsLeft(M, V, j + 1)))
          /\ part' = [named |-> FALSE, name |-> << >>, refs |-> FirstOf(M.drels[j], (d + 1) - 1)]
      BY <1>8, <2>2, <3>1, Zenon
    <3> QED
      BY <1>1, <1>6, <2>2, <3>2, DrelRefsArrive, Zenon
  <2> QED
    BY <2>1, <2>2
<1>10. CASE d = Len(refs) + 1
  <2>1. ReaderInv(M, V, W)' \/ (RefsEnd /\ mode' = "globs" /\ o' \in Nat \ {0} /\ Holds(W, o', next))
    BY <1>1, <1>2, <1>5, <1>6, <1>7, <1>10, RefsOver
  <2>2. ASSUME RefsEnd /\ mode' = "globs" /\ o' \in Nat \ {0} /\ Holds(W, o', next)
        PROVE  ReaderInv(M, V, W)'
    <3>1. FirstOf(refs, d - 1) = refs
      <4>1. d - 1 = Len(refs)
        BY <1>3, <1>10
      <4> QED
        BY <1>2, <4>1, FirstOfSays
    <3>2. part.named = FALSE /\ part.refs = refs
      BY <1>6, <3>1
    <3> DEFINE e == part.refs
    <3>3. out' = [out EXCEPT !.drels = Append(@, e)]
      BY <2>2, <3>2 DEF RefsEnd
    <3>4. e = M.drels[j]
      BY <1>8, <3>2
    <3> HIDE DEF e
    <3>5. out' = DrelsOut(M, V, j + 1)
      BY <1>1, <1>6, <3>3, <3>4, DrelsGrow, Zenon
    <3> QED
      BY <1>1, <1>2, <1>8, <2>2, <3>5, DrelsArrive
  <2> QED
    BY <2>1, <2>2
<1> QED
  BY <1>3, <1>8, <1>9, <1>10

-----------------------------------------------------------------------------
(* What the module takes from others.                                      *)

LEMMA UsesAre ==
  ASSUME NEW M \in Module, NEW V \in Nat
  PROVE  /\ M.modinfo \in Seq(Use) /\ Len(M.modinfo) \in Nat
         /\ UseWords(M.modinfo) \in Seq(WordSeqs) /\ Len(UseWords(M.modinfo)) = Len(M.modinfo)
         /\ Left(M, V, 10) \in WordSeqs /\ << 0 >> \o Left(M, V, 10) \in WordSeqs
         /\ \A j \in 1 .. Len(M.modinfo) : M.modinfo[j] \in Use
         /\ \A j \in 1 .. Len(M.modinfo) + 1 : UsesLeft(M, V, j) \in WordSeqs /\ << 0 >> \o UsesLeft(M, V, j) \in WordSeqs
<1>1. M.modinfo \in Seq(Use) /\ Len(M.modinfo) \in Nat
  <2>1. M.modinfo \in Seq(Use)
    BY ModuleSays, Zenon
  <2> QED
    BY <2>1
<1>2. UseWords(M.modinfo) \in Seq(WordSeqs) /\ Len(UseWords(M.modinfo)) = Len(M.modinfo)
  BY <1>1, UseEntries
<1>3. Left(M, V, 10) \in WordSeqs /\ << 0 >> \o Left(M, V, 10) \in WordSeqs
  <2>1. Left(M, V, 10) \in WordSeqs
    BY LeftIs
  <2> QED
    BY <2>1, Tuples, Joins
<1>4. ASSUME NEW j \in 1 .. Len(M.modinfo) + 1 PROVE UsesLeft(M, V, j) \in WordSeqs /\ << 0 >> \o UsesLeft(M, V, j) \in WordSeqs
  <2>1. From(UseWords(M.modinfo), j) \in WordSeqs
    BY <1>2, FromIs, Zenon
  <2>2. UsesLeft(M, V, j) \in WordSeqs
    BY <1>3, <2>1, Joins DEF UsesLeft
  <2> QED
    BY <2>2, Tuples, Joins
<1>5. \A j \in 1 .. Len(M.modinfo) : M.modinfo[j] \in Use
  BY <1>1
<1> QED
  BY <1>1, <1>2, <1>3, <1>4, <1>5

LEMMA UsesOutSay ==
  ASSUME NEW M \in Module, NEW V \in Nat
  PROVE  /\ \A j : DOMAIN UsesOut(M, V, j) = DOMAIN Nothing
         /\ UsesOut(M, V, 1) = Before(M, V, 9) /\ UsesOut(M, V, Len(M.modinfo) + 1) = Before(M, V, 10)
<1> DEFINE f == Before(M, V, 9)
           s == M.modinfo
<1>1. FirstOf(s, 1 - 1) = << >> /\ FirstOf(s, (Len(s) + 1) - 1) = s
  <2>1. s \in Seq(Use) /\ 1 - 1 = 0 /\ (Len(s) + 1) - 1 = Len(s)
    BY UsesAre
  <2> QED
    BY <2>1, FirstOfSays
<1>2. f = [y \in Fields |-> f[y]] /\ f.modinfo = << >> /\ "modinfo" \in Fields
  <2>1. "modinfo" \in Fields
    BY DEF Fields
  <2>2. JobOf["modinfo"] = 9
    BY <2>1, JobOfSays
  <2>3. f.modinfo = << >>
    BY <2>1, <2>2, FieldsSay, NothingSays DEF Before
  <2>4. f = [y \in Fields |-> f[y]]
    BY FieldsSay DEF Before
  <2> QED
    BY <2>1, <2>3, <2>4
<1>3. Before(M, V, 10) = [f EXCEPT !.modinfo = s]
  BY BeforeSays, Zenon
<1>4. UsesOut(M, V, 1) = [f EXCEPT !.modinfo = << >>] /\ UsesOut(M, V, Len(M.modinfo) + 1) = [f EXCEPT !.modinfo = s]
  BY <1>1 DEF UsesOut
<1>5. \A j : DOMAIN UsesOut(M, V, j) = DOMAIN Nothing
  BY KnownFields DEF UsesOut
<1> HIDE DEF f, s
<1>6. [f EXCEPT !.modinfo = << >>] = f
  BY <1>2
<1> QED
  BY <1>3, <1>4, <1>5, <1>6 DEF f

LEMMA UsesGrow ==
  ASSUME NEW M \in Module, NEW V \in Nat, NEW j \in 1 .. Len(M.modinfo), NEW e, e = M.modinfo[j],
         out = UsesOut(M, V, j), out' = [out EXCEPT !.modinfo = Append(@, e)]
  PROVE  out' = UsesOut(M, V, j + 1)
<1> DEFINE s == M.modinfo
           f == Before(M, V, 9)
           a == FirstOf(s, j - 1)
           b == FirstOf(s, j)
<1>1. s \in Seq(Use) /\ Len(s) \in Nat /\ (j + 1) - 1 = j
  BY UsesAre
<1>2. b = Append(a, e)
  BY <1>1, FirstOfSays, Zenon
<1>3. "modinfo" \in DOMAIN f
  BY FieldsSay DEF Before, Fields
<1>4. out = [f EXCEPT !.modinfo = a] /\ UsesOut(M, V, j + 1) = [f EXCEPT !.modinfo = b]
  BY <1>1 DEF UsesOut
<1> HIDE DEF f, a, b, s
<1>5. [[f EXCEPT !.modinfo = a] EXCEPT !.modinfo = Append(@, e)] = [f EXCEPT !.modinfo = b]
  BY <1>2, <1>3, Zenon
<1> QED
  BY <1>4, <1>5

LEMMA UsesArrive ==
  ASSUME NEW M, NEW V, NEW W, NEW j \in 1 .. Len(M.modinfo) + 1,
         mode' = "submodules", o' \in Nat \ {0}, Holds(W, o', UsesLeft(M, V, j)), out' = UsesOut(M, V, j)
  PROVE  ReaderInv(M, V, W)'
<1>1. UsesAt(M, V, W, j)'
  BY DEF UsesAt, In
<1>2. UsesInv(M, V, W)'
  BY <1>1 DEF UsesInv
<1> QED
  BY <1>2 DEF ReaderInv

LEMMA SymbolArrives ==
  ASSUME NEW M \in Module, NEW V \in Nat, NEW W, NEW j \in 1 .. Len(M.modinfo),
         mode' = "symbols", o' \in Nat \ {0}, Holds(W, o', SymbolWords(M.modinfo[j]) \o PlacesLeft(M, V, j, 1)),
         out' = UsesOut(M, V, j), part' = [submodule |-> M.modinfo[j].submodule]
  PROVE  ReaderInv(M, V, W)'
<1>1. SymbolAt(M, V, W, j)'
  BY DEF SymbolAt, In
<1>2. j \in DOMAIN M.modinfo
  BY UsesAre
<1>3. UsesInv(M, V, W)'
  BY <1>1, <1>2 DEF UsesInv
<1> QED
  BY <1>3 DEF ReaderInv

LEMMA PlacesArrive ==
  ASSUME NEW M \in Module, NEW V \in Nat, NEW W, NEW j \in 1 .. Len(M.modinfo), NEW d \in 1 .. Len(M.modinfo[j].refs) + 1,
         mode' = "places", o' \in Nat \ {0}, Holds(W, o', PlacesLeft(M, V, j, d)), out' = UsesOut(M, V, j),
         part' = [submodule |-> M.modinfo[j].submodule, symbol |-> M.modinfo[j].symbol, kind |-> M.modinfo[j].kind,
                  refs |-> FirstOf(M.modinfo[j].refs, d - 1)],
         todo' = Len(M.modinfo[j].refs) + 1 - d
  PROVE  ReaderInv(M, V, W)'
<1>1. PlacesAt(M, V, W, j, d)'
  BY DEF PlacesAt, In
<1>2. j \in DOMAIN M.modinfo
  BY UsesAre
<1>3. UsesInv(M, V, W)'
  BY <1>1, <1>2 DEF UsesInv
<1> QED
  BY <1>3 DEF ReaderInv

LEMMA SymbolDone ==
  ASSUME NEW M \in Module, NEW V \in Nat, NEW W, NEW j \in 1 .. Len(M.modinfo),
         mode' = "symbols", o' \in Nat \ {0}, Holds(W, o', << 0 >> \o UsesLeft(M, V, j + 1)), out' = UsesOut(M, V, j + 1)
  PROVE  ReaderInv(M, V, W)'
<1>1. SymbolRead(M, V, W, j)'
  BY DEF SymbolRead, In
<1>2. j \in DOMAIN M.modinfo
  BY UsesAre
<1>3. UsesInv(M, V, W)'
  BY <1>1, <1>2 DEF UsesInv
<1> QED
  BY <1>3 DEF ReaderInv

LEMMA UsesStep ==
  ASSUME NEW M, NEW V, NEW W, FileInv(M, V, W), NEW j \in 1 .. Len(M.modinfo) + 1, UsesAt(M, V, W, j), Read
  PROVE  ReaderInv(M, V, W)'
<1> DEFINE use == M.modinfo[j]
           rest == UsesLeft(M, V, j + 1)
           seqs == UseWords(M.modinfo)
           next == Left(M, V, 10)
<1>1. M \in Module /\ V \in Nat /\ Begins(W) /\ Len(W) \in Nat
  BY FileSays
<1>2. /\ mode = "submodules" /\ o \in Nat \ {0} /\ Holds(W, o, From(seqs, j) \o (<< 0 >> \o next))
      /\ out = UsesOut(M, V, j)
  BY DEF UsesAt, In, UsesLeft
<1>3. DOMAIN out = DOMAIN Nothing
  BY <1>1, <1>2, UsesOutSay
<1>4. seqs \in Seq(WordSeqs) /\ Len(seqs) = Len(M.modinfo) /\ next \in WordSeqs /\ << 0 >> \o next \in WordSeqs
      /\ M.modinfo \in Seq(Use) /\ Len(M.modinfo) \in Nat
  BY <1>1, UsesAre
<1>5. FirstWordMissing \/ ModinfoEnd \/ ReadSubmodule
  BY <1>2, InLoop
<1>6. CASE j = Len(M.modinfo) + 1
  <2> HIDE DEF seqs, next
  <2>1. Holds(W, o, << 0 >> \o next)
    BY <1>2, <1>4, <1>6, NoEntry
  <2>2. o <= Len(W) /\ W[o] = 0 /\ o + 1 \in Nat \ {0} /\ Holds(W, o + 1, next)
    BY <1>1, <1>2, <1>4, <2>1, OneStands
  <2>3. CASE FirstWordMissing
    <3>1. ~Has(o) /\ Throw
      BY <2>3 DEF FirstWordMissing
    <3> QED
      BY <1>1, <1>2, <1>3, <2>2, <3>1, WordMissing, Thrown1
  <2>4. CASE ModinfoEnd
    <3>1. mode' = "jobs" /\ o' = o + 1 /\ out' = out
      BY <2>4 DEF ModinfoEnd, Goto, Same
    <3>2. out' = Before(M, V, 10)
      BY <1>1, <1>2, <1>6, <3>1, UsesOutSay
    <3>3. 10 \in 3 .. 10 /\ Holds(W, o', Left(M, V, 10)) /\ o' \in Nat \ {0}
      BY <2>2, <3>1 DEF next
    <3> QED
      BY <1>1, <3>1, <3>2, <3>3, JobArrives
  <2>5. CASE ReadSubmodule
    <3>1. Has(o) /\ file[o] # 0
      BY <2>5 DEF ReadSubmodule
    <3> QED
      BY <1>1, <1>2, <2>2, <3>1, WordThere
  <2> QED
    BY <1>5, <2>3, <2>4, <2>5
<1>7. CASE j \in 1 .. Len(M.modinfo)
  <2> DEFINE name == use.submodule
             n == Len(name)
  <2>1. use \in Use /\ seqs[j] = Named(name) \o (SymbolWords(use) \o (Flat(PlaceWords(use.kind, use.refs)) \o << 0 >>))
    BY <1>1, <1>4, <1>7, UseEntries, Zenon
  <2>2. rest = From(seqs, j + 1) \o (<< 0 >> \o next) /\ rest \in WordSeqs /\ j + 1 \in 1 .. Len(M.modinfo) + 1
    <3>1. j + 1 \in 1 .. Len(M.modinfo) + 1
      BY <1>4, <1>7
    <3>2. rest \in WordSeqs
      BY <1>1, <3>1, UsesAre
    <3> QED
      BY <3>1, <3>2 DEF UsesLeft
  <2>3. Holds(W, o, (Named(name) \o (SymbolWords(use) \o (Flat(PlaceWords(use.kind, use.refs)) \o << 0 >>))) \o rest)
    <3> HIDE DEF seqs, rest, next
    <3>1. j \in 1 .. Len(seqs)
      BY <1>4, <1>7
    <3>2. Holds(W, o, seqs[j] \o (From(seqs, j + 1) \o (<< 0 >> \o next)))
      BY <1>1, <1>2, <1>4, <3>1, NextEntry
    <3> QED
      BY <2>1, <2>2, <3>2
  <2>4. use = M.modinfo[j] /\ rest = UsesLeft(M, V, j + 1)
    OBVIOUS
  <2>5. name \in Name /\ n \in Nat /\ Bytes(name) \div 2 = n /\ 0 < Bytes(name)
    BY <2>1, UseSays, NameSays, Zenon
  <2> HIDE DEF use, rest, seqs, next
  <2>6. /\ o <= Len(W) /\ W[o] = Bytes(name) /\ Holds(W, o + 1, name) /\ o + 1 + n \in Nat \ {0}
        /\ Holds(W, o + 1 + n, SymbolWords(use) \o (Flat(PlaceWords(use.kind, use.refs)) \o (<< 0 >> \o rest)))
    <3>1. Len(W) \in Nat /\ o \in Nat \ {0} /\ use \in Use /\ rest \in WordSeqs
      BY <1>1, <1>2, <2>1, <2>2
    <3> QED
      BY <2>3, <3>1, UseStands, ZenonT(60)
  <2>7. PlacesLeft(M, V, j, 1) = Flat(PlaceWords(use.kind, use.refs)) \o (<< 0 >> \o rest)
    BY <2>4 DEF PlacesLeft, Flat
  <2>8. Has(o) => file[o] = Bytes(name)
    BY <1>1, <1>2, <2>6, WordThere, Zenon
  <2>9. CASE FirstWordMissing
    <3>1. ~Has(o) /\ Throw
      BY <2>9 DEF FirstWordMissing
    <3> QED
      BY <1>1, <1>2, <1>3, <2>6, <3>1, WordMissing, Thrown1
  <2>10. CASE ModinfoEnd
    BY <2>5, <2>8, <2>10 DEF ModinfoEnd, Ends
  <2>11. CASE ReadSubmodule
    <3>1. /\ Has(o) /\ part' = [submodule |-> NameAt(o + 1, file[o])]
          /\ mode' = "symbols" /\ o' = o + 1 + file[o] \div 2 /\ out' = out /\ UNCHANGED source
      BY <2>11 DEF ReadSubmodule, Goto
    <3>2. o' = o + 1 + n
      BY <2>5, <2>8, <3>1
    <3>3. NameAt(o + 1, Bytes(name)) = name \/ (cut /\ ~Has(o + 1 + n))
      <4>1. o + 1 \in Nat \ {0}
        BY <1>2
      <4> QED
        BY <1>1, <2>5, <2>6, <4>1, NameThere, Zenon
    <3>4. CASE NameAt(o + 1, Bytes(name)) = name
      <4>1. part' = [submodule |-> M.modinfo[j].submodule]
        BY <2>4, <2>8, <3>1, <3>4
      <4>2. Holds(W, o', SymbolWords(M.modinfo[j]) \o PlacesLeft(M, V, j, 1)) /\ o' \in Nat \ {0}
        BY <2>4, <2>6, <2>7, <3>2, Zenon
      <4> QED
        BY <1>1, <1>2, <1>7, <3>1, <4>1, <4>2, SymbolArrives, Zenon
    <3>5. CASE cut /\ ~Has(o + 1 + n)
      <4>1. mode' \in {"consts", "members", "refs", "symbols"} /\ o + 1 + n \in Nat /\ DOMAIN out' = DOMAIN Nothing
        BY <1>3, <2>6, <3>1
      <4> QED
        BY <3>1, <3>2, <3>5, <4>1, LostNext
    <3> QED
      BY <3>3, <3>4, <3>5
  <2> QED
    BY <1>5, <2>9, <2>10, <2>11
<1> QED
  BY <1>4, <1>6, <1>7

-----------------------------------------------------------------------------
(* The symbols that are used, and where.                                   *)

LEMMA SymbolStep ==
  ASSUME NEW M, NEW V, NEW W, FileInv(M, V, W), NEW j \in 1 .. Len(M.modinfo), SymbolAt(M, V, W, j), Read
  PROVE  ReaderInv(M, V, W)'
<1> DEFINE use == M.modinfo[j]
           rest == PlacesLeft(M, V, j, 1)
           name == use.symbol
           n == Len(name)
           extra == IF use.kind = 2 THEN 1 ELSE 0
           count == o + 2 + n + extra
<1>1. M \in Module /\ V \in Nat /\ Begins(W) /\ Len(W) \in Nat
  BY FileSays
<1>2. /\ mode = "symbols" /\ o \in Nat \ {0} /\ Holds(W, o, SymbolWords(use) \o rest)
      /\ out = UsesOut(M, V, j) /\ part = [submodule |-> use.submodule]
  BY DEF SymbolAt, In
<1>3. DOMAIN out = DOMAIN Nothing
  BY <1>1, <1>2, UsesOutSay
<1>4. use \in Use /\ Len(M.modinfo) \in Nat
  BY <1>1, UsesAre
<1>5. rest \in WordSeqs
  <2>1. j + 1 \in 1 .. Len(M.modinfo) + 1
    BY <1>4
  <2>2. << 0 >> \o UsesLeft(M, V, j + 1) \in WordSeqs
    BY <1>1, <2>1, UsesAre
  <2>3. use.refs \in Seq(Place)
    BY <1>4, UseSays
  <2>4. From(PlaceWords(use.kind, use.refs), 1) \in WordSeqs
    <3>1. PlaceWords(use.kind, use.refs) \in Seq(WordSeqs) /\ Len(PlaceWords(use.kind, use.refs)) \in Nat
      BY <2>3, PlaceEntries
    <3>2. 1 \in 1 .. Len(PlaceWords(use.kind, use.refs)) + 1
      BY <3>1
    <3> QED
      BY <3>1, <3>2, FromIs, Zenon
  <2> QED
    BY <2>2, <2>4, Joins DEF PlacesLeft
<1>6. use = M.modinfo[j] /\ rest = PlacesLeft(M, V, j, 1)
  OBVIOUS
<1>7. name \in Name /\ n \in Nat /\ Bytes(name) \div 2 = n /\ use.kind \in Nat \ {0} /\ use.refs \in Seq(Place) /\ Len(use.refs) \in Nat
  BY <1>4, UseSays, NameSays, Zenon
<1> HIDE DEF use, rest
<1>8. /\ o + 1 <= Len(W) /\ W[o] = use.kind /\ W[o + 1] = Bytes(name) /\ Holds(W, o + 2, name)
      /\ count \in Nat \ {0} /\ count <= Len(W) /\ W[count] = Len(use.refs)
  <2>1. Len(W) \in Nat /\ o \in Nat \ {0}
    BY <1>1, <1>2
  <2>2. o + 1 <= Len(W) /\ W[o] = use.kind /\ W[o + 1] = Bytes(name) /\ Holds(W, o + 2, name)
    BY <1>2, <1>4, <1>5, <2>1, SymbolStands, ZenonT(60)
  <2>3. count \in Nat \ {0}
    BY <1>2, <1>4, <1>5, <2>1, SymbolStands, ZenonT(60)
  <2>4. count <= Len(W)
    BY <1>2, <1>4, <1>5, <2>1, SymbolStands, ZenonT(60)
  <2>5. W[count] = Len(use.refs)
    <3>1. Holds(W, count, <<Len(use.refs)>>)
      BY <1>2, <1>4, <1>5, <2>1, SymbolStands, ZenonT(60)
    <3> HIDE DEF count
    <3> QED
      BY <1>7, <2>3, <3>1, Takes1
  <2> QED
    BY <2>2, <2>3, <2>4, <2>5
<1>9. /\ o + 3 + n + extra \in Nat \ {0} /\ Holds(W, o + 3 + n + extra, rest)
  <2>1. Len(W) \in Nat /\ o \in Nat \ {0}
    BY <1>1, <1>2
  <2> QED
    BY <1>2, <1>4, <1>5, <2>1, SymbolStands, ZenonT(60)
<1>10. extra \in Nat /\ count + 1 = o + 3 + n + extra /\ count >= (o + 2) + n /\ o + 1 \in Nat \ {0} /\ o + 2 \in Nat \ {0}
  <2>1. extra \in Nat
    OBVIOUS
  <2> HIDE DEF extra, n
  <2>2. n \in Nat /\ o \in Nat \ {0}
    BY <1>2, <1>7
  <2> QED
    BY <2>1, <2>2
<1>11. FirstWordMissing \/ SymbolsEnd \/ ReadSymbol
  BY <1>2, InLoop
<1>12. (Has(o) => file[o] = use.kind) /\ (~Has(o) => cut)
  <2>1. o <= Len(W)
    BY <1>1, <1>2, <1>8
  <2> QED
    BY <1>1, <1>2, <1>8, <2>1, WordThere
<1>13. CASE FirstWordMissing
  <2>1. ~Has(o) /\ Throw
    BY <1>13 DEF FirstWordMissing
  <2> QED
    BY <1>3, <1>12, <2>1, Thrown1
<1>14. CASE SymbolsEnd
  BY <1>7, <1>12, <1>14 DEF SymbolsEnd, Ends
<1>15. CASE ReadSymbol
  <2> DEFINE at == o + 2 + file[o + 1] \div 2 + IF file[o] = 2 THEN 1 ELSE 0
  <2>1. /\ Has(o)
        /\ Reading(o + 1, Reading(at,
             /\ part' = [submodule |-> part.submodule, symbol |-> NameAt(o + 2, file[o + 1]),
                         kind |-> file[o], refs |-> << >>]
             /\ todo' = file[at]
             /\ Goto("places", at + 1)
             /\ UNCHANGED <<source, out>>))
    BY <1>15, Zenon DEF ReadSymbol
  <2>2. file[o] = use.kind
    BY <1>12, <2>1
  <2>3. CASE ~Has(o + 1)
    <3>1. Throw
      BY <2>1, <2>3 DEF Reading
    <3> QED
      BY <1>1, <1>3, <1>8, <1>10, <2>3, <3>1, WordMissing, Thrown1
  <2>4. CASE Has(o + 1)
    <3>1. file[o + 1] = Bytes(name)
      BY <1>1, <1>8, <1>10, <2>4, WordThere, Zenon
    <3>2. at = count
      BY <1>7, <2>2, <3>1
    <3> HIDE DEF at
    <3>3. CASE ~Has(count)
      <4>1. Throw
        BY <2>1, <2>4, <3>2, <3>3 DEF Reading
      <4> QED
        BY <1>1, <1>3, <1>8, <3>3, <4>1, WordMissing, Thrown1
    <3>4. CASE Has(count)
      <4>1. /\ part' = [submodule |-> part.submodule, symbol |-> NameAt(o + 2, file[o + 1]), kind |-> file[o], refs |-> << >>]
            /\ todo' = file[at] /\ mode' = "places" /\ o' = at + 1 /\ out' = out
        BY <2>1, <2>4, <3>2, <3>4 DEF Reading, Goto
      <4>2. NameAt(o + 2, Bytes(name)) = name
        <5> HIDE DEF count, n, name
        <5>1. count \in Nat /\ count >= (o + 2) + Len(name)
          BY <1>8, <1>10 DEF n
        <5> QED
          BY <1>1, <1>7, <1>8, <1>10, <3>4, <5>1, NameRead, Zenon
      <4>3. file[count] = Len(use.refs)
        BY <1>1, <1>8, <3>4, WordThere, Zenon
      <4>4. part.submodule = use.submodule
        BY <1>2
      <4>5. FirstOf(use.refs, 1 - 1) = << >>
        <5>1. 1 - 1 = 0
          OBVIOUS
        <5> QED
          BY <1>7, <5>1, FirstOfSays
      <4>6. part' = [submodule |-> M.modinfo[j].submodule, symbol |-> M.modinfo[j].symbol, kind |-> M.modinfo[j].kind,
                     refs |-> FirstOf(M.modinfo[j].refs, 1 - 1)]
        BY <1>6, <2>2, <3>1, <4>1, <4>2, <4>4, <4>5
      <4>7. todo' = Len(M.modinfo[j].refs) + 1 - 1 /\ 1 \in 1 .. Len(M.modinfo[j].refs) + 1
        BY <1>6, <1>7, <3>2, <4>1, <4>3
      <4>8. o' \in Nat \ {0} /\ Holds(W, o', PlacesLeft(M, V, j, 1))
        BY <1>6, <1>9, <1>10, <3>2, <4>1
      <4>9. out' = UsesOut(M, V, j)
        BY <1>2, <4>1
      <4> QED
        BY <1>1, <4>1, <4>6, <4>7, <4>8, <4>9, PlacesArrive, Zenon
    <3> QED
      BY <3>3, <3>4
  <2> QED
    BY <2>3, <2>4
<1> QED
  BY <1>11, <1>13, <1>14, <1>15

LEMMA SymbolReadStep ==
  ASSUME NEW M, NEW V, NEW W, FileInv(M, V, W), NEW j \in 1 .. Len(M.modinfo), SymbolRead(M, V, W, j), Read
  PROVE  ReaderInv(M, V, W)'
<1> DEFINE rest == UsesLeft(M, V, j + 1)
<1>1. M \in Module /\ V \in Nat /\ Begins(W) /\ Len(W) \in Nat
  BY FileSays
<1>2. mode = "symbols" /\ o \in Nat \ {0} /\ Holds(W, o, << 0 >> \o rest) /\ out = UsesOut(M, V, j + 1)
  BY DEF SymbolRead, In
<1>3. DOMAIN out = DOMAIN Nothing
  BY <1>1, <1>2, UsesOutSay, Zenon
<1>4. j + 1 \in 1 .. Len(M.modinfo) + 1
  <2>1. Len(M.modinfo) \in Nat
    BY <1>1, UsesAre
  <2> QED
    BY <2>1
<1>5. rest \in WordSeqs
  BY <1>1, <1>4, UsesAre
<1>6. rest = UsesLeft(M, V, j + 1)
  OBVIOUS
<1> HIDE DEF rest
<1>7. o <= Len(W) /\ W[o] = 0 /\ o + 1 \in Nat \ {0} /\ Holds(W, o + 1, rest)
  BY <1>1, <1>2, <1>5, OneStands
<1>8. (Has(o) => file[o] = 0) /\ (~Has(o) => cut)
  BY <1>1, <1>2, <1>7, WordThere
<1>9. FirstWordMissing \/ SymbolsEnd \/ ReadSymbol
  BY <1>2, InLoop
<1>10. CASE FirstWordMissing
  <2>1. ~Has(o) /\ Throw
    BY <1>10 DEF FirstWordMissing
  <2> QED
    BY <1>3, <1>8, <2>1, Thrown1
<1>11. CASE SymbolsEnd
  <2>1. mode' = "submodules" /\ o' = o + 1 /\ out' = out
    BY <1>11 DEF SymbolsEnd, Goto, Same
  <2>2. Holds(W, o', UsesLeft(M, V, j + 1)) /\ o' \in Nat \ {0} /\ out' = UsesOut(M, V, j + 1)
    BY <1>2, <1>6, <1>7, <2>1
  <2> QED
    BY <1>4, <2>1, <2>2, UsesArrive
<1>12. CASE ReadSymbol
  <2>1. Has(o) /\ file[o] # 0
    BY <1>12 DEF ReadSymbol
  <2> QED
    BY <1>8, <2>1
<1> QED
  BY <1>9, <1>10, <1>11, <1>12

LEMMA UseChanges ==
  ASSUME NEW s, NEW y, NEW k, NEW a, NEW b, NEW p, p = [submodule |-> s, symbol |-> y, kind |-> k, refs |-> a]
  PROVE  /\ p.refs = a /\ p.kind = k
         /\ [p EXCEPT !.refs = b] = [submodule |-> s, symbol |-> y, kind |-> k, refs |-> b]
  OBVIOUS

\* References to a class have no flag.
LEMMA ClassPlaces ==
  ASSUME NEW M \in Module, NEW j \in 1 .. Len(M.modinfo), NEW d \in 1 .. Len(M.modinfo[j].refs)
  PROVE  M.modinfo[j].kind = 2 => M.modinfo[j].refs[d].type = 0
<1>1. M.modinfo \in Seq(Use)
  BY ModuleSays, Zenon
<1>2. j \in DOMAIN M.modinfo /\ M.modinfo[j] \in Use
  BY <1>1
<1>3. M.modinfo[j].refs \in Seq(Place)
  BY <1>2, UseSays
<1>4. d \in DOMAIN M.modinfo[j].refs
  BY <1>3
<1>5. \A i \in DOMAIN M.modinfo : \A k \in DOMAIN M.modinfo[i].refs :
        M.modinfo[i].kind = 2 => M.modinfo[i].refs[k].type = 0
  BY Zenon DEF Module
<1> QED
  BY <1>2, <1>4, <1>5

LEMMA PlacesStep ==
  ASSUME NEW M, NEW V, NEW W, FileInv(M, V, W), NEW j \in 1 .. Len(M.modinfo),
         NEW d \in 1 .. Len(M.modinfo[j].refs) + 1, PlacesAt(M, V, W, j, d), Read
  PROVE  ReaderInv(M, V, W)'
<1> DEFINE use == M.modinfo[j]
           refs == use.refs
           kind == use.kind
           seqs == PlaceWords(kind, refs)
           next == << 0 >> \o UsesLeft(M, V, j + 1)
<1>1. M \in Module /\ V \in Nat /\ Begins(W) /\ Len(W) \in Nat
  BY FileSays
<1>2. /\ mode = "places" /\ o \in Nat \ {0} /\ Holds(W, o, From(seqs, d) \o next)
      /\ out = UsesOut(M, V, j) /\ todo = Len(refs) + 1 - d
      /\ part = [submodule |-> use.submodule, symbol |-> use.symbol, kind |-> kind, refs |-> FirstOf(refs, d - 1)]
  BY DEF PlacesAt, In, PlacesLeft
<1>3. DOMAIN out = DOMAIN Nothing
  BY <1>1, <1>2, UsesOutSay
<1>4. use \in Use /\ Len(M.modinfo) \in Nat
  BY <1>1, UsesAre
<1>5. refs \in Seq(Place) /\ Len(refs) \in Nat /\ kind \in Nat \ {0}
      /\ use = [submodule |-> use.submodule, symbol |-> use.symbol, kind |-> kind, refs |-> refs]
  BY <1>4, UseSays
<1>6. seqs \in Seq(WordSeqs) /\ Len(seqs) = Len(refs)
  BY <1>5, PlaceEntries
<1>7. next \in WordSeqs
  <2>1. j + 1 \in 1 .. Len(M.modinfo) + 1
    BY <1>4
  <2> QED
    BY <1>1, <2>1, UsesAre
<1>8. ReadPlace \/ PlacesEnd
  BY <1>2, InLoop
<1>9. /\ use = M.modinfo[j] /\ refs = M.modinfo[j].refs /\ kind = M.modinfo[j].kind
      /\ next = << 0 >> \o UsesLeft(M, V, j + 1) /\ seqs = PlaceWords(kind, refs) /\ d \in 1 .. Len(refs) + 1
  OBVIOUS
<1> HIDE DEF use, refs, kind, seqs, next
<1>10. CASE d = Len(refs) + 1
  <2>1. Holds(W, o, next)
    BY <1>2, <1>6, <1>7, <1>10, NoEntry
  <2>2. todo = 0 /\ d - 1 = Len(refs) /\ ~(todo > 0)
    BY <1>2, <1>5, <1>10
  <2>3. PlacesEnd
    BY <1>8, <2>2 DEF ReadPlace
  <2>4. mode' = "symbols" /\ o' = o /\ out' = [out EXCEPT !.modinfo = Append(@, part)]
    BY <2>3 DEF PlacesEnd, Goto
  <2>5. part = use
    <3>1. FirstOf(refs, d - 1) = refs
      BY <1>5, <2>2, FirstOfSays
    <3> QED
      BY <1>2, <1>5, <3>1
  <2>6. out' = UsesOut(M, V, j + 1)
    BY <1>1, <1>2, <1>9, <2>4, <2>5, UsesGrow, Zenon
  <2>7. o' \in Nat \ {0} /\ Holds(W, o', << 0 >> \o UsesLeft(M, V, j + 1))
    BY <1>2, <1>9, <2>1, <2>4
  <2> QED
    BY <1>1, <2>4, <2>6, <2>7, SymbolDone, Zenon
<1>11. CASE d \in 1 .. Len(refs)
  <2> DEFINE x == refs[d]
             coff == x.coff
             type == x.type
             rest == From(seqs, d + 1) \o next
             more == IF kind = 2 THEN 0 ELSE 1
             tail == IF kind = 2 THEN << >> ELSE <<type>>
  <2>1. x \in Place /\ seqs[d] = Long(coff) \o tail
    <3>1. refs[d] \in Place /\ PlaceWords(kind, refs)[d] = Long(refs[d].coff) \o (IF kind = 2 THEN << >> ELSE <<refs[d].type>>)
      BY <1>5, <1>11, PlaceEntries
    <3> QED
      BY <1>9, <3>1, Zenon
  <2>2. coff \in Nat /\ type \in Nat /\ x = [coff |-> coff, type |-> type]
    BY <2>1, PlaceSays, Zenon
  <2>3. Holds(W, o, seqs[d] \o rest) /\ rest \in WordSeqs
    <3>1. d \in 1 .. Len(seqs)
      BY <1>6, <1>11
    <3> QED
      BY <1>1, <1>2, <1>6, <1>7, <3>1, NextEntry
  <2>4. /\ rest = From(seqs, d + 1) \o next /\ d + 1 \in 1 .. Len(refs) + 1 /\ (d + 1) - 1 = d
        /\ todo > 0 /\ todo # 0 /\ todo - 1 = Len(refs) + 1 - (d + 1) /\ d \in 1 .. Len(refs)
    <3>1. d \in Nat \ {0} /\ d <= Len(refs) /\ Len(refs) \in Nat /\ todo = Len(refs) + 1 - d
      BY <1>2, <1>5, <1>11
    <3>2. todo > 0 /\ todo # 0 /\ todo - 1 = Len(refs) + 1 - (d + 1)
      BY <3>1
    <3>3. d + 1 \in 1 .. Len(refs) + 1 /\ (d + 1) - 1 = d
      BY <3>1
    <3> QED
      BY <1>11, <3>2, <3>3
  <2>5. kind = 2 => type = 0
    BY <1>1, <1>9, <1>11, ClassPlaces, Zenon
  <2>5a. x = refs[d]
    OBVIOUS
  <2> HIDE DEF x, rest, coff, type
  <2>6. Holds(W, o, (Long(coff) \o tail) \o rest)
    BY <2>1, <2>3
  <2>7. /\ Holds(W, o, Long(coff)) /\ o + 2 + more \in Nat \ {0}
        /\ Holds(W, o + 2 + more, rest) /\ Holds(W, o + 2, tail)
    <3>1. Len(W) \in Nat /\ o \in Nat \ {0}
      BY <1>1, <1>2
    <3> QED
      BY <2>2, <2>3, <2>6, <3>1, PlaceStands, ZenonT(60)
  <2>8. o + 1 <= Len(W) /\ (Has(o + 1) => LongAt(o) = coff) /\ o + 1 \in Nat \ {0} /\ o + 2 \in Nat \ {0}
    <3>1. o + 1 \in Nat \ {0} /\ o + 2 \in Nat \ {0}
      BY <1>2
    <3> QED
      BY <1>1, <1>2, <2>2, <2>7, <3>1, LongThere, Zenon
  <2>9. kind # 2 => o + 2 <= Len(W) /\ W[o + 2] = type
    <3>1. ASSUME kind # 2 PROVE Holds(W, o + 2, <<type>>)
      BY <2>7, <3>1
    <3> QED
      BY <2>2, <2>8, <3>1, Takes1, Zenon
  <2>10. ReadPlace
    BY <1>8, <2>4 DEF PlacesEnd
  <2>11. part.kind = kind
    BY <1>2, UseChanges
  <2> DEFINE end == IF kind # 2 THEN o + 2 ELSE o + 1
             e == [coff |-> LongAt(o), type |-> IF kind # 2 THEN file[o + 2] ELSE 0]
  <2>12. Reading(end,
           /\ part' = [part EXCEPT !.refs = Append(@, e)]
           /\ todo' = todo - 1 /\ o' = end + 1
           /\ UNCHANGED <<source, mode, out>>)
    BY <2>10, <2>11, Zenon DEF ReadPlace
  <2>13. end \in Nat \ {0} /\ end <= Len(W) /\ end + 1 = o + 2 + more
    BY <1>2, <2>8, <2>9
  <2>14. CASE ~Has(end)
    <3>1. Throw
      BY <2>12, <2>14 DEF Reading
    <3> HIDE DEF end
    <3> QED
      BY <1>1, <1>3, <2>13, <2>14, <3>1, WordMissing, Thrown1
  <2>15. CASE Has(end)
    <3>1. part' = [part EXCEPT !.refs = Append(@, e)] /\ todo' = todo - 1 /\ o' = end + 1 /\ mode' = mode /\ out' = out
      BY <2>12, <2>15 DEF Reading
    <3>2. e = x
      <4>1. CASE kind = 2
        <5>1. Has(o + 1)
          BY <2>15, <4>1
        <5>2. LongAt(o) = coff /\ type = 0
          BY <2>5, <2>8, <4>1, <5>1
        <5> QED
          BY <2>2, <4>1, <5>2
      <4>2. CASE kind # 2
        <5>1. Has(o + 2)
          BY <2>15, <4>2
        <5>2. o + 1 \in 1 .. o + 2
          BY <1>2
        <5>3. Has(o + 1) /\ file[o + 2] = W[o + 2]
          BY <1>1, <2>8, <5>1, <5>2, WordThere
        <5>4. LongAt(o) = coff /\ file[o + 2] = type
          BY <2>8, <2>9, <4>2, <5>3
        <5> QED
          BY <2>2, <4>2, <5>4
      <4> QED
        BY <4>1, <4>2
    <3> HIDE DEF e, end
    <3>3. FirstOf(refs, (d + 1) - 1) = Append(FirstOf(refs, d - 1), x)
      BY <1>5, <2>4, <2>5a, FirstOfSays
    <3>4. part' = [submodule |-> use.submodule, symbol |-> use.symbol, kind |-> kind, refs |-> FirstOf(refs, (d + 1) - 1)]
      <4> DEFINE a == FirstOf(refs, d - 1)
                 b == FirstOf(refs, (d + 1) - 1)
                 s == use.submodule
                 y == use.symbol
      <4> HIDE DEF a, b, s, y
      <4>1. part = [submodule |-> s, symbol |-> y, kind |-> kind, refs |-> a] /\ b = Append(a, x)
        BY <1>2, <3>3 DEF a, b, s, y
      <4>2. part' = [part EXCEPT !.refs = b]
        BY <3>1, <3>2, <4>1, UseChanges
      <4>3. part' = [submodule |-> s, symbol |-> y, kind |-> kind, refs |-> b]
        BY <4>1, <4>2, UseChanges, Zenon
      <4> QED
        BY <4>3 DEF b, s, y
    <3>5. /\ mode' = "places" /\ o' \in Nat \ {0} /\ out' = UsesOut(M, V, j)
          /\ todo' = Len(refs) + 1 - (d + 1) /\ Holds(W, o', rest)
      BY <1>2, <2>4, <2>7, <2>13, <3>1
    <3>6. Holds(W, o', PlacesLeft(M, V, j, d + 1))
      BY <1>9, <2>4, <3>5 DEF PlacesLeft
    <3>7. d + 1 \in 1 .. Len(M.modinfo[j].refs) + 1 /\ todo' = Len(M.modinfo[j].refs) + 1 - (d + 1)
      BY <1>9, <2>4, <3>5
    <3>8. part' = [submodule |-> M.modinfo[j].submodule, symbol |-> M.modinfo[j].symbol, kind |-> M.modinfo[j].kind,
                   refs |-> FirstOf(M.modinfo[j].refs, (d + 1) - 1)]
      BY <1>9, <3>4
    <3> QED
      BY <1>1, <3>5, <3>6, <3>7, <3>8, PlacesArrive, Zenon
  <2> QED
    BY <2>14, <2>15
<1> QED
  BY <1>5, <1>9, <1>10, <1>11

-----------------------------------------------------------------------------
(* A library's functions.                                                  *)

LEMMA ScanIs ==
  ASSUME Len(file) \in Nat, NEW from \in Nat \ {0}, NEW n \in Nat, NEW bytes, from + n <= Len(file),
         \A j \in from .. from + n - 1 : file[j] \in bytes, file[from + n] \notin bytes
  PROVE  Scan(from, bytes).v = SubSeq(file, from, from + n - 1) /\ Scan(from, bytes).o = from + n
<1> DEFINE stops == {j \in from .. Len(file) : file[j] \notin bytes}
           first == CHOOSE j \in stops : \A k \in stops : j <= k
<1>1. from + n \in stops
  OBVIOUS
<1>2. ASSUME NEW k \in stops PROVE from + n <= k
  <2>1. k \in from .. Len(file) /\ file[k] \notin bytes
    OBVIOUS
  <2>2. k \notin from .. from + n - 1
    BY <2>1
  <2> QED
    BY <2>1, <2>2
<1>3. first \in stops /\ \A k \in stops : first <= k
  BY <1>1, <1>2, Zenon
<1>4. first = from + n
  <2>1. first <= from + n /\ from + n <= first
    BY <1>1, <1>2, <1>3
  <2>2. first \in Nat
    BY <1>3
  <2> QED
    BY <2>1, <2>2
<1>5. stops # {}
  BY <1>1
<1> DEFINE to == IF stops # {} THEN first ELSE IF from > Len(file) THEN from ELSE Len(file) + 1
<1>6. Scan(from, bytes) = [v |-> SubSeq(file, from, to - 1), o |-> to]
  BY DEF Scan
<1>7. to = from + n
  BY <1>4, <1>5
<1> HIDE DEF to
<1> QED
  BY <1>6, <1>7

LEMMA ScanReads ==
  ASSUME NEW W, Begins(W), ~cut, NEW from \in Nat \ {0}, NEW words \in WordSeqs, Holds(W, from, words), NEW bytes,
         from + Len(words) <= Len(W), W[from + Len(words)] \notin bytes,
         \A k \in 1 .. Len(words) : words[k] \in bytes
  PROVE  Scan(from, bytes).v = words /\ Scan(from, bytes).o = from + Len(words)
<1> DEFINE n == Len(words)
<1>1. n \in Nat /\ Len(file) \in Nat /\ Len(W) = Len(file) /\ file = W
  BY DEF Begins, WordSeqs
<1>2. WordsAt(from, n) = words
  BY WordsThere
<1>3. WordsAt(from, n) = SubSeq(file, from, from + n - 1)
  <2>1. ~(from + n - 1 > Len(file))
    BY <1>1
  <2> QED
    BY <2>1 DEF WordsAt
<1>4. ASSUME NEW j \in from .. from + n - 1 PROVE file[j] \in bytes
  <2>1. PICK k \in 1 .. n : from - 1 + k = j
    <3>1. j - from + 1 \in 1 .. n /\ from - 1 + (j - from + 1) = j
      BY <1>1
    <3> QED
      BY <3>1
  <2>2. W[from - 1 + k] = words[k]
    BY DEF Holds
  <2> QED
    BY <1>1, <2>1, <2>2
<1>5. from + n <= Len(file) /\ file[from + n] \notin bytes
  BY <1>1
<1> HIDE DEF n
<1>6. Scan(from, bytes).v = SubSeq(file, from, from + n - 1) /\ Scan(from, bytes).o = from + n
  BY <1>1, <1>4, <1>5, ScanIs, Zenon
<1> QED
  BY <1>2, <1>3, <1>6 DEF n

HeldFunc(funcs, i) == [name |-> funcs[i].name, offset |-> -24 - 6 * i, regs |-> funcs[i].regs]

FuncsEq(f, funcs) ==
  f = [i \in 0 .. Len(funcs) |->
        IF i = 0 THEN << >>
        ELSE IF funcs[i].name = << >> THEN f[i - 1]
        ELSE Append(f[i - 1], [name |-> funcs[i].name, offset |-> -24 - 6 * i, regs |-> funcs[i].regs])]

LEMMA FuncsAre ==
  ASSUME NEW T, NEW funcs \in Seq(T)
  PROVE  /\ HeldFuncs(funcs, 0) = << >>
         /\ \A j \in 1 .. Len(funcs) :
              HeldFuncs(funcs, j) = IF funcs[j].name = << >> THEN HeldFuncs(funcs, j - 1)
                                    ELSE Append(HeldFuncs(funcs, j - 1), HeldFunc(funcs, j))
<1> DEFINE n == Len(funcs)
           Held1 == Seq({HeldFunc(funcs, i) : i \in 1 .. n})
           make == [k \in 1 .. n |-> [x \in Held1 |-> IF funcs[k].name = << >> THEN x ELSE Append(x, HeldFunc(funcs, k))]]
           f == CHOOSE f : FuncsEq(f, funcs)
<1>1. n \in Nat
  OBVIOUS
<1>2. << >> \in Held1 /\ \A x \in Held1 : \A k \in 1 .. n : Append(x, HeldFunc(funcs, k)) \in Held1
  <2> DEFINE S == {HeldFunc(funcs, i) : i \in 1 .. n}
  <2>1. \A k \in 1 .. n : HeldFunc(funcs, k) \in S
    OBVIOUS
  <2> HIDE DEF S
  <2>2. << >> \in Seq(S) /\ \A x \in Seq(S) : \A k \in 1 .. n : Append(x, HeldFunc(funcs, k)) \in Seq(S)
    BY <2>1
  <2> QED
    BY <2>2 DEF S
<1> HIDE DEF Held1
<1>3. make \in [1 .. n -> [Held1 -> Held1]]
  BY <1>2
<1> HIDE DEF n
<1>4. PICK g : Solves(g, n, Held1, << >>, make)
  BY <1>1, <1>2, <1>3, Recursion, Zenon
<1>5. /\ g \in [0 .. n -> Held1] /\ g[0] = << >>
      /\ \A k \in 1 .. n : g[k] = IF funcs[k].name = << >> THEN g[k - 1] ELSE Append(g[k - 1], HeldFunc(funcs, k))
  <2>1. g \in [0 .. n -> Held1] /\ g[0] = << >> /\ \A k \in 1 .. n : g[k] = make[k][g[k - 1]]
    BY <1>4 DEF Solves
  <2>2. ASSUME NEW k \in 1 .. n
        PROVE  g[k] = IF funcs[k].name = << >> THEN g[k - 1] ELSE Append(g[k - 1], HeldFunc(funcs, k))
    <3>1. g[k - 1] \in Held1
      BY <1>1, <2>1
    <3> QED
      BY <2>1, <3>1, Zenon
  <2> QED
    BY <2>1, <2>2
<1> HIDE DEF make
<1>6. FuncsEq(g, funcs)
  <2>1. ASSUME NEW i \in 0 .. n
        PROVE  g[i] = IF i = 0 THEN << >> ELSE IF funcs[i].name = << >> THEN g[i - 1]
                      ELSE Append(g[i - 1], [name |-> funcs[i].name, offset |-> -24 - 6 * i, regs |-> funcs[i].regs])
    <3>1. i = 0 \/ i \in 1 .. n
      BY <1>1
    <3>2. CASE i = 0
      BY <1>5, <3>2
    <3>3. CASE i \in 1 .. n
      <4>1. i # 0
        BY <3>3
      <4> QED
        BY <1>5, <3>3, <4>1, Zenon DEF HeldFunc
    <3> QED
      BY <3>1, <3>2, <3>3
  <2>2. g = [i \in 0 .. n |-> g[i]]
    BY <1>5
  <2> QED
    BY <2>1, <2>2, Zenon DEF FuncsEq, n
<1>7. FuncsEq(f, funcs)
  BY <1>6
<1>8. \A i : HeldFuncs(funcs, i) = f[i]
  BY DEF HeldFuncs, FuncsEq
<1> HIDE DEF f
<1>9. \A i \in 0 .. n :
        f[i] = IF i = 0 THEN << >> ELSE IF funcs[i].name = << >> THEN f[i - 1]
               ELSE Append(f[i - 1], HeldFunc(funcs, i))
  BY <1>7, Zenon DEF FuncsEq, n, HeldFunc
<1>10. HeldFuncs(funcs, 0) = << >>
  <2>1. 0 \in 0 .. n
    BY <1>1
  <2> QED
    BY <1>8, <1>9, <2>1
<1>11. ASSUME NEW j \in 1 .. n
       PROVE  HeldFuncs(funcs, j) = IF funcs[j].name = << >> THEN HeldFuncs(funcs, j - 1)
                                    ELSE Append(HeldFuncs(funcs, j - 1), HeldFunc(funcs, j))
  <2>1. j \in 0 .. n /\ j # 0
    BY <1>1
  <2>2. HeldFuncs(funcs, j) = f[j] /\ HeldFuncs(funcs, j - 1) = f[j - 1]
    BY <1>8
  <2>3. f[j] = IF funcs[j].name = << >> THEN f[j - 1] ELSE Append(f[j - 1], HeldFunc(funcs, j))
    BY <1>9, <2>1
  <2> QED
    BY <2>2, <2>3
<1> QED
  BY <1>10, <1>11 DEF n

LEMMA Nonempty ==
  ASSUME NEW T, NEW s \in Seq(T), s # << >>
  PROVE  Len(s) \in Nat \ {0} /\ s[1] \in T /\ \A k \in 1 .. Len(s) : s[k] \in T
<1>1. Len(s) \in Nat \ {0}
  OBVIOUS
<1>2. \A k \in 1 .. Len(s) : s[k] \in T
  OBVIOUS
<1> QED
  BY <1>1, <1>2

RegBytes(v) == IF v.regs = << >> THEN << 16 >> ELSE v.regs

LEMMA RegsSay ==
  ASSUME NEW v \in Vector
  PROVE  /\ RegBytes(v) \in WordSeqs /\ v.name \in WordSeqs /\ v.regs \in WordSeqs
         /\ v.name # << >> => Len(v.name) \in Nat \ {0} /\ \A k \in 1 .. Len(v.name) : v.name[k] \in 33 .. 254
         /\ v.regs # << >> => Len(v.regs) \in Nat \ {0} /\ \A k \in 1 .. Len(v.regs) : v.regs[k] \in 0 .. 15
<1>1. v.name \in Seq(33 .. 254) /\ v.regs \in Seq(0 .. 15) /\ v.name \in WordSeqs /\ v.regs \in WordSeqs
  BY VectorSays
<1>2. RegBytes(v) \in WordSeqs
  BY <1>1, Tuples DEF RegBytes
<1>3. v.name # << >> => Len(v.name) \in Nat \ {0} /\ \A k \in 1 .. Len(v.name) : v.name[k] \in 33 .. 254
  BY <1>1, Nonempty
<1>4. v.regs # << >> => Len(v.regs) \in Nat \ {0} /\ \A k \in 1 .. Len(v.regs) : v.regs[k] \in 0 .. 15
  BY <1>1, Nonempty
<1> QED
  BY <1>1, <1>2, <1>3, <1>4

LEMMA VectorStands ==
  ASSUME NEW W, Len(W) \in Nat, NEW i \in Nat \ {0}, NEW v \in Vector, NEW rest \in WordSeqs,
         Holds(W, i, (IF v.name = << >> THEN << 16 >> ELSE v.name \o IF v.regs = << >> THEN << 16 >> ELSE v.regs) \o rest)
  PROVE  /\ v.name = << >> => i <= Len(W) /\ W[i] = 16 /\ i + 1 \in Nat \ {0} /\ Holds(W, i + 1, rest)
         /\ v.name # << >> =>
              /\ i <= Len(W) /\ W[i] \in 33 .. 254 /\ Holds(W, i, v.name)
              /\ i + Len(v.name) \in Nat \ {0} /\ Holds(W, i + Len(v.name), RegBytes(v) \o rest)
<1>1. CASE v.name = << >>
  <2>1. Holds(W, i, << 16 >> \o rest)
    BY <1>1
  <2> QED
    BY <1>1, <2>1, OneStands
<1>2. CASE v.name # << >>
  <2> DEFINE name == v.name
             regs == RegBytes(v)
  <2>1. name \in WordSeqs /\ regs \in WordSeqs /\ regs \o rest \in WordSeqs
    BY RegsSay, Joins
  <2>2. Holds(W, i, (name \o regs) \o rest)
    BY <1>2 DEF RegBytes
  <2>3. Len(name) \in Nat \ {0} /\ name[1] \in 33 .. 254
    BY <1>2, RegsSay
  <2> HIDE DEF name, regs
  <2>4. name \o regs \in WordSeqs
    BY <2>1, Joins
  <2>5. Holds(W, i, name \o regs) /\ Holds(W, i + Len(name \o regs), rest) /\ Len(name \o regs) = Len(name) + Len(regs)
    BY <2>1, <2>2, <2>4, SplitsPos, Joins, Zenon
  <2>6. Holds(W, i, name) /\ Holds(W, i + Len(name), regs) /\ i + Len(name) \in Nat \ {0} /\ Len(regs) \in Nat
    BY <2>1, <2>5, SplitsPos
  <2>7. i + Len(name \o regs) = (i + Len(name)) + Len(regs)
    BY <2>3, <2>5, <2>6
  <2>8. Holds(W, i + Len(name), regs \o rest)
    BY <2>1, <2>5, <2>6, <2>7, Splits
  <2>9. i <= Len(W) /\ W[i] = name[1]
    <3>1. i + Len(name) - 1 <= Len(W) /\ W[i - 1 + 1] = name[1]
      <4>1. 1 \in 1 .. Len(name)
        BY <2>3
      <4> QED
        BY <2>6, <4>1 DEF Holds
    <3>2. i - 1 + 1 = i /\ i <= i + Len(name) - 1
      BY <2>3
    <3> QED
      BY <2>3, <3>1, <3>2
  <2> QED
    BY <1>2, <2>3, <2>6, <2>8, <2>9 DEF name, regs
<1> QED
  BY <1>1, <1>2

LEMMA RegsStand ==
  ASSUME NEW W, Len(W) \in Nat, NEW i \in Nat \ {0}, NEW v \in Vector, NEW rest \in WordSeqs,
         Holds(W, i, RegBytes(v) \o rest)
  PROVE  /\ v.regs = << >> => i <= Len(W) /\ W[i] = 16 /\ i + 1 \in Nat \ {0} /\ Holds(W, i + 1, rest)
         /\ v.regs # << >> =>
              /\ i <= Len(W) /\ W[i] \in 0 .. 15 /\ Holds(W, i, v.regs)
              /\ i + Len(v.regs) \in Nat \ {0} /\ Holds(W, i + Len(v.regs), rest)
<1>1. CASE v.regs = << >>
  <2>1. Holds(W, i, << 16 >> \o rest)
    BY <1>1 DEF RegBytes
  <2> QED
    BY <1>1, <2>1, OneStands
<1>2. CASE v.regs # << >>
  <2> DEFINE regs == v.regs
  <2>1. regs \in WordSeqs /\ Len(regs) \in Nat \ {0} /\ regs[1] \in 0 .. 15
    <3>1. /\ v.regs \in WordSeqs /\ Len(v.regs) \in Nat \ {0}
          /\ \A k \in 1 .. Len(v.regs) : v.regs[k] \in 0 .. 15
      BY <1>2, RegsSay
    <3>2. regs = v.regs
      OBVIOUS
    <3> HIDE DEF regs
    <3>3. regs \in WordSeqs /\ Len(regs) \in Nat \ {0} /\ \A k \in 1 .. Len(regs) : regs[k] \in 0 .. 15
      BY <3>1, <3>2, Zenon
    <3>4. 1 \in 1 .. Len(regs)
      BY <3>3
    <3> QED
      BY <3>3, <3>4
  <2>2. Holds(W, i, regs \o rest)
    BY <1>2 DEF RegBytes
  <2> HIDE DEF regs
  <2>3. Holds(W, i, regs) /\ Holds(W, i + Len(regs), rest) /\ i + Len(regs) \in Nat \ {0}
    BY <2>1, <2>2, SplitsPos
  <2>4. i <= Len(W) /\ W[i] = regs[1]
    <3>1. i + Len(regs) - 1 <= Len(W) /\ W[i - 1 + 1] = regs[1]
      <4>1. 1 \in 1 .. Len(regs)
        BY <2>1
      <4> QED
        BY <2>3, <4>1 DEF Holds
    <3>2. i - 1 + 1 = i /\ i <= i + Len(regs) - 1
      BY <2>1
    <3> QED
      BY <2>1, <3>1, <3>2
  <2> QED
    BY <1>2, <2>1, <2>3, <2>4 DEF regs
<1> QED
  BY <1>1, <1>2

LEMMA VectorsAre ==
  ASSUME NEW M \in Module, M.lib # << >>
  PROVE  /\ Len(M.lib) = 1 /\ M.lib[1] \in Library
         /\ M.lib[1].funcs \in Seq(Vector) /\ Len(M.lib[1].funcs) \in Nat
         /\ VectorBytes(M.lib[1].funcs) \in Seq(WordSeqs) /\ Len(VectorBytes(M.lib[1].funcs)) = Len(M.lib[1].funcs)
         /\ <<255, Done>> \in WordSeqs
         /\ \A j \in 1 .. Len(M.lib[1].funcs) + 1 : VectorsLeft(M, j) \in WordSeqs
<1>1. M.lib \in Seq(Library) /\ Len(M.lib) <= 1
  <2>1. Len(M.lib) <= 1
    BY DEF Module
  <2> QED
    BY <2>1, ModuleSays, Zenon
<1>2. Len(M.lib) = 1 /\ M.lib[1] \in Library
  <2> DEFINE n == Len(M.lib)
  <2>1. n \in Nat \ {0} /\ M.lib[1] \in Library
    BY <1>1, Nonempty
  <2>2. n <= 1
    BY <1>1
  <2> HIDE DEF n
  <2>3. n = 1
    BY <2>1, <2>2
  <2> QED
    BY <2>1, <2>3 DEF n
<1>3. M.lib[1].funcs \in Seq(Vector) /\ Len(M.lib[1].funcs) \in Nat
  <2>1. M.lib[1].funcs \in Seq(Vector)
    BY <1>2, LibrarySays
  <2> QED
    BY <2>1
<1>4. VectorBytes(M.lib[1].funcs) \in Seq(WordSeqs) /\ Len(VectorBytes(M.lib[1].funcs)) = Len(M.lib[1].funcs)
  BY <1>3, VectorEntries
<1>5. <<255, Done>> \in WordSeqs
  <2>1. 255 \in Nat /\ Done \in Nat
    BY DEF Done
  <2> QED
    BY <2>1, Tuples
<1>6. ASSUME NEW j \in 1 .. Len(M.lib[1].funcs) + 1 PROVE VectorsLeft(M, j) \in WordSeqs
  <2>1. From(VectorBytes(M.lib[1].funcs), j) \in WordSeqs
    BY <1>4, FromIs, Zenon
  <2> QED
    BY <1>5, <2>1, Joins DEF VectorsLeft
<1> QED
  BY <1>2, <1>3, <1>4, <1>5, <1>6

\* What comes next is not a register.
LEMMA VectorFollows ==
  ASSUME NEW M \in Module, M.lib # << >>, NEW j \in 1 .. Len(M.lib[1].funcs) + 1,
         NEW W, Len(W) \in Nat, NEW i \in Nat \ {0}, Holds(W, i, VectorsLeft(M, j))
  PROVE  i <= Len(W) /\ W[i] \in 16 .. 255
<1> DEFINE funcs == M.lib[1].funcs
           seqs == VectorBytes(funcs)
           next == <<255, Done>>
<1>1. funcs \in Seq(Vector) /\ Len(funcs) \in Nat /\ seqs \in Seq(WordSeqs) /\ Len(seqs) = Len(funcs) /\ next \in WordSeqs
  BY VectorsAre
<1>2. Holds(W, i, From(seqs, j) \o next)
  BY DEF VectorsLeft
<1>3. j \in 1 .. Len(funcs) + 1
  OBVIOUS
<1> HIDE DEF seqs
<1>4. CASE j = Len(funcs) + 1
  <2>1. Holds(W, i, next)
    <3> HIDE DEF next
    <3> QED
      BY <1>1, <1>2, <1>4, NoEntry
  <2>2. Len(next) \in Nat /\ Len(next) >= 1 /\ next[1] = 255
    OBVIOUS
  <2>3. i <= Len(W) /\ W[i] = 255
    <3> HIDE DEF next
    <3>1. i + Len(next) - 1 <= Len(W) /\ W[i - 1 + 1] = next[1]
      <4>1. 1 \in 1 .. Len(next)
        BY <2>2
      <4> QED
        BY <2>1, <4>1 DEF Holds
    <3>2. i - 1 + 1 = i /\ i <= i + Len(next) - 1
      BY <2>2
    <3> QED
      BY <2>2, <3>1, <3>2
  <2> QED
    BY <2>3
<1>5. CASE j \in 1 .. Len(funcs)
  <2> DEFINE rest == From(seqs, j + 1) \o next
             v == funcs[j]
  <2>1. v \in Vector /\ seqs[j] = (IF v.name = << >> THEN << 16 >> ELSE v.name \o IF v.regs = << >> THEN << 16 >> ELSE v.regs)
    <3> HIDE DEF funcs
    <3>1. /\ funcs[j] \in Vector
          /\ VectorBytes(funcs)[j] = (IF funcs[j].name = << >> THEN << 16 >>
                ELSE funcs[j].name \o IF funcs[j].regs = << >> THEN << 16 >> ELSE funcs[j].regs)
      BY <1>1, <1>5, VectorEntries
    <3> QED
      BY <3>1 DEF seqs
  <2> HIDE DEF funcs, next
  <2>2. Holds(W, i, seqs[j] \o rest) /\ rest \in WordSeqs
    BY <1>1, <1>2, <1>5, NextEntry
  <2> HIDE DEF rest, v
  <2>3. Holds(W, i, (IF v.name = << >> THEN << 16 >> ELSE v.name \o IF v.regs = << >> THEN << 16 >> ELSE v.regs) \o rest)
    BY <2>1, <2>2
  <2>4. v.name = << >> => i <= Len(W) /\ W[i] = 16
    BY <2>1, <2>2, <2>3, VectorStands
  <2>5. v.name # << >> => i <= Len(W) /\ W[i] \in 33 .. 254
    BY <2>1, <2>2, <2>3, VectorStands
  <2> QED
    BY <2>4, <2>5
<1>6. j = Len(funcs) + 1 \/ j \in 1 .. Len(funcs)
  <2> HIDE DEF funcs
  <2> QED
    BY <1>1, <1>3
<1> QED
  BY <1>4, <1>5, <1>6

LEMMA DoneArrives ==
  ASSUME NEW M, NEW V, NEW W, mode' = "done", out' = Held(M, V)
  PROVE  ReaderInv(M, V, W)'
<1>1. DoneInv(M, V)'
  BY DEF DoneInv
<1> QED
  BY <1>1 DEF ReaderInv

LEMMA LibIs ==
  ASSUME NEW M \in Module, M.lib # << >>
  PROVE  [i \in DOMAIN M.lib |-> HeldLib(M.lib[i])] = <<HeldLib(M.lib[1])>>
<1>1. M.lib \in Seq(Library) /\ Len(M.lib) = 1
  BY ModuleSays, VectorsAre, Zenon
<1>2. DOMAIN M.lib = 1 .. 1
  BY <1>1
<1>3. [i \in 1 .. 1 |-> HeldLib(M.lib[i])] = <<HeldLib(M.lib[1])>>
  <2> DEFINE f == [i \in 1 .. 1 |-> HeldLib(M.lib[i])]
             h == HeldLib(M.lib[1])
  <2>1. f = [i \in 1 .. 1 |-> h]
    <3>1. \A i \in 1 .. 1 : i = 1
      OBVIOUS
    <3> QED
      BY <3>1
  <2> HIDE DEF f, h
  <2>2. [i \in 1 .. 1 |-> h] = <<h>>
    OBVIOUS
  <2> QED
    BY <2>1, <2>2 DEF f, h
<1> QED
  BY <1>2, <1>3

LEMMA HeldIs ==
  ASSUME NEW M, NEW V
  PROVE  Held(M, V) = [x \in Fields |-> Held(M, V)[x]]
  BY DEF Held, Fields

LEMMA LastKnown ==
  ASSUME NEW M \in Module, NEW V \in Nat, ~M.debug
  PROVE  /\ M.lib # << >> => [Before(M, V, 10) EXCEPT !.lib = <<HeldLib(M.lib[1])>>] = Held(M, V)
         /\ M.lib = << >> => Before(M, V, 10) = Held(M, V)
<1> DEFINE f == Before(M, V, 10)
           h == Held(M, V)
           l == <<HeldLib(M.lib[1])>>
<1>1. \A x \in Fields : x \notin {"lib", "partial"} => f[x] = h[x]
  <2>1. ASSUME NEW x \in Fields, x \notin {"lib", "partial"} PROVE f[x] = h[x]
    <3>1. JobOf[x] \in 2 .. 10 /\ JobOf[x] # 10
      BY <2>1, JobOfSays
    <3>2. JobOf[x] < 10
      BY <3>1
    <3> QED
      BY <2>1, <3>2, FieldsSay DEF Before
  <2> QED
    BY <2>1
<1>2. "lib" \in Fields /\ "partial" \in Fields
  BY DEF Fields
<1>3. f.partial = FALSE /\ f.lib = << >>
  <2>1. JobOf["lib"] = 10 /\ JobOf["partial"] = 10
    BY <1>2, JobOfSays
  <2> QED
    BY <1>2, <2>1, FieldsSay, NothingSays DEF Before
<1>4. h.partial = FALSE
  <2>1. h.partial = M.debug
    BY HeldSays
  <2>2. M.debug \in BOOLEAN
    BY ModuleSays, Zenon
  <2> QED
    BY <2>1, <2>2
<1>5. h.lib = [i \in DOMAIN M.lib |-> HeldLib(M.lib[i])]
  BY DEF Held
<1>6. DOMAIN f = Fields /\ f = [x \in Fields |-> f[x]] /\ h = [x \in Fields |-> h[x]]
  <2>1. f = [x \in Fields |-> f[x]] /\ DOMAIN f = Fields
    BY FieldsSay DEF Before
  <2> QED
    BY <2>1, HeldIs
<1>7. ASSUME M.lib # << >> PROVE [f EXCEPT !.lib = l] = h
  <2>1. h.lib = l
    BY <1>5, <1>7, LibIs
  <2> HIDE DEF f, h, l
  <2>2. \A x \in Fields : [f EXCEPT !.lib = l][x] = h[x]
    BY <1>1, <1>2, <1>3, <1>4, <1>6, <2>1, Zenon
  <2>3. [f EXCEPT !.lib = l] = [x \in Fields |-> [f EXCEPT !.lib = l][x]]
    BY <1>6
  <2> QED
    BY <1>6, <2>2, <2>3
<1>8. ASSUME M.lib = << >> PROVE f = h
  <2>1. h.lib = << >>
    <3>1. DOMAIN M.lib = {}
      BY <1>8
    <3>2. [i \in {} |-> HeldLib(M.lib[i])] = << >>
      OBVIOUS
    <3> QED
      BY <1>5, <3>1, <3>2
  <2> HIDE DEF f, h
  <2>2. \A x \in Fields : f[x] = h[x]
    BY <1>1, <1>2, <1>3, <1>4, <2>1, Zenon
  <2> QED
    BY <1>6, <2>2
<1> QED
  BY <1>7, <1>8 DEF f, h, l

LEMMA VectorsArrive ==
  ASSUME NEW M \in Module, NEW V \in Nat, NEW W, ~M.debug, M.lib # << >>, NEW j \in 1 .. Len(M.lib[1].funcs) + 1,
         mode' = "vectors", out' = Before(M, V, 10), o' \in Nat \ {0}, Holds(W, o', VectorsLeft(M, j)),
         part' = [name |-> M.lib[1].name, base |-> M.lib[1].base,
                  funcs |-> HeldFuncs(M.lib[1].funcs, j - 1), offset |-> -24 - 6 * j]
  PROVE  ReaderInv(M, V, W)'
<1>1. VectorsAt(M, W, j)'
  BY DEF VectorsAt, In
<1>2. VectorsInv(M, V, W)'
  BY <1>1 DEF VectorsInv
<1> QED
  BY <1>2 DEF ReaderInv

LEMMA VectorsLost ==
  ASSUME NEW M, NEW V, NEW W, ~M.debug, M.lib # << >>, mode' = "vectors", out' = Before(M, V, 10), cut'
  PROVE  ReaderInv(M, V, W)'
<1>1. VectorsInv(M, V, W)'
  BY DEF VectorsInv
<1> QED
  BY <1>1 DEF ReaderInv

LEMMA LibChanges ==
  ASSUME NEW n, NEW b, NEW a, NEW f, NEW c, NEW g, NEW p, p = [name |-> n, base |-> b, funcs |-> a, offset |-> f]
  PROVE  /\ p.name = n /\ p.base = b /\ p.funcs = a /\ p.offset = f
         /\ [p EXCEPT !.offset = g] = [name |-> n, base |-> b, funcs |-> a, offset |-> g]
         /\ [p EXCEPT !.funcs = c, !.offset = g] = [name |-> n, base |-> b, funcs |-> c, offset |-> g]
<1>1. p.name = n /\ p.base = b /\ p.funcs = a /\ p.offset = f
  OBVIOUS
<1>2. [p EXCEPT !.offset = g] = [name |-> n, base |-> b, funcs |-> a, offset |-> g]
  OBVIOUS
<1>3. [p EXCEPT !.funcs = c] = [name |-> n, base |-> b, funcs |-> c, offset |-> f]
  OBVIOUS
<1>4. [p EXCEPT !.funcs = c, !.offset = g] = [[p EXCEPT !.funcs = c] EXCEPT !.offset = g]
  OBVIOUS
<1>5. [[name |-> n, base |-> b, funcs |-> c, offset |-> f] EXCEPT !.offset = g] = [name |-> n, base |-> b, funcs |-> c, offset |-> g]
  OBVIOUS
<1> QED
  BY <1>1, <1>2, <1>3, <1>4, <1>5, Zenon

\* A file that was cut: how many functions are left is not known.
LEMMA VectorsCutStep ==
  ASSUME NEW M, NEW V, NEW W, cut, VectorsInv(M, V, W), Read
  PROVE  ReaderInv(M, V, W)'
<1>1. mode = "vectors" /\ ~M.debug /\ M.lib # << >> /\ out = Before(M, V, 10)
  BY DEF VectorsInv
<1>2. ReadVector \/ EmptySlot \/ VectorsEnd
  BY <1>1, InLoop
<1>3. CASE ReadVector \/ EmptySlot
  <2>1. mode' = mode /\ out' = out /\ cut' = cut
    BY <1>3, Zenon DEF ReadVector, EmptySlot, source
  <2>2. mode' = "vectors" /\ out' = Before(M, V, 10) /\ cut'
    BY <1>1, <2>1
  <2> QED
    BY <1>1, <2>2, VectorsLost
<1>4. CASE VectorsEnd
  <2> DEFINE l == <<[name |-> part.name, base |-> part.base, funcs |-> part.funcs]>>
             f == Before(M, V, 10)
  <2>1. mode' = "done" /\ out' = [out EXCEPT !.lib = l] /\ cut' = cut
    BY <1>4 DEF VectorsEnd, source
  <2>2. "lib" \in DOMAIN f /\ DOMAIN f = DOMAIN Nothing
    BY FieldsSay DEF Before, Fields
  <2> HIDE DEF l, f
  <2>3. out' = [f EXCEPT !.lib = l]
    BY <1>1, <2>1 DEF f
  <2>4. out'.lib = l /\ DOMAIN out' = DOMAIN Nothing
    BY <2>2, <2>3
  <2>5. out' = [Before(M, V, 10) EXCEPT !.lib = out'.lib]
    BY <2>3, <2>4 DEF f
  <2>6. CutBetween(M, V)'
    BY <1>1, <2>1, <2>4, <2>5 DEF CutBetween
  <2>7. DoneInv(M, V)'
    BY <2>1, <2>6 DEF DoneInv
  <2> QED
    BY <2>7 DEF ReaderInv
<1> QED
  BY <1>2, <1>3, <1>4

LEMMA ElementsIn ==
  ASSUME NEW T, NEW s \in Seq(T)
  PROVE  \A k \in 1 .. Len(s) : s[k] \in T
  OBVIOUS

LEMMA VectorNameRead ==
  ASSUME NEW W, Begins(W), ~cut, NEW i \in Nat \ {0}, NEW v \in Vector, v.name # << >>,
         Holds(W, i, v.name), i + Len(v.name) <= Len(W), W[i + Len(v.name)] \in 0 .. 16
  PROVE  Scan(i, NameChars).v = v.name /\ Scan(i, NameChars).o = i + Len(v.name)
<1> DEFINE name == v.name
<1>1. name \in WordSeqs /\ \A k \in 1 .. Len(name) : name[k] \in 33 .. 254
  BY RegsSay
<1>2. \A k \in 1 .. Len(name) : name[k] \in NameChars
  <2>1. 33 .. 254 \subseteq NameChars
    BY Numbers0 DEF NameChars
  <2> QED
    BY <1>1, <2>1, Zenon
<1>3. W[i + Len(name)] \notin NameChars
  <2>1. \A w \in 0 .. 16 : w \notin NameChars
    BY Numbers0 DEF NameChars
  <2> QED
    BY <2>1, Zenon
<1>4. Holds(W, i, name) /\ i + Len(name) <= Len(W)
  OBVIOUS
<1> HIDE DEF name
<1>5. Scan(i, NameChars).v = name /\ Scan(i, NameChars).o = i + Len(name)
  BY <1>1, <1>2, <1>3, <1>4, ScanReads
<1> QED
  BY <1>5 DEF name

LEMMA VectorRegsRead ==
  ASSUME NEW W, Begins(W), ~cut, NEW i \in Nat \ {0}, NEW v \in Vector,
         Holds(W, i, v.regs), i + Len(v.regs) <= Len(W), W[i + Len(v.regs)] \in 16 .. 255
  PROVE  Scan(i, Regs).v = v.regs /\ Scan(i, Regs).o = i + Len(v.regs)
<1> DEFINE regs == v.regs
<1>1. regs \in WordSeqs /\ \A k \in 1 .. Len(regs) : regs[k] \in Regs
  <2>1. regs \in Seq(0 .. 15) /\ regs \in WordSeqs
    BY VectorSays
  <2>2. \A k \in 1 .. Len(regs) : regs[k] \in 0 .. 15
    BY <2>1, ElementsIn, Zenon
  <2> QED
    BY <2>1, <2>2 DEF Regs
<1>2. W[i + Len(regs)] \notin Regs
  <2>1. \A w \in 16 .. 255 : w \notin Regs
    BY DEF Regs
  <2> QED
    BY <2>1, Zenon
<1>3. Holds(W, i, regs) /\ i + Len(regs) <= Len(W)
  OBVIOUS
<1> HIDE DEF regs
<1>4. Scan(i, Regs).v = regs /\ Scan(i, Regs).o = i + Len(regs)
  BY <1>1, <1>2, <1>3, ScanReads
<1> QED
  BY <1>4 DEF regs

LEMMA OffsetFollows ==
  ASSUME NEW j \in Nat
  PROVE  (-24 - 6 * j) - 6 = -24 - 6 * (j + 1)
  OBVIOUS

LEMMA VectorsStep ==
  ASSUME NEW M, NEW V, NEW W, FileInv(M, V, W), VectorsInv(M, V, W), Read
  PROVE  ReaderInv(M, V, W)'
<1>0. SUFFICES ASSUME ~cut PROVE ReaderInv(M, V, W)'
  BY VectorsCutStep
<1> DEFINE funcs == M.lib[1].funcs
           seqs == VectorBytes(funcs)
           next == <<255, Done>>
<1>1. M \in Module /\ V \in Nat /\ Begins(W) /\ Len(W) \in Nat
  BY FileSays
<1>2. mode = "vectors" /\ ~M.debug /\ M.lib # << >> /\ out = Before(M, V, 10)
  BY DEF VectorsInv
<1>3. PICK j \in 1 .. Len(funcs) + 1 : VectorsAt(M, W, j)
  BY <1>0 DEF VectorsInv
<1>4. /\ o \in Nat \ {0} /\ Holds(W, o, From(seqs, j) \o next)
      /\ part = [name |-> M.lib[1].name, base |-> M.lib[1].base, funcs |-> HeldFuncs(funcs, j - 1), offset |-> -24 - 6 * j]
  BY <1>3 DEF VectorsAt, In, VectorsLeft
<1>5. funcs \in Seq(Vector) /\ Len(funcs) \in Nat /\ seqs \in Seq(WordSeqs) /\ Len(seqs) = Len(funcs) /\ next \in WordSeqs
  BY <1>1, <1>2, VectorsAre, Zenon
<1>6. ReadVector \/ EmptySlot \/ VectorsEnd
  BY <1>2, InLoop
<1>7. file = W /\ \A i : Has(i) <=> i <= Len(W)
  BY <1>0, <1>1 DEF Begins, Has
<1>8. funcs = M.lib[1].funcs /\ seqs = VectorBytes(funcs) /\ next = <<255, Done>>
      /\ (j = Len(funcs) + 1 \/ j \in 1 .. Len(funcs))
  <2>1. j = Len(funcs) + 1 \/ j \in 1 .. Len(funcs)
    <3> HIDE DEF funcs
    <3> QED
      BY <1>3, <1>5
  <2> QED
    BY <2>1
<1> HIDE DEF funcs, seqs, next
<1>9. CASE j = Len(funcs) + 1
  <2>1. Holds(W, o, next)
    BY <1>4, <1>5, <1>9, NoEntry
  <2>2. o <= Len(W) /\ W[o] = 255
    <3>1. Len(next) \in Nat /\ Len(next) >= 1 /\ next[1] = 255
      BY <1>8
    <3>2. o + Len(next) - 1 <= Len(W) /\ W[o - 1 + 1] = next[1]
      <4>1. 1 \in 1 .. Len(next)
        BY <3>1
      <4> QED
        BY <2>1, <4>1 DEF Holds
    <3>3. o - 1 + 1 = o /\ o <= o + Len(next) - 1
      BY <1>4, <3>1
    <3> QED
      BY <1>1, <1>4, <3>1, <3>2, <3>3
  <2>3. Has(o) /\ file[o] = 255
    BY <1>7, <2>2
  <2>4. VectorsEnd
    <3>1. ~ReadVector
      BY <2>3 DEF ReadVector
    <3>2. ~EmptySlot
      BY <2>3 DEF EmptySlot, Ends
    <3> QED
      BY <1>6, <3>1, <3>2
  <2>5. mode' = "done" /\ out' = [out EXCEPT !.lib = <<[name |-> part.name, base |-> part.base, funcs |-> part.funcs]>>]
    BY <2>4 DEF VectorsEnd
  <2>6. part.name = M.lib[1].name /\ part.base = M.lib[1].base /\ part.funcs = HeldFuncs(funcs, Len(funcs))
    <3>1. j - 1 = Len(funcs)
      BY <1>5, <1>9
    <3>2. part.name = M.lib[1].name /\ part.base = M.lib[1].base /\ part.funcs = HeldFuncs(funcs, j - 1)
      BY <1>4
    <3> QED
      BY <3>1, <3>2
  <2>7. [name |-> part.name, base |-> part.base, funcs |-> part.funcs] = HeldLib(M.lib[1])
    BY <1>8, <2>6 DEF HeldLib
  <2>8. out' = [Before(M, V, 10) EXCEPT !.lib = <<HeldLib(M.lib[1])>>]
    BY <1>2, <2>5, <2>7
  <2>9. out' = Held(M, V)
    BY <1>1, <1>2, <2>8, LastKnown
  <2> QED
    BY <2>5, <2>9, DoneArrives
<1>10. CASE j \in 1 .. Len(funcs)
  <2> DEFINE v == funcs[j]
             rest == From(seqs, j + 1) \o next
  <2>1. v \in Vector /\ seqs[j] = (IF v.name = << >> THEN << 16 >> ELSE v.name \o IF v.regs = << >> THEN << 16 >> ELSE v.regs)
    <3>1. /\ funcs[j] \in Vector
          /\ VectorBytes(funcs)[j] = (IF funcs[j].name = << >> THEN << 16 >>
                ELSE funcs[j].name \o IF funcs[j].regs = << >> THEN << 16 >> ELSE funcs[j].regs)
      BY <1>5, <1>10, VectorEntries
    <3> QED
      BY <1>8, <3>1
  <2>2. Holds(W, o, seqs[j] \o rest) /\ rest \in WordSeqs
    BY <1>1, <1>4, <1>5, <1>10, NextEntry
  <2>3. j + 1 \in 1 .. Len(funcs) + 1 /\ (j + 1) - 1 = j /\ j \in Nat
    BY <1>5, <1>10
  <2>4. rest = VectorsLeft(M, j + 1)
    BY <1>8 DEF VectorsLeft
  <2>5. HeldFuncs(funcs, j) = IF v.name = << >> THEN HeldFuncs(funcs, j - 1)
                              ELSE Append(HeldFuncs(funcs, j - 1), HeldFunc(funcs, j))
    BY <1>5, <1>10, FuncsAre, Zenon
  <2>5a. HeldFunc(funcs, j) = [name |-> v.name, offset |-> -24 - 6 * j, regs |-> v.regs]
    BY DEF HeldFunc
  <2> HIDE DEF v, rest
  <2>6. Holds(W, o, (IF v.name = << >> THEN << 16 >> ELSE v.name \o IF v.regs = << >> THEN << 16 >> ELSE v.regs) \o rest)
    BY <2>1, <2>2
  <2>7. (-24 - 6 * j) - 6 = -24 - 6 * (j + 1)
    BY <2>3, OffsetFollows
  <2>8. part.offset = -24 - 6 * j /\ part.funcs = HeldFuncs(funcs, j - 1)
    BY <1>4
  <2>9. CASE v.name = << >>
    <3>1. o <= Len(W) /\ W[o] = 16 /\ o + 1 \in Nat \ {0} /\ Holds(W, o + 1, rest)
      BY <1>1, <1>4, <2>1, <2>2, <2>6, <2>9, VectorStands
    <3>2. Has(o) /\ file[o] = 16
      BY <1>7, <3>1
    <3>3. EmptySlot
      <4>1. ~ReadVector
        BY <3>2 DEF ReadVector
      <4>2. ~VectorsEnd
        BY <3>2 DEF VectorsEnd
      <4> QED
        BY <1>6, <4>1, <4>2
    <3>4. part' = [part EXCEPT !.offset = part.offset - 6] /\ o' = o + 1 /\ mode' = mode /\ out' = out
      BY <3>3 DEF EmptySlot
    <3>5. part' = [name |-> M.lib[1].name, base |-> M.lib[1].base, funcs |-> HeldFuncs(funcs, j), offset |-> -24 - 6 * (j + 1)]
      <4> DEFINE n == M.lib[1].name
                 b == M.lib[1].base
                 a == HeldFuncs(funcs, j)
                 f == -24 - 6 * j
                 g == -24 - 6 * (j + 1)
      <4>1. part = [name |-> n, base |-> b, funcs |-> a, offset |-> f] /\ f - 6 = g /\ part.offset = f
        BY <1>4, <2>5, <2>7, <2>8, <2>9
      <4> HIDE DEF n, b, a, f, g
      <4>2. part' = [part EXCEPT !.offset = g]
        BY <3>4, <4>1
      <4>3. part' = [name |-> n, base |-> b, funcs |-> a, offset |-> g]
        BY <4>1, <4>2, LibChanges, Zenon
      <4> QED
        BY <4>3 DEF n, b, a, g
    <3>6. part' = [name |-> M.lib[1].name, base |-> M.lib[1].base, funcs |-> HeldFuncs(M.lib[1].funcs, (j + 1) - 1),
                   offset |-> -24 - 6 * (j + 1)]
      BY <1>8, <2>3, <3>5, Zenon
    <3>7. /\ mode' = "vectors" /\ out' = Before(M, V, 10) /\ o' \in Nat \ {0} /\ Holds(W, o', VectorsLeft(M, j + 1))
          /\ j + 1 \in 1 .. Len(M.lib[1].funcs) + 1
      BY <1>2, <1>8, <2>3, <2>4, <3>1, <3>4
    <3> QED
      BY <1>1, <1>2, <3>6, <3>7, VectorsArrive, Zenon
  <2>10. CASE v.name # << >>
    <3> DEFINE n == Len(v.name)
               k == Len(v.regs)
               at == o + n
    <3>1. /\ o <= Len(W) /\ W[o] \in 33 .. 254 /\ Holds(W, o, v.name)
          /\ at \in Nat \ {0} /\ Holds(W, at, RegBytes(v) \o rest)
      BY <1>1, <1>4, <2>1, <2>2, <2>6, <2>10, VectorStands
    <3>2. Has(o) /\ file[o] # 16 /\ file[o] # 255
      <4>1. \A w \in 33 .. 254 : w # 16 /\ w # 255
        OBVIOUS
      <4>2. W[o] # 16 /\ W[o] # 255
        BY <3>1, <4>1, Zenon
      <4> QED
        BY <1>7, <3>1, <4>2
    <3>3. ReadVector
      <4>1. ~EmptySlot
        BY <3>2 DEF EmptySlot, Ends
      <4>2. ~VectorsEnd
        BY <3>2 DEF VectorsEnd
      <4> QED
        BY <1>6, <4>1, <4>2
    <3> HIDE DEF at
    <3>4. /\ v.regs = << >> => at <= Len(W) /\ W[at] = 16 /\ at + 1 \in Nat \ {0} /\ Holds(W, at + 1, rest)
          /\ v.regs # << >> =>
               /\ at <= Len(W) /\ W[at] \in 0 .. 15 /\ Holds(W, at, v.regs)
               /\ at + k \in Nat \ {0} /\ Holds(W, at + k, rest)
      BY <1>1, <2>1, <2>2, <3>1, RegsStand, Zenon
    <3>5. at <= Len(W) /\ W[at] \in 0 .. 16
      <4>1. CASE v.regs = << >>
        <5>1. 16 \in 0 .. 16
          OBVIOUS
        <5> QED
          BY <3>4, <4>1, <5>1
      <4>2. CASE v.regs # << >>
        <5>1. 0 .. 15 \subseteq 0 .. 16
          OBVIOUS
        <5> QED
          BY <3>4, <4>2, <5>1
      <4> QED
        BY <4>1, <4>2
    <3>6. Scan(o, NameChars).v = v.name /\ Scan(o, NameChars).o = at
      BY <1>0, <1>1, <1>4, <2>1, <2>10, <3>1, <3>5, VectorNameRead DEF at, n
    <3> DEFINE name == Scan(o, NameChars)
               none == Has(name.o) /\ file[name.o] = 16
               regs == IF none THEN [v |-> << >>, o |-> name.o + 1] ELSE Scan(name.o, Regs)
               e == [name |-> name.v, offset |-> part.offset, regs |-> regs.v]
    <3>7. /\ part' = [part EXCEPT !.funcs = Append(part.funcs, e), !.offset = part.offset - 6]
          /\ o' = regs.o /\ mode' = mode /\ out' = out
      BY <3>3 DEF ReadVector
    <3>8. name.o = at /\ name.v = v.name /\ Has(at) /\ file[at] = W[at]
      BY <1>7, <3>5, <3>6
    <3>9. regs.v = v.regs /\ regs.o \in Nat \ {0} /\ Holds(W, regs.o, rest)
      <4>1. CASE v.regs = << >>
        <5>1. none
          BY <3>4, <3>8, <4>1
        <5>2. regs = [v |-> << >>, o |-> name.o + 1]
          BY <5>1
        <5>3. regs.v = << >> /\ regs.o = at + 1
          BY <3>8, <5>2
        <5> QED
          BY <3>4, <4>1, <5>3
      <4>2. CASE v.regs # << >>
        <5>1. ~none
          <6>1. W[at] # 16
            <7>1. \A w \in 0 .. 15 : w # 16
              OBVIOUS
            <7>2. W[at] \in 0 .. 15
              BY <3>4, <4>2
            <7> QED
              BY <7>1, <7>2, Zenon
          <6> QED
            BY <3>8, <6>1
        <5>2. regs = Scan(at, Regs)
          BY <3>8, <5>1
        <5>3. at + k <= Len(W) /\ W[at + k] \in 16 .. 255
          BY <1>1, <1>2, <1>8, <2>3, <2>4, <3>4, <4>2, VectorFollows, Zenon
        <5>4. Scan(at, Regs).v = v.regs /\ Scan(at, Regs).o = at + k
          BY <1>0, <1>1, <2>1, <3>1, <3>4, <4>2, <5>3, VectorRegsRead DEF k
        <5> HIDE DEF regs
        <5> QED
          BY <3>4, <4>2, <5>2, <5>4
      <4> QED
        BY <4>1, <4>2
    <3>10. e = HeldFunc(funcs, j)
      BY <2>5a, <2>8, <3>8, <3>9
    <3> HIDE DEF regs, name, e
    <3>11. part' = [name |-> M.lib[1].name, base |-> M.lib[1].base, funcs |-> HeldFuncs(funcs, j), offset |-> -24 - 6 * (j + 1)]
      <4> DEFINE m == M.lib[1].name
                 b == M.lib[1].base
                 a == HeldFuncs(funcs, j - 1)
                 c == HeldFuncs(funcs, j)
                 f == -24 - 6 * j
                 g == -24 - 6 * (j + 1)
      <4>1. part = [name |-> m, base |-> b, funcs |-> a, offset |-> f] /\ f - 6 = g /\ part.offset = f /\ c = Append(a, e)
            /\ part.funcs = a
        BY <1>4, <2>5, <2>7, <2>8, <2>10, <3>10
      <4> HIDE DEF m, b, a, c, f, g
      <4>2. part' = [part EXCEPT !.funcs = c, !.offset = g]
        BY <3>7, <4>1, Zenon
      <4>3. part' = [name |-> m, base |-> b, funcs |-> c, offset |-> g]
        BY <4>1, <4>2, LibChanges, Zenon
      <4> QED
        BY <4>3 DEF m, b, c, g
    <3>12. part' = [name |-> M.lib[1].name, base |-> M.lib[1].base, funcs |-> HeldFuncs(M.lib[1].funcs, (j + 1) - 1),
                    offset |-> -24 - 6 * (j + 1)]
      BY <1>8, <2>3, <3>11, Zenon
    <3>13. /\ mode' = "vectors" /\ out' = Before(M, V, 10) /\ o' \in Nat \ {0} /\ Holds(W, o', VectorsLeft(M, j + 1))
           /\ j + 1 \in 1 .. Len(M.lib[1].funcs) + 1
      BY <1>2, <1>8, <2>3, <2>4, <3>7, <3>9
    <3> QED
      BY <1>1, <1>2, <3>12, <3>13, VectorsArrive, Zenon
  <2> QED
    BY <2>9, <2>10
<1> QED
  BY <1>8, <1>9, <1>10

-----------------------------------------------------------------------------
(* The jobs.                                                               *)

LEMMA AtWord ==
  ASSUME mode = "jobs", Read
  PROVE  /\ ~Has(o) => JobsEnd
         /\ Has(o) => /\ file[o] = 0 => JobsEnd
                      /\ file[o] = 1 => Consts
                      /\ file[o] = 2 => Obj
                      /\ file[o] = 3 => Code
                      /\ file[o] = 4 => ProcTable
                      /\ file[o] = 5 => Sys
                      /\ file[o] = 6 => Lib
                      /\ file[o] = 7 => Relocs
                      /\ file[o] = 8 => Globs
                      /\ file[o] = 9 => Modinfo
                      /\ file[o] = 10 => UnknownJob
<1>1. JobsEnd \/ UnknownJob \/ Sys \/ Consts \/ Obj \/ Code \/ ProcTable \/ Relocs \/ Globs \/ Modinfo \/ Lib
  BY InLoop DEF Jobs
<1>2. /\ JobsEnd => (Has(o) => file[o] = 0)
      /\ UnknownJob => Has(o) /\ file[o] \notin 0 .. 9
      /\ Sys => Has(o) /\ file[o] = 5
      /\ Consts => Has(o) /\ file[o] = 1
      /\ Obj => Has(o) /\ file[o] = 2
      /\ Code => Has(o) /\ file[o] = 3
  BY Zenon DEF JobsEnd, UnknownJob, Sys, Consts, Obj, Code, AtJob, Done
<1>3. /\ ProcTable => Has(o) /\ file[o] = 4
      /\ Relocs => Has(o) /\ file[o] = 7
      /\ Globs => Has(o) /\ file[o] = 8
      /\ Modinfo => Has(o) /\ file[o] = 9
      /\ Lib => Has(o) /\ file[o] = 6
  BY DEF ProcTable, Relocs, Globs, Modinfo, Lib, AtJob
<1> QED
  BY <1>1, <1>2, <1>3

LEMMA JobsOver ==
  ASSUME NEW M, NEW V, NEW W, mode = "jobs", ~Has(o), CutBetween(M, V), Read
  PROVE  ReaderInv(M, V, W)'
<1>1. JobsEnd
  BY AtWord
<1>2. mode' = "done" /\ out' = out /\ cut' = cut
  BY <1>1 DEF JobsEnd, Goto, Same, source
<1>3. CutBetween(M, V)'
  BY <1>2 DEF CutBetween
<1>4. DoneInv(M, V)'
  BY <1>2, <1>3 DEF DoneInv
<1> QED
  BY <1>4 DEF ReaderInv

LEMMA CodeCutStep ==
  ASSUME NEW M, NEW V, NEW W, CodeCut(M, V), Read
  PROVE  ReaderInv(M, V, W)'
<1>1. mode = "jobs" /\ ~Has(o) /\ CutBetween(M, V)
  BY DEF CodeCut, CutBetween
<1> QED
  BY <1>1, JobsOver

LEMMA CutJob ==
  ASSUME NEW M, NEW V, NEW W, Begins(W), NEW k \in 2 .. 10, mode = "jobs", out = Before(M, V, k),
         o \in Nat \ {0}, o <= Len(W), ~Has(o), Read
  PROVE  ReaderInv(M, V, W)'
<1>1. cut
  BY WordMissing
<1>2. CutBetween(M, V)
  BY <1>1 DEF CutBetween
<1> QED
  BY <1>2, JobsOver

\* Where the body begins, in this version of the format.
LEMMA BodyIs ==
  ASSUME NEW V \in Nat, out.version = V, NEW body \in WordSeqs, o \in Nat \ {0}
  PROVE  Body = o + 1 + Len(SizeOf(V, body)) /\ Body \in Nat \ {0}
<1>1. CASE V >= 6
  <2>1. Len(SizeOf(V, body)) = 2
    BY <1>1, SizeSays
  <2>2. Body = o + 1 + 2
    BY <1>1 DEF Body
  <2> QED
    BY <2>1, <2>2
<1>2. CASE ~(V >= 6)
  <2>1. Len(SizeOf(V, body)) = 0
    BY <1>2, SizeSays
  <2>2. Body = o + 1 + 0
    BY <1>2 DEF Body
  <2> QED
    BY <2>1, <2>2
<1> QED
  BY <1>1, <1>2

LEMMA JobFollows ==
  ASSUME NEW M \in Module, NEW V \in Nat, NEW k \in 1 .. 10, NEW n, n = k + 1
  PROVE  Left(M, V, k) = JobNo(M, V, k) \o Left(M, V, n) /\ Left(M, V, n) \in WordSeqs
<1>1. n \in 1 .. 11
  OBVIOUS
<1> QED
  BY <1>1, LeftIs, Zenon

LEMMA AfterSys ==
  ASSUME NEW M, NEW V
  PROVE  Before(M, V, 3) = [Nothing EXCEPT !.version = V]
<1>1. \A x \in Fields : JobOf[x] < 3 <=> x = "version"
  BY JobOfSays
<1>2. DOMAIN Nothing = Fields
  BY FieldsSay
<1>3. Nothing = [x \in Fields |-> Nothing[x]]
  BY <1>2 DEF Nothing
<1>4. Held(M, V).version = V
  BY HeldSays
<1> QED
  BY <1>1, <1>2, <1>3, <1>4 DEF Before

LEMMA SysStep ==
  ASSUME NEW M, NEW V, NEW W, FileInv(M, V, W), JobAt(M, V, W, 2), Read
  PROVE  ReaderInv(M, V, W)'
<1> DEFINE h == <<5, 0, 0, 0>>
           v == Long(4096)
           t == <<0, 0, 0, V, 0, 0>>
           z == IF V > 10 THEN LongZero ELSE << >>
           rest == Left(M, V, 3)
<1>1. M \in Module /\ V \in Nat /\ Begins(W) /\ Len(W) \in Nat
  BY FileSays
<1>2. mode = "jobs" /\ o \in Nat \ {0} /\ Holds(W, o, Left(M, V, 2)) /\ out = Before(M, V, 2)
  BY DEF JobAt, In
<1>3. rest \in WordSeqs /\ Holds(W, o, SysJob(V) \o rest)
  <2>1. 2 \in 1 .. 10 /\ 3 = 2 + 1
    OBVIOUS
  <2>2. Left(M, V, 2) = JobNo(M, V, 2) \o rest /\ rest \in WordSeqs
    BY <1>1, <2>1, JobFollows, Zenon
  <2>3. JobNo(M, V, 2) = SysJob(V)
    BY JobNos
  <2> QED
    BY <1>2, <2>2, <2>3, Zenon
<1>4. Holds(W, o, (((h \o v) \o t) \o z) \o rest)
  BY <1>3 DEF SysJob
<1>5. /\ h \in WordSeqs /\ v \in WordSeqs /\ t \in WordSeqs /\ z \in WordSeqs
      /\ Len(h) = 4 /\ Len(v) = 2 /\ Len(t) = 6 /\ h[1] = 5 /\ t[4] = V
      /\ 10 + SysRest(V) = 12 + Len(z) /\ SysRest(V) \in Nat
  <2>1. h[1] = 5 /\ t[4] = V
    OBVIOUS
  <2> QED
    BY <1>1, <2>1, SysSays
<1>6. DOMAIN out = DOMAIN Nothing
  BY <1>2, KnownFields
<1> HIDE DEF h, v, t, z, rest
<1>7. /\ o <= Len(W) /\ W[o] = 5 /\ o + 9 <= Len(W) /\ W[o + 9] = V
      /\ o + 12 + Len(z) \in Nat \ {0} /\ Holds(W, o + 12 + Len(z), rest)
  BY <1>1, <1>2, <1>3, <1>4, <1>5, SysStands
<1>8. CASE ~Has(o)
  <2>1. 2 \in 2 .. 10
    OBVIOUS
  <2> QED
    BY <1>1, <1>2, <1>7, <1>8, <2>1, CutJob
<1>9. CASE Has(o)
  <2>1. file[o] = 5
    BY <1>1, <1>2, <1>7, <1>9, WordThere
  <2>2. Sys
    BY <1>2, <1>9, <2>1, AtWord
  <2>3. o + 9 \in Nat \ {0}
    BY <1>2
  <2>4. CASE ~Has(o + 9)
    <3>1. Throw
      BY <2>2, <2>4 DEF Sys, Reading
    <3> QED
      BY <1>1, <1>6, <1>7, <2>3, <2>4, <3>1, WordMissing, Thrown1
  <2>5. CASE Has(o + 9)
    <3>1. out' = [out EXCEPT !.version = file[o + 9]] /\ mode' = "jobs" /\ o' = o + 10 + SysRest(file[o + 9])
      BY <2>2, <2>5 DEF Sys, Reading, Goto
    <3>2. file[o + 9] = V
      BY <1>1, <1>7, <2>3, <2>5, WordThere, Zenon
    <3>3. o' = o + 12 + Len(z)
      <4>1. o' = o + 10 + SysRest(V)
        BY <3>1, <3>2
      <4>2. Len(z) \in Nat
        BY <1>5 DEF WordSeqs
      <4> QED
        BY <1>2, <1>5, <4>1, <4>2
    <3>4. out' = Before(M, V, 3)
      <4>1. out = Nothing
        BY <1>2, BeforeSays, Zenon
      <4>2. out' = [Nothing EXCEPT !.version = V]
        BY <3>1, <3>2, <4>1
      <4> QED
        BY <4>2, AfterSys
    <3>5. o' \in Nat \ {0} /\ Holds(W, o', Left(M, V, 3))
      BY <1>7, <3>3 DEF rest
    <3>6. 3 \in 3 .. 10
      OBVIOUS
    <3> QED
      BY <1>1, <3>1, <3>4, <3>5, <3>6, JobArrives
  <2> QED
    BY <2>4, <2>5
<1> QED
  BY <1>8, <1>9

LEMMA ObjectsOutSay ==
  ASSUME NEW M, NEW V, NEW i
  PROVE  DOMAIN ObjectsOut(M, V, i) = DOMAIN Nothing /\ ObjectsOut(M, V, i).version = V
<1> DEFINE f == Before(M, V, 7)
           a == ObjectsKnown(M, V, i)
<1>1. f.version = V /\ "version" \in DOMAIN f /\ DOMAIN f = DOMAIN Nothing
  <2>1. 7 \in 3 .. 10
    OBVIOUS
  <2> QED
    BY <2>1, VersionKnown, KnownFields
<1>2. ObjectsOut(M, V, i) = [f EXCEPT !.objects = a]
  BY DEF ObjectsOut
<1> HIDE DEF f, a
<1>3. DOMAIN [f EXCEPT !.objects = a] = DOMAIN f /\ [f EXCEPT !.objects = a].version = V
  BY <1>1
<1> QED
  BY <1>1, <1>2, <1>3

LEMMA ObjectStep ==
  ASSUME NEW M, NEW V, NEW W, FileInv(M, V, W), NEW i \in 1 .. Len(M.objects), ObjectAt(M, V, W, i), Read
  PROVE  ReaderInv(M, V, W)'
<1> DEFINE obj == M.objects[i]
           seqs == ObjJobs(V, M.objects)
           rest == ObjectsLeft(M, V, i + 1)
           body == ObjBody(V, obj)
           size == SizeOf(V, body)
           name == obj.name
           f == Flat(MemberWords(V, obj.members))
           class == IF V >= 7 THEN ClassWords(obj) ELSE << >>
           b == o + 1 + Len(size)
           n == Len(name)
<1>1. M \in Module /\ V \in Nat /\ Begins(W) /\ Len(W) \in Nat
  BY FileSays
<1>2. mode = "jobs" /\ o \in Nat \ {0} /\ Holds(W, o, From(seqs, i) \o Left(M, V, 8)) /\ out = ObjectsOut(M, V, i - 1)
  BY DEF ObjectAt, In, ObjectsLeft
<1>3. DOMAIN out = DOMAIN Nothing /\ out.version = V
  BY <1>2, ObjectsOutSay
<1>4. /\ seqs \in Seq(WordSeqs) /\ Len(seqs) = Len(M.objects) /\ Len(M.objects) \in Nat
      /\ obj \in Object /\ seqs[i] = ObjJob(V, obj) /\ i + 1 \in 1 .. Len(M.objects) + 1
  <2>1. /\ seqs \in Seq(WordSeqs) /\ Len(seqs) = Len(M.objects) /\ Len(M.objects) \in Nat
        /\ obj \in Object /\ seqs[i] = ObjJob(V, obj)
    BY <1>1, ObjectsLeftIs
  <2> QED
    BY <2>1
<1>5. Left(M, V, 8) \in WordSeqs /\ rest \in WordSeqs /\ rest = From(seqs, i + 1) \o Left(M, V, 8)
  <2>1. Left(M, V, 8) \in WordSeqs
    BY <1>1, LeftIs
  <2>2. rest \in WordSeqs
    BY <1>1, <1>4, ObjectsLeftIs
  <2> QED
    BY <2>1, <2>2 DEF ObjectsLeft
<1>6. Holds(W, o, ((<< 2 >> \o size) \o body) \o rest)
  <2>1. ObjJob(V, obj) = (<< 2 >> \o size) \o body
    BY <1>1, <1>4, ObjBodySays, Zenon
  <2> HIDE DEF seqs, obj, size, body, rest
  <2>2. i \in 1 .. Len(seqs)
    BY <1>4
  <2>3. Holds(W, o, seqs[i] \o (From(seqs, i + 1) \o Left(M, V, 8)))
    BY <1>1, <1>2, <1>4, <1>5, <2>2, NextEntry
  <2> QED
    BY <1>4, <1>5, <2>1, <2>3
<1>7. /\ name \in Name /\ n \in Nat /\ Bytes(name) \div 2 = n /\ obj.size \in Nat /\ obj.members \in Seq(Member)
      /\ Bytes(name) \in Nat
  BY <1>4, ObjectSays, NameSays, Zenon
<1>8. f \in WordSeqs /\ class \in WordSeqs /\ body \in WordSeqs /\ size \in WordSeqs
  <2>1. f \in WordSeqs /\ class \in WordSeqs /\ body \in WordSeqs
    BY <1>1, <1>4, ObjBodySays, Zenon
  <2> HIDE DEF body
  <2>2. size \in WordSeqs
    BY <1>1, <2>1, SizeSays
  <2> QED
    BY <2>1, <2>2
<1>9. body = (<<Bytes(name), End, 0>> \o name) \o ((f \o <<0, obj.size>>) \o class)
  BY DEF ObjBody
<1>10. Body = b /\ b \in Nat \ {0}
  <2> HIDE DEF body
  <2> QED
    BY <1>1, <1>2, <1>3, <1>8, BodyIs
<1>11. obj = M.objects[i] /\ rest = ObjectsLeft(M, V, i + 1)
  OBVIOUS
<1>12. MembersLeft(M, V, i, 1) = f \o (<<0, obj.size>> \o (class \o rest))
  BY DEF MembersLeft, Flat
<1> HIDE DEF obj, seqs, rest, body, size, f, class
<1>13. o <= Len(W) /\ W[o] = 2 /\ Holds(W, b, body \o rest)
  <2>1. 2 \in Nat
    OBVIOUS
  <2> QED
    BY <1>1, <1>2, <1>5, <1>6, <1>8, <2>1, SizedStands
<1> HIDE DEF b
<1>14. /\ b <= Len(W) /\ W[b] = Bytes(name) /\ Holds(W, b + 3, name) /\ b + 3 + n \in Nat \ {0}
       /\ Holds(W, b + 3 + n, f \o (<<0, obj.size>> \o (class \o rest)))
  <2>1. Holds(W, b, ((<<Bytes(name), End, 0>> \o name) \o ((f \o <<0, obj.size>>) \o class)) \o rest)
    BY <1>9, <1>13
  <2> HIDE DEF n
  <2>2. obj.size \in Nat /\ name \in Name
    BY <1>7
  <2> DEFINE s == obj.size
             m == name
  <2>3. s \in Nat /\ m \in Name /\ Holds(W, b, ((<<Bytes(m), End, 0>> \o m) \o ((f \o <<0, s>>) \o class)) \o rest)
    BY <2>1, <2>2
  <2> HIDE DEF s, m
  <2>4. /\ b <= Len(W) /\ W[b] = Bytes(m) /\ Holds(W, b + 3, m) /\ b + 3 + Len(m) \in Nat \ {0}
        /\ Holds(W, b + 3 + Len(m), f \o (<<0, s>> \o (class \o rest)))
    BY <1>1, <1>5, <1>8, <1>10, <2>3, BodyStands
  <2> QED
    BY <2>4 DEF s, m, n
<1>15. CASE ~Has(o)
  <2>1. cut
    BY <1>1, <1>2, <1>13, <1>15, WordMissing
  <2>2. i - 1 \in 0 .. Len(M.objects)
    BY <1>4
  <2>3. CutBetween(M, V)
    BY <1>2, <2>1, <2>2, Zenon DEF CutBetween
  <2> QED
    BY <1>2, <1>15, <2>3, JobsOver
<1>16. CASE Has(o)
  <2>1. file[o] = 2
    BY <1>1, <1>2, <1>13, <1>16, WordThere
  <2>2. Obj
    BY <1>2, <1>16, <2>1, AtWord
  <2>3. CASE ~Has(b)
    <3>1. Throw
      BY <1>10, <2>2, <2>3 DEF Obj, Reading
    <3> QED
      BY <1>1, <1>3, <1>10, <1>14, <2>3, <3>1, WordMissing, Thrown1
  <2>4. CASE Has(b)
    <3>1. /\ part' = [name |-> NameAt(b + 3, file[b]), members |-> << >>]
          /\ mode' = "members" /\ o' = b + 3 + file[b] \div 2 /\ out' = out /\ UNCHANGED source
      BY <1>10, <2>2, <2>4 DEF Obj, Reading, Goto
    <3>2. file[b] = Bytes(name)
      BY <1>1, <1>10, <1>14, <2>4, WordThere
    <3>3. o' = b + 3 + n
      BY <1>7, <3>1, <3>2
    <3>4. NameAt(b + 3, Bytes(name)) = name \/ (cut /\ ~Has(b + 3 + n))
      <4>1. b + 3 \in Nat \ {0}
        BY <1>10
      <4> QED
        BY <1>1, <1>7, <1>14, <4>1, NameThere, Zenon
    <3>5. CASE NameAt(b + 3, Bytes(name)) = name
      <4>1. Mapped(FirstOf(HeldMembers(M.objects[i].members), 1 - 1)) = << >>
        <5>1. PICK T : HeldMembers(M.objects[i].members) \in Seq(T)
          BY <1>7, <1>11, HeldMembersSay, Zenon
        <5>2. 1 - 1 = 0
          OBVIOUS
        <5>3. FirstOf(HeldMembers(M.objects[i].members), 1 - 1) = << >>
          BY <5>1, <5>2, FirstOfSays
        <5> QED
          BY <5>3, MappedNone, Zenon
      <4>2. part' = [name |-> M.objects[i].name, members |-> Mapped(FirstOf(HeldMembers(M.objects[i].members), 1 - 1))]
        BY <1>11, <3>1, <3>2, <3>5, <4>1
      <4>3. 1 \in 1 .. Len(M.objects[i].members) + 1
        <5>1. Len(obj.members) \in Nat
          BY <1>7
        <5> QED
          BY <1>11, <5>1
      <4>4. o' \in Nat \ {0} /\ Holds(W, o', MembersLeft(M, V, i, 1)) /\ out' = ObjectsOut(M, V, i - 1)
        BY <1>2, <1>12, <1>14, <3>1, <3>3, Zenon
      <4> QED
        BY <1>1, <3>1, <4>2, <4>3, <4>4, MembersArrive, Zenon
    <3>6. CASE cut /\ ~Has(b + 3 + n)
      <4>1. mode' \in {"consts", "members", "refs", "symbols"} /\ b + 3 + n \in Nat /\ DOMAIN out' = DOMAIN Nothing
        BY <1>3, <1>14, <3>1
      <4> QED
        BY <3>1, <3>3, <3>6, <4>1, LostNext
    <3> QED
      BY <3>4, <3>5, <3>6
  <2> QED
    BY <2>3, <2>4
<1> QED
  BY <1>15, <1>16

LEMMA JobStands ==
  ASSUME NEW M, NEW V, NEW W, FileInv(M, V, W), NEW k \in 3 .. 10, JobAt(M, V, W, k), NEW n, n = k + 1
  PROVE  /\ M \in Module /\ V \in Nat /\ Begins(W) /\ Len(W) \in Nat
         /\ mode = "jobs" /\ o \in Nat \ {0} /\ Holds(W, o, JobNo(M, V, k) \o Left(M, V, n))
         /\ Left(M, V, n) \in WordSeqs
         /\ out = Before(M, V, k) /\ DOMAIN out = DOMAIN Nothing /\ out.version = V
<1>1. M \in Module /\ V \in Nat /\ Begins(W) /\ Len(W) \in Nat
  BY FileSays
<1>2. mode = "jobs" /\ o \in Nat \ {0} /\ Holds(W, o, Left(M, V, k)) /\ out = Before(M, V, k)
  BY DEF JobAt, In
<1>3. k \in 1 .. 10 /\ k \in 3 .. 10
  OBVIOUS
<1>4. Left(M, V, k) = JobNo(M, V, k) \o Left(M, V, n) /\ Left(M, V, n) \in WordSeqs
  BY <1>1, <1>3, JobFollows, Zenon
<1>5. DOMAIN out = DOMAIN Nothing
  BY <1>2, KnownFields
<1>6. out.version = V
  BY <1>2, <1>3, VersionKnown
<1> QED
  BY <1>1, <1>2, <1>4, <1>5, <1>6

LEMMA CodedJobs ==
  ASSUME NEW M, NEW V, NEW job, CodedJob(M, job) # << >>
  PROVE  M.code # << >> /\ CodedJob(M, job) = job
  BY DEF CodedJob

LEMMA ConstJobStep ==
  ASSUME NEW M, NEW V, NEW W, FileInv(M, V, W), JobAt(M, V, W, 8), JobNo(M, V, 8) # << >>, Read
  PROVE  ReaderInv(M, V, W)'
<1> DEFINE body == Flat(ConstWords(M.consts)) \o << 0 >>
           f == Flat(ConstWords(M.consts))
           size == SizeOf(V, body)
           rest == Left(M, V, 9)
           b == o + 1 + Len(size)
<1>0. 8 \in 3 .. 10 /\ 9 = 8 + 1 /\ 8 \in 2 .. 10
  OBVIOUS
<1>1. M \in Module /\ V \in Nat /\ Begins(W) /\ Len(W) \in Nat
  BY <1>0, JobStands
<1>2. /\ mode = "jobs" /\ o \in Nat \ {0} /\ Holds(W, o, JobNo(M, V, 8) \o rest) /\ rest \in WordSeqs
      /\ out = Before(M, V, 8) /\ out.version = V
  BY <1>0, JobStands
<1>3. M.consts # << >> /\ JobNo(M, V, 8) = (<< 1 >> \o size) \o body
  <2>1. JobNo(M, V, 8) = ConstJob(V, M.consts)
    BY JobNos
  <2>2. M.consts # << >>
    BY <2>1 DEF ConstJob
  <2> QED
    BY <2>1, <2>2 DEF ConstJob
<1>4. f \in WordSeqs /\ body \in WordSeqs /\ M.consts \in Seq(Const)
  BY <1>1, ModuleSays, ConstJobSays, Zenon
<1>5. body = f \o << 0 >> /\ f = From(ConstWords(M.consts), 1) /\ rest = Left(M, V, 9)
  BY DEF Flat
<1> HIDE DEF body, f, rest
<1>6. size \in WordSeqs
  BY <1>1, <1>4, SizeSays
<1>7. Body = b /\ b \in Nat \ {0}
  BY <1>1, <1>2, <1>4, BodyIs
<1> HIDE DEF size
<1>8. o <= Len(W) /\ W[o] = 1 /\ Holds(W, b, body \o rest)
  <2>1. 1 \in Nat /\ Holds(W, o, ((<< 1 >> \o size) \o body) \o rest)
    BY <1>2, <1>3, Zenon
  <2> QED
    BY <1>1, <1>2, <1>4, <1>6, <2>1, SizedStands
<1> HIDE DEF b
<1>9. Holds(W, b, f \o (<< 0 >> \o rest))
  <2>1. 0 \in Nat /\ Holds(W, b, (f \o << 0 >>) \o rest)
    BY <1>5, <1>8
  <2> QED
    BY <1>1, <1>2, <1>4, <1>7, <2>1, EndedStands
<1>10. CASE ~Has(o)
  BY <1>0, <1>1, <1>2, <1>8, <1>10, CutJob
<1>11. CASE Has(o)
  <2>1. file[o] = 1
    BY <1>1, <1>2, <1>8, <1>11, WordThere
  <2>2. Consts
    BY <1>2, <1>11, <2>1, AtWord
  <2>3. mode' = "consts" /\ o' = b /\ out' = out
    BY <1>7, <2>2 DEF Consts, Goto, Same
  <2>4. out' = [Before(M, V, 8) EXCEPT !.consts = Mapped(FirstOf(M.consts, 1 - 1))]
    <3>1. "consts" \in Fields /\ JobOf["consts"] >= 8 /\ Nothing["consts"] = << >>
      <4>1. "consts" \in Fields
        BY DEF Fields
      <4>2. JobOf["consts"] = 8
        BY <4>1, JobOfSays
      <4> QED
        BY <4>1, <4>2, NothingSays
    <3> DEFINE a == Mapped(FirstOf(M.consts, 1 - 1))
    <3>3. a = << >>
      <4>1. 1 - 1 = 0
        OBVIOUS
      <4>2. FirstOf(M.consts, 1 - 1) = << >>
        BY <1>4, <4>1, FirstOfSays
      <4> QED
        BY <4>2, MappedNone, Zenon
    <3> HIDE DEF a
    <3>2. [Before(M, V, 8) EXCEPT !["consts"] = a] = Before(M, V, 8)
      BY <1>0, <3>1, <3>3, NoneKnown
    <3> QED
      BY <1>2, <2>3, <3>2 DEF a
  <2>5. 1 \in 1 .. Len(M.consts) + 1
    BY <1>4
  <2>6. Holds(W, o', ConstsLeft(M, V, 1)) /\ o' \in Nat \ {0}
    BY <1>5, <1>7, <1>9, <2>3 DEF ConstsLeft
  <2> QED
    BY <2>3, <2>4, <2>5, <2>6, ConstsArrive
<1> QED
  BY <1>10, <1>11

LEMMA Doubled ==
  ASSUME NEW n \in Nat, n % 2 = 0
  PROVE  2 * (n \div 2) = n
  OBVIOUS

LEMMA CodeStep ==
  ASSUME NEW M, NEW V, NEW W, FileInv(M, V, W), JobAt(M, V, W, 3), JobNo(M, V, 3) # << >>, Read
  PROVE  ReaderInv(M, V, W)'
<1> DEFINE code == M.code
           n == Len(code)
           rest == Left(M, V, 4)
<1>0. 3 \in 3 .. 10 /\ 4 = 3 + 1 /\ 3 \in 2 .. 10
  OBVIOUS
<1>1. M \in Module /\ V \in Nat /\ Begins(W) /\ Len(W) \in Nat
  BY <1>0, JobStands
<1>2. /\ mode = "jobs" /\ o \in Nat \ {0} /\ Holds(W, o, JobNo(M, V, 3) \o rest) /\ rest \in WordSeqs
      /\ out = Before(M, V, 3) /\ DOMAIN out = DOMAIN Nothing
  BY <1>0, JobStands
<1>3. JobNo(M, V, 3) = (<< 3 >> \o Long(n \div 2)) \o code
  <2>1. JobNo(M, V, 3) = CodedJob(M, CodeJob(M.code))
    BY JobNos
  <2>2. JobNo(M, V, 3) = CodeJob(M.code)
    BY <2>1, CodedJobs
  <2> QED
    BY <2>2, Zenon DEF CodeJob
<1>4. code \in WordSeqs /\ n \in Nat /\ n % 2 = 0 /\ n \div 2 \in Nat
  <2>1. code \in WordSeqs /\ n \in Nat /\ n % 2 = 0
    BY <1>1, ModuleSays, Zenon
  <2> HIDE DEF code
  <2>2. n \div 2 \in Nat
    BY <2>1, CodeSays
  <2> QED
    BY <2>1, <2>2
<1>5. 2 * (n \div 2) = n
  <2> HIDE DEF n
  <2> QED
    BY <1>4, Doubled
<1>6. code = M.code /\ rest = Left(M, V, 4)
  OBVIOUS
<1> HIDE DEF code, rest
<1>7. /\ o <= Len(W) /\ W[o] = 3 /\ Holds(W, o + 1, Long(n \div 2)) /\ o + 3 \in Nat \ {0}
      /\ Holds(W, o + 3, code \o rest)
  <2>1. 3 \in Nat /\ Holds(W, o, ((<< 3 >> \o Long(n \div 2)) \o code) \o rest)
    BY <1>2, <1>3, Zenon
  <2> QED
    BY <1>1, <1>2, <1>4, <2>1, CountedStands
<1>8. Holds(W, o + 3, code) /\ Holds(W, o + 3 + n, rest) /\ o + 3 + n \in Nat \ {0}
  BY <1>1, <1>2, <1>4, <1>7, SplitsPos, Zenon
<1>9. o + 2 <= Len(W) /\ o + 2 \in Nat \ {0} /\ (Has(o + 2) => LongAt(o + 1) = n \div 2)
  <2>1. o + 1 \in Nat \ {0} /\ (o + 1) + 1 = o + 2 /\ o + 2 \in Nat \ {0}
    BY <1>2
  <2>2. (o + 1) + 1 <= Len(W) /\ (Has((o + 1) + 1) => LongAt(o + 1) = n \div 2)
    BY <1>1, <1>4, <1>7, <2>1, LongThere, Zenon
  <2> QED
    BY <2>1, <2>2
<1>10. CASE ~Has(o)
  BY <1>0, <1>1, <1>2, <1>7, <1>10, CutJob
<1>11. CASE Has(o)
  <2>1. file[o] = 3
    BY <1>1, <1>2, <1>7, <1>11, WordThere
  <2>2. Code
    BY <1>2, <1>11, <2>1, AtWord
  <2>3. CASE ~Has(o + 2)
    <3>1. Throw
      BY <2>2, <2>3 DEF Code, Reading
    <3> QED
      BY <1>1, <1>2, <1>9, <2>3, <3>1, WordMissing, Thrown1
  <2>4. CASE Has(o + 2)
    <3>1. /\ out' = [out EXCEPT !.code = WordsAt(o + 3, 2 * LongAt(o + 1))]
          /\ mode' = "jobs" /\ o' = o + 3 + 2 * LongAt(o + 1) /\ UNCHANGED source
      BY <2>2, <2>4 DEF Code, Reading, Goto
    <3>2. 2 * LongAt(o + 1) = n
      BY <1>5, <1>9, <2>4
    <3>3. o' = o + 3 + n /\ out' = [out EXCEPT !.code = WordsAt(o + 3, n)]
      BY <3>1, <3>2
    <3>4. \/ WordsAt(o + 3, n) = code
          \/ cut /\ ~Has(o + 3 + n) /\ \E m \in 0 .. n : WordsAt(o + 3, n) = SubSeq(code, 1, m)
      BY <1>1, <1>4, <1>7, <1>8, WordsThere, Zenon
    <3>5. CASE WordsAt(o + 3, n) = code
      <4>1. out' = [Before(M, V, 3) EXCEPT !.code = M.code]
        BY <1>2, <1>6, <3>3, <3>5
      <4>2. out' = Before(M, V, 4)
        BY <4>1, BeforeSays, Zenon
      <4>3. 4 \in 3 .. 10 /\ o' \in Nat \ {0} /\ Holds(W, o', Left(M, V, 4))
        BY <1>6, <1>8, <3>3
      <4> QED
        BY <1>1, <3>1, <4>2, <4>3, JobArrives
    <3>6. CASE cut /\ ~Has(o + 3 + n) /\ \E m \in 0 .. n : WordsAt(o + 3, n) = SubSeq(code, 1, m)
      <4>1. PICK m \in 0 .. n : WordsAt(o + 3, n) = SubSeq(code, 1, m)
        BY <3>6
      <4>2. out' = CodeOut(M, V, m)
        BY <1>2, <1>6, <3>3, <4>1, Zenon DEF CodeOut, FirstOf
      <4>3. m \in 0 .. Len(M.code)
        BY <1>6
      <4>4. o' \in Nat /\ cut' /\ ~Has(o)'
        <5>1. o' \in Nat /\ file' = file /\ cut' = cut
          BY <1>8, <3>1, <3>3 DEF source
        <5>2. ~(o + 3 + n <= Len(file))
          BY <3>6 DEF Has
        <5>3. ~(o' <= Len(file'))
          BY <3>3, <5>1, <5>2
        <5> QED
          BY <3>6, <5>1, <5>3 DEF Has
      <4>5. CodeCut(M, V)'
        BY <3>1, <4>2, <4>3, <4>4 DEF CodeCut
      <4>6. JobsInv(M, V, W)'
        BY <4>5 DEF JobsInv
      <4> QED
        BY <4>6 DEF ReaderInv
    <3> QED
      BY <3>4, <3>5, <3>6
  <2> QED
    BY <2>3, <2>4
<1> QED
  BY <1>10, <1>11

LEMMA HeadedStands ==
  ASSUME NEW W, Len(W) \in Nat, NEW i \in Nat \ {0}, NEW k \in Nat, NEW g \in WordSeqs, NEW rest \in WordSeqs,
         Holds(W, i, (<<k>> \o g) \o rest)
  PROVE  i <= Len(W) /\ W[i] = k /\ i + 1 \in Nat \ {0} /\ Holds(W, i + 1, g \o rest)
<1> DEFINE a == <<k>>
<1>1. a \in WordSeqs /\ Len(a) = 1
  BY Tuples
<1>2. Holds(W, i, (a \o g) \o rest)
  OBVIOUS
<1> HIDE DEF a
<1>3. a \o g \in WordSeqs /\ Len(a \o g) = 1 + Len(g) /\ Len(g) \in Nat
  BY <1>1, Joins, Zenon
<1>4. Holds(W, i, a \o g) /\ Holds(W, i + Len(a \o g), rest)
  BY <1>2, <1>3, SplitsPos, Zenon
<1>5. Holds(W, i, a) /\ Holds(W, i + 1, g)
  <2>1. Holds(W, i, a) /\ Holds(W, i + Len(a), g)
    BY <1>1, <1>4, SplitsPos, Zenon
  <2>2. i + Len(a) = i + 1
    BY <1>1
  <2> QED
    BY <2>1, <2>2
<1>6. (i + 1) + Len(g) = i + Len(a \o g) /\ i + 1 \in Nat \ {0}
  BY <1>3
<1>7. Holds(W, i + 1, g \o rest)
  BY <1>4, <1>5, <1>6, Splits
<1>8. i <= Len(W) /\ W[i] = k
  BY <1>5, Takes1 DEF a
<1> QED
  BY <1>6, <1>7, <1>8

LEMMA ProcsKnown ==
  ASSUME NEW M \in Module, NEW V \in Nat
  PROVE  ProcsOut(M, V, 1) = Before(M, V, 5) /\ RelocsOut(M, V, 1) = Before(M, V, 4)
<1>0. 5 \in 2 .. 10 /\ 4 \in 2 .. 10 /\ 1 - 1 = 0
  OBVIOUS
<1>1. "procs" \in Fields /\ "relocs" \in Fields
  BY DEF Fields
<1>2. JobOf["procs"] = 5 /\ JobOf["relocs"] = 4
  BY <1>1, JobOfSays
<1>3. JobOf["procs"] >= 5 /\ JobOf["relocs"] >= 4
  BY <1>2
<1>4. Nothing["procs"] = << >> /\ Nothing["relocs"] = << >>
  BY NothingSays
<1>5. [Before(M, V, 5) EXCEPT !["procs"] = FirstOf(HeldProcs(M), 0)] = Before(M, V, 5)
  <2>1. PICK T : HeldProcs(M) \in Seq(T)
    BY HeldAre
  <2> QED
    BY <1>0, <1>1, <1>3, <1>4, <2>1, GrowsFrom
<1>6. [Before(M, V, 4) EXCEPT !["relocs"] = FirstOf(HeldRelocs(M), 0)] = Before(M, V, 4)
  <2>1. PICK T : HeldRelocs(M) \in Seq(T)
    BY HeldAre
  <2> QED
    BY <1>0, <1>1, <1>3, <1>4, <2>1, GrowsFrom
<1> QED
  BY <1>0, <1>5, <1>6 DEF ProcsOut, RelocsOut

LEMMA ProcsJobStep ==
  ASSUME NEW M, NEW V, NEW W, FileInv(M, V, W), JobAt(M, V, W, 5), JobNo(M, V, 5) # << >>, Read
  PROVE  ReaderInv(M, V, W)'
<1> DEFINE f == Flat(ProcWords(M.procs))
           rest == Left(M, V, 6)
<1>0. 5 \in 3 .. 10 /\ 6 = 5 + 1 /\ 5 \in 2 .. 10
  OBVIOUS
<1>1. M \in Module /\ V \in Nat /\ Begins(W) /\ Len(W) \in Nat
  BY <1>0, JobStands
<1>2. /\ mode = "jobs" /\ o \in Nat \ {0} /\ Holds(W, o, JobNo(M, V, 5) \o rest) /\ rest \in WordSeqs
      /\ out = Before(M, V, 5)
  BY <1>0, JobStands
<1>3. JobNo(M, V, 5) = << 4 >> \o (f \o << 0 >>)
  <2>1. JobNo(M, V, 5) = CodedJob(M, ProcsJob(M.procs))
    BY JobNos
  <2>2. JobNo(M, V, 5) = ProcsJob(M.procs)
    BY <2>1, CodedJobs
  <2> QED
    BY <2>2, Zenon DEF ProcsJob
<1>4. f \in WordSeqs /\ f \o << 0 >> \in WordSeqs /\ Len(M.procs) \in Nat
  <2>1. M.procs \in Seq(Proc)
    BY <1>1, ModuleSays, Zenon
  <2>2. f \in WordSeqs /\ Len(M.procs) \in Nat
    BY <2>1, ProcsJobSays
  <2> QED
    BY <2>2, Tuples, Joins
<1>5. ProcsLeft(M, V, 1) = f \o (<< 0 >> \o rest)
  BY DEF ProcsLeft, Flat
<1> HIDE DEF f, rest
<1>6. o <= Len(W) /\ W[o] = 4 /\ o + 1 \in Nat \ {0} /\ Holds(W, o + 1, (f \o << 0 >>) \o rest)
  <2>1. 4 \in Nat /\ Holds(W, o, (<< 4 >> \o (f \o << 0 >>)) \o rest)
    BY <1>2, <1>3, Zenon
  <2> QED
    BY <1>1, <1>2, <1>4, <2>1, HeadedStands
<1>7. Holds(W, o + 1, f \o (<< 0 >> \o rest))
  <2>1. 0 \in Nat
    OBVIOUS
  <2> QED
    BY <1>1, <1>2, <1>4, <1>6, <2>1, EndedStands
<1>8. CASE ~Has(o)
  BY <1>0, <1>1, <1>2, <1>6, <1>8, CutJob
<1>9. CASE Has(o)
  <2>1. file[o] = 4
    BY <1>1, <1>2, <1>6, <1>9, WordThere
  <2>2. ProcTable
    BY <1>2, <1>9, <2>1, AtWord
  <2>3. mode' = "procs" /\ o' = o + 1 /\ out' = out
    BY <2>2 DEF ProcTable, Goto, Same
  <2>4. out' = ProcsOut(M, V, 1)
    BY <1>1, <1>2, <2>3, ProcsKnown
  <2>5. 1 \in 1 .. Len(M.procs) + 1
    BY <1>4
  <2>6. o' \in Nat \ {0} /\ Holds(W, o', ProcsLeft(M, V, 1))
    BY <1>5, <1>6, <1>7, <2>3, Zenon
  <2> QED
    BY <2>3, <2>4, <2>5, <2>6, ProcsArrive
<1> QED
  BY <1>8, <1>9

LEMMA RelocsJobStep ==
  ASSUME NEW M, NEW V, NEW W, FileInv(M, V, W), JobAt(M, V, W, 4), JobNo(M, V, 4) # << >>, Read
  PROVE  ReaderInv(M, V, W)'
<1> DEFINE f == Flat(RelocWords(M.relocs))
           n == Len(M.relocs)
           rest == Left(M, V, 5)
<1>0. 4 \in 3 .. 10 /\ 5 = 4 + 1 /\ 4 \in 2 .. 10
  OBVIOUS
<1>1. M \in Module /\ V \in Nat /\ Begins(W) /\ Len(W) \in Nat
  BY <1>0, JobStands
<1>2. /\ mode = "jobs" /\ o \in Nat \ {0} /\ Holds(W, o, JobNo(M, V, 4) \o rest) /\ rest \in WordSeqs
      /\ out = Before(M, V, 4) /\ DOMAIN out = DOMAIN Nothing
  BY <1>0, JobStands
<1>3. JobNo(M, V, 4) = (<< 7 >> \o Long(n)) \o f
  <2>1. JobNo(M, V, 4) = CodedJob(M, RelocsJob(M.relocs))
    BY JobNos
  <2>2. JobNo(M, V, 4) = RelocsJob(M.relocs)
    BY <2>1, CodedJobs
  <2> QED
    BY <2>2 DEF RelocsJob
<1>4. f \in WordSeqs /\ n \in Nat
  <2>1. M.relocs \in Seq(Reloc)
    BY <1>1, ModuleSays, Zenon
  <2> QED
    BY <2>1, RelocsJobSays
<1>5. f = From(RelocWords(M.relocs), 1) /\ rest = Left(M, V, 5) /\ n = Len(M.relocs)
  BY DEF Flat
<1> HIDE DEF f, rest, n
<1>6. /\ o <= Len(W) /\ W[o] = 7 /\ Holds(W, o + 1, Long(n)) /\ o + 3 \in Nat \ {0}
      /\ Holds(W, o + 3, f \o rest)
  <2>1. 7 \in Nat /\ Holds(W, o, ((<< 7 >> \o Long(n)) \o f) \o rest)
    BY <1>2, <1>3, Zenon
  <2> QED
    BY <1>1, <1>2, <1>4, <2>1, CountedStands
<1>7. o + 2 <= Len(W) /\ o + 2 \in Nat \ {0} /\ (Has(o + 2) => LongAt(o + 1) = n)
  <2>1. o + 1 \in Nat \ {0} /\ (o + 1) + 1 = o + 2 /\ o + 2 \in Nat \ {0}
    BY <1>2
  <2>2. (o + 1) + 1 <= Len(W) /\ (Has((o + 1) + 1) => LongAt(o + 1) = n)
    BY <1>1, <1>4, <1>6, <2>1, LongThere, Zenon
  <2> QED
    BY <2>1, <2>2
<1>8. CASE ~Has(o)
  BY <1>0, <1>1, <1>2, <1>6, <1>8, CutJob
<1>9. CASE Has(o)
  <2>1. file[o] = 7
    BY <1>1, <1>2, <1>6, <1>9, WordThere
  <2>2. Relocs
    BY <1>2, <1>9, <2>1, AtWord
  <2>3. CASE ~Has(o + 2)
    <3>1. Throw
      BY <2>2, <2>3 DEF Relocs, Reading
    <3> QED
      BY <1>1, <1>2, <1>7, <2>3, <3>1, WordMissing, Thrown1
  <2>4. CASE Has(o + 2)
    <3>1. todo' = LongAt(o + 1) /\ mode' = "relocs" /\ o' = o + 3 /\ out' = out
      BY <2>2, <2>4 DEF Relocs, Reading, Goto
    <3>2. out' = RelocsOut(M, V, 1)
      BY <1>1, <1>2, <3>1, ProcsKnown
    <3>3. 1 \in 1 .. n + 1 /\ todo' = n + 1 - 1
      BY <1>4, <1>7, <2>4, <3>1
    <3>4. o' \in Nat \ {0} /\ Holds(W, o', From(RelocWords(M.relocs), 1) \o Left(M, V, 5))
      BY <1>5, <1>6, <3>1
    <3> QED
      BY <1>5, <3>1, <3>2, <3>3, <3>4, RelocsArrive
  <2> QED
    BY <2>3, <2>4
<1> QED
  BY <1>8, <1>9

LEMMA ModinfoJobStep ==
  ASSUME NEW M, NEW V, NEW W, FileInv(M, V, W), JobAt(M, V, W, 9), JobNo(M, V, 9) # << >>, Read
  PROVE  ReaderInv(M, V, W)'
<1> DEFINE f == Flat(UseWords(M.modinfo))
           rest == Left(M, V, 10)
<1>0. 9 \in 3 .. 10 /\ 10 = 9 + 1 /\ 9 \in 2 .. 10
  OBVIOUS
<1>1. M \in Module /\ V \in Nat /\ Begins(W) /\ Len(W) \in Nat
  BY <1>0, JobStands
<1>2. /\ mode = "jobs" /\ o \in Nat \ {0} /\ Holds(W, o, JobNo(M, V, 9) \o rest) /\ rest \in WordSeqs
      /\ out = Before(M, V, 9)
  BY <1>0, JobStands
<1>3. JobNo(M, V, 9) = <<9, 0, 0>> \o (f \o << 0 >>)
  <2>1. JobNo(M, V, 9) = CodedJob(M, ModinfoJob(M.modinfo))
    BY JobNos
  <2>2. JobNo(M, V, 9) = ModinfoJob(M.modinfo)
    BY <2>1, CodedJobs
  <2> QED
    BY <2>2 DEF ModinfoJob
<1>4. f \in WordSeqs /\ Len(M.modinfo) \in Nat
  <2>1. M.modinfo \in Seq(Use) /\ Len(M.modinfo) \in Nat
    BY <1>1, UsesAre
  <2> QED
    BY <2>1, ModinfoJobSays
<1>5. UsesLeft(M, V, 1) = f \o (<< 0 >> \o rest)
  BY DEF UsesLeft, Flat
<1> HIDE DEF f, rest
<1>6. o <= Len(W) /\ W[o] = 9 /\ o + 3 \in Nat \ {0} /\ Holds(W, o + 3, f \o (<< 0 >> \o rest))
  <2>1. Holds(W, o, (<<9, 0, 0>> \o (f \o << 0 >>)) \o rest)
    BY <1>2, <1>3, Zenon
  <2> QED
    BY <1>1, <1>2, <1>4, <2>1, ModinfoStands
<1>7. CASE ~Has(o)
  BY <1>0, <1>1, <1>2, <1>6, <1>7, CutJob
<1>8. CASE Has(o)
  <2>1. file[o] = 9
    BY <1>1, <1>2, <1>6, <1>8, WordThere
  <2>2. Modinfo
    BY <1>2, <1>8, <2>1, AtWord
  <2>3. mode' = "submodules" /\ o' = o + 3 /\ out' = out
    BY <2>2 DEF Modinfo, Goto, Same
  <2>4. out' = UsesOut(M, V, 1)
    BY <1>1, <1>2, <2>3, UsesOutSay
  <2>5. 1 \in 1 .. Len(M.modinfo) + 1
    BY <1>4
  <2>6. o' \in Nat \ {0} /\ Holds(W, o', UsesLeft(M, V, 1))
    BY <1>5, <1>6, <2>3, Zenon
  <2> QED
    BY <2>3, <2>4, <2>5, <2>6, UsesArrive
<1> QED
  BY <1>7, <1>8

LEMMA GlobFirst ==
  ASSUME NEW M \in Module, NEW V \in Nat, NEW W, Len(W) \in Nat, NEW i \in Nat \ {0}, Holds(W, i, XrefsLeft(M, V, 1))
  PROVE  i <= Len(W) /\ W[i] # SkipMark
<1>1. /\ M.xrefs \in Seq(Xref) /\ Len(M.xrefs) \in Nat /\ M.drels \in Seq(Seq(Ref)) /\ Len(M.drels) \in Nat
      /\ XrefWords(V, M.xrefs) \in Seq(WordSeqs) /\ Len(XrefWords(V, M.xrefs)) = Len(M.xrefs)
      /\ DrelWords(V, M.drels) \in Seq(WordSeqs) /\ Len(DrelWords(V, M.drels)) = Len(M.drels)
      /\ Left(M, V, 7) \in WordSeqs /\ <<End>> \o Left(M, V, 7) \in WordSeqs
  BY GlobsAre, Zenon
<1>2. DrelsLeft(M, V, 1) \in WordSeqs
  <2>1. 1 \in 1 .. Len(M.drels) + 1
    BY <1>1
  <2> QED
    BY <2>1, GlobsAre
<1>3. Half \in Nat /\ Half > 255 /\ End = 2 * Half - 1 /\ End \in Nat /\ SkipMark = Half
  BY Numbers0 DEF SkipMark
<1> DEFINE xw == XrefWords(V, M.xrefs)
           dw == DrelWords(V, M.drels)
           dl == DrelsLeft(M, V, 1)
           el == <<End>> \o Left(M, V, 7)
<1>4. Holds(W, i, From(xw, 1) \o dl)
  BY DEF XrefsLeft
<1>5. dl = From(dw, 1) \o el
  BY DEF DrelsLeft
<1> HIDE DEF xw, dw, dl, el
<1>6. CASE Len(M.xrefs) > 0
  <2> DEFINE rest == From(xw, 2) \o dl
  <2>1. 1 \in 1 .. Len(xw)
    BY <1>1, <1>6 DEF xw
  <2>2. xw \in Seq(WordSeqs) /\ dl \in WordSeqs
    BY <1>1, <1>2 DEF xw, dl
  <2>3. Holds(W, i, xw[1] \o (From(xw, 1 + 1) \o dl)) /\ From(xw, 1 + 1) \o dl \in WordSeqs
    BY <1>4, <2>1, <2>2, NextEntry
  <2>4. Holds(W, i, xw[1] \o rest) /\ rest \in WordSeqs
    BY <2>3
  <2> HIDE DEF rest
  <2>5. 1 \in 1 .. Len(M.xrefs)
    BY <1>1, <1>6
  <2>6. /\ M.xrefs[1].name \in Name /\ M.xrefs[1].refs \in Seq(Ref)
        /\ XrefWords(V, M.xrefs)[1] = Named(M.xrefs[1].name) \o RefList(V, M.xrefs[1].refs)
    BY <1>1, <2>5, XrefEntries, Zenon
  <2>7. Holds(W, i, (Named(M.xrefs[1].name) \o RefList(V, M.xrefs[1].refs)) \o rest)
    BY <2>4, <2>6 DEF xw
  <2>8. i <= Len(W) /\ W[i] = Bytes(M.xrefs[1].name)
    BY <2>4, <2>6, <2>7, XrefStands
  <2>9. Bytes(M.xrefs[1].name) < Half /\ Bytes(M.xrefs[1].name) \in Nat
    BY <2>6, NameSays, Zenon
  <2> QED
    BY <1>3, <2>8, <2>9
<1>7. CASE Len(M.xrefs) = 0
  <2>1. Holds(W, i, dl)
    <3>1. Holds(W, i, From(xw, Len(xw) + 1) \o dl)
      BY <1>1, <1>4, <1>7 DEF xw
    <3>2. xw \in Seq(WordSeqs) /\ dl \in WordSeqs
      BY <1>1, <1>2 DEF xw, dl
    <3> QED
      BY <3>1, <3>2, NoEntry
  <2>2. Holds(W, i, From(dw, 1) \o el)
    BY <1>5, <2>1
  <2>3. CASE Len(M.drels) > 0
    <3> DEFINE rest == From(dw, 2) \o el
    <3>1. 1 \in 1 .. Len(dw)
      BY <1>1, <2>3 DEF dw
    <3>2. dw \in Seq(WordSeqs) /\ el \in WordSeqs
      BY <1>1 DEF dw, el
    <3>3. Holds(W, i, dw[1] \o (From(dw, 1 + 1) \o el)) /\ From(dw, 1 + 1) \o el \in WordSeqs
      BY <2>2, <3>1, <3>2, NextEntry
    <3>4. Holds(W, i, dw[1] \o rest) /\ rest \in WordSeqs
      BY <3>3
    <3> HIDE DEF rest
    <3>5. 1 \in 1 .. Len(M.drels)
      BY <1>1, <2>3
    <3>6. /\ M.drels[1] \in Seq(Ref)
          /\ DrelWords(V, M.drels)[1] = << 0 >> \o RefList(V, M.drels[1])
      BY <1>1, <3>5, DrelEntries, Zenon
    <3>7. Holds(W, i, (<< 0 >> \o RefList(V, M.drels[1])) \o rest)
      BY <3>4, <3>6 DEF dw
    <3>8. i <= Len(W) /\ W[i] = 0
      BY <3>4, <3>6, <3>7, DrelStands
    <3> QED
      BY <1>3, <3>8
  <2>4. CASE Len(M.drels) = 0
    <3>1. Holds(W, i, el)
      <4>1. Holds(W, i, From(dw, Len(dw) + 1) \o el)
        BY <1>1, <2>2, <2>4 DEF dw
      <4>2. dw \in Seq(WordSeqs) /\ el \in WordSeqs
        BY <1>1 DEF dw, el
      <4> QED
        BY <4>1, <4>2, NoEntry
    <3>2. i <= Len(W) /\ W[i] = End
      BY <1>1, <1>3, <3>1, OneStands DEF el
    <3> QED
      BY <1>3, <3>2
  <2> QED
    BY <1>1, <2>3, <2>4
<1> QED
  BY <1>1, <1>6, <1>7

LEMMA GlobsJobStep ==
  ASSUME NEW M, NEW V, NEW W, FileInv(M, V, W), JobAt(M, V, W, 6), JobNo(M, V, 6) # << >>, Read
  PROVE  ReaderInv(M, V, W)'
<1> DEFINE s == IF V >= 10 THEN <<SkipMark, 0, 0>> ELSE << >>
           x == Flat(XrefWords(V, M.xrefs))
           d == Flat(DrelWords(V, M.drels))
           rest == Left(M, V, 7)
<1>0. 6 \in 3 .. 10 /\ 7 = 6 + 1 /\ 6 \in 2 .. 10
  OBVIOUS
<1>1. M \in Module /\ V \in Nat /\ Begins(W) /\ Len(W) \in Nat
  BY <1>0, JobStands
<1>2. /\ mode = "jobs" /\ o \in Nat \ {0} /\ Holds(W, o, JobNo(M, V, 6) \o rest) /\ rest \in WordSeqs
      /\ out = Before(M, V, 6) /\ DOMAIN out = DOMAIN Nothing
  BY <1>0, JobStands
<1>3. JobNo(M, V, 6) = (<< 8 >> \o s) \o (x \o (d \o <<End>>))
  <2>1. JobNo(M, V, 6) = CodedJob(M, GlobsJob(V, M.xrefs, M.drels))
    BY JobNos
  <2>2. JobNo(M, V, 6) = GlobsJob(V, M.xrefs, M.drels)
    BY <2>1, CodedJobs
  <2> QED
    BY <2>2, Zenon DEF GlobsJob
<1>4. s \in WordSeqs /\ x \in WordSeqs /\ d \in WordSeqs /\ Len(M.xrefs) \in Nat
  <2>1. M.xrefs \in Seq(Xref) /\ M.drels \in Seq(Seq(Ref)) /\ Len(M.xrefs) \in Nat
    BY <1>1, GlobsAre
  <2> QED
    BY <1>1, <2>1, GlobsJobSays, Zenon
<1>5. XrefsLeft(M, V, 1) = x \o (d \o (<<End>> \o rest))
  BY DEF XrefsLeft, DrelsLeft, Flat
<1>6. (V >= 10 => s = <<SkipMark, 0, 0>>) /\ (~(V >= 10) => s = << >>)
  OBVIOUS
<1> HIDE DEF s, x, d, rest
<1>7. /\ o <= Len(W) /\ W[o] = 8 /\ o + 1 + Len(s) \in Nat \ {0} /\ Holds(W, o + 1, s)
      /\ Holds(W, o + 1 + Len(s), XrefsLeft(M, V, 1))
  <2>1. Holds(W, o, ((<< 8 >> \o s) \o (x \o (d \o <<End>>))) \o rest)
    BY <1>2, <1>3, Zenon
  <2>2. /\ o <= Len(W) /\ W[o] = 8 /\ o + 1 + Len(s) \in Nat \ {0} /\ Holds(W, o + 1, s)
        /\ Holds(W, o + 1 + Len(s), x \o (d \o (<<End>> \o rest)))
    BY <1>1, <1>2, <1>4, <2>1, GlobsStands, Zenon
  <2> QED
    BY <1>5, <2>2, Zenon
<1>8. /\ o + 1 \in Nat \ {0} /\ o + 1 <= Len(W)
      /\ V >= 10 => W[o + 1] = SkipMark /\ o + 4 \in Nat \ {0} /\ Holds(W, o + 4, XrefsLeft(M, V, 1))
      /\ ~(V >= 10) => W[o + 1] # SkipMark /\ Holds(W, o + 1, XrefsLeft(M, V, 1))
  <2>1. o + 1 \in Nat \ {0}
    BY <1>2
  <2>2. CASE V >= 10
    <3>1. SkipMark \in Nat /\ 0 \in Nat
      BY Numbers0 DEF SkipMark
    <3>2. Holds(W, o + 1, <<SkipMark, 0, 0>>) /\ Len(s) = 3
      BY <1>6, <1>7, <2>2, <3>1, Tuples, Zenon
    <3>3. o + 1 + 2 <= Len(W) /\ W[o + 1] = SkipMark
      BY <2>1, <3>1, <3>2, Takes3
    <3>4. o + 1 + Len(s) = o + 4
      BY <1>2, <3>2
    <3>5. o + 1 <= Len(W)
      BY <1>1, <1>2, <3>3
    <3> QED
      BY <1>7, <2>1, <2>2, <3>3, <3>4, <3>5
  <2>3. CASE ~(V >= 10)
    <3>1. Len(s) = 0
      BY <1>6, <2>3, Tuples
    <3>2. o + 1 + Len(s) = o + 1
      BY <1>2, <3>1
    <3>3. Holds(W, o + 1, XrefsLeft(M, V, 1))
      BY <1>7, <3>2
    <3>4. o + 1 <= Len(W) /\ W[o + 1] # SkipMark
      BY <1>1, <2>1, <3>3, GlobFirst
    <3> QED
      BY <2>1, <2>3, <3>3, <3>4
  <2> QED
    BY <2>2, <2>3
<1>9. CASE ~Has(o)
  BY <1>0, <1>1, <1>2, <1>7, <1>9, CutJob
<1>10. CASE Has(o)
  <2>1. file[o] = 8
    BY <1>1, <1>2, <1>7, <1>10, WordThere
  <2>2. Globs
    BY <1>2, <1>10, <2>1, AtWord
  <2>3. CASE ~Has(o + 1)
    <3>1. Throw
      BY <2>2, <2>3 DEF Globs, Reading
    <3> QED
      BY <1>1, <1>2, <1>8, <2>3, <3>1, WordMissing, Thrown1
  <2>4. CASE Has(o + 1)
    <3>1. file[o + 1] = W[o + 1]
      BY <1>1, <1>8, <2>4, WordThere
    <3>2. /\ mode' = "globs" /\ out' = out
          /\ o' = IF file[o + 1] = SkipMark THEN o + 4 ELSE o + 1
      BY <2>2, <2>4 DEF Globs, Reading, Goto, Same
    <3>3. o' \in Nat \ {0} /\ Holds(W, o', XrefsLeft(M, V, 1))
      BY <1>8, <3>1, <3>2
    <3>4. out' = XrefsOut(M, V, 1)
      BY <1>1, <1>2, <3>2, GlobsKnown
    <3>5. 1 \in 1 .. Len(M.xrefs) + 1
      BY <1>4
    <3> QED
      BY <1>1, <3>2, <3>3, <3>4, <3>5, XrefsArrive
  <2> QED
    BY <2>3, <2>4
<1> QED
  BY <1>9, <1>10


LEMMA DebugKnown ==
  ASSUME NEW M \in Module, NEW V \in Nat, M.debug
  PROVE  [Before(M, V, 10) EXCEPT !.partial = TRUE] = Held(M, V)
<1> DEFINE f == Before(M, V, 10)
           h == Held(M, V)
<1>1. \A x \in Fields : x \notin {"lib", "partial"} => f[x] = h[x]
  <2>1. ASSUME NEW x \in Fields, x \notin {"lib", "partial"} PROVE f[x] = h[x]
    <3>1. JobOf[x] \in 2 .. 10 /\ JobOf[x] # 10
      BY <2>1, JobOfSays
    <3>2. JobOf[x] < 10
      BY <3>1
    <3> QED
      BY <2>1, <3>2, FieldsSay DEF Before
  <2> QED
    BY <2>1
<1>2. "lib" \in Fields /\ "partial" \in Fields
  BY DEF Fields
<1>3. f.lib = << >>
  <2>1. JobOf["lib"] = 10
    BY <1>2, JobOfSays
  <2> QED
    BY <1>2, <2>1, FieldsSay, NothingSays DEF Before
<1>4. h.partial = TRUE
  <2>1. h.partial = M.debug
    BY HeldSays, Zenon
  <2>2. M.debug \in BOOLEAN
    BY ModuleSays
  <2> QED
    BY <2>1, <2>2
<1>5. h.lib = << >>
  BY DEF Held
<1>6. DOMAIN f = Fields /\ f = [x \in Fields |-> f[x]] /\ h = [x \in Fields |-> h[x]]
  <2>1. f = [x \in Fields |-> f[x]] /\ DOMAIN f = Fields
    BY FieldsSay DEF Before
  <2> QED
    BY <2>1, HeldIs
<1> HIDE DEF f, h
<1>7. \A x \in Fields : [f EXCEPT !.partial = TRUE][x] = h[x]
  BY <1>1, <1>2, <1>3, <1>4, <1>5, <1>6, Zenon
<1>8. [f EXCEPT !.partial = TRUE] = [x \in Fields |-> [f EXCEPT !.partial = TRUE][x]]
  BY <1>6
<1>9. [f EXCEPT !.partial = TRUE] = h
  BY <1>6, <1>7, <1>8
<1> QED
  BY <1>9 DEF f, h

LEMMA TextRead ==
  ASSUME NEW W, Begins(W), ~cut, NEW i \in Nat \ {0}, NEW text \in Chars,
         Holds(W, i, text), i + Len(text) <= Len(W), W[i + Len(text)] = 0
  PROVE  Scan(i, Text).v = text /\ Scan(i, Text).o = i + Len(text)
<1>1. text \in Seq(1 .. 255) /\ 1 .. 255 \subseteq Nat
  BY DEF Chars
<1>2. text \in WordSeqs
  BY <1>1, WordsAre, Zenon
<1>3. \A k \in 1 .. Len(text) : text[k] \in 1 .. 255
  BY <1>1, ElementsIn
<1>4. \A k \in 1 .. Len(text) : text[k] \in Text
  <2>1. 1 .. 255 \subseteq Text
    BY Numbers0 DEF Text
  <2> QED
    BY <1>3, <2>1, Zenon
<1>5. W[i + Len(text)] \notin Text
  <2>1. 0 \notin Text
    BY DEF Text
  <2> QED
    BY <2>1
<1> QED
  BY <1>2, <1>4, <1>5, ScanReads

\* The library after its number, and nothing after the byte that ends the file.
LEMMA LibJobStands ==
  ASSUME NEW W, Len(W) \in Nat, NEW M \in Module, M.lib # << >>, NEW i \in Nat \ {0},
         Holds(W, i, LibJob(M.lib[1]) \o <<Done>>)
  PROVE  LET name == M.lib[1].name
             base == M.lib[1].base IN
         /\ i <= Len(W) /\ W[i] = 6 /\ i + 1 \in Nat \ {0} /\ Holds(W, i + 1, name)
         /\ name \in Chars /\ base \in Chars /\ Len(name) \in Nat /\ Len(base) \in Nat
         /\ i + 1 + Len(name) <= Len(W) /\ W[i + 1 + Len(name)] = 0
         /\ i + 2 + Len(name) \in Nat \ {0} /\ Holds(W, i + 2 + Len(name), base)
         /\ i + 2 + Len(name) + Len(base) <= Len(W) /\ W[i + 2 + Len(name) + Len(base)] = 0
         /\ i + 3 + Len(name) + Len(base) \in Nat \ {0}
         /\ Holds(W, i + 3 + Len(name) + Len(base), VectorsLeft(M, 1))
<1> DEFINE name == M.lib[1].name
           base == M.lib[1].base
           f == Flat(VectorBytes(M.lib[1].funcs))
<1>1. M.lib[1] \in Library
  BY VectorsAre
<1>2. name \in Chars /\ base \in Chars /\ name \in WordSeqs /\ base \in WordSeqs /\ f \in WordSeqs
  BY <1>1, LibrarySays
<1>3. LibJob(M.lib[1]) = ((((<< 6 >> \o name) \o << 0 >>) \o base) \o << 0 >>) \o (f \o << 255 >>)
  BY DEF LibJob
<1>4. VectorsLeft(M, 1) = f \o <<255, Done>>
  BY DEF VectorsLeft, Flat
<1> HIDE DEF f, name, base
<1>5. << 255 >> \o <<Done>> = <<255, Done>> /\ <<Done>> \in WordSeqs
  <2>1. Done \in Nat
    BY DEF Done
  <2>2. <<Done>> \in WordSeqs
    BY <2>1, Tuples
  <2>3. << 255 >> \o << 0 >> = <<255, 0>>
    <3> DEFINE c == << 255 >> \o << 0 >>
               t == <<255, 0>>
    <3>1. c \in Seq(Nat) /\ Len(c) = 2 /\ c[1] = 255 /\ c[2] = 0
      OBVIOUS
    <3>2. t \in Seq(Nat) /\ Len(t) = 2 /\ t[1] = 255 /\ t[2] = 0
      OBVIOUS
    <3> HIDE DEF c, t
    <3>3. c = [k \in 1 .. 2 |-> c[k]] /\ t = [k \in 1 .. 2 |-> t[k]]
      BY <3>1, <3>2
    <3>4. \A k \in 1 .. 2 : c[k] = t[k]
      BY <3>1, <3>2
    <3>5. c = t
      BY <3>3, <3>4
    <3> QED
      BY <3>5 DEF c, t
  <2> QED
    BY <2>2, <2>3 DEF Done
<1>6. Holds(W, i, (((((<< 6 >> \o name) \o << 0 >>) \o base) \o << 0 >>) \o (f \o << 255 >>)) \o <<Done>>)
  BY <1>3
<1>7. /\ i <= Len(W) /\ W[i] = 6 /\ Holds(W, i + 1, name) /\ i + 1 + Len(name) \in Nat \ {0}
      /\ i + 1 + Len(name) <= Len(W) /\ W[i + 1 + Len(name)] = 0
      /\ i + 2 + Len(name) \in Nat \ {0} /\ Holds(W, i + 2 + Len(name), base)
      /\ i + 2 + Len(name) + Len(base) \in Nat \ {0}
      /\ i + 2 + Len(name) + Len(base) <= Len(W) /\ W[i + 2 + Len(name) + Len(base)] = 0
      /\ i + 3 + Len(name) + Len(base) \in Nat \ {0}
      /\ Holds(W, i + 3 + Len(name) + Len(base), f \o (<< 255 >> \o <<Done>>))
  <2> DEFINE rest == <<Done>>
  <2>1. rest \in WordSeqs /\ Holds(W, i, (((((<< 6 >> \o name) \o << 0 >>) \o base) \o << 0 >>) \o (f \o << 255 >>)) \o rest)
    BY <1>5, <1>6
  <2> HIDE DEF rest
  <2>2. /\ i <= Len(W) /\ W[i] = 6 /\ Holds(W, i + 1, name) /\ i + 1 + Len(name) \in Nat \ {0}
        /\ i + 1 + Len(name) <= Len(W) /\ W[i + 1 + Len(name)] = 0
        /\ i + 2 + Len(name) \in Nat \ {0} /\ Holds(W, i + 2 + Len(name), base)
        /\ i + 2 + Len(name) + Len(base) \in Nat \ {0}
        /\ i + 2 + Len(name) + Len(base) <= Len(W) /\ W[i + 2 + Len(name) + Len(base)] = 0
        /\ i + 3 + Len(name) + Len(base) \in Nat \ {0}
        /\ Holds(W, i + 3 + Len(name) + Len(base), f \o (<< 255 >> \o rest))
    BY <1>2, <2>1, LibStands
  <2> QED
    BY <2>2 DEF rest
<1>8. Holds(W, i + 3 + Len(name) + Len(base), VectorsLeft(M, 1))
  BY <1>4, <1>5, <1>7, Zenon
<1>9. Len(name) \in Nat /\ Len(base) \in Nat /\ i + 1 \in Nat \ {0}
  BY <1>2, Joins
<1> QED
  BY <1>2, <1>7, <1>8, <1>9, Zenon DEF name, base

LEMMA LibStep ==
  ASSUME NEW M \in Module, NEW V \in Nat, NEW W, Begins(W), Len(W) \in Nat, ~M.debug, M.lib # << >>,
         mode = "jobs", o \in Nat \ {0}, Holds(W, o, LibJob(M.lib[1]) \o <<Done>>), out = Before(M, V, 10), Read
  PROVE  ReaderInv(M, V, W)'
<1> DEFINE name == M.lib[1].name
           base == M.lib[1].base
<1>0. 10 \in 2 .. 10
  OBVIOUS
<1>1. /\ o <= Len(W) /\ W[o] = 6 /\ o + 1 \in Nat \ {0} /\ Holds(W, o + 1, name)
      /\ name \in Chars /\ base \in Chars /\ Len(name) \in Nat /\ Len(base) \in Nat
      /\ o + 1 + Len(name) <= Len(W) /\ W[o + 1 + Len(name)] = 0
      /\ o + 2 + Len(name) \in Nat \ {0} /\ Holds(W, o + 2 + Len(name), base)
      /\ o + 2 + Len(name) + Len(base) <= Len(W) /\ W[o + 2 + Len(name) + Len(base)] = 0
      /\ o + 3 + Len(name) + Len(base) \in Nat \ {0}
      /\ Holds(W, o + 3 + Len(name) + Len(base), VectorsLeft(M, 1))
  BY LibJobStands, Zenon
<1> HIDE DEF name, base
<1>2. CASE ~Has(o)
  BY <1>0, <1>1, <1>2, CutJob
<1>3. CASE Has(o)
  <2>1. file[o] = 6
    BY <1>1, <1>3, WordThere, Zenon
  <2>2. Lib
    BY <1>3, <2>1, AtWord
  <2>3. CASE cut
    <3>1. mode' = "vectors" /\ out' = out /\ cut' = cut
      BY <2>2 DEF Lib, Goto, source
    <3>2. cut'
      BY <2>3, <3>1
    <3> QED
      BY <3>1, <3>2, VectorsLost
  <2>4. CASE ~cut
    <3> DEFINE n == Scan(o + 1, Text)
               b == Scan(n.o + 1, Text)
    <3>1. /\ part' = [name |-> n.v, base |-> b.v, funcs |-> << >>, offset |-> -30]
          /\ mode' = "vectors" /\ o' = b.o + 1 /\ out' = out
      BY <2>2 DEF Lib, Goto
    <3>2. n.v = name /\ n.o = o + 1 + Len(name)
      BY <1>1, <2>4, TextRead
    <3> HIDE DEF n
    <3>3. n.o + 1 = o + 2 + Len(name)
      BY <1>1, <3>2
    <3>4. b.v = base /\ b.o = o + 2 + Len(name) + Len(base)
      <4>1. Scan(o + 2 + Len(name), Text).v = base /\ Scan(o + 2 + Len(name), Text).o = o + 2 + Len(name) + Len(base)
        BY <1>1, <2>4, TextRead
      <4> QED
        BY <3>3, <4>1
    <3> HIDE DEF b
    <3>5. b.o + 1 = o + 3 + Len(name) + Len(base)
      BY <1>1, <3>4
    <3>6. o' \in Nat \ {0} /\ Holds(W, o', VectorsLeft(M, 1))
      BY <1>1, <3>1, <3>5, Zenon
    <3>7. 1 \in 1 .. Len(M.lib[1].funcs) + 1 /\ 1 - 1 = 0 /\ -24 - 6 * 1 = -30
      BY VectorsAre
    <3>8. HeldFuncs(M.lib[1].funcs, 0) = << >>
      <4>1. M.lib[1].funcs \in Seq(Vector)
        BY VectorsAre
      <4> QED
        BY <4>1, FuncsAre
    <3>9. part' = [name |-> M.lib[1].name, base |-> M.lib[1].base,
                   funcs |-> HeldFuncs(M.lib[1].funcs, 1 - 1), offset |-> -24 - 6 * 1]
      BY <3>1, <3>2, <3>4, <3>7, <3>8 DEF name, base
    <3> QED
      BY <3>1, <3>6, <3>7, <3>9, VectorsArrive
  <2> QED
    BY <2>3, <2>4
<1> QED
  BY <1>2, <1>3

LEMMA LastJobStep ==
  ASSUME NEW M, NEW V, NEW W, FileInv(M, V, W), JobAt(M, V, W, 10), Read
  PROVE  ReaderInv(M, V, W)'
<1>0. 10 \in 3 .. 10 /\ 11 = 10 + 1 /\ 10 \in 2 .. 10
  OBVIOUS
<1>1. M \in Module /\ V \in Nat /\ Begins(W) /\ Len(W) \in Nat
  BY <1>0, JobStands
<1>2. mode = "jobs" /\ o \in Nat \ {0} /\ out = Before(M, V, 10)
  BY <1>0, JobStands
<1>3. Holds(W, o, LastJob(M))
  <2>1. Holds(W, o, JobNo(M, V, 10) \o Left(M, V, 11)) /\ Left(M, V, 11) \in WordSeqs
    BY <1>0, JobStands
  <2>2. JobNo(M, V, 10) = LastJob(M)
    BY JobNos
  <2>3. LastJob(M) \in WordSeqs
    BY <1>1, LastJobSays
  <2> QED
    BY <1>1, <1>2, <2>1, <2>2, <2>3, SplitsPos
<1>4. CASE M.debug
  <2>1. LastJob(M) = <<10, 1, 1>>
    BY <1>4 DEF LastJob
  <2>2. o + 2 <= Len(W) /\ W[o] = 10
    BY <1>2, <1>3, <2>1, Takes3
  <2>3. o <= Len(W)
    BY <1>1, <1>2, <2>2
  <2>4. CASE ~Has(o)
    BY <1>0, <1>1, <1>2, <2>3, <2>4, CutJob
  <2>5. CASE Has(o)
    <3>1. file[o] = 10
      BY <1>1, <1>2, <2>2, <2>3, <2>5, WordThere
    <3>2. UnknownJob
      BY <1>2, <2>5, <3>1, AtWord
    <3>3. mode' = "done" /\ out' = [out EXCEPT !.partial = TRUE]
      BY <3>2 DEF UnknownJob, Throw
    <3>4. out' = Held(M, V)
      BY <1>1, <1>2, <1>4, <3>3, DebugKnown
    <3> QED
      BY <3>3, <3>4, DoneArrives
  <2> QED
    BY <2>4, <2>5
<1>5. CASE ~M.debug /\ M.lib = << >>
  <2>1. LastJob(M) = <<Done>>
    BY <1>5 DEF LastJob
  <2>2. Done = 0 /\ Done \in Nat
    BY DEF Done
  <2>3. o <= Len(W) /\ W[o] = 0
    BY <1>2, <1>3, <2>1, <2>2, Takes1
  <2>4. CASE ~Has(o)
    BY <1>0, <1>1, <1>2, <2>3, <2>4, CutJob
  <2>5. CASE Has(o)
    <3>1. file[o] = 0
      BY <1>1, <1>2, <2>3, <2>5, WordThere
    <3>2. JobsEnd
      BY <1>2, <2>5, <3>1, AtWord
    <3>3. mode' = "done" /\ out' = out
      BY <3>2 DEF JobsEnd, Goto, Same
    <3>4. out' = Held(M, V)
      BY <1>1, <1>2, <1>5, <3>3, LastKnown
    <3> QED
      BY <3>3, <3>4, DoneArrives
  <2> QED
    BY <2>4, <2>5
<1>6. CASE ~M.debug /\ M.lib # << >>
  <2>1. LastJob(M) = LibJob(M.lib[1]) \o <<Done>>
    BY <1>6 DEF LastJob
  <2>2. Holds(W, o, LibJob(M.lib[1]) \o <<Done>>)
    BY <1>3, <2>1
  <2> QED
    BY <1>1, <1>2, <1>6, <2>2, LibStep
<1> QED
  BY <1>4, <1>5, <1>6


LEMMA JobsStep ==
  ASSUME NEW M, NEW V, NEW W, FileInv(M, V, W), JobsInv(M, V, W), Read
  PROVE  ReaderInv(M, V, W)'
<1>1. ASSUME NEW k \in (2 .. 10) \ {7}, JobNo(M, V, k) # << >>, JobAt(M, V, W, k)
      PROVE  ReaderInv(M, V, W)'
  <2>1. k = 2 \/ k = 3 \/ k = 4 \/ k = 5 \/ k = 6 \/ k = 8 \/ k = 9 \/ k = 10
    BY <1>1
  <2>2. CASE k = 2
    BY <1>1, <2>2, SysStep
  <2>3. CASE k = 3
    BY <1>1, <2>3, CodeStep
  <2>4. CASE k = 4
    BY <1>1, <2>4, RelocsJobStep
  <2>5. CASE k = 5
    BY <1>1, <2>5, ProcsJobStep
  <2>6. CASE k = 6
    BY <1>1, <2>6, GlobsJobStep
  <2>7. CASE k = 8
    BY <1>1, <2>7, ConstJobStep
  <2>8. CASE k = 9
    BY <1>1, <2>8, ModinfoJobStep
  <2>9. CASE k = 10
    BY <1>1, <2>9, LastJobStep
  <2> QED
    BY <2>1, <2>2, <2>3, <2>4, <2>5, <2>6, <2>7, <2>8, <2>9
<1>2. ASSUME NEW i \in DOMAIN M.objects, ObjectAt(M, V, W, i)
      PROVE  ReaderInv(M, V, W)'
  <2>1. M \in Module
    BY FileSays
  <2>2. M.objects \in Seq(Object)
    BY <2>1, ModuleSays, Zenon
  <2>3. i \in 1 .. Len(M.objects)
    BY <1>2, <2>2
  <2> QED
    BY <1>2, <2>3, ObjectStep
<1>3. ASSUME CodeCut(M, V)
      PROVE  ReaderInv(M, V, W)'
  BY <1>3, CodeCutStep
<1> QED
  BY <1>1, <1>2, <1>3 DEF JobsInv

\* After the magic the header.
LEMMA HeaderStands ==
  ASSUME NEW M \in Module, NEW V \in Nat, NEW W, Len(W) \in Nat, Holds(W, 1, WriteModule(M, V))
  PROVE  /\ 3 <= Len(W) /\ W[1] = Magic[1] /\ W[2] = Magic[2]
         /\ Holds(W, 3, Left(M, V, 2)) /\ JobNo(M, V, 2) # << >>
<1> DEFINE h == <<5, 0, 0, 0>>
           v == Long(4096)
           t == <<0, 0, 0, V, 0, 0>>
           z == IF V > 10 THEN LongZero ELSE << >>
           rest == Left(M, V, 3)
           left == Left(M, V, 2)
<1>1. Holds(W, 1, Left(M, V, 1))
  BY DEF WriteModule, Left, Flat
<1>2. Left(M, V, 1) = Magic \o left /\ left \in WordSeqs /\ left = SysJob(V) \o rest /\ rest \in WordSeqs
  <2>1. 1 \in 1 .. 10 /\ 2 = 1 + 1 /\ 2 \in 1 .. 10 /\ 3 = 2 + 1
    OBVIOUS
  <2>2. Left(M, V, 1) = JobNo(M, V, 1) \o Left(M, V, 2) /\ Left(M, V, 2) \in WordSeqs
    BY <2>1, JobFollows, Zenon
  <2>3. Left(M, V, 2) = JobNo(M, V, 2) \o Left(M, V, 3) /\ Left(M, V, 3) \in WordSeqs
    BY <2>1, JobFollows, Zenon
  <2> QED
    BY <2>2, <2>3, JobNos, Zenon
<1>3. SysJob(V) = ((h \o v) \o t) \o z
  BY DEF SysJob
<1>4. /\ h \in WordSeqs /\ v \in WordSeqs /\ t \in WordSeqs /\ z \in WordSeqs
      /\ Len(h) = 4 /\ Len(v) = 2 /\ Len(t) = 6 /\ h # << >>
  <2>1. h # << >>
    OBVIOUS
  <2> QED
    BY <2>1, SysSays
<1>5. Magic = <<17741, 20292>> /\ Magic \in WordSeqs /\ Len(Magic) = 2
  <2>1. 17741 \in Nat /\ 20292 \in Nat
    OBVIOUS
  <2> QED
    BY <2>1, Tuples DEF Magic
<1> HIDE DEF h, v, t, z, rest, left
<1>6. JobNo(M, V, 2) # << >>
  <2>2. h \o v \in WordSeqs /\ h \o v # << >>
    BY <1>4, Joins, NotEmpty
  <2>3. (h \o v) \o t \in WordSeqs /\ (h \o v) \o t # << >>
    BY <1>4, <2>2, Joins, NotEmpty
  <2>4. SysJob(V) # << >>
    BY <1>3, <1>4, <2>3, NotEmpty
  <2> QED
    BY <2>4, JobNos
<1>7. Holds(W, 1, Magic) /\ Holds(W, 3, left)
  <2>0. 1 \in Nat \ {0}
    OBVIOUS
  <2>1. Holds(W, 1, Magic \o left)
    BY <1>1, <1>2, Zenon
  <2>2. Holds(W, 1, Magic) /\ Holds(W, 1 + Len(Magic), left)
    <3> DEFINE i == 1
               m == Magic
    <3>1. i \in Nat \ {0} /\ m \in WordSeqs /\ left \in WordSeqs /\ Holds(W, i, m \o left)
      BY <1>2, <1>5, <2>0, <2>1
    <3> HIDE DEF i, m
    <3>2. Holds(W, i, m) /\ Holds(W, i + Len(m), left)
      BY <3>1, SplitsPos
    <3> QED
      BY <3>2 DEF i, m
  <2>3. 1 + Len(Magic) = 3
    BY <1>5
  <2> QED
    BY <2>2, <2>3
<1>8. W[1] = Magic[1] /\ W[2] = Magic[2]
  <2>1. \A k \in 1 .. Len(Magic) : W[1 - 1 + k] = Magic[k]
    BY <1>7 DEF Holds
  <2>2. 1 \in 1 .. Len(Magic) /\ 2 \in 1 .. Len(Magic) /\ 1 - 1 + 1 = 1 /\ 1 - 1 + 2 = 2
    BY <1>5
  <2> QED
    BY <2>1, <2>2
<1>9. 3 <= Len(W)
  <2>1. 3 \in Nat \ {0} /\ Holds(W, 3, (((h \o v) \o t) \o z) \o rest)
    BY <1>2, <1>3, <1>7
  <2> QED
    BY <1>2, <1>4, <2>1, SysStands
<1> QED
  BY <1>6, <1>7, <1>8, <1>9 DEF left

LEMMA StartStep ==
  ASSUME NEW M, NEW V, NEW W, FileInv(M, V, W), mode = "start", o = 1, out = Nothing, Read
  PROVE  ReaderInv(M, V, W)'
<1>1. M \in Module /\ V \in Nat /\ Begins(W) /\ Len(W) \in Nat /\ Len(file) \in Nat /\ Len(file) >= 2
  BY FileSays
<1>2. Holds(W, 1, WriteModule(M, V))
  BY DEF FileInv
<1>3. /\ 3 <= Len(W) /\ W[1] = Magic[1] /\ W[2] = Magic[2]
      /\ Holds(W, 3, Left(M, V, 2)) /\ JobNo(M, V, 2) # << >>
  BY <1>1, <1>2, HeaderStands
<1>4. Start
  BY InLoop
<1>5. SubSeq(file, 1, 2) = Magic
  <2>1. file[1] = Magic[1] /\ file[2] = Magic[2]
    BY <1>1, <1>3 DEF Begins
  <2>2. file \in Seq(Nat)
    BY <1>1 DEF Begins
  <2> DEFINE s == SubSeq(file, 1, 2)
  <2>3. s \in Seq(Nat) /\ Len(s) = 2 /\ s[1] = file[1] /\ s[2] = file[2]
    BY <1>1, <2>2
  <2>4. Magic \in Seq(Nat) /\ Len(Magic) = 2
    BY DEF Magic
  <2> HIDE DEF s
  <2>5. s = [k \in 1 .. 2 |-> s[k]] /\ Magic = [k \in 1 .. 2 |-> Magic[k]]
    BY <2>3, <2>4
  <2>6. \A k \in 1 .. 2 : s[k] = Magic[k]
    BY <2>1, <2>3
  <2>7. s = Magic
    BY <2>5, <2>6
  <2> QED
    BY <2>7 DEF s
<1>6. CASE Len(file) >= 3
  <2>1. mode' = "jobs" /\ o' = 3 /\ out' = out
    BY <1>4, <1>5, <1>6 DEF Start, Goto, Same
  <2>2. out' = Before(M, V, 2)
    BY <2>1, BeforeSays, Zenon
  <2>3. JobAt(M, V, W, 2)'
    <3>1. o' \in Nat \ {0} /\ Holds(W, o', Left(M, V, 2))
      BY <1>3, <2>1
    <3> QED
      BY <2>1, <2>2, <3>1 DEF JobAt, In
  <2>4. (JobNo(M, V, 2) # << >>)'
    BY <1>3
  <2>5. JobsInv(M, V, W)'
    BY <2>3, <2>4 DEF JobsInv
  <2> QED
    BY <2>5 DEF ReaderInv
<1>7. CASE ~(Len(file) >= 3)
  <2>1. mode' = "error" /\ cut' = cut
    BY <1>4, <1>7 DEF Start, Goto, Same, source
  <2>2. cut
    BY <1>1, <1>3, <1>7 DEF Begins
  <2>3. ErrorInv'
    BY <2>1, <2>2 DEF ErrorInv
  <2> QED
    BY <2>3 DEF ReaderInv
<1> QED
  BY <1>6, <1>7

\* Every turn of every loop keeps what is known of the reader.
LEMMA ReaderStep ==
  ASSUME NEW M, NEW V, NEW W, FileInv(M, V, W), ReaderInv(M, V, W), Read
  PROVE  ReaderInv(M, V, W)'
<1>0. M \in Module /\ V \in Nat /\ Begins(W)
  BY FileSays
<1>1. CASE mode = "start" /\ o = 1 /\ out = Nothing
  BY <1>1, StartStep
<1>2. CASE JobsInv(M, V, W)
  BY <1>2, JobsStep
<1>3. CASE \E j \in 1 .. Len(M.consts) + 1 : ConstsAt(M, V, W, j)
  BY <1>3, ConstsStep
<1>4. CASE ObjectsInv(M, V, W)
  <2>1. PICK i \in DOMAIN M.objects :
          \/ \E j \in 1 .. Len(M.objects[i].members) + 1 : MembersAt(M, V, W, i, j)
          \/ ClassAt(M, V, W, i)
          \/ \E j \in 1 .. Len(M.objects[i].methods) + 1 : MethodsAt(M, V, W, i, j)
          \/ \E j \in 1 .. Len(M.objects[i].oacc) + 1 : OaccAt(M, V, W, i, j)
    BY <1>4 DEF ObjectsInv
  <2>2. i \in 1 .. Len(M.objects)
    <3>1. M.objects \in Seq(Object)
      BY <1>0, ModuleSays, Zenon
    <3> QED
      BY <2>1, <3>1
  <2>3. CASE \E j \in 1 .. Len(M.objects[i].members) + 1 : MembersAt(M, V, W, i, j)
    BY <2>2, <2>3, MembersStep
  <2>4. CASE ClassAt(M, V, W, i)
    BY <2>2, <2>4, ClassStep
  <2>5. CASE \E j \in 1 .. Len(M.objects[i].methods) + 1 : MethodsAt(M, V, W, i, j)
    BY <2>2, <2>5, MethodsStep
  <2>6. CASE \E j \in 1 .. Len(M.objects[i].oacc) + 1 : OaccAt(M, V, W, i, j)
    BY <2>2, <2>6, AccessStep
  <2> QED
    BY <2>1, <2>3, <2>4, <2>5, <2>6
<1>5. CASE ProcTableInv(M, V, W)
  <2>1. CASE \E j \in 1 .. Len(M.procs) + 1 : ProcsAt(M, V, W, j)
    BY <2>1, ProcsStep
  <2>2. CASE \E j \in DOMAIN M.procs : \E d \in 1 .. Len(M.procs[j].defaults) + 1 : DefaultsAt(M, V, W, j, d)
    <3>1. PICK j \in DOMAIN M.procs : \E d \in 1 .. Len(M.procs[j].defaults) + 1 : DefaultsAt(M, V, W, j, d)
      BY <2>2
    <3>2. M.procs \in Seq(Proc)
      BY <1>0, ModuleSays, Zenon
    <3>3. j \in 1 .. Len(M.procs)
      BY <3>1, <3>2
    <3> QED
      BY <3>1, <3>3, DefaultsStep
  <2>3. CASE \E j \in 1 .. Len(M.relocs) + 1 : RelocsAt(M, V, W, j)
    BY <2>3, RelocsStep
  <2> QED
    BY <1>5, <2>1, <2>2, <2>3 DEF ProcTableInv
<1>6. CASE GlobsInv(M, V, W)
  <2>0. M.xrefs \in Seq(Xref) /\ M.drels \in Seq(Seq(Ref))
    BY <1>0, ModuleSays, Zenon
  <2>1. CASE \E j \in DOMAIN M.xrefs : XrefsAt(M, V, W, j)
    <3>1. PICK j \in DOMAIN M.xrefs : XrefsAt(M, V, W, j)
      BY <2>1
    <3>2. j \in 1 .. Len(M.xrefs)
      BY <2>0, <3>1
    <3> QED
      BY <3>1, <3>2, XrefsStep
  <2>2. CASE \E j \in 1 .. Len(M.drels) + 1 : DrelsAt(M, V, W, j)
    BY <2>2, DrelsStep
  <2>3. CASE \E j \in DOMAIN M.xrefs : \E d \in 1 .. Len(M.xrefs[j].refs) + 1 : XrefRefsAt(M, V, W, j, d)
    <3>1. PICK j \in DOMAIN M.xrefs : \E d \in 1 .. Len(M.xrefs[j].refs) + 1 : XrefRefsAt(M, V, W, j, d)
      BY <2>3
    <3>2. j \in 1 .. Len(M.xrefs)
      BY <2>0, <3>1
    <3> QED
      BY <3>1, <3>2, XrefRefsStep
  <2>4. CASE \E j \in DOMAIN M.drels : \E d \in 1 .. Len(M.drels[j]) + 1 : DrelRefsAt(M, V, W, j, d)
    <3>1. PICK j \in DOMAIN M.drels : \E d \in 1 .. Len(M.drels[j]) + 1 : DrelRefsAt(M, V, W, j, d)
      BY <2>4
    <3>2. j \in 1 .. Len(M.drels)
      BY <2>0, <3>1
    <3> QED
      BY <3>1, <3>2, DrelRefsStep
  <2> QED
    BY <1>6, <2>1, <2>2, <2>3, <2>4 DEF GlobsInv
<1>7. CASE UsesInv(M, V, W)
  <2>1. CASE \E j \in 1 .. Len(M.modinfo) + 1 : UsesAt(M, V, W, j)
    BY <2>1, UsesStep
  <2>2. ASSUME NEW j \in DOMAIN M.modinfo,
               \/ SymbolAt(M, V, W, j) \/ SymbolRead(M, V, W, j)
               \/ \E d \in 1 .. Len(M.modinfo[j].refs) + 1 : PlacesAt(M, V, W, j, d)
        PROVE  ReaderInv(M, V, W)'
    <3>1. j \in 1 .. Len(M.modinfo)
      <4>1. M.modinfo \in Seq(Use)
        BY <1>0, ModuleSays, Zenon
      <4> QED
        BY <2>2, <4>1
    <3>2. CASE SymbolAt(M, V, W, j)
      BY <3>1, <3>2, SymbolStep
    <3>3. CASE SymbolRead(M, V, W, j)
      BY <3>1, <3>3, SymbolReadStep
    <3>4. CASE \E d \in 1 .. Len(M.modinfo[j].refs) + 1 : PlacesAt(M, V, W, j, d)
      BY <3>1, <3>4, PlacesStep
    <3> QED
      BY <2>2, <3>2, <3>3, <3>4
  <2> QED
    BY <1>7, <2>1, <2>2 DEF UsesInv
<1>8. CASE VectorsInv(M, V, W)
  BY <1>8, VectorsStep
<1>9. CASE Lost
  BY <1>0, <1>9, LostStep
<1>10. CASE DoneInv(M, V) \/ ErrorInv
  <2>1. mode \in {"done", "error"}
    BY <1>10 DEF DoneInv, ErrorInv
  <2> QED
    BY <2>1, InLoop
<1> QED
  BY <1>1, <1>2, <1>3, <1>4, <1>5, <1>6, <1>7, <1>8, <1>9, <1>10 DEF ReaderInv


-----------------------------------------------------------------------------
(* The file as a whole.                                                    *)

LEMMA Modes ==
  ASSUME NEW M, NEW V, NEW W, ReaderInv(M, V, W)
  PROVE  /\ mode = "start" => o = 1 /\ out = Nothing
         /\ mode = "done" => DoneInv(M, V)
         /\ mode = "error" => cut
<1> DEFINE Loop == {"jobs", "consts", "members", "class", "methods", "oacc", "procs", "defaults", "relocs",
                    "globs", "refs", "submodules", "symbols", "places", "vectors"}
<1>1. JobsInv(M, V, W) => mode \in Loop
  BY DEF JobsInv, JobAt, ObjectAt, CodeCut, In
<1>2. (\E j \in 1 .. Len(M.consts) + 1 : ConstsAt(M, V, W, j)) => mode \in Loop
  BY DEF ConstsAt, In
<1>3. ObjectsInv(M, V, W) => mode \in Loop
  BY DEF ObjectsInv, MembersAt, ClassAt, MethodsAt, OaccAt, In
<1>4. ProcTableInv(M, V, W) => mode \in Loop
  BY DEF ProcTableInv, ProcsAt, DefaultsAt, RelocsAt, In
<1>5. GlobsInv(M, V, W) => mode \in Loop
  BY DEF GlobsInv, XrefsAt, DrelsAt, XrefRefsAt, DrelRefsAt, In
<1>6. UsesInv(M, V, W) => mode \in Loop
  BY DEF UsesInv, UsesAt, SymbolAt, SymbolRead, PlacesAt, In
<1>7. VectorsInv(M, V, W) => mode \in Loop
  BY DEF VectorsInv
<1>8. Lost => mode \in Loop
  BY DEF Lost
<1>9. (DoneInv(M, V) => mode = "done") /\ (ErrorInv => mode = "error" /\ cut)
  BY DEF DoneInv, ErrorInv
<1>10. \A x \in Loop : x \notin {"start", "done", "error"}
  OBVIOUS
<1> HIDE DEF Loop
<1> QED
  BY <1>1, <1>2, <1>3, <1>4, <1>5, <1>6, <1>7, <1>8, <1>9, <1>10 DEF ReaderInv

LEMMA NoStep ==
  ASSUME NEW M, NEW V, NEW W, ReaderInv(M, V, W), UNCHANGED fileVars
  PROVE  ReaderInv(M, V, W)'
<1>0. file' = file /\ cut' = cut /\ mode' = mode /\ o' = o /\ part' = part /\ todo' = todo /\ out' = out
  BY DEF fileVars, source
<1>1. JobsInv(M, V, W) => JobsInv(M, V, W)'
  BY <1>0 DEF JobsInv, JobAt, ObjectAt, CodeCut, In, Has
<1>2. (\E j \in 1 .. Len(M.consts) + 1 : ConstsAt(M, V, W, j))
      => (\E j \in 1 .. Len(M.consts) + 1 : ConstsAt(M, V, W, j))'
  BY <1>0 DEF ConstsAt, In
<1>3. ObjectsInv(M, V, W) => ObjectsInv(M, V, W)'
  BY <1>0 DEF ObjectsInv, MembersAt, ClassAt, MethodsAt, OaccAt, In
<1>4. ProcTableInv(M, V, W) => ProcTableInv(M, V, W)'
  BY <1>0 DEF ProcTableInv, ProcsAt, DefaultsAt, RelocsAt, In
<1>5. GlobsInv(M, V, W) => GlobsInv(M, V, W)'
  BY <1>0 DEF GlobsInv, XrefsAt, DrelsAt, XrefRefsAt, DrelRefsAt, In
<1>6. UsesInv(M, V, W) => UsesInv(M, V, W)'
  BY <1>0 DEF UsesInv, UsesAt, SymbolAt, SymbolRead, PlacesAt, In
<1>7. VectorsInv(M, V, W) => VectorsInv(M, V, W)'
  BY <1>0 DEF VectorsInv, VectorsAt, In
<1>8. Lost => Lost'
  BY <1>0 DEF Lost, Has
<1>9. DoneInv(M, V) => DoneInv(M, V)'
  BY <1>0 DEF DoneInv, Thrown, CutBetween
<1>10. ErrorInv => ErrorInv'
  BY <1>0 DEF ErrorInv
<1>11. (mode = "start" /\ o = 1 /\ out = Nothing) => (mode = "start" /\ o = 1 /\ out = Nothing)'
  BY <1>0
<1> QED
  BY <1>1, <1>2, <1>3, <1>4, <1>5, <1>6, <1>7, <1>8, <1>9, <1>10, <1>11 DEF ReaderInv

LEMMA ReadsOnly ==
  Read => UNCHANGED source
<1>1. ASSUME Read PROVE UNCHANGED source
  <2>0. Throw => UNCHANGED source
    BY DEF Throw
  <2>00. Same => UNCHANGED source
    BY DEF Same
  <2>1. Start => UNCHANGED source
    BY <2>00 DEF Start
  <2>2. Jobs => UNCHANGED source
    BY <2>0, <2>00 DEF Jobs, JobsEnd, UnknownJob, Sys, Consts, Obj, Code, ProcTable, Relocs, Globs, Modinfo, Lib, Reading
  <2>3. FirstWordMissing \/ ConstsEnd \/ ReadConst => UNCHANGED source
    BY <2>0, <2>00 DEF FirstWordMissing, ConstsEnd, ReadConst, Reading
  <2>4. Objects => UNCHANGED source
    BY <2>0, <2>00 DEF Objects, MembersEnd, ReadMember, NoClass, Class, MethodsEnd, ReadMethod, OaccEnd, ReadAccess, Reading
  <2>5. CodeParts => UNCHANGED source
    <3>1. ProcsEnd \/ ReadDefault \/ DefaultsEnd \/ ReadReloc \/ RelocsEnd \/ GlobsEnd \/ ReadGlob => UNCHANGED source
      BY <2>0, <2>00 DEF ProcsEnd, ReadDefault, DefaultsEnd, ReadReloc, RelocsEnd, GlobsEnd, ReadGlob, Reading
    <3>2. ReadProc => UNCHANGED source
      BY <2>0, <2>00 DEF ReadProc, Reading
    <3>3. ReadRef \/ RefsEnd \/ ModinfoEnd \/ ReadSubmodule \/ SymbolsEnd \/ ReadSymbol \/ ReadPlace \/ PlacesEnd
          => UNCHANGED source
      BY <2>0, <2>00 DEF ReadRef, RefsEnd, ModinfoEnd, ReadSubmodule, SymbolsEnd, ReadSymbol, ReadPlace, PlacesEnd, Reading
    <3> QED
      BY <3>1, <3>2, <3>3 DEF CodeParts
  <2>6. Vectors => UNCHANGED source
    BY <2>0, <2>00 DEF Vectors, ReadVector, EmptySlot, VectorsEnd
  <2> QED
    BY <1>1, <2>1, <2>2, <2>3, <2>4, <2>5, <2>6 DEF Read
<1> QED
  BY <1>1

LEMMA FileSame ==
  ASSUME NEW M, NEW V, NEW W, FileInv(M, V, W), file' = file, cut' = cut
  PROVE  FileInv(M, V, W)'
  BY DEF FileInv, Begins


\* What the compiler's own writer writes begins as the original one's file.
LEMMA EmodWords ==
  ASSUME NEW M \in Module, IsInterface(M)
  PROVE  /\ M.code = << >> /\ ~M.debug /\ M.lib = << >>
         /\ WriteModule(M, 10) \in WordSeqs
         /\ \E pad \in WordSeqs : WriteEmod(M) = WriteModule(M, 10) \o pad
<1> DEFINE obj == Flat(ObjJobs(10, M.objects))
           const == ConstJob(10, M.consts)
           sys == SysJob(10)
           all == Flat(<<Magic, sys, obj, const, <<Done>> >>)
<1>0. 10 \in Nat
  OBVIOUS
<1>1. M.code = << >> /\ M.debug = FALSE /\ M.lib = << >>
  <2> DEFINE e == [M EXCEPT !.consts = << >>, !.objects = << >>]
  <2>1. e = Empty
    BY DEF IsInterface
  <2>2. e.code = M.code /\ e.debug = M.debug /\ e.lib = M.lib
    <3>1. {"consts", "objects", "code", "debug", "lib"} \subseteq DOMAIN M
      BY DEF Module
    <3> QED
      BY <3>1
  <2>3. Empty.code = << >> /\ Empty.debug = FALSE /\ Empty.lib = << >>
    BY DEF Empty
  <2> HIDE DEF e
  <2> QED
    BY <2>1, <2>2, <2>3
<1>2. JobNo(M, 10, 3) = << >> /\ JobNo(M, 10, 4) = << >> /\ JobNo(M, 10, 5) = << >> /\ JobNo(M, 10, 6) = << >>
      /\ JobNo(M, 10, 9) = << >>
  BY <1>1, JobNos DEF CodedJob
<1>3. JobNo(M, 10, 10) = <<Done>>
  <2>1. LastJob(M) = << >> \o <<Done>>
    BY <1>1 DEF LastJob
  <2>2. << >> \o <<Done>> = <<Done>>
    BY DEF Done
  <2> QED
    BY <2>1, <2>2, JobNos
<1>4. Left(M, 10, 3) = Left(M, 10, 7) /\ Left(M, 10, 9) = Left(M, 10, 10)
  <2>1. 3 \in 3 .. 9 /\ 4 \in 3 .. 9 /\ 5 \in 3 .. 9 /\ 6 \in 3 .. 9 /\ 9 \in 3 .. 9
        /\ 3 # 7 /\ 4 # 7 /\ 5 # 7 /\ 6 # 7 /\ 9 # 7
    OBVIOUS
  <2>2. Left(M, 10, 3 + 1) = Left(M, 10, 3)
    BY <1>0, <1>2, <2>1, EmptyJob
  <2>3. Left(M, 10, 4 + 1) = Left(M, 10, 4)
    BY <1>0, <1>2, <2>1, EmptyJob
  <2>4. Left(M, 10, 5 + 1) = Left(M, 10, 5)
    BY <1>0, <1>2, <2>1, EmptyJob
  <2>5. Left(M, 10, 6 + 1) = Left(M, 10, 6)
    BY <1>0, <1>2, <2>1, EmptyJob
  <2>6. Left(M, 10, 9 + 1) = Left(M, 10, 9)
    BY <1>0, <1>2, <2>1, EmptyJob
  <2>7. 3 + 1 = 4 /\ 4 + 1 = 5 /\ 5 + 1 = 6 /\ 6 + 1 = 7 /\ 9 + 1 = 10
    OBVIOUS
  <2> QED
    BY <2>2, <2>3, <2>4, <2>5, <2>6, <2>7
<1>5. Left(M, 10, 1) = Magic \o (sys \o (obj \o (const \o (<<Done>> \o << >>))))
  <2>1. Left(M, 10, 11) = << >>
    BY <1>0, LeftIs
  <2>2. \A k \in 1 .. 10 : Left(M, 10, k) = JobNo(M, 10, k) \o Left(M, 10, k + 1)
    BY <1>0, LeftIs, Zenon
  <2>3. Left(M, 10, 10) = <<Done>> \o << >>
    <3>1. 10 \in 1 .. 10 /\ 10 + 1 = 11
      OBVIOUS
    <3>2. Left(M, 10, 10) = JobNo(M, 10, 10) \o Left(M, 10, 10 + 1)
      BY <2>2, <3>1, Zenon
    <3> QED
      BY <1>3, <2>1, <3>1, <3>2
  <2>4. Left(M, 10, 8) = const \o (<<Done>> \o << >>)
    <3>1. 8 \in 1 .. 10 /\ 8 + 1 = 9
      OBVIOUS
    <3>2. Left(M, 10, 8) = JobNo(M, 10, 8) \o Left(M, 10, 8 + 1)
      BY <2>2, <3>1, Zenon
    <3>3. JobNo(M, 10, 8) = const
      BY JobNos
    <3> QED
      BY <1>4, <2>3, <3>1, <3>2, <3>3, Zenon
  <2>5. Left(M, 10, 3) = obj \o (const \o (<<Done>> \o << >>))
    <3>1. 7 \in 1 .. 10 /\ 7 + 1 = 8
      OBVIOUS
    <3>2. Left(M, 10, 7) = JobNo(M, 10, 7) \o Left(M, 10, 7 + 1)
      BY <2>2, <3>1, Zenon
    <3>3. JobNo(M, 10, 7) = obj
      BY JobNos
    <3> QED
      BY <1>4, <2>4, <3>1, <3>2, <3>3, Zenon
  <2>6. Left(M, 10, 2) = sys \o (obj \o (const \o (<<Done>> \o << >>)))
    <3>1. 2 \in 1 .. 10 /\ 2 + 1 = 3
      OBVIOUS
    <3>2. Left(M, 10, 2) = JobNo(M, 10, 2) \o Left(M, 10, 2 + 1)
      BY <2>2, <3>1, Zenon
    <3>3. JobNo(M, 10, 2) = sys
      BY JobNos
    <3> QED
      BY <2>5, <3>1, <3>2, <3>3, Zenon
  <2>7. Left(M, 10, 1) = Magic \o Left(M, 10, 2)
    <3>1. 1 \in 1 .. 10 /\ 1 + 1 = 2
      OBVIOUS
    <3>2. Left(M, 10, 1) = JobNo(M, 10, 1) \o Left(M, 10, 1 + 1)
      BY <2>2, <3>1, Zenon
    <3>3. JobNo(M, 10, 1) = Magic
      BY JobNos
    <3> QED
      BY <3>1, <3>2, <3>3
  <2> QED
    BY <2>6, <2>7, Zenon
<1>6. Magic \in WordSeqs /\ sys \in WordSeqs /\ obj \in WordSeqs /\ const \in WordSeqs /\ <<Done>> \in WordSeqs
  <2>1. 17741 \in Nat /\ 20292 \in Nat /\ Done \in Nat
    BY DEF Done
  <2>2. Magic \in WordSeqs /\ <<Done>> \in WordSeqs
    BY <2>1, Tuples DEF Magic
  <2>3. sys \in WordSeqs
    BY <1>0, SysJobSays
  <2>4. ObjJobs(10, M.objects) \in Seq(WordSeqs)
    BY <1>0, ObjectsLeftIs
  <2>5. obj \in WordSeqs
    BY <2>4, FlatIs
  <2>6. M.consts \in Seq(Const)
    BY ModuleSays, Zenon
  <2>7. const \in WordSeqs
    BY <1>0, <2>6, ConstJobSays
  <2> QED
    BY <2>2, <2>3, <2>5, <2>7
<1> HIDE DEF obj, const, sys
<1>7. all = Magic \o (sys \o (obj \o (const \o (<<Done>> \o << >>))))
  <2> DEFINE five == <<Magic, sys, obj, const, <<Done>> >>
  <2>1. /\ five \in Seq(WordSeqs) /\ Len(five) = 5
        /\ five[1] = Magic /\ five[2] = sys /\ five[3] = obj /\ five[4] = const /\ five[5] = <<Done>>
    BY <1>6
  <2>2. all = From(five, 1)
    BY DEF Flat
  <2> HIDE DEF five
  <2>3. From(five, Len(five) + 1) = << >> /\ \A i \in 1 .. Len(five) : From(five, i) = five[i] \o From(five, i + 1)
    BY <2>1, FromIs, Zenon
  <2>4. 1 \in 1 .. 5 /\ 2 \in 1 .. 5 /\ 3 \in 1 .. 5 /\ 4 \in 1 .. 5 /\ 5 \in 1 .. 5
        /\ 1 + 1 = 2 /\ 2 + 1 = 3 /\ 3 + 1 = 4 /\ 4 + 1 = 5 /\ 5 + 1 = 6
    OBVIOUS
  <2>5. From(five, 6) = << >> /\ \A i \in 1 .. 5 : From(five, i) = five[i] \o From(five, i + 1)
    BY <2>1, <2>3, <2>4, Zenon
  <2>6. From(five, 5) = <<Done>> \o << >>
    BY <2>1, <2>4, <2>5, Zenon
  <2>7. From(five, 4) = const \o (<<Done>> \o << >>)
    BY <2>1, <2>4, <2>5, <2>6, Zenon
  <2>8. From(five, 3) = obj \o (const \o (<<Done>> \o << >>))
    BY <2>1, <2>4, <2>5, <2>7, Zenon
  <2>9. From(five, 2) = sys \o (obj \o (const \o (<<Done>> \o << >>)))
    BY <2>1, <2>4, <2>5, <2>8, Zenon
  <2>10. From(five, 1) = Magic \o (sys \o (obj \o (const \o (<<Done>> \o << >>))))
    BY <2>1, <2>4, <2>5, <2>9, Zenon
  <2> QED
    BY <2>2, <2>10, Zenon
<1>8. WriteModule(M, 10) = all
  <2>1. WriteModule(M, 10) = Left(M, 10, 1)
    BY DEF WriteModule, Left, Flat
  <2> QED
    BY <1>5, <1>7, <2>1, Zenon
<1>9. WriteEmod(M) = all \o IF Len(all) % 2 = 1 THEN << 0 >> ELSE << >>
  BY DEF WriteEmod, obj, const, sys
<1>10. WriteModule(M, 10) \in WordSeqs
  <2>1. WriteModule(M, 10) = Left(M, 10, 1)
    BY DEF WriteModule, Left, Flat
  <2>2. 1 \in 1 .. 11
    OBVIOUS
  <2> QED
    BY <1>0, <2>1, <2>2, LeftIs
<1>11. (IF Len(all) % 2 = 1 THEN << 0 >> ELSE << >>) \in WordSeqs
  <2>1. << 0 >> \in WordSeqs /\ << >> \in WordSeqs
    <3>1. 0 \in Nat
      OBVIOUS
    <3> QED
      BY <3>1, Tuples
  <2> QED
    BY <2>1
<1> HIDE DEF all
<1>12. \E pad \in WordSeqs : WriteEmod(M) = WriteModule(M, 10) \o pad
  BY <1>8, <1>9, <1>11, Zenon
<1> QED
  BY <1>1, <1>10, <1>12

LEMMA WholeHolds ==
  ASSUME NEW words \in WordSeqs, NEW pad \in WordSeqs
  PROVE  Holds(words \o pad, 1, words) /\ words \o pad \in WordSeqs /\ Holds(words, 1, words)
<1>1. words \in Seq(Nat) /\ pad \in Seq(Nat)
  BY DEF WordSeqs
<1>2. words \o pad \in WordSeqs /\ Len(words \o pad) = Len(words) + Len(pad) /\ Len(words) \in Nat /\ Len(pad) \in Nat
  BY Joins
<1>3. \A k \in 1 .. Len(words) : (words \o pad)[k] = words[k]
  BY <1>1
<1>4. \A k \in 1 .. Len(words) : 1 - 1 + k = k
  BY <1>2
<1>5. Holds(words \o pad, 1, words)
  <2>1. 1 + Len(words) - 1 <= Len(words \o pad)
    BY <1>2
  <2> HIDE DEF WordSeqs
  <2>2. \A k \in 1 .. Len(words) : (words \o pad)[1 - 1 + k] = words[k]
    BY <1>3, <1>4
  <2> QED
    BY <2>1, <2>2 DEF Holds
<1>6. Holds(words, 1, words)
  <2>1. 1 + Len(words) - 1 <= Len(words)
    BY <1>2
  <2>2. \A k \in 1 .. Len(words) : words[1 - 1 + k] = words[k]
    BY <1>4
  <2> QED
    BY <2>1, <2>2 DEF Holds
<1> QED
  BY <1>2, <1>5, <1>6

LEMMA WrittenWhole ==
  ASSUME NEW m \in Modules, NEW v \in Nat, NEW W \in WordSeqs, Holds(W, 1, WriteModule(m, v)), file' = W
  PROVE  FileInv(m, v, W)'
<1>1. m \in Module
  BY EmodAssumption
<1>2. Len(W) \in Nat /\ W \in Seq(Nat)
  BY DEF WordSeqs
<1>3. 3 <= Len(W)
  BY <1>1, <1>2, HeaderStands
<1>4. Begins(W)'
  BY <1>2 DEF Begins
<1>5. (Len(file) >= 2)'
  BY <1>2, <1>3
<1> QED
  BY <1>1, <1>4, <1>5 DEF FileInv

LEMMA WriteStep ==
  ASSUME FileInit, WriteAny
  PROVE  EmodInv'
<1>1. mode = "start" /\ o = 1 /\ out = Nothing
  BY DEF FileInit
<1>2. ASSUME NEW m \in Modules, NEW v \in Nat, NEW W \in WordSeqs, Holds(W, 1, WriteModule(m, v)), NEW by,
             Write(W, m, v, by), W = IF by = "ecomp" THEN WriteEmod(m) ELSE WriteModule(m, v)
      PROVE  EmodInv'
  <2> DEFINE w == [module |-> m, version |-> v, by |-> by]
  <2>1. file' = W /\ written' = <<w>> /\ mode' = mode /\ o' = o /\ out' = out
    BY <1>2 DEF Write
  <2>2. FileInv(m, v, W)'
    BY <1>2, <2>1, WrittenWhole
  <2>3. ReaderInv(m, v, W)'
    BY <1>1, <2>1 DEF ReaderInv
  <2>4. w.module = m /\ w.version = v /\ w.by = by
    OBVIOUS
  <2>5. Whole(w) = W
    BY <1>2, <2>4 DEF Whole
  <2> HIDE DEF w
  <2>6. FileInv(w.module, w.version, Whole(w))' /\ ReaderInv(w.module, w.version, Whole(w))'
    BY <2>2, <2>3, <2>4, <2>5
  <2> QED
    BY <2>1, <2>6 DEF EmodInv
<1>3. PICK m \in Modules :
        \/ IsInterface(m) /\ Write(WriteEmod(m), m, 10, "ecomp")
        \/ \E version \in Versions : Write(WriteModule(m, version), m, version, "ec")
  BY DEF WriteAny
<1>4. m \in Module
  BY <1>3, EmodAssumption
<1>5. CASE IsInterface(m) /\ Write(WriteEmod(m), m, 10, "ecomp")
  <2>1. PICK pad \in WordSeqs : WriteEmod(m) = WriteModule(m, 10) \o pad
    BY <1>4, <1>5, EmodWords
  <2>2. WriteModule(m, 10) \in WordSeqs
    BY <1>4, <1>5, EmodWords
  <2>3. Holds(WriteEmod(m), 1, WriteModule(m, 10)) /\ WriteEmod(m) \in WordSeqs
    BY <2>1, <2>2, WholeHolds
  <2>4. 10 \in Nat
    OBVIOUS
  <2> QED
    BY <1>2, <1>3, <1>5, <2>3, <2>4
<1>6. CASE \E version \in Versions : Write(WriteModule(m, version), m, version, "ec")
  <2>1. PICK v \in Versions : Write(WriteModule(m, v), m, v, "ec")
    BY <1>6
  <2>2. v \in Nat
    BY EmodAssumption
  <2>3. WriteModule(m, v) \in WordSeqs
    <3>1. WriteModule(m, v) = Left(m, v, 1)
      BY DEF WriteModule, Left, Flat
    <3>2. 1 \in 1 .. 11
      OBVIOUS
    <3> QED
      BY <1>4, <2>2, <3>1, <3>2, LeftIs
  <2>4. Holds(WriteModule(m, v), 1, WriteModule(m, v))
    BY <2>3, WholeHolds
  <2>5. "ec" # "ecomp"
    OBVIOUS
  <2> QED
    BY <1>2, <1>3, <2>1, <2>2, <2>3, <2>4, <2>5
<1> QED
  BY <1>3, <1>5, <1>6


LEMMA CutStep ==
  ASSUME NEW M, NEW V, NEW W, FileInv(M, V, W), ReaderInv(M, V, W), NEW n \in 2 .. Len(file) - 1, Cut(n)
  PROVE  FileInv(M, V, W)' /\ ReaderInv(M, V, W)'
<1>1. mode = "start" /\ file' = SubSeq(file, 1, n) /\ cut' = TRUE /\ mode' = mode /\ o' = o /\ out' = out
  BY DEF Cut
<1>2. M \in Module /\ V \in Nat /\ Holds(W, 1, WriteModule(M, V)) /\ Begins(W) /\ Len(file) \in Nat
  BY FileSays DEF FileInv
<1>3. /\ Len(W) \in Nat /\ file \in Seq(Nat) /\ Len(file) <= Len(W)
      /\ \A i \in 1 .. Len(file) : file[i] = W[i]
  BY <1>2 DEF Begins
<1>4. n \in Nat /\ 2 <= n /\ n < Len(file)
  BY <1>2
<1>5. file' \in Seq(Nat) /\ Len(file') = n /\ \A i \in 1 .. n : file'[i] = file[i]
  <2> DEFINE s == SubSeq(file, 1, n)
  <2>1. s \in Seq(Nat) /\ Len(s) = n /\ \A i \in 1 .. n : s[i] = file[i]
    BY <1>3, <1>4
  <2> QED
    BY <1>1, <2>1
<1>6. \A i \in 1 .. n : file'[i] = W[i]
  <2>1. \A i \in 1 .. n : i \in 1 .. Len(file)
    BY <1>2, <1>4
  <2>2. \A i \in 1 .. n : file[i] = W[i]
    BY <1>3, <2>1
  <2> QED
    BY <1>5, <2>2, Zenon
<1>7. Len(file') <= Len(W) /\ Len(file') >= 2
  BY <1>2, <1>3, <1>4, <1>5
<1>8. Begins(W)'
  BY <1>1, <1>3, <1>5, <1>6, <1>7 DEF Begins
<1>9. FileInv(M, V, W)'
  BY <1>2, <1>7, <1>8 DEF FileInv
<1>10. mode' = "start" /\ o' = 1 /\ out' = Nothing
  BY <1>1, Modes
<1>11. ReaderInv(M, V, W)'
  BY <1>10 DEF ReaderInv
<1> QED
  BY <1>9, <1>11

\* The inductive invariant: wherever the reader is, what it is about to read is
\* what the writer wrote there, and it knows what stands before (emod.js).
THEOREM EmodInvHolds == FileSpec => []EmodInv
<1>1. FileInit => EmodInv
  BY DEF FileInit, EmodInv
<1>2. EmodInv /\ [FileNext]_fileVars => EmodInv'
  <2>1. SUFFICES ASSUME EmodInv, [FileNext]_fileVars PROVE EmodInv'
    OBVIOUS
  <2>2. CASE written = << >> /\ FileInit
    <3>1. CASE WriteAny
      BY <2>2, <3>1, WriteStep
    <3>2. CASE \E n \in 2 .. Len(file) - 1 : Cut(n)
      BY <2>2, <3>2 DEF Cut
    <3>3. CASE Read
      <4>1. mode = "start"
        BY <2>2 DEF FileInit
      <4>2. Start
        BY <3>3, <4>1, InLoop
      <4> QED
        BY <2>2, <4>2 DEF Start
    <3>4. CASE UNCHANGED fileVars
      BY <2>2, <3>4 DEF EmodInv, FileInit, fileVars, source
    <3> QED
      BY <2>1, <3>1, <3>2, <3>3, <3>4 DEF FileNext
  <2>3. CASE \E w : /\ written = <<w>>
                    /\ FileInv(w.module, w.version, Whole(w)) /\ ReaderInv(w.module, w.version, Whole(w))
    <3>1. PICK w : /\ written = <<w>>
                   /\ FileInv(w.module, w.version, Whole(w)) /\ ReaderInv(w.module, w.version, Whole(w))
      BY <2>3
    <3> DEFINE M == w.module
               V == w.version
               W == Whole(w)
    <3>2. FileInv(M, V, W) /\ ReaderInv(M, V, W)
      BY <3>1
    <3>3. SUFFICES written' = written /\ FileInv(M, V, W)' /\ ReaderInv(M, V, W)'
      BY <3>1 DEF EmodInv
    <3> HIDE DEF M, V, W
    <3>4. CASE WriteAny
      <4>1. written = << >>
        BY <3>4 DEF WriteAny
      <4> QED
        BY <3>1, <4>1
    <3>5. CASE \E n \in 2 .. Len(file) - 1 : Cut(n)
      <4>1. PICK n \in 2 .. Len(file) - 1 : Cut(n)
        BY <3>5
      <4>2. written' = written
        BY <4>1 DEF Cut
      <4> QED
        BY <3>2, <4>1, <4>2, CutStep
    <3>6. CASE Read
      <4>1. file' = file /\ written' = written /\ cut' = cut
        BY <3>6, ReadsOnly DEF source
      <4> QED
        BY <3>2, <3>6, <4>1, FileSame, ReaderStep
    <3>7. CASE UNCHANGED fileVars
      <4>1. file' = file /\ written' = written /\ cut' = cut
        BY <3>7 DEF fileVars, source
      <4> QED
        BY <3>2, <3>7, <4>1, FileSame, NoStep
    <3> QED
      BY <2>1, <3>4, <3>5, <3>6, <3>7 DEF FileNext
  <2> QED
    BY <2>1, <2>2, <2>3 DEF EmodInv
<1> QED
  BY <1>1, <1>2, PTL DEF FileSpec

\* Every module in every version of the format is read as what it holds, whoever
\* has written it: entries, optional words and trailers are passed over exactly
\* (readEmod of emod.js, writeEmod of emodwrite.js).
THEOREM FilesReadAsWritten == FileSpec => []ReadsAsWritten
<1>1. EmodInv => ReadsAsWritten
  <2>1. SUFFICES ASSUME EmodInv, mode \in {"done", "error"}, ~cut
                 PROVE  mode = "done" /\ out = Held(written[1].module, written[1].version)
    BY DEF ReadsAsWritten
  <2>2. CASE written = << >> /\ FileInit
    BY <2>1, <2>2 DEF FileInit
  <2>3. CASE \E w : /\ written = <<w>>
                    /\ FileInv(w.module, w.version, Whole(w)) /\ ReaderInv(w.module, w.version, Whole(w))
    <3>1. PICK w : /\ written = <<w>>
                   /\ FileInv(w.module, w.version, Whole(w)) /\ ReaderInv(w.module, w.version, Whole(w))
      BY <2>3
    <3>2. written[1] = w
      BY <3>1
    <3>3. mode = "done"
      BY <2>1, <3>1, Modes
    <3>4. DoneInv(w.module, w.version)
      BY <3>1, <3>3, Modes
    <3>5. out = Held(w.module, w.version)
      BY <2>1, <3>4 DEF DoneInv, Thrown, CutBetween
    <3> QED
      BY <3>2, <3>3, <3>5
  <2> QED
    BY <2>1, <2>2, <2>3 DEF EmodInv
<1> QED
  BY <1>1, EmodInvHolds, PTL


-----------------------------------------------------------------------------
(* What is found in a file that was cut.                                   *)

\* What of code and of the objects may be known without the rest.
Unended == {"code", "objects"}
PartOf(M, V, x, value) ==
  \/ x = "code" /\ Prefix(value, M.code)
  \/ x = "objects" /\ \E n \in 0 .. Len(M.objects) : value = FirstObjects(M.objects, V, n)

\* Every field is known from its job on, but for one that a job was in the midst of.
FoundTo(M, V, k, x) ==
  /\ out = [field \in Fields |-> out[field]]
  /\ \A field \in Fields \ {x} : out[field] = IF JobOf[field] < k THEN Held(M, V)[field] ELSE Nothing[field]
  /\ \/ JobOf[x] > k /\ out[x] = Nothing[x]
     \/ JobOf[x] = k /\ x \in Unended /\ PartOf(M, V, x, out[x])
     \/ k = 10 /\ x = "lib" /\ ~M.debug
     \/ JobOf[x] = k /\ out[x] = Nothing[x]

LEMMA PrefixSays ==
  ASSUME NEW T, NEW s \in Seq(T)
  PROVE  /\ Prefix(<< >>, s) /\ Prefix(s, s)
         /\ \A n \in 0 .. Len(s) : Prefix(FirstOf(s, n), s)
<1>1. SubSeq(s, 1, 0) = << >> /\ SubSeq(s, 1, Len(s)) = s /\ Len(s) \in Nat /\ Len(<< >>) = 0
  OBVIOUS
<1>2. Prefix(<< >>, s) /\ Prefix(s, s)
  BY <1>1 DEF Prefix
<1>3. ASSUME NEW n \in 0 .. Len(s) PROVE Prefix(FirstOf(s, n), s)
  <2>1. Len(FirstOf(s, n)) = n
    BY FirstOfSays
  <2>2. n <= Len(s)
    BY <1>1
  <2> QED
    BY <2>1, <2>2 DEF Prefix, FirstOf
<1> QED
  BY <1>2, <1>3

LEMMA ObjectsFound ==
  ASSUME NEW M \in Module, NEW V \in Nat, NEW n \in 0 .. Len(M.objects)
  PROVE  FirstObjects(M.objects, V, n) = ObjectsKnown(M, V, n)
  BY DEF FirstObjects, ObjectsKnown, FirstOf

LEMMA UnendedHeld ==
  ASSUME NEW M \in Module, NEW V \in Nat, NEW x \in Unended
  PROVE  PartOf(M, V, x, << >>) /\ PartOf(M, V, x, Held(M, V)[x])
<1>1. x = "objects" \/ x = "code"
  BY DEF Unended
<1>2. CASE x = "objects"
  <2> DEFINE s == HeldObjects(M.objects, V)
             l == Len(M.objects)
  <2>1. PICK T : s \in Seq(T)
    BY HeldAre
  <2>2. Len(s) = l /\ l \in Nat /\ 0 \in 0 .. l /\ l \in 0 .. l
    BY <2>1, HeldAre
  <2>3. FirstOf(s, 0) = << >> /\ FirstOf(s, l) = s
    <3> HIDE DEF s, l
    <3> QED
      BY <2>1, <2>2, FirstOfSays
  <2>4. Mapped(FirstOf(s, 0)) = << >> /\ Mapped(FirstOf(s, l)) = Held(M, V)[x]
    <3>1. Mapped(<< >>) = << >>
      BY MappedNone, Zenon
    <3>2. Held(M, V)[x] = Mapped(s)
      BY <1>2, HeldSays
    <3> QED
      BY <2>3, <3>1, <3>2, Zenon
  <2>5. FirstObjects(M.objects, V, 0) = << >> /\ FirstObjects(M.objects, V, l) = Held(M, V)[x]
    BY <2>2, <2>4, ObjectsFound, Zenon DEF ObjectsKnown
  <2> QED
    BY <1>2, <2>2, <2>5 DEF PartOf
<1>3. CASE x = "code"
  <2>1. M.code \in Seq(Nat)
    BY ModuleSays, Zenon DEF WordSeqs
  <2>2. Held(M, V)[x] = M.code
    BY <1>3, HeldSays
  <2>3. Prefix(<< >>, M.code) /\ Prefix(M.code, M.code)
    BY <2>1, PrefixSays
  <2> QED
    BY <1>3, <2>2, <2>3 DEF PartOf
<1> QED
  BY <1>1, <1>2, <1>3

\* The fields in the order of their jobs.
LEMMA OrderSays ==
  /\ DOMAIN Order = 1 .. 7
  /\ \A i \in 1 .. 7 : \A field \in Order[i] : field \in Fields /\ JobOf[field] = i + 2 /\ Nothing[field] = << >>
<1>1. /\ DOMAIN Order = 1 .. 7 /\ Order[1] = {"code"} /\ Order[2] = {"relocs"} /\ Order[3] = {"procs"}
      /\ Order[4] = {"xrefs", "drels"} /\ Order[5] = {"objects"} /\ Order[6] = {"consts"} /\ Order[7] = {"modinfo"}
  BY DEF Order
<1>2. {"code", "relocs", "procs", "xrefs", "drels", "objects", "consts", "modinfo"} \subseteq Fields
  BY DEF Fields
<1>3. /\ JobOf["code"] = 3 /\ JobOf["relocs"] = 4 /\ JobOf["procs"] = 5 /\ JobOf["xrefs"] = 6 /\ JobOf["drels"] = 6
      /\ JobOf["objects"] = 7 /\ JobOf["consts"] = 8 /\ JobOf["modinfo"] = 9
  BY <1>2, JobOfSays
<1>4. /\ Nothing["code"] = << >> /\ Nothing["relocs"] = << >> /\ Nothing["procs"] = << >>
      /\ Nothing["xrefs"] = << >> /\ Nothing["drels"] = << >> /\ Nothing["objects"] = << >>
      /\ Nothing["consts"] = << >> /\ Nothing["modinfo"] = << >>
  BY NothingSays
<1>5. ASSUME NEW i \in 1 .. 7, NEW field \in Order[i]
      PROVE  field \in Fields /\ JobOf[field] = i + 2 /\ Nothing[field] = << >>
  <2>1. i = 1 \/ i = 2 \/ i = 3 \/ i = 4 \/ i = 5 \/ i = 6 \/ i = 7
    BY <1>5
  <2>2. CASE i = 1
    BY <1>1, <1>2, <1>3, <1>4, <1>5, <2>2
  <2>3. CASE i = 2
    BY <1>1, <1>2, <1>3, <1>4, <1>5, <2>3
  <2>4. CASE i = 3
    BY <1>1, <1>2, <1>3, <1>4, <1>5, <2>4
  <2>5. CASE i = 4
    BY <1>1, <1>2, <1>3, <1>4, <1>5, <2>5
  <2>6. CASE i = 5
    BY <1>1, <1>2, <1>3, <1>4, <1>5, <2>6
  <2>7. CASE i = 6
    BY <1>1, <1>2, <1>3, <1>4, <1>5, <2>7
  <2>8. CASE i = 7
    BY <1>1, <1>2, <1>3, <1>4, <1>5, <2>8
  <2> QED
    BY <2>1, <2>2, <2>3, <2>4, <2>5, <2>6, <2>7, <2>8
<1> QED
  BY <1>1, <1>5

Sound(M, V) ==
  LET held == Held(M, V)
      here(field) == out[field] # << >>
  IN /\ \A field \in DOMAIN out \ {"code", "objects", "version", "lib", "partial"} :
          out[field] \in {<< >>, held[field]}
     /\ Prefix(out.code, held.code)
     /\ \E n \in 0 .. Len(M.objects) : out.objects = FirstObjects(M.objects, V, n)
     /\ \A i, j \in DOMAIN Order :
          i < j /\ (\E field \in Order[j] : here(field)) =>
            \A field \in Order[i] : out[field] = held[field]
     /\ here("lib") => [held EXCEPT !.lib = out.lib] = out

LEMMA FoundSound ==
  ASSUME NEW M \in Module, NEW V \in Nat, NEW k \in 2 .. 10, NEW x \in Fields, FoundTo(M, V, k, x)
  PROVE  Sound(M, V)
<1> DEFINE held == Held(M, V)
<1>1. /\ DOMAIN out = Fields
      /\ \A field \in Fields : field # x => out[field] = IF JobOf[field] < k THEN held[field] ELSE Nothing[field]
      /\ \/ JobOf[x] > k /\ out[x] = Nothing[x]
         \/ JobOf[x] = k /\ x \in Unended /\ PartOf(M, V, x, out[x])
         \/ k = 10 /\ x = "lib" /\ ~M.debug
         \/ JobOf[x] = k /\ out[x] = Nothing[x]
  BY DEF FoundTo
<1>14. out = [field \in Fields |-> out[field]]
  BY DEF FoundTo
<1>2. \A field \in Fields : JobOf[field] \in Nat
  <2>1. \A field \in Fields : JobOf[field] \in 2 .. 10
    BY JobOfSays
  <2>2. 2 .. 10 \subseteq Nat
    OBVIOUS
  <2> QED
    BY <2>1, <2>2
<1>3. JobOf["lib"] = 10 /\ "lib" \in Fields /\ "partial" \in Fields /\ JobOf["partial"] = 10
  <2>1. "lib" \in Fields /\ "partial" \in Fields
    BY DEF Fields
  <2> QED
    BY <2>1, JobOfSays
<1>4. JobOf[x] >= k
  BY <1>1, <1>2, <1>3
<1> HIDE DEF held
\* What is known before its job is done is in the one field.
<1>5. ASSUME NEW field \in Fields, out[field] # Nothing[field]
      PROVE  /\ JobOf[field] <= k
             /\ field # x => JobOf[field] < k /\ out[field] = held[field]
  <2>1. CASE field # x
    <3>1. JobOf[field] < k /\ out[field] = held[field]
      BY <1>1, <1>5, <2>1
    <3> QED
      BY <1>2, <3>1
  <2>2. CASE field = x
    BY <1>1, <1>2, <1>3, <1>5, <2>2
  <2> QED
    BY <2>1, <2>2
<1>6. ASSUME NEW f \in Fields, NEW g \in Fields, out[f] # Nothing[f], JobOf[g] < JobOf[f]
      PROVE  out[g] = held[g]
  <2>1. JobOf[f] <= k
    BY <1>5, <1>6
  <2>2. JobOf[g] < k
    BY <1>2, <1>6, <2>1
  <2>3. g # x
    BY <1>2, <1>4, <2>2
  <2> QED
    BY <1>1, <2>2, <2>3
<1>7. ASSUME NEW field \in DOMAIN out \ {"code", "objects", "version", "lib", "partial"}
      PROVE  out[field] \in {<< >>, held[field]}
  <2>1. field \in Fields /\ field \notin Unended /\ field # "version" /\ field # "lib" /\ field # "partial"
    BY <1>1, <1>7 DEF Unended
  <2>2. Nothing[field] = << >>
    BY <2>1, NothingSays DEF Fields, Unended
  <2>3. CASE out[field] = Nothing[field]
    BY <2>2, <2>3
  <2>4. CASE out[field] # Nothing[field]
    <3>1. field # x
      BY <1>1, <2>1, <2>4
    <3> QED
      BY <1>5, <2>1, <2>4, <3>1
  <2> QED
    BY <2>3, <2>4
<1>8. ASSUME NEW field \in Unended PROVE PartOf(M, V, field, out[field])
  <2>1. field \in Fields /\ Nothing[field] = << >> /\ field # "lib"
    BY <1>8, NothingSays DEF Unended, Fields
  <2>2. PartOf(M, V, field, << >>) /\ PartOf(M, V, field, held[field])
    BY <1>8, UnendedHeld DEF held
  <2>3. CASE out[field] = Nothing[field]
    BY <2>1, <2>2, <2>3
  <2>4. CASE out[field] # Nothing[field] /\ field # x
    <3>1. out[field] = held[field]
      BY <1>5, <2>1, <2>4
    <3> QED
      BY <2>2, <3>1
  <2>5. CASE out[field] # Nothing[field] /\ field = x
    BY <1>1, <2>1, <2>5
  <2> QED
    BY <2>3, <2>4, <2>5
<1>10. Prefix(out.code, held.code)
  <2>1. "code" \in Unended /\ "code" # "objects"
    BY DEF Unended
  <2>2. PartOf(M, V, "code", out["code"])
    BY <1>8, <2>1
  <2>3. held["code"] = M.code
    BY HeldSays DEF held
  <2> QED
    BY <2>1, <2>2, <2>3 DEF PartOf
<1>11. \E n \in 0 .. Len(M.objects) : out.objects = FirstObjects(M.objects, V, n)
  <2>1. "objects" \in Unended /\ "objects" # "code"
    BY DEF Unended
  <2>2. PartOf(M, V, "objects", out["objects"])
    BY <1>8, <2>1
  <2> QED
    BY <2>1, <2>2 DEF PartOf
<1>9. ASSUME NEW i \in DOMAIN Order, NEW j \in DOMAIN Order, i < j,
             NEW g \in Order[j], out[g] # << >>, NEW f \in Order[i]
      PROVE  out[f] = held[f]
  <2>1. i \in 1 .. 7 /\ j \in 1 .. 7
    BY OrderSays
  <2>2. f \in Fields /\ JobOf[f] = i + 2 /\ g \in Fields /\ JobOf[g] = j + 2 /\ Nothing[g] = << >>
    BY <1>9, <2>1, OrderSays
  <2>3. JobOf[f] < JobOf[g]
    BY <1>9, <2>1, <2>2
  <2> QED
    BY <1>6, <1>9, <2>2, <2>3
<1>13. ASSUME out["lib"] # << >> PROVE [held EXCEPT !["lib"] = out["lib"]] = out
  <2>1. out["lib"] # Nothing["lib"]
    BY <1>13, NothingSays
  <2>2. x = "lib"
    <3>1. "lib" # x => JobOf["lib"] < k
      BY <1>3, <1>5, <2>1
    <3>2. ~(10 < k)
      OBVIOUS
    <3> QED
      BY <1>3, <3>1, <3>2
  <2>3. k = 10 /\ ~M.debug
    <3>1. "lib" \notin Unended
      BY DEF Unended
    <3> QED
      BY <1>1, <2>1, <2>2, <3>1
  <2>4. ASSUME NEW field \in Fields, field # "lib" PROVE out[field] = held[field]
    <3>1. out[field] = IF JobOf[field] < k THEN held[field] ELSE Nothing[field]
      BY <1>1, <2>2, <2>4
    <3>2. CASE field = "partial"
      <4>1. out[field] = FALSE
        <5>1. ~(10 < 10)
          OBVIOUS
        <5> QED
          BY <1>3, <2>3, <3>1, <3>2, <5>1, NothingSays
      <4>2. held[field] = FALSE
        <5>1. held["partial"] = M.debug
          BY HeldSays DEF held
        <5>2. M.debug \in BOOLEAN
          BY ModuleSays, Zenon
        <5> QED
          BY <2>3, <3>2, <5>1, <5>2
      <4> QED
        BY <4>1, <4>2, Zenon
    <3>3. CASE field # "partial"
      <4>1. JobOf[field] \in 2 .. 10 /\ JobOf[field] # 10
        BY <2>4, <3>3, JobOfSays
      <4>2. JobOf[field] < 10
        BY <4>1
      <4> QED
        BY <2>3, <3>1, <4>2
    <3> QED
      BY <3>2, <3>3
  <2>5. held = [field \in Fields |-> held[field]]
    BY HeldIs DEF held
  <2> DEFINE h == [held EXCEPT !["lib"] = out["lib"]]
  <2>6. h = [field \in Fields |-> h[field]] /\ \A field \in Fields : h[field] = out[field]
    BY <1>3, <2>4, <2>5
  <2> HIDE DEF h
  <2>8. h = out
    BY <1>14, <2>6
  <2> QED
    BY <2>8 DEF h
<1> QED
  BY <1>7, <1>9, <1>10, <1>11, <1>13 DEF Sound, held


LEMMA CutSound ==
  ASSUME NEW M \in Module, NEW V \in Nat, CutBetween(M, V)
  PROVE  Sound(M, V)
<1>0. /\ \A k : DOMAIN Before(M, V, k) = Fields
      /\ \A k : \A x \in Fields : Before(M, V, k)[x] = IF JobOf[x] < k THEN Held(M, V)[x] ELSE Nothing[x]
      /\ \A k : Before(M, V, k) = [x \in Fields |-> Before(M, V, k)[x]]
  BY FieldsSay DEF Before
<1>1. /\ {"objects", "code", "lib", "partial"} \subseteq Fields
      /\ JobOf["objects"] = 7 /\ JobOf["code"] = 3 /\ JobOf["lib"] = 10 /\ JobOf["partial"] = 10
  <2>1. {"objects", "code", "lib", "partial"} \subseteq Fields
    BY DEF Fields
  <2> QED
    BY <2>1, JobOfSays
<1>2. 3 \in 2 .. 10 /\ 7 \in 2 .. 10 /\ 10 \in 2 .. 10
  OBVIOUS
\* Everything before job k, and one field as far as it was read.
<1>3. ASSUME NEW k \in 2 .. 10, NEW x \in Fields, NEW a, out = [Before(M, V, k) EXCEPT ![x] = a]
      PROVE  /\ out = [field \in Fields |-> out[field]] /\ out[x] = a
             /\ \A field \in Fields \ {x} :
                  out[field] = IF JobOf[field] < k THEN Held(M, V)[field] ELSE Nothing[field]
  <2> DEFINE f == Before(M, V, k)
  <2>1. f = [field \in Fields |-> f[field]] /\ DOMAIN f = Fields
    BY <1>0
  <2>2. \A field \in Fields : f[field] = IF JobOf[field] < k THEN Held(M, V)[field] ELSE Nothing[field]
    BY <1>0
  <2>3. out = [f EXCEPT ![x] = a]
    BY <1>3
  <2> HIDE DEF f
  <2>4. out = [field \in Fields |-> out[field]] /\ out[x] = a
    BY <2>1, <2>3
  <2>5. \A field \in Fields \ {x} : out[field] = f[field]
    BY <2>1, <2>3
  <2> QED
    BY <2>2, <2>4, <2>5
<1>4. CASE \E k \in 2 .. 10 : out = Before(M, V, k)
  <2>1. PICK k \in 2 .. 10 : out = Before(M, V, k)
    BY <1>4
  <2>2. out = [field \in Fields |-> out[field]]
    BY <1>0, <2>1
  <2>3. \A field \in Fields : out[field] = IF JobOf[field] < k THEN Held(M, V)[field] ELSE Nothing[field]
    BY <1>0, <2>1
  <2>4. "partial" \in Fields /\ out["partial"] = Nothing["partial"]
    <3>1. ~(10 < k)
      BY <2>1
    <3> QED
      BY <1>1, <2>3, <3>1
  <2>5. JobOf["partial"] > k \/ JobOf["partial"] = k
    BY <1>1, <2>1
  <2>6. FoundTo(M, V, k, "partial")
    BY <2>2, <2>3, <2>4, <2>5 DEF FoundTo
  <2> QED
    BY <2>1, <2>4, <2>6, FoundSound
<1>5. CASE \E i \in 0 .. Len(M.objects) : out = ObjectsOut(M, V, i)
  <2>1. PICK i \in 0 .. Len(M.objects) : out = ObjectsOut(M, V, i)
    BY <1>5
  <2> DEFINE a == ObjectsKnown(M, V, i)
  <2>2. out = [Before(M, V, 7) EXCEPT !["objects"] = a]
    BY <2>1 DEF ObjectsOut
  <2>3. PartOf(M, V, "objects", a)
    BY <2>1, ObjectsFound DEF PartOf
  <2> HIDE DEF a
  <2>4. "objects" \in Fields /\ "objects" \in Unended
    BY <1>1 DEF Unended
  <2>5. /\ out = [field \in Fields |-> out[field]] /\ out["objects"] = a
        /\ \A field \in Fields \ {"objects"} :
             out[field] = IF JobOf[field] < 7 THEN Held(M, V)[field] ELSE Nothing[field]
    BY <1>2, <1>3, <2>2, <2>4, Zenon
  <2>6. FoundTo(M, V, 7, "objects")
    BY <1>1, <2>3, <2>4, <2>5 DEF FoundTo
  <2> QED
    BY <1>2, <2>4, <2>6, FoundSound
<1>6. CASE \E n \in 0 .. Len(M.code) : out = CodeOut(M, V, n)
  <2>1. PICK n \in 0 .. Len(M.code) : out = CodeOut(M, V, n)
    BY <1>6
  <2> DEFINE a == FirstOf(M.code, n)
  <2>2. out = [Before(M, V, 3) EXCEPT !["code"] = a]
    BY <2>1 DEF CodeOut
  <2>3. PartOf(M, V, "code", a)
    <3>1. M.code \in Seq(Nat)
      BY ModuleSays, Zenon DEF WordSeqs
    <3>2. Prefix(a, M.code)
      BY <2>1, <3>1, PrefixSays
    <3> QED
      BY <3>2 DEF PartOf
  <2> HIDE DEF a
  <2>4. "code" \in Fields /\ "code" \in Unended
    BY <1>1 DEF Unended
  <2>5. /\ out = [field \in Fields |-> out[field]] /\ out["code"] = a
        /\ \A field \in Fields \ {"code"} :
             out[field] = IF JobOf[field] < 3 THEN Held(M, V)[field] ELSE Nothing[field]
    BY <1>2, <1>3, <2>2, <2>4, Zenon
  <2>6. FoundTo(M, V, 3, "code")
    BY <1>1, <2>3, <2>4, <2>5 DEF FoundTo
  <2> QED
    BY <1>2, <2>4, <2>6, FoundSound
<1>7. CASE ~M.debug /\ out = [Before(M, V, 10) EXCEPT !.lib = out.lib]
  <2> DEFINE a == out["lib"]
  <2>1. out = [Before(M, V, 10) EXCEPT !["lib"] = a]
    BY <1>7
  <2> HIDE DEF a
  <2>2. "lib" \in Fields
    BY <1>1
  <2>3. /\ out = [field \in Fields |-> out[field]]
        /\ \A field \in Fields \ {"lib"} :
             out[field] = IF JobOf[field] < 10 THEN Held(M, V)[field] ELSE Nothing[field]
    BY <1>2, <1>3, <2>1, <2>2, Zenon
  <2>4. FoundTo(M, V, 10, "lib")
    BY <1>7, <2>3 DEF FoundTo
  <2> QED
    BY <1>2, <2>2, <2>4, FoundSound
<1> QED
  BY <1>4, <1>5, <1>6, <1>7 DEF CutBetween

LEMMA HeldSound ==
  ASSUME NEW M \in Module, NEW V \in Nat, out = Held(M, V)
  PROVE  Sound(M, V)
<1> DEFINE held == Held(M, V)
<1>1. held = [field \in Fields |-> held[field]]
  BY HeldIs
<1>2. \A field \in Unended : PartOf(M, V, field, held[field])
  BY UnendedHeld
<1>3. out = held
  OBVIOUS
<1>4. held["code"] = M.code
  BY HeldSays
<1> HIDE DEF held
<1>6. Prefix(out.code, held.code) /\ \E n \in 0 .. Len(M.objects) : out.objects = FirstObjects(M.objects, V, n)
  <2>1. "code" \in Unended /\ "objects" \in Unended /\ "code" # "objects"
    BY DEF Unended
  <2>2. PartOf(M, V, "code", out["code"]) /\ PartOf(M, V, "objects", out["objects"])
    BY <1>2, <1>3, <2>1
  <2> QED
    BY <1>3, <1>4, <2>1, <2>2 DEF PartOf
<1>5. [held EXCEPT !.lib = out.lib] = out
  BY <1>1, <1>3
<1> QED
  BY <1>3, <1>5, <1>6 DEF Sound, held

\* Of a file that lost its end, and that is not called partial, each job was found
\* as it was or not at all, but for code and a library's vectors, and none without
\* those before it (readEmod of emod.js, the catch around its loop).
THEOREM CutFilesFoundWhole == FileSpec => []FoundWhole
<1>1. EmodInv => FoundWhole
  <2>1. SUFFICES ASSUME EmodInv, mode = "done", ~out.partial
                 PROVE  Sound(written[1].module, written[1].version)
    BY DEF FoundWhole, Sound
  <2>2. CASE written = << >> /\ FileInit
    BY <2>1, <2>2 DEF FileInit
  <2>3. CASE \E w : /\ written = <<w>>
                    /\ FileInv(w.module, w.version, Whole(w)) /\ ReaderInv(w.module, w.version, Whole(w))
    <3>1. PICK w : /\ written = <<w>>
                   /\ FileInv(w.module, w.version, Whole(w)) /\ ReaderInv(w.module, w.version, Whole(w))
      BY <2>3
    <3>2. written[1] = w
      BY <3>1
    <3>3. DoneInv(w.module, w.version)
      BY <2>1, <3>1, Modes
    <3>4. w.module \in Module /\ w.version \in Nat
      BY <3>1, FileSays
    <3>5. CutBetween(w.module, w.version) \/ out = Held(w.module, w.version)
      BY <2>1, <3>3 DEF DoneInv, Thrown
    <3>6. Sound(w.module, w.version)
      BY <3>4, <3>5, CutSound, HeldSound
    <3> QED
      BY <3>2, <3>6
  <2> QED
    BY <2>1, <2>2, <2>3 DEF EmodInv
<1> QED
  BY <1>1, EmodInvHolds, PTL

=============================================================================
