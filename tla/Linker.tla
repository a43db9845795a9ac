------------------------------- MODULE Linker -------------------------------
(***************************************************************************)
(* Which definition does a name mean?  sem.js registers the modules a      *)
(* program imports, and those they import in turn; codegen.js then gives   *)
(* out labels, first come, first served, and binds the placeholder calls   *)
(* of the binary modules to them.  The two passes have no names in common  *)
(* but the strings themselves, so the question is whether they agree, and  *)
(* whether a module's calls reach the module it meant.                     *)
(***************************************************************************)
EXTENDS Integers, Sequences, SequencesExt

CONSTANTS
  Names,       \* names that MODULE statements and modules' MODINFO use
  Found,       \* what resolveModule answers for a name: a file, or Missing
  Procs,       \* names of procedures, and of labels in binary modules
  Classes,     \* names of classes
  ProgramMay,  \* names the program may give its own procedures
  MaxImports   \* bound: names in the program's MODULE statements

\* A file is a source module or a binary one.  procs are its exported PROCs, places
\* its exported labels, refs what it calls in other modules (MODINFO).
Missing == [kind |-> "missing", procs |-> {}, places |-> {}, classes |-> {}, refs |-> {}]

Main == "the program"
None == "none"
Owners == Names \cup {Main, None}

Refs == [sub : Names, symbol : Procs \cup Classes, to : {"proc", "class"}]

ASSUME LinkerAssumption ==
  /\ \A n \in Names :
       /\ Found[n].kind \in {"source", "binary", "missing"}
       /\ Found[n].procs \cup Found[n].places \subseteq Procs
       /\ Found[n].classes \subseteq Classes
       /\ Found[n].refs \subseteq Refs
       /\ Found[n].kind # "binary" => Found[n].refs = {}
  /\ ProgramMay \subseteq Procs
  /\ MaxImports \in Nat
  /\ Main \notin Names /\ None \notin Names

VARIABLES
  program,   \* the program's own procedures
  imported,  \* names imported so far by MODULE statements
  stack,     \* the registrations under way: a module and its refs still to do
  loaded,    \* _binLoaded
  procs,     \* sem.procs: whose procedure a name is
  binary,    \* sem.binaryProcs
  classes,   \* sem.binaryClasses: whose class a name is
  linked,    \* sem.binaryModules
  sources,   \* sem.importedProcs, with the module they came from
  proc,      \* the owner of label proc_X
  descr,     \* the owner of label moddescr_X
  done,      \* binary modules emitted
  phase      \* "imports", "procs", "link", "finished"

semVars == <<imported, stack, loaded, procs, binary, classes, linked, sources>>
genVars == <<proc, descr, done>>
vars == <<program, semVars, genVars, phase>>

-----------------------------------------------------------------------------
Init ==
  /\ program \in SUBSET ProgramMay
  /\ imported = 0
  /\ stack = <<>>
  /\ loaded = {}
  /\ procs = [p \in Procs |-> None]
  /\ binary = {}
  /\ classes = [c \in Classes |-> None]
  /\ linked = <<>>
  /\ sources = {}
  /\ proc = [p \in Procs |-> None]
  /\ descr = [c \in Classes |-> None]
  /\ done = 0
  /\ phase = "imports"

\* Names that have no owner yet get one.
FirstWins(owner, S, n) ==
  [x \in DOMAIN owner |-> IF x \in S /\ owner[x] = None THEN n ELSE owner[x]]

-----------------------------------------------------------------------------
(* sem.js.                                                                 *)

\* registerBinaryModule up to its loop over MODINFO, for a module that is not yet
\* loaded.  below is the stack without it.
Register(n, below) ==
  LET f == Found[n]
  IN /\ loaded' = loaded \cup {n}
     /\ classes' = FirstWins(classes, f.classes, n)
     /\ procs' = FirstWins(procs, f.procs, n)
     /\ binary' = binary \cup {p \in f.procs : procs[p] = None}
     /\ linked' = Append(linked, n)
     /\ stack' = Append(below, [name |-> n, todo |-> f.refs])

\* A module that was registered under this name before is passed over.
IsLoadedNever(n) == FALSE

IsLoaded(n) == n \in loaded

\* The procedures of a source module that are taken over: those of names that have
\* no owner yet.
NewExports(n) == {p \in Found[n].procs : procs[p] = None}

\* One name of a MODULE statement (or of the implicit ones).
Import(n) ==
  /\ phase = "imports" /\ stack = <<>>
  /\ imported < MaxImports
  /\ imported' = imported + 1
  /\ CASE Found[n].kind = "binary" /\ ~IsLoaded(n) ->
            Register(n, <<>>) /\ UNCHANGED sources
       [] Found[n].kind = "source" ->
            /\ sources' = sources \cup {[name |-> p, from |-> n] : p \in NewExports(n)}
            /\ procs' = FirstWins(procs, Found[n].procs, n)
            /\ UNCHANGED <<stack, loaded, binary, classes, linked>>
       [] OTHER ->
            UNCHANGED <<stack, loaded, procs, binary, classes, linked, sources>>
  /\ UNCHANGED <<program, genVars, phase>>

Top == Last(stack)

FollowKeepsEntry ==
  /\ phase = "imports" /\ stack # <<>>
  /\ \E r \in Top.todo :
       IF ~IsLoaded(r.sub) /\ Found[r.sub].kind = "binary"
       THEN Register(r.sub, stack)
       ELSE UNCHANGED <<stack, loaded, procs, binary, classes, linked>>
  /\ UNCHANGED <<program, imported, sources, genVars, phase>>

FollowOneEntry ==
  /\ phase = "imports" /\ stack # <<>>
  /\ \E r \in Top.todo :
       LET rest == Append(Front(stack), [Top EXCEPT !.todo = {}])
       IN IF ~IsLoaded(r.sub) /\ Found[r.sub].kind = "binary"
          THEN Register(r.sub, rest)
          ELSE stack' = rest /\ UNCHANGED <<loaded, procs, binary, classes, linked>>
  /\ UNCHANGED <<program, imported, sources, genVars, phase>>

\* One entry of the MODINFO of the module on top: the module it names is registered
\* in turn.  One that is source, or that is not found, is passed over.
Follow ==
  /\ phase = "imports" /\ stack # <<>>
  /\ \E r \in Top.todo :
       LET rest == Append(Front(stack), [Top EXCEPT !.todo = @ \ {r}])
       IN IF ~IsLoaded(r.sub) /\ Found[r.sub].kind = "binary"
          THEN Register(r.sub, rest)
          ELSE stack' = rest /\ UNCHANGED <<loaded, procs, binary, classes, linked>>
  /\ UNCHANGED <<program, imported, sources, genVars, phase>>

\* Every entry is done.
Registered ==
  /\ phase = "imports" /\ stack # <<>>
  /\ Top.todo = {}
  /\ stack' = Front(stack)
  /\ UNCHANGED <<program, imported, loaded, procs, binary, classes, linked, sources, genVars, phase>>

\* Pass 2: the program's own procedures replace whatever has their name.
CollectProcs ==
  /\ phase = "imports" /\ stack = <<>>
  /\ procs' = [p \in Procs |-> IF p \in program THEN Main ELSE procs[p]]
  /\ phase' = "procs"
  /\ UNCHANGED <<program, imported, stack, loaded, binary, classes, linked, sources, genVars>>

-----------------------------------------------------------------------------
(* codegen.js.                                                             *)

EmitImportedFirst ==
  /\ phase = "procs"
  /\ proc' = [p \in Procs |->
                IF \E s \in sources : s.name = p
                THEN (CHOOSE s \in sources : s.name = p).from
                ELSE IF p \in program THEN Main ELSE None]
  /\ phase' = "link"
  /\ UNCHANGED <<program, semVars, descr, done>>

\* The program's procedures, then imported ones whose label does not exist yet.
EmitProcs ==
  /\ phase = "procs"
  /\ proc' = [p \in Procs |->
                IF p \in program THEN Main
                ELSE IF \E s \in sources : s.name = p
                     THEN (CHOOSE s \in sources : s.name = p).from
                     ELSE None]
  /\ phase' = "link"
  /\ UNCHANGED <<program, semVars, descr, done>>

\* The classes whose descriptor builder is looked for in the code of module n.
BuildersAnywhere(n) == {c \in Classes : classes[c] # None}

Builders(n) == {c \in Classes : classes[c] = n}

\* One module of emitBinaryModules: its procedures and labels, then the descriptor
\* builders of the classes that sem has from it.
EmitModule ==
  /\ phase = "link"
  /\ done < Len(linked)
  /\ LET n == linked[done + 1]
     IN /\ proc' = FirstWins(proc, Found[n].procs \cup Found[n].places, n)
        /\ descr' = FirstWins(descr, Builders(n), n)
  /\ done' = done + 1
  /\ UNCHANGED <<program, semVars, phase>>

Finish ==
  /\ phase = "link"
  /\ done = Len(linked)
  /\ phase' = "finished"
  /\ UNCHANGED <<program, semVars, genVars>>

\* Where the placeholder call of a reference leads in the end: to the label of the
\* symbol, or to address 0 when no linked module is known for it.
BoundIfClass(r) ==
  IF r.to = "class" /\ classes[r.symbol] # None THEN descr[r.symbol] ELSE None

Bound(r) ==
  IF r.to = "proc"
  THEN IF r.symbol \in binary THEN proc[r.symbol] ELSE None
  ELSE IF classes[r.symbol] # None THEN descr[r.symbol] ELSE None

-----------------------------------------------------------------------------
Registering == Follow \/ Registered

Next ==
  \/ \E n \in Names : Import(n)
  \/ Registering
  \/ CollectProcs \/ EmitProcs \/ EmitModule \/ Finish

Spec == Init /\ [][Next]_vars

\* The compiler is one sequential pass; which modules a program imports is up to
\* the program.
FairSpec == Spec /\ WF_vars(Registering) /\ WF_vars(CollectProcs \/ EmitProcs \/ EmitModule \/ Finish)

-----------------------------------------------------------------------------
(* Invariants.                                                             *)

TypeOK ==
  /\ program \subseteq ProgramMay
  /\ imported \in 0..MaxImports
  /\ stack \in Seq([name : Names, todo : SUBSET Refs])
  /\ loaded \subseteq Names
  /\ procs \in [Procs -> Owners]
  /\ binary \subseteq Procs
  /\ classes \in [Classes -> Owners]
  /\ linked \in Seq(Names)
  /\ sources \subseteq [name : Procs, from : Names]
  /\ proc \in [Procs -> Owners]
  /\ descr \in [Classes -> Owners]
  /\ done \in 0..Len(linked)
  /\ phase \in {"imports", "procs", "link", "finished"}

\* A module is linked once, however many import it: its private variables exist
\* once.
LinkedOnce == IsInjective(linked) /\ IsInjective([i \in DOMAIN stack |-> stack[i].name])

LinkedNames == {linked[i] : i \in DOMAIN linked}

\* When the program has been analysed, every binary module that a linked module
\* refers to is linked as well, though the references may go round in circles.
ClosureLinked ==
  phase # "imports" => \A n \in LinkedNames : \A r \in Found[n].refs :
    Found[r.sub].kind = "binary" => r.sub \in LinkedNames

Exports(n, r) ==
  r.symbol \in (IF r.to = "proc" THEN Found[n].procs ELSE Found[n].classes)

\* "an unbound jsr is a jump to address 0": a reference to something a linked module
\* exports is bound, and to the module it names: isalnum of tools/ctype is nobody
\* else's isalnum.
ReferencesLand ==
  phase = "finished" => \A n \in LinkedNames : \A r \in Found[n].refs :
    Exports(r.sub, r) =>
      Bound(r) \in {r.sub} \cup (IF Found[r.sub].kind = "binary" THEN {} ELSE {None})

\* The procedure that sem checked a call against is the one the call reaches.
PassesAgree ==
  phase = "finished" => \A p \in Procs : procs[p] # None => proc[p] = procs[p]

-----------------------------------------------------------------------------
\* Registration ends, and with it the compilation.
LinkingEnds == stack # <<>> ~> phase = "finished"
=============================================================================
