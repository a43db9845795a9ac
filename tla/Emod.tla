-------------------------------- MODULE Emod --------------------------------
(***************************************************************************)
(* Binary modules: the writer of interface modules (emodwrite.js) and the   *)
(* reader (emod.js), which also reads what the original compiler writes.    *)
(* A file is a sequence of words, after the magic a sequence of jobs; only  *)
(* some of them say how long they are.  A name is a sequence of words, its  *)
(* characters and the NULs that pad it; a long is two words.                *)
(*                                                                          *)
(* The reader goes through the file with a position o, one action for each  *)
(* turn of one of its loops.                                                *)
(***************************************************************************)
EXTENDS Integers, Sequences

CONSTANTS
  Half,        \* words from here on are negative (32768)
  Modules,     \* the modules that are written, see Module
  Versions     \* versions of the format

Done == 0
Magic == <<17741, 20292>>                    \* EMOD
End == Half + Half - 1                       \* 0xffff
SkipMark == Half                             \* 0x8000

Long(n) == <<n \div (2 * Half), n % (2 * Half)>>
LongZero == <<0, 0>>
Bytes(words) == 2 * Len(words)

-----------------------------------------------------------------------------
(* What a module holds.                                                    *)

Word == 0 .. End
LongWord == 0 .. 4 * Half * Half - 1
Ref == 1 .. 4 * Half * Half - 1
Name == {name \in Seq(Word) : name # << >> /\ Bytes(name) < Half}
Chars == Seq(1 .. 255)

Const == [name : Name, value : LongWord]
Member == [name : Name, val : Word, offset : Word, type : Name \cup {<< >>}]
Method == [name : Name, slot : Word, args : Word, defaults : Seq(LongWord)]
Object == [name : Name, members : Seq(Member), size : Word, methods : Seq(Method),
           oacc : Seq(LongWord), delcode : LongWord, odeloff : Word]
Proc == [name : Name, offset : LongWord, kind : {"proc", "label"}, args : Word,
         defaults : Seq(LongWord), extra : Seq(Word)]
Reloc == [offset : LongWord, ifunc : BOOLEAN]
Xref == [name : Name, refs : Seq(Ref)]
Place == [coff : LongWord, type : Word]
Use == [submodule : Name, symbol : Name, kind : 1 .. End, refs : Seq(Place)]
Vector == [name : Seq(33 .. 254), regs : Seq(0 .. 15)]
Library == [name : Chars, base : Chars, funcs : Seq(Vector)]

Empty == [consts |-> << >>, objects |-> << >>, code |-> << >>, relocs |-> << >>,
          procs |-> << >>, xrefs |-> << >>, drels |-> << >>, modinfo |-> << >>,
          lib |-> << >>, debug |-> FALSE]

\* An intrinsic's offset has 24 bits, another's sign bit is clear; what is not there
\* has no attributes; without code there is nothing that belongs to it.
Module ==
  {m \in [consts : Seq(Const), objects : Seq(Object), code : Seq(Word), relocs : Seq(Reloc),
          procs : Seq(Proc), xrefs : Seq(Xref), drels : Seq(Seq(Ref)),
          modinfo : Seq(Use), lib : Seq(Library), debug : BOOLEAN] :
     /\ Len(m.code) % 2 = 0
     /\ \A i \in DOMAIN m.relocs :
          m.relocs[i].offset < IF m.relocs[i].ifunc THEN 512 * Half ELSE 2 * Half * Half
     /\ \A i \in DOMAIN m.procs :
          m.procs[i].kind = "label" => m.procs[i].args = 0 /\ m.procs[i].defaults = << >>
     /\ \A i \in DOMAIN m.modinfo : \A j \in DOMAIN m.modinfo[i].refs :
          m.modinfo[i].kind = 2 => m.modinfo[i].refs[j].type = 0
     /\ Len(m.lib) <= 1
     /\ \A i \in DOMAIN m.lib : \A j \in DOMAIN m.lib[i].funcs :
          m.lib[i].funcs[j].name = << >> => m.lib[i].funcs[j].regs = << >>
     /\ m.code = << >> =>
          <<m.relocs, m.procs, m.xrefs, m.drels, m.modinfo>> = << << >>, << >>, << >>, << >>, << >> >>}

ASSUME EmodAssumption ==
  /\ Half \in Nat /\ Half > 255 /\ Half % 256 = 0
  /\ Modules \subseteq Module
  /\ Versions \subseteq 0 .. Half - 1

VARIABLES
  file,
  written,     \* <<what was written, in which version of the format, by whom>>
  cut,         \* whether the file lost its end
  mode,        \* the loop of the reader
  o,           \* its position
  part,        \* the entry that an inner loop is filling
  todo,        \* how many turns a loop that counts still has
  out          \* what the module is known to hold

source == <<file, written, cut>>
fileVars == <<source, mode, o, part, todo, out>>

-----------------------------------------------------------------------------
(* The writers.                                                            *)

\* The words of all sequences from the i-th on.
From(seqs, i) ==
  LET last[k \in 0 .. Len(seqs)] ==
        IF k = 0 THEN << >> ELSE seqs[Len(seqs) + 1 - k] \o last[k - 1]
  IN last[Len(seqs) + 1 - i]
Flat(seqs) == From(seqs, 1)

\* The long before a job's body that says its size, in versions that have one.
SizeOf(version, body) == IF version >= 6 THEN Long(Bytes(body)) ELSE << >>

Named(name) == <<Bytes(name)>> \o name

LongsOf(longs) == [i \in DOMAIN longs |-> Long(longs[i])]

\* writeEmod: the header as ec emits it
SysJob(version) ==
  <<5, 0, 0, 0>> \o Long(4096) \o <<0, 0, 0, version, 0, 0>>
  \o IF version > 10 THEN LongZero ELSE << >>

ConstWords(consts) ==
  [i \in DOMAIN consts |-> <<Bytes(consts[i].name)>> \o Long(consts[i].value) \o consts[i].name]

ConstJob(version, consts) ==
  LET body == Flat(ConstWords(consts)) \o <<0>>
  IN IF consts = << >> THEN << >> ELSE <<1>> \o SizeOf(version, body) \o body

\* A member's type word, which the reader passes over: negative in front of a type's name.
TypeWords(version, type) ==
  IF version < 6 THEN << >> ELSE IF type = << >> THEN <<0>> ELSE <<End>> \o Named(type)

MemberWords(version, members) ==
  [i \in DOMAIN members |->
     <<Bytes(members[i].name), members[i].val, members[i].offset>> \o members[i].name
     \o TypeWords(version, members[i].type)]

\* Methods and what follows them: the original compiler's classes.
MethodWords(methods) ==
  [i \in DOMAIN methods |->
     <<1, methods[i].slot>> \o Named(methods[i].name)
     \o <<methods[i].args, Len(methods[i].defaults)>> \o Flat(LongsOf(methods[i].defaults))]

AccessWords(oacc) == [i \in DOMAIN oacc |-> <<0>> \o Long(oacc[i])]

ClassWords(obj) ==
  IF obj.methods = << >> THEN <<0>>
  ELSE (<<4 * Len(obj.methods) + 4>> \o Long(obj.delcode) \o <<0, obj.odeloff, 0>>)
       \o (Flat(MethodWords(obj.methods)) \o <<End>> \o (Flat(AccessWords(obj.oacc)) \o <<End>>))

ObjJob(version, obj) ==
  LET body == <<Bytes(obj.name), End, 0>> \o obj.name
              \o (Flat(MemberWords(version, obj.members)) \o <<0, obj.size>>
                  \o IF version >= 7 THEN ClassWords(obj) ELSE << >>)
  IN <<2>> \o SizeOf(version, body) \o body

ObjJobs(version, objects) == [i \in DOMAIN objects |-> ObjJob(version, objects[i])]

\* writeEmod(): objects, constants, padding to a whole long.
WriteEmod(m) ==
  LET all == Flat(<<Magic, SysJob(10), Flat(ObjJobs(10, m.objects)), ConstJob(10, m.consts), <<Done>> >>)
  IN all \o IF Len(all) % 2 = 1 THEN <<0>> ELSE << >>

\* The original compiler's modules: code and what belongs to it.
ProcWords(procs) ==
  LET kind(p) == IF p.kind = "label" THEN <<2>>
                 ELSE <<1, p.args, 0, Len(p.defaults)>>
                      \o (Flat(LongsOf(p.defaults)) \o <<Bytes(p.extra)>> \o p.extra)
  IN [i \in DOMAIN procs |-> Named(procs[i].name) \o Long(procs[i].offset) \o kind(procs[i])]

RelocWords(relocs) ==
  [i \in DOMAIN relocs |->
     Long(relocs[i].offset + IF relocs[i].ifunc THEN 2 * Half * Half ELSE 0)]

\* References up to a 0, with a word after each from version 10 on.
RefWords(version, refs) ==
  [i \in DOMAIN refs |-> Long(refs[i]) \o IF version >= 10 THEN <<0>> ELSE << >>]
RefList(version, refs) == Flat(RefWords(version, refs)) \o LongZero

XrefWords(version, xrefs) ==
  [i \in DOMAIN xrefs |-> Named(xrefs[i].name) \o RefList(version, xrefs[i].refs)]
DrelWords(version, drels) == [i \in DOMAIN drels |-> <<0>> \o RefList(version, drels[i])]

\* References to a class have their type, those to a procedure a flag.
PlaceWords(kind, refs) ==
  [i \in DOMAIN refs |-> Long(refs[i].coff) \o IF kind = 2 THEN << >> ELSE <<refs[i].type>>]
SymbolWords(use) ==
  <<use.kind>> \o Named(use.symbol) \o (IF use.kind = 2 THEN <<0>> ELSE << >>) \o <<Len(use.refs)>>
UseWords(uses) ==
  [i \in DOMAIN uses |->
     Named(uses[i].submodule)
     \o (SymbolWords(uses[i]) \o (Flat(PlaceWords(uses[i].kind, uses[i].refs)) \o <<0>>))]

CodeJob(code) == <<3>> \o Long(Len(code) \div 2) \o code
ProcsJob(procs) == <<4>> \o (Flat(ProcWords(procs)) \o <<0>>)
RelocsJob(relocs) == <<7>> \o Long(Len(relocs)) \o Flat(RelocWords(relocs))
GlobsJob(version, xrefs, drels) ==
  <<8>> \o (IF version >= 10 THEN <<SkipMark, 0, 0>> ELSE << >>)
  \o (Flat(XrefWords(version, xrefs)) \o (Flat(DrelWords(version, drels)) \o <<End>>))
ModinfoJob(modinfo) == <<9, 0, 0>> \o (Flat(UseWords(modinfo)) \o <<0>>)

\* From here on a file is bytes, one per element: names, register numbers
\* below 16, 16 for an empty slot or no registers, 255 for the end.
VectorBytes(funcs) ==
  [i \in DOMAIN funcs |->
     IF funcs[i].name = << >> THEN <<16>>
     ELSE funcs[i].name \o IF funcs[i].regs = << >> THEN <<16>> ELSE funcs[i].regs]
LibJob(lib) == <<6>> \o lib.name \o <<0>> \o lib.base \o <<0>> \o (Flat(VectorBytes(lib.funcs)) \o <<255>>)

LastJob(m) ==
  IF m.debug THEN <<10, 1, 1>> ELSE (IF m.lib = << >> THEN << >> ELSE LibJob(m.lib[1])) \o <<Done>>

\* In the order of the modules that the repository keeps (src/modules).
JobsOf(m, version) ==
  LET coded(job) == IF m.code = << >> THEN << >> ELSE job
  IN <<Magic, SysJob(version), coded(CodeJob(m.code)), coded(RelocsJob(m.relocs)),
       coded(ProcsJob(m.procs)), coded(GlobsJob(version, m.xrefs, m.drels)),
       Flat(ObjJobs(version, m.objects)), ConstJob(version, m.consts),
       coded(ModinfoJob(m.modinfo)), LastJob(m)>>

WriteModule(m, version) == Flat(JobsOf(m, version))

-----------------------------------------------------------------------------
(* Reading.                                                                *)

Has(i) == i <= Len(file)

\* l(), and what there is of n words, of a name: str() and subarray() never throw.
LongAt(i) == file[i] * (2 * Half) + file[i + 1]
WordsAt(i, n) == SubSeq(file, i, IF i + n - 1 > Len(file) THEN Len(file) ELSE i + n - 1)
NameAt(i, bytes) == WordsAt(i, bytes \div 2)
IsNegative(w) == w >= Half

\* set() of the maps of constants, of members and of objects: a name that is there
\* already has the new value from then on.
Put(map, name, value) == [n \in DOMAIN map \cup {name} |-> IF n = name THEN value ELSE map[n]]

Goto(loop, at) == mode' = loop /\ o' = at
Same == UNCHANGED <<source, part, todo, out>>

\* Mutant: the end of the file ends the reading.
ThrowNothing == mode' = "done" /\ UNCHANGED <<source, o, part, todo, out>>

\* A read over the end throws, and the module is called partial.
Throw ==
  /\ mode' = "done"
  /\ out' = [out EXCEPT !.partial = TRUE]
  /\ UNCHANGED <<source, o, part, todo>>

\* A turn that reads up to word i.  (What a turn that throws has found of its entry is
\* left out.)
Reading(i, turn) == IF Has(i) THEN turn ELSE Throw

Nothing ==
  [version |-> 0, consts |-> << >>, objects |-> << >>, code |-> << >>, relocs |-> << >>,
   procs |-> << >>, xrefs |-> << >>, drels |-> << >>, modinfo |-> << >>, lib |-> << >>,
   partial |-> FALSE]

Start ==
  /\ written # << >> /\ mode = "start"
  /\ IF Len(file) >= 3 /\ SubSeq(file, 1, 2) = Magic THEN Goto("jobs", 3) ELSE Goto("error", o)
  /\ Same

-----------------------------------------------------------------------------
(* The jobs, up to DONE, a library, or one that is not known.              *)

AtJob(job) == mode = "jobs" /\ Has(o) /\ file[o] = job

JobsEnd == mode = "jobs" /\ (Has(o) => file[o] = Done) /\ Goto("done", o) /\ Same

UnknownJob == mode = "jobs" /\ Has(o) /\ file[o] \notin 0 .. 9 /\ Throw

\* Mutant: the longer header a version too early.
SysRestLong(version) == IF version >= 10 THEN 4 ELSE 2

\* The words after the version.
SysRest(version) == IF version > 10 THEN 4 ELSE 2

Sys ==
  /\ AtJob(5)
  /\ Reading(o + 9,
       /\ out' = [out EXCEPT !.version = file[o + 9]]
       /\ Goto("jobs", o + 10 + SysRest(file[o + 9]))
       /\ UNCHANGED <<source, part, todo>>)

\* Where a job's body begins.
Body == o + 1 + IF out.version >= 6 THEN 2 ELSE 0

Consts == AtJob(1) /\ Goto("consts", Body) /\ Same

Obj ==
  /\ AtJob(2)
  /\ Reading(Body,
       /\ part' = [name |-> NameAt(Body + 3, file[Body]), members |-> << >>]
       /\ Goto("members", Body + 3 + file[Body] \div 2)
       /\ UNCHANGED <<source, todo, out>>)

Code ==
  /\ AtJob(3)
  /\ Reading(o + 2,
       /\ out' = [out EXCEPT !.code = WordsAt(o + 3, 2 * LongAt(o + 1))]
       /\ Goto("jobs", o + 3 + 2 * LongAt(o + 1))
       /\ UNCHANGED <<source, part, todo>>)

ProcTable == AtJob(4) /\ Goto("procs", o + 1) /\ Same

Relocs ==
  /\ AtJob(7)
  /\ Reading(o + 2, todo' = LongAt(o + 1) /\ Goto("relocs", o + 3) /\ UNCHANGED <<source, part, out>>)

Globs ==
  /\ AtJob(8)
  /\ Reading(o + 1, Goto("globs", IF file[o + 1] = SkipMark THEN o + 4 ELSE o + 1) /\ Same)

Modinfo == AtJob(9) /\ Goto("submodules", o + 3) /\ Same

\* Bytes up to one that is not in the set.
Scan(from, bytes) ==
  LET stops == {j \in from .. Len(file) : file[j] \notin bytes}
      to == IF stops # {} THEN CHOOSE j \in stops : \A k \in stops : j <= k
            ELSE IF from > Len(file) THEN from ELSE Len(file) + 1
  IN [v |-> SubSeq(file, from, to - 1), o |-> to]

Text == 1 .. End
NameChars == 33 .. End
Regs == 0 .. 15

\* The vectors of a library go from -30 in steps of -6.
Lib ==
  LET name == Scan(o + 1, Text)
      base == Scan(name.o + 1, Text)
  IN /\ AtJob(6)
     /\ part' = [name |-> name.v, base |-> base.v, funcs |-> << >>, offset |-> -30]
     /\ Goto("vectors", base.o + 1)
     /\ UNCHANGED <<source, todo, out>>

Jobs == JobsEnd \/ UnknownJob \/ Sys \/ Consts \/ Obj \/ Code \/ ProcTable \/ Relocs \/ Globs \/ Modinfo \/ Lib

-----------------------------------------------------------------------------
(* The loops.  Most turns begin with a word.                               *)

WordFirst == {"consts", "members", "class", "methods", "oacc", "procs", "globs",
              "submodules", "symbols"}

FirstWordMissing == mode \in WordFirst /\ ~Has(o) /\ Throw

\* The word that ends the loop.
Ends(loop, word) == mode = loop /\ Has(o) /\ file[o] = word

ConstsEnd == Ends("consts", 0) /\ Goto("jobs", o + 1) /\ Same

ReadConst ==
  /\ mode = "consts" /\ Has(o) /\ file[o] # 0
  /\ Reading(o + 2,
       /\ out' = [out EXCEPT !.consts =
                    Put(@, NameAt(o + 3, file[o]), LongAt(o + 1))]
       /\ Goto("consts", o + 3 + file[o] \div 2)
       /\ UNCHANGED <<source, part, todo>>)

\* The object is put into the module before its class is read.
MembersEnd ==
  /\ Ends("members", 0)
  /\ Reading(o + 1,
       /\ out' = [out EXCEPT !.objects =
                    Put(@, part.name,
                        [name |-> part.name, members |-> part.members, size |-> file[o + 1],
                         methods |-> << >>, oacc |-> << >>, delcode |-> 0, odeloff |-> 0])]
       /\ Goto(IF out.version >= 7 THEN "class" ELSE "jobs", o + 2)
       /\ UNCHANGED <<source, part, todo>>)

ReadMember ==
  LET type == o + 3 + file[o] \div 2
      add == part' = [part EXCEPT !.members =
                        Put(@, NameAt(o + 3, file[o]), [offset |-> file[o + 2], val |-> file[o + 1]])]
      kept == add /\ UNCHANGED <<source, todo, out>>
  IN
  /\ mode = "members" /\ Has(o) /\ file[o] # 0
  /\ Reading(o + 2,
       IF out.version < 6 THEN kept /\ Goto("members", type)
       ELSE Reading(type,
         IF ~IsNegative(file[type]) THEN kept /\ Goto("members", type + 1)
         ELSE Reading(type + 1,
           kept /\ Goto("members", type + 2 + file[type + 1] \div 2))))

NoClass == Ends("class", 0) /\ Goto("jobs", o + 1) /\ Same

Class ==
  /\ mode = "class" /\ Has(o) /\ file[o] # 0
  /\ Reading(o + 5,
       /\ out' = [out EXCEPT !.objects[part.name] =
                    [@ EXCEPT !.delcode = LongAt(o + 1), !.odeloff = file[o + 4]]]
       /\ Goto("methods", o + 6)
       /\ UNCHANGED <<source, part, todo>>)

MethodsEnd == Ends("methods", End) /\ Goto("oacc", o + 1) /\ Same

ReadMethod ==
  LET args == o + 3 + file[o + 2] \div 2 IN
  /\ mode = "methods" /\ Has(o) /\ file[o] # End
  /\ Reading(o + 2, Reading(args + 1,
       /\ out' = [out EXCEPT !.objects[part.name].methods =
                    Append(@, [name |-> NameAt(o + 3, file[o + 2]), slot |-> file[o + 1],
                               args |-> file[args]])]
       /\ Goto("methods", args + 2 + 2 * file[args + 1])
       /\ UNCHANGED <<source, part, todo>>))

OaccEnd == Ends("oacc", End) /\ Goto("jobs", o + 1) /\ Same

ReadAccess ==
  /\ mode = "oacc" /\ Has(o) /\ file[o] # End
  /\ Reading(o + 2,
       /\ out' = [out EXCEPT !.objects[part.name].oacc = Append(@, LongAt(o + 1))]
       /\ Goto("oacc", o + 3)
       /\ UNCHANGED <<source, part, todo>>)

Objects == MembersEnd \/ ReadMember \/ NoClass \/ Class \/ MethodsEnd \/ ReadMethod \/ OaccEnd \/ ReadAccess

ProcsEnd ==
  mode = "procs" /\ Has(o) /\ (file[o] = 0 \/ IsNegative(file[o])) /\ Goto("jobs", o + 1) /\ Same

\* A tag that is neither a procedure's nor a label's ends the reading.
ReadProc ==
  LET offset == o + 1 + file[o] \div 2
      tag == file[offset + 2]
      head == [name |-> NameAt(o + 1, file[o]), offset |-> LongAt(offset)]
  IN
  /\ mode = "procs" /\ Has(o) /\ 0 < file[o] /\ ~IsNegative(file[o])
  /\ Reading(offset + 2,
       CASE tag = 1 ->
              Reading(offset + 5,
                /\ part' = [name |-> head.name, offset |-> head.offset, args |-> file[offset + 3],
                            defaults |-> << >>]
                /\ todo' = file[offset + 5]
                /\ Goto("defaults", offset + 6)
                /\ UNCHANGED <<source, out>>)
         [] tag = 2 ->
              /\ out' = [out EXCEPT !.procs =
                           Append(@, [name |-> head.name, offset |-> head.offset, kind |-> "label",
                                      args |-> 0, defaults |-> << >>])]
              /\ Goto("procs", offset + 3)
              /\ UNCHANGED <<source, part, todo>>
         [] OTHER -> Throw)

ReadDefault ==
  /\ mode = "defaults" /\ todo > 0
  /\ Reading(o + 1,
       /\ part' = [part EXCEPT !.defaults = Append(@, LongAt(o))]
       /\ todo' = todo - 1
       /\ o' = o + 2
       /\ UNCHANGED <<source, mode, out>>)

DefaultsEnd ==
  /\ mode = "defaults" /\ todo = 0
  /\ Reading(o,
       /\ out' = [out EXCEPT !.procs =
                    Append(@, [name |-> part.name, offset |-> part.offset, kind |-> "proc",
                               args |-> part.args, defaults |-> part.defaults])]
       /\ Goto("procs", o + 1 + file[o] \div 2)
       /\ UNCHANGED <<source, part, todo>>)

\* A byte of the code, 0 if there is none.
CodeByte(code, at) ==
  LET word == at \div 2 + 1
  IN IF word \notin DOMAIN code THEN 0
     ELSE IF at % 2 = 0 THEN code[word] \div 256 ELSE code[word] % 256

\* The number of an intrinsic is in the low byte of the operand at the call.
ReadReloc ==
  LET r == LongAt(o)
      ifunc == r >= 2 * Half * Half
      offset == IF ifunc THEN r % (512 * Half) ELSE r
  IN
  /\ mode = "relocs" /\ todo > 0
  /\ Reading(o + 1,
       /\ out' = [out EXCEPT !.relocs =
                    Append(@, [offset |-> offset, ifunc |-> ifunc,
                               num |-> IF ifunc THEN CodeByte(out.code, offset + 3) ELSE 0])]
       /\ todo' = todo - 1
       /\ o' = o + 2
       /\ UNCHANGED <<source, mode, part>>)

RelocsEnd == mode = "relocs" /\ todo = 0 /\ Goto("jobs", o) /\ Same

GlobsEnd == mode = "globs" /\ Has(o) /\ IsNegative(file[o]) /\ Goto("jobs", o + 1) /\ Same

\* A named entry refers to another module's global, one without to the module's own.
ReadGlob ==
  /\ mode = "globs" /\ Has(o) /\ ~IsNegative(file[o])
  /\ part' = [named |-> file[o] > 0, name |-> NameAt(o + 1, file[o]), refs |-> << >>]
  /\ Goto("refs", o + 1 + file[o] \div 2)
  /\ UNCHANGED <<source, todo, out>>

ReadRef ==
  /\ mode = "refs"
  /\ Reading(o + 1,
       /\ LongAt(o) # 0
       /\ part' = [part EXCEPT !.refs = Append(@, LongAt(o))]
       /\ o' = o + 2 + IF out.version >= 10 THEN 1 ELSE 0
       /\ UNCHANGED <<source, mode, todo, out>>)

RefsEnd ==
  /\ mode = "refs" /\ Has(o + 1) /\ LongAt(o) = 0
  /\ out' = IF part.named
            THEN [out EXCEPT !.xrefs = Append(@, [name |-> part.name, refs |-> part.refs])]
            ELSE [out EXCEPT !.drels = Append(@, part.refs)]
  /\ Goto("globs", o + 2)
  /\ UNCHANGED <<source, part, todo>>

ModinfoEnd == Ends("submodules", 0) /\ Goto("jobs", o + 1) /\ Same

ReadSubmodule ==
  /\ mode = "submodules" /\ Has(o) /\ file[o] # 0
  /\ part' = [submodule |-> NameAt(o + 1, file[o])]
  /\ Goto("symbols", o + 1 + file[o] \div 2)
  /\ UNCHANGED <<source, todo, out>>

SymbolsEnd == Ends("symbols", 0) /\ Goto("submodules", o + 1) /\ Same

ReadSymbol ==
  LET count == o + 2 + file[o + 1] \div 2 + IF file[o] = 2 THEN 1 ELSE 0 IN
  /\ mode = "symbols" /\ Has(o) /\ file[o] # 0
  /\ Reading(o + 1, Reading(count,
       /\ part' = [submodule |-> part.submodule, symbol |-> NameAt(o + 2, file[o + 1]),
                   kind |-> file[o], refs |-> << >>]
       /\ todo' = file[count]
       /\ Goto("places", count + 1)
       /\ UNCHANGED <<source, out>>))

\* References to a symbol, those to a class with their type.
ReadPlace ==
  LET typed == part.kind # 2
      end == IF typed THEN o + 2 ELSE o + 1
  IN
  /\ mode = "places" /\ todo > 0
  /\ Reading(end,
       /\ part' = [part EXCEPT !.refs =
                     Append(@, [coff |-> LongAt(o), type |-> IF typed THEN file[o + 2] ELSE 0])]
       /\ todo' = todo - 1
       /\ o' = end + 1
       /\ UNCHANGED <<source, mode, out>>)

PlacesEnd ==
  /\ mode = "places" /\ todo = 0
  /\ out' = [out EXCEPT !.modinfo = Append(@, part)]
  /\ Goto("symbols", o)
  /\ UNCHANGED <<source, part, todo>>

CodeParts ==
  \/ ProcsEnd \/ ReadProc \/ ReadDefault \/ DefaultsEnd \/ ReadReloc \/ RelocsEnd
  \/ GlobsEnd \/ ReadGlob \/ ReadRef \/ RefsEnd
  \/ ModinfoEnd \/ ReadSubmodule \/ SymbolsEnd \/ ReadSymbol \/ ReadPlace \/ PlacesEnd

\* No name begins with the bytes that end the vectors or stand for an empty slot.
ReadVector ==
  LET name == Scan(o, NameChars)
      none == Has(name.o) /\ file[name.o] = 16
      regs == IF none THEN [v |-> << >>, o |-> name.o + 1] ELSE Scan(name.o, Regs)
  IN
  /\ mode = "vectors" /\ Has(o) /\ file[o] \notin {16, 255}
  /\ part' = [part EXCEPT !.funcs = Append(@, [name |-> name.v, offset |-> part.offset, regs |-> regs.v]),
                          !.offset = @ - 6]
  /\ o' = regs.o
  /\ UNCHANGED <<source, mode, todo, out>>

EmptySlot ==
  /\ Ends("vectors", 16)
  /\ part' = [part EXCEPT !.offset = @ - 6]
  /\ o' = o + 1
  /\ UNCHANGED <<source, mode, todo, out>>

VectorsEnd ==
  /\ mode = "vectors" /\ (Has(o) => file[o] = 255)
  /\ out' = [out EXCEPT !.lib = <<[name |-> part.name, base |-> part.base, funcs |-> part.funcs]>>]
  /\ mode' = "done"
  /\ UNCHANGED <<source, o, part, todo>>

Vectors == ReadVector \/ EmptySlot \/ VectorsEnd

-----------------------------------------------------------------------------
FileInit ==
  /\ file = << >> /\ written = << >> /\ cut = FALSE
  /\ mode = "start" /\ o = 1 /\ part = << >> /\ todo = 0 /\ out = Nothing

Write(words, m, version, by) ==
  /\ file' = words
  /\ written' = <<[module |-> m, version |-> version, by |-> by]>>
  /\ UNCHANGED <<cut, mode, o, part, todo, out>>

\* The compiler's own writer has only what an interface module needs.
IsInterface(m) ==
  /\ [m EXCEPT !.consts = << >>, !.objects = << >>] = Empty
  /\ \A i \in DOMAIN m.objects :
       /\ m.objects[i].methods = << >>
       /\ \A j \in DOMAIN m.objects[i].members : m.objects[i].members[j].type = << >>

\* A file of which only the beginning was copied.
Cut(n) ==
  /\ written # << >> /\ ~cut /\ mode = "start"
  /\ file' = SubSeq(file, 1, n)
  /\ cut' = TRUE
  /\ UNCHANGED <<written, mode, o, part, todo, out>>

Read == Start \/ Jobs \/ FirstWordMissing \/ ConstsEnd \/ ReadConst \/ Objects \/ CodeParts \/ Vectors

\* By this compiler, or by the original one.
WriteAny ==
  /\ written = << >>
  /\ \E m \in Modules :
       \/ IsInterface(m) /\ Write(WriteEmod(m), m, 10, "ecomp")
       \/ \E version \in Versions : Write(WriteModule(m, version), m, version, "ec")

FileNext == WriteAny \/ (\E n \in 2 .. Len(file) - 1 : Cut(n)) \/ Read

FileSpec == FileInit /\ [][FileNext]_fileVars

-----------------------------------------------------------------------------
(* Properties.                                                             *)

\* What the module holds in the reader's terms: a name has the value it was
\* given last, library functions have their offsets, intrinsics their numbers,
\* and what the version has no place for is not there.
LastOf(entries, n) ==
  CHOOSE i \in DOMAIN entries :
    entries[i].name = n /\ \A k \in DOMAIN entries : entries[k].name = n => k <= i
Mapped(entries) ==
  [n \in {entries[i].name : i \in DOMAIN entries} |-> entries[LastOf(entries, n)].value]

HeldMembers(members) ==
  [i \in DOMAIN members |->
     [name |-> members[i].name, value |-> [offset |-> members[i].offset, val |-> members[i].val]]]

HeldMethods(methods) ==
  [i \in DOMAIN methods |-> [name |-> methods[i].name, slot |-> methods[i].slot, args |-> methods[i].args]]

HeldObject(obj, version) ==
  LET class == version >= 7 /\ obj.methods # << >>
  IN [name |-> obj.name, members |-> Mapped(HeldMembers(obj.members)), size |-> obj.size,
      methods |-> IF class THEN HeldMethods(obj.methods) ELSE << >>,
      oacc |-> IF class THEN obj.oacc ELSE << >>,
      delcode |-> IF class THEN obj.delcode ELSE 0,
      odeloff |-> IF class THEN obj.odeloff ELSE 0]

HeldObjects(objects, version) ==
  [i \in DOMAIN objects |-> [name |-> objects[i].name, value |-> HeldObject(objects[i], version)]]

HeldProc(p) ==
  [name |-> p.name, offset |-> p.offset, kind |-> p.kind, args |-> p.args, defaults |-> p.defaults]

HeldReloc(r, code) ==
  [offset |-> r.offset, ifunc |-> r.ifunc, num |-> IF r.ifunc THEN CodeByte(code, r.offset + 3) ELSE 0]

\* The functions of the first n slots.
HeldFuncs(funcs, n) ==
  LET held[i \in 0 .. Len(funcs)] ==
        IF i = 0 THEN << >>
        ELSE IF funcs[i].name = << >> THEN held[i - 1]
        ELSE Append(held[i - 1], [name |-> funcs[i].name, offset |-> -24 - 6 * i, regs |-> funcs[i].regs])
  IN held[n]

HeldLib(lib) == [name |-> lib.name, base |-> lib.base, funcs |-> HeldFuncs(lib.funcs, Len(lib.funcs))]

Held(m, version) ==
  [version |-> version, consts |-> Mapped(m.consts),
   objects |-> Mapped(HeldObjects(m.objects, version)),
   code |-> m.code, procs |-> [i \in DOMAIN m.procs |-> HeldProc(m.procs[i])],
   relocs |-> [i \in DOMAIN m.relocs |-> HeldReloc(m.relocs[i], m.code)],
   xrefs |-> m.xrefs, drels |-> m.drels, modinfo |-> m.modinfo,
   lib |-> IF m.debug THEN << >> ELSE [i \in DOMAIN m.lib |-> HeldLib(m.lib[i])],
   partial |-> m.debug]

\* Every module in every version of the format is read as what it holds,
\* whoever has written it: each job's entries, optional words and trailers are
\* passed over exactly, or the next job's number would be read from amid them.
ReadsAsWritten ==
  mode \in {"done", "error"} /\ ~cut =>
    mode = "done" /\ out = Held(written[1].module, written[1].version)

\* Of a file that was cut, and that the reader does not call partial, each job
\* was found as it was or not at all, and none without those before it.  Two
\* jobs have no end the reader could miss, code and a library's vectors, and
\* each object has a job of its own.
Prefix(seq, whole) == Len(seq) <= Len(whole) /\ seq = SubSeq(whole, 1, Len(seq))
FirstObjects(objects, version, n) == Mapped(SubSeq(HeldObjects(objects, version), 1, n))
Order == <<{"code"}, {"relocs"}, {"procs"}, {"xrefs", "drels"}, {"objects"}, {"consts"}, {"modinfo"}>>

FoundWhole ==
  mode = "done" =>
    LET m == written[1].module
        version == written[1].version
        held == Held(m, version)
        here(field) == out[field] # << >>
    IN ~out.partial =>
         /\ \A field \in DOMAIN out \ {"code", "objects", "version", "lib", "partial"} :
              out[field] \in {<< >>, held[field]}
         /\ Prefix(out.code, held.code)
         /\ \E n \in 0 .. Len(m.objects) : out.objects = FirstObjects(m.objects, version, n)
         /\ \A i, j \in DOMAIN Order :
              i < j /\ (\E field \in Order[j] : here(field)) =>
                \A field \in Order[i] : out[field] = held[field]
         /\ here("lib") => [held EXCEPT !.lib = out.lib] = out
=============================================================================
