# ecomp in TLA+

`ecomp` compiles Amiga E to 68000 executables for AmigaOS. The compiler is a
sequential JavaScript program (`src/src`), but much of what can go wrong happens
in the code it *emits*: a run-time heap threaded by hand through a global, a
stack machine with exception frames on it, a startup sequence that must give back
what it took, and a link step that puts code of the original compiler's binary
modules next to its own. This directory specifies those parts, and the passes that make
that code (parser, layout of data, code generation, binary modules), checks them with
TLC on small instances, and proves properties of them with TLAPS for all.

Paths below are relative to the repository's root; `codegen.js` is
`src/codegen.js`, and so on. Each definition's source lines are in
`PROJECT.json` under `map`.

## 1. The system

| Part | Source | State it keeps | Operations | What makes it correct |
|---|---|---|---|---|
| Lexer | lexer.js | position in the text | one token at a time | every character is in one token; nested comments end where they should |
| Parser | parser.js | token position, flags for cells and line ends | one method per construct | line continuation and `<a\|b>` do not change what an expression means |
| Semantic analysis | sem.js | tables of constants, objects, globals, procedures, library functions, modules | declarations, imports, `defObject`, `foldConst` | a name means the same everywhere; members do not overlap; folding is what the machine would compute |
| Module resolver | tools/modules.js | a cache by name | `resolve` | the file is the one the search order says |
| Module reader/writer | emod.js, emodwrite.js | position in the file | chunks of the `.m` format | reading what was written gives it back |
| Code generation | codegen.js | the assembler, global slots, strings, lists, loop and exit labels, pending quotes | a method per node kind | stack and registers are balanced on every path |
| Procedures and exceptions (emitted) | codegen.js `emitProc`, `stat`, `__raise` | A7, A5, the chain of handler frames at 28(A4), the stack | call, return, HANDLE, TRY, SELECT, loops, EXIT, CONT, Raise, ReThrow, CleanUp | Raise reaches the innermost handler and no dead one; the stack is where the constructs put it |
| Heap (emitted) | codegen.js `__new` … `__freeall` | the chain at 8(A4) and its headers | New, String, Dispose, DisposeLink, END, exit | the right block is freed with the right size; nothing is left at exit |
| Startup and exit (emitted) | codegen.js `emitStartup` | message, library bases, pool, exit code | what its code does, in order | everything taken is given back; Workbench gets its message |
| Strings, lists, formatting (emitted) | codegen.js `emitRuntime` | maximum and length words before the data | StrCopy, StrAdd, MidStr, ReadStr, SetList, … | length, maximum and terminator agree at the limit |
| Windows and graphics (emitted) | codegen.js `__openw` … `__waitimsg` | `stdrast`, the fields of the last message | OpenW, CloseW, OpenS, WaitIMessage | no drawing through a closed window |
| Intrinsics for binary modules | ifunc_thunks.js | the pool's block headers | one thunk per intrinsic | as the original run-time; allocator of one side not used by the other |
| Binary module linker | sem.js `registerBinaryModule`, codegen.js `emitBinaryModules` | loaded names, ownership of names and labels | register, append, rebase, bind | each module once; each reference to the module it names |
| Assembler | asm68k.js | bytes, labels, fixups, relocations | emit, label, finish | every reference lands after loading |
| Hunk writer | hunk.js | none | `writeHunk` | the loader sees the image and its relocations |
| Inline assembler | asmtext.js | none of its own | text to encodings | the encodings are right |
| Floppy writer | adf.js | blocks, next free block, hash chains | `addFile`, `addDir`, `finish` | no block in two files; every file found by its hash chain |
| E-VO extension | evo/ | none of its own | keywords, injected library procedures | off means off |
| Command line | tools/ecc.js | none | reads files, calls the compiler | — |

**How they meet.** The passes call each other once, in order: lexer, parser, sem,
codegen, assembler, hunk. What they share is *names*: sem's tables and the
assembler's labels have only strings in common (`proc_X`, `moddescr_X`), and which
definition a string means is decided in both, separately. Emitted routines share
the globals behind A4 (heap chain 8, exit code 16, startup A7 12, handler chain 28)
and registers; startup leaves bases in globals that the program may overwrite.

**Where it is hard to test.** A heap bug needs a particular order of allocations,
disposals and addresses; an exception bug a particular nest of constructs left in a
particular way; a link bug a set of modules whose names collide in one order of
import and not the other; a startup bug a library that fails to open. `PROJECT.json`
lists these under `hazards`, each at its line and with the properties that would
catch it; those no property covers say why.

## 2. What is modelled

### Heap — `HeapSpec`, `Heap`, `MCHeap`, `HeapProofs`

`HeapSpec` is what a program may rely on: a set of disjoint blocks, each with the
pointer the program got; dispose removes the block it names, exit removes all.
`Heap` is the assembly: AllocMem in units of 8 bytes, a header `[next, total]`, the
chain in `head`, and the walk of `__dispose` one node per step with its registers
(`slot` is A0, `arg` is D0). The pointer of a `New` block is node+8, that of a
`String` node+16, and `__dispose` accepts either from any node: that this does not
confuse neighbours is the point of the module. `off` records which pointer the
program was given, `age` and `clock` are history variables. A program passes only
pointers it holds, or static data; a double dispose is its own fault and left out.

Run `heap`: two `New` sizes that round to different lengths, one string, eight
units of memory, at most four allocations. Four blocks suffice for a block to be first,
last and between others in the chain and in memory, in any combination.

- `ChainComplete` — the chain is exactly the live blocks, newest first.
- `HeapInv` — the inductive invariant (section 4).
- `ExitReleasesAll` — nothing is granted once the program has exited.
- `DisposeFreesItsOwn`, `NotFoundOnlyForeign` — dispose frees its own block, and
  gives up only on what is no block.
- `LoopsEnd` — both loops end (weak fairness on their steps).
- `ImplementsHeapSpec` — the refinement.

An allocation of **zero** bytes (`New(0)`, an OBJECT without members) is left out of the run and, as
`NonEmptyRequests`, of the theorems: see section 5.

### Procedures and exceptions — `UnwindSpec`, `Unwind`, `MCUnwind`, `UnwindProofs`

`UnwindSpec` is the language's promise: a nest of constructs, Raise goes to the
innermost armed one, leaving a construct disarms it. `Unwind` is the machine: words on
a stack, A7, A5, the frame chain, and code addresses. Constructs in `scope` say where
in the *source* the program is; everything the machine does it reads from memory
words, so a stale frame leads it astray (mode `"wild"`). All programs that nest the
constructs are behaviours. One model step is one construct's code; what happens to D1
between the return values and `rts` is kept, since it matters.

Run `unwind`: nests of up to four constructs, one argument, two exception values,
and programs that do not jump out of a TRY or a SELECT by EXIT, CONT or (in a procedure
without HANDLE) RETURN. `StackBalanced`, `ChainIsArmed` (the chain is exactly the
armed constructs' frames), `NeverWild`, `ImplementsUnwindSpec`. Four constructs hold
a procedure, a TRY, a call inside it and a construct in that, the shortest nest in which
a raise crosses a procedure to an outer handler past another construct.

With jumps out of TRY allowed (`Escapes` with `"try"`), TLC refutes `NeverWild`: RETURN inside TRY, in a
procedure without HANDLE, leaves the frame on the chain, and the next Raise jumps through dead stack.

RETURN also passes an EXCEPT DO part by (the README calls it "a finally!"); both modules
say what the code does here, since nothing in the repository says what RETURN should do.

Left out: JUMP to a label (it may leave constructs as EXIT does), words pushed in the middle of expressions, locals (they only add a constant
to a frame), quoted expressions, method calls (they call the same epilogue).

### Assembler, hunk and loader — `Assembler`, `MCAssembler`, `ImageProofs`

An image is its size, its labels, its fixups, its relocations and the contents of the
reference fields; all other bytes are lengths. Phases follow `compile()`: code, binary
modules, data, `finish()`, `writeHunk`, and AmigaDOS' LoadSeg, which adds its base to
each relocated long word. Runs of plain instructions are even lengths; data may be odd.
A branch's field is a displacement modulo 2^16, here 2·`Reach`.

Run `assembler`: displacements of four bits (`Reach` 8) so that a branch goes out of range
within a dozen bytes; two modules, one of odd length whose procedure the other calls and
both with pointers into themselves; two load addresses; `MaxCode` 9 bytes of code and
`MaxSize` 27 bytes in all, enough for two references and either order of the modules,
with data after them.

- `ReferencesLand` — after loading, each named reference leads to its label, and each module's own
  pointers lead where they did.
- `RelocsExact` — absolute fields are relocated exactly once, others not at all, and lie at even addresses
  inside the hunk.

A comment in hunk.js (line 15) says that offsets are longword-aligned; the code aligns them,
and LoadSeg needs them aligned, to words only. Left out: instruction encodings, and odd bytes among code.

### Linker — `Linker`, `MCLinker`, `ModuleProofs`

sem's tables (`procs`, `binary`, `classes`, `loaded`) and the assembler's labels (`proc`,
`descr`) as functions from names to the module that owns them. Registration follows
MODINFO entries recursively; the recursion is an explicit stack, one entry per step.
`Bound` says where a reference's placeholder call leads in the end.

Run `linker`: a program imports up to three of six names, in any order and with repeats:
three binary modules of which two refer to each other and one to a class of the third, two
source modules that share a procedure name, and one name that is not found. Three
imports are enough for each module to be reached both directly and through another.
The program's own names may collide with source modules' procedures and with a label, but
not with binary procedures (`ProgramMay`; see section 5 for that case).

- `LinkedOnce`, `ClosureLinked`, `LinkingEnds` — the closure is complete, each module
  is in it once, and circles end (weak fairness: the compiler is one sequential program).
- `ReferencesLand` — a reference to an export is bound, to its module.
- `PassesAgree` — the procedure sem checked a call against is the one it reaches.

A name stands for one spelling of one file. A module that only has an interface (no
code) is taken for one that is not found, since neither is linked. Left out: thunks, global
slots, descriptor slots, and class methods of source modules.

### Startup and exit — `Lifecycle`, `MCLifecycle`, `ProgramProofs`

The straight-line code around `proc_main`, in a few steps, with Workbench as a second
process that sends a message and unloads the program once it has it back. `Fails` is the
set of things that may fail. In main the program may have any library opened (which fails or not,
whatever came of it at startup), closed while it is open, and its base set to NIL. `asked`, `started` and `own` are
history: what exit code the program asked for, which libraries startup has opened, and how often the program has
opened each itself, less its closings (at most `MostOwn`, a bound).

Run `lifecycle`: dos.library, the pool and any of three libraries may fail; the program has each open at most twice.

- `MessageReplied`, `NotUnloadedEarly` — Workbench gets its message on every way out, and
  the program is not unloaded before its last instruction.
- `ExitReleases` — blocks and dos.library are given back; a module's library is given back exactly if main has left
  its base right: has left it alone, open for exit to close, or closed and cleared. It is closed once too often exactly if main has
  left a stale base. (What goes wrong otherwise is in section 5. The pool and the automatic libraries are in no property.)
- `ExitCodeKept` — CleanUp's or the exception's value is returned, if there were globals.
- `GetsThrough` — main is reached or given up, and after main the end is. Fairness: weak
  on the startup and the exit code, which is straight-line, and on Workbench sending the
  message it started the process for. Main need not end; nothing is assumed about it.

Left out: the other globals set at startup, and
resources, which have no close.

### Arithmetic and numbers — `Numbers`, `MCNumbers`, `NumbersProofs`

The 68000 divides and multiplies 16 bits at a time; `__udivmod`, `__sdivmod` and `__mul32` do whole
registers bit by bit, and everything that prints or reads a number goes through them. Words are
naturals below 2^`Width`; the loops are recursive functions over bits and digits with the code's
registers, wrap-around included. A program calls one routine after the other with any arguments.

Run `numbers`: registers of 8 bits (the loops do not depend on the width; 8 bits hold numbers of one
to three digits, and every pair of words is tried), field widths 0, 1, 2 and 5.

- `ArithmeticRight` — Div, Mul and Rnd are what mathematics says, for the most negative number
  and divisors over half the range, too.
- `ReadsBack` — what `\d`, `\u` or `\h` prints, Val reads as the same word, and stops behind it.
- `FieldsExact` — a field is as wide as asked for, wider only if the number is.

The most negative number is excepted in the last two: `__wf_dec` prints a sign, negates, and
`__itoa` prints a sign again. Left out: floats, `\s`, `\c`, the seed's arithmetic.

### E-strings — `EString`, `MCEString`, `EStringProofs`

Memory is cells, the strings lie one behind the other as DEF lays them out in a frame, so whatever
passes the end of one lands in the next one's maximum word. `__strcore` is a step per character, with
its registers; sources are pointers into any string, its own destination included. `str` is a history
variable: what the program may take each string to hold, in terms of what the strings held at the call.

Run `estring`: two strings of two and three characters, an upper and a lower case letter, sign bit at 8.
Two neighbours are the least in which one can damage another; three characters hold a
copy that overlaps by one, by two and not at all.

- `ContentsRight` — between calls NUL, length word and expected contents agree.
- `HeadersIntact` — no maximum is overwritten, no length passes its maximum, at any step.
- `AnswersRight` — StrCmp, OstrCmp and InStr against sequences.
- `CopyEnds` — the copying loop ends, also when it reads what it writes. Fairness: weak on the loop's
  own steps, which are straight-line code of one task.

Adding a string to itself (`StrAdd(s, s)`) overwrites the NUL it would stop at, and goes on to the maximum
instead of doubling; `Appended` says so. Programs are taken to keep StringF's text within the string
and maxima below 32768, as neither is checked by the code. Left out: E-lists.

### Floppy image — `Adf`, `MCAdf`, `ImageProofs`

Blocks are records of the longs the format gives a meaning; `sum` is the contents a checksum was last
made for, so that "the checksum is right" is an equation. `addFile` and `addDir` are one action each, as
nothing interrupts them; running out of blocks is another, which leaves the blocks taken that the call
had got. Reading the disk is written from AmigaDOS' side, by the chain of data blocks and by the pointers.

Run `adf`: fourteen blocks, two slots and pointers per block, four names of which three collide,
files of 0, 2, 3 and 5 chunks: an empty file, a full header, one and two extension blocks. Four entries
make a hash chain of three, also below a directory. The three colliding names are symmetric.

- `EverythingFound` — each entry is found in its directory only, and reads the same both ways.
- `BlocksApart` — no block belongs to two entries.
- `FinishedSound` — on a finished disk all checksums are right, and the bitmap is what is free.

A caller gives no directory two entries of a name, which the code does not refuse.

### Source text — `Parser`, `Grammar`, `MCGrammar`

`Parser` is the recursive descent, one operator per parse method (`Exp(s)` calls `ParseExp(s)`), with the parser's
state (position, errors, `softElse`, `cellDepth`) passed along in a record; `Scanned` and `Joined` are what
lexer and constructor make of newlines. Tokens are their spelling; `Evo` switches the E-VO
extension. `Grammar` is the reference: how a tree is written as source, in a layout that says where
newlines, comments and blanks go and which of E's forms for one tree is used.

Run `grammar` (with `Evo`, which contains the native language but for names that become keywords):

- `RoundTrip` — every expression form around every other, two deep, statements three deep, and
  every declaration, in up to six layouts, comes back as the tree it was written from. Two levels are what
  a decision of the parser looks at (an operator and its operand, an IF and the ELSE behind it).
- `NothingLostSilently` — between good statements stands a line of one or two stray tokens: the parser
  gets to the end, keeps what stood before, and if it reports no error, what stands behind as well.

Left out: characters within tokens, preprocessor lines, `_SRCLINE_`, the limit on the number of errors,
and the injection of E-VO's library procedures.

### Binary modules — `Emod`, `MCEmod`, `EmodFileProofs`, `ModuleProofs`

A file is words, a sequence of jobs. `WriteEmod` is this compiler's writer of interface modules;
`WriteModule` is external: what the original compiler's modules look like, as far as the reader
expects it, in versions that differ in optional words, with the jobs in the order that the files in src/modules and the comment
in test/emod.test.js (11) have: code, relocations, procedures, globals, objects, constants, MODINFO. Files that begin without SYS
(some of pure libraries) and the few old ones in which jobs alternate are left out. `Module` says what a module can hold: names shorter than
32 KB, offsets of intrinsics of 24 bits, library functions' names of bytes above 32, and nothing that belongs to code without code. Counts are written as they are: that
they fit into their words is up to the writer.

The reader is a machine. `mode` says in which of `readEmod`'s loops it is, `o` is its position; `part` is the entry that an
inner loop fills and `todo` the turns that a counting loop has left. Each action is one turn of one loop, from the
word that the loop looks at to the position it goes on from, or the loop's end. A read over the end of the file is the exception that marks the
module partial (`Throw`); what a turn had found of its entry before it threw is left out. `str` and
`subarray` take what there is (`WordsAt`). Constants, members and objects are Maps by name, in which a repeated name has the latest value
(`Put`). A file may be cut at any word before it is read; cuts in the middle of a word are left out.

Run `emod`: some 300 modules with two or three entries in each job, repeated names of constants, members and objects among them, versions 5, 6, 7, 10 and 11, on both sides of each of
the reader's version tests; words are below 1024, which keeps negative, small and large apart.

- `ReadsAsWritten` — a whole file is read as what it holds.
- `FoundWhole` — of a cut file that is not called partial, each job was found whole or not at all, and none
  without those before it in the file; each object has a job of its own, so of them it is the first few; code and a library's vectors have no end that could be missed.

### Layout of data — `Objects`, `Layout`, `MCLayout`, `ProgramProofs`

Where a program's data lie is decided in four places with tables of sizes of their own: sem's `defObject`
(`typeSize` of sem.js), the globals area, the frames, and the addresses that `addressOf` and
`multiDimAddress` compute (`typeSize` and `elemSize` of codegen.js). `Objects` has the tables and
`defObject`; `Layout` adds one declaration per step, and its properties compare what was reserved with
what the program reaches by what it may write in E.

Run `layout`: objects of one or two members of seven kinds, or with a union of three members amid others,
with and without a parent: every kind before and after every other is what alignment depends on. Two variables
of 25 kinds, with no object or one of two sizes (`Contexts`), an exception frame, descriptors of an odd and
an even size: what follows a variable is decided by its own size only.

- `MembersApart` — members do not overlap but in the groups of one union, and lie at even addresses inside
  their object.
- `VariablesApart` — variables, buffers, the exception frame and descriptors do not overlap pairwise, no element within its bounds
  lies outside its buffer, and no two elements of an array overlap, in one to three dimensions.

A member that is an OBJECT or an ARRAY OF OBJECT, and an ARRAY OF OBJECT in more than one dimension, are left out (section 5). Left out
as well: the 16-bit range of displacements, and of the products that `multiDimAddress` makes with `muls.w`.

### Expressions and statements — `Words`, `Machine`, `Language`, `Codegen`, `Compilation`, `MCCodegen`

Here the compiler itself is checked: what the code does is what the program means. `Codegen` is `exp`, `stat`,
`addressOf`, `fchain`, `unifyPattern`, `emitProc` and the rest, one operator per method or case, from trees to
instructions, with the assembler and the pending quotes passed along in a record. `Machine` runs the instructions, one per step:
D0 to D3, A0, A5, a stack, condition codes, variables by name, memory by the byte. Labels are resolved by name
(`Assembler` is about that). `Language` is the reference: the meaning of a tree as a function of the state, with no registers
and no stack, from the repository's README (*What's implemented*, *Faithfulness notes*), docs/evo-support.md and the programs of
tools/diff-test.js, whose output the original compiler's is compared with. Its `ok` is FALSE where a program means nothing: division by zero, shifts by more than
a long, quotients beyond 16 bits. `Compilation` chooses a program, compiles it, gives its inputs values and runs it.

Words are scaled down (`Words`): bytes of 2 bits, longs of 8. A long still is two words and a word two bytes, so that
16-bit `*` and `/`, sign and zero extension and stores of the low part are all there, and overflow is a matter of small numbers.

Run `codegen`: twenty programs that between them use every form of tree that `Codegen` compiles, most of them
after those of diff-test.js, on all pairs of nine input values, which hold both signs, zero, values on either side of half a long, and the least long.
`fac` and `fib` go three and more calls deep. The last program multiplies and divides by what half a long cannot hold, which is an error (`Unsafe`):
it is not run (`Reject`). It is the only error that `Codegen` has, as its trees are otherwise those of programs without one.

- `ComputesValue` — where the program means something, its code comes to its end, with the variables and the memory that
  the meaning has, the stack empty and A5 restored. That takes registers that survive what lies between their setting and their
  use, one stack discipline in all constructs, and sizes, signs and displacements that agree between stores and loads.

Left out: floats, NEW, END and cells, indices of several dimensions, strings, calls to libraries and to binary modules, `{x}`, SIZEOF and
its like, JUMP, inline assembler, TRY and HANDLE (in `Unwind`), rotations, functions on lists,
and the built-ins that are routines of the run-time, some of which `Numbers` and `EString` have.

## 3. How the modules compose

```
HeapSpec   <-- Heap      (refinement)   <-- HeapProofs
UnwindSpec <-- Unwind    (refinement)   <-- UnwindProofs
Assembler, Adf  <-- ImageProofs;  Emod <-- EmodFileProofs <-- ModuleProofs --> Linker;  Layout, Lifecycle <-- ProgramProofs
Assembler  : emitBinaryModules' layout, finish(), hunk, loader
Linker     : sem's registration, codegen's labels; its Bound is Assembler's fixup by name
Grammar    : extends Parser, and writes what it reads
Emod       : what it reads is what Linker registers and Assembler rebases
Layout     : lays out what EString's headers and Unwind's frames are
Codegen    : extends Objects and Words; places members and elements as Objects does
Compilation: extends Codegen and Machine (which extends Words), and has an instance of Language
EString and Numbers : called by the program, as Heap is; String() gets its memory from Heap
Lifecycle  : calls main (Unwind runs in it) and __freeall (Heap's FreeAllNode, one step here)
```

Each `…Proofs` module extends the module it is about, and no other of the project, but for `ProgramProofs`: it is about a compiled
program's data and its course, `Layout` and `Lifecycle`. (So that both can be extended, `Lifecycle` has `ProgramInit`, `ProgramNext` and `ProgramSpec`.)

`Lifecycle` treats main as Unwind's `"exit"` and `__freeall` as Heap's exit: what those
modules establish (main ends only at ENDPROC, CleanUp or an uncaught exception, with A7 back
at startup's; the chain is released) is what it assumes of them.

## 4. What is proved

The theorems hold for every value of the constants that the modules' assumptions admit, and under the hypotheses
named below, which are operators of the proof modules. Each inductive invariant was first checked
by TLC on its module's run. `PROJECT.json` lists the theorems; those about a run's property carry its name there. `ImageProofs` and
`ModuleProofs` each have the proofs of two components that have no names in common; what stands where in a module's file, and the first
half of the reader's loops, is in `EmodFileProofs`, which `ModuleProofs` extends.

| Module | Theorems | Hypotheses |
|---|---|---|
| `HeapProofs` | `HeapInvariant`, `HeapTypes`, `HeapChain`, `HeapExit`, the action properties `HeapDispose` and `HeapNotFound`, `HeapRefinement` (`Spec => Abstract!Spec`) | `NonEmptyRequests` |
| `UnwindProofs` | `UnwindInvariant`, `UnwindTypes`, `UnwindBalanced`, `UnwindChain`, `UnwindNeverWild`, `UnwindRefinement` (`Spec => ImplementsUnwindSpec`) | `StaysInside` |
| `ImageProofs` | `AssemblerInvariant`, `AssemblerTypes`, `AssemblerReferencesLand`, `AssemblerRelocsExact` | none |
| | `AdfInvariant`, `BlocksStayApart`, `FinishedStaysSound`, `EverythingStaysFound` | none |
| `EmodFileProofs`, `ModuleProofs` | `EmodInvHolds`, `FilesReadAsWritten`, `CutFilesFoundWhole` | none |
| `ModuleProofs` | `LinkInvariant`, `LinkerTypes`, `LinkerLinksOnce`, `LinkerClosed` | none |
| | `LinkerPassesAgree` | `LabelsApart` |
| | `LinkerReferencesLand` | `LabelsApart`, `ExportsApart` |
| `ProgramProofs` | `MembersStayApart` | `SimpleMembers` |
| | `VariablesStayApart` | `SimpleMembers`, `PlainMatrices` |
| | `LifecycleTypeCorrect`, `MessageRepliedHolds`, `NotUnloadedEarlyHolds`, `ExitCodeKeptHolds`, `ExitReleasesHolds` | none |
| `EStringProofs` | `EStringInvariant`, `HeadersStayIntact`, `ContentsStayRight`, `AnswersStayRight` | none |
| `NumbersProofs` | `NumbersInvariant`, `ArithmeticIsRight`, `FieldsAreExact`, `WrittenReadsBack` | none |

**The hypotheses** exclude what section 5 says goes wrong, and nothing else; without them TLC
refutes the properties on small instances.

- `NonEmptyRequests`: no program asks for zero bytes.
- `StaysInside` (`Escapes = {}`): EXIT, CONT and RETURN leave no TRY body and no SELECT.
- `LabelsApart`: no module has a label (a PROC it keeps for itself) named as what another exports; labels are given to
  whoever comes first. `ExportsApart`: an exported name is of one module, and not of the program.
- `SimpleMembers`: no object has a member that is an ARRAY OF objects (its elements get four bytes, whatever the object's size), or a
  member of size 0 that is not an ARRAY. (Members that are one object are left out by `MembersApart` itself.)
- `PlainMatrices`: no array of objects has several dimensions.

**Heap.** `ChainComplete` alone is not inductive: unlinking a node is right only if the walk came to it through the
slot before it, and freeing it only if the header holds the size it was granted with. `HeapInv` adds: blocks are
disjoint, of more units than their pointer's offset, and their headers right (`BlocksSound`); ages order them
(`AgesSound`); and during a walk, `slot` is a live block, every block at least as new as it does not match, and the
argument names a live block or static data (`WalkSound`). The lemma at the core, `MatchIsOwn`, is that a block with
more than one unit keeps `node+16` clear of its right neighbour's data pointer, so what matches is what was named.
Removing a block from the chain is proved once, for `__dispose` and `__freeall` alike (`Removed…` lemmas).

**Exceptions.** That A7 is right now says nothing of what the next `rts`, `unlk` or Raise will find. `UnwindInv` is
about all open constructs at once (`Nest`): each begins where the one around it ends, the words between are its own,
and among them return address, saved A5 and handler frame are those of the *constructs* that the scope names, so that
each construct's end leaves a nest one shorter. The lemmas open a construct on a nest, cut one off, and cut
down to the innermost armed one (Raise). A procedure's link to the handler before it is kept in the invariant also after the
handler is unlinked, as the epilogue reads it again. The refinement maps each step of the machine to the
step of `UnwindSpec` for the construct it ends or raises to.

**Assembler.** `ReferencesLand` speaks of a finished image. `AsmInv` says before that: no two references share a field
(`FieldsApart`), each field is inside the image and on a word (`FieldsInside`), modules' pointers are right relative
to where their module was put, and the relocations are so far exactly those. `finish()` fills each named field once, and
adds the relocation of an absolute one; LoadSeg moves what is relocated by the address, and names and pointers by the same.

**Linker.** `LinkInv` needs of sem's registration that the stack holds each module at most once, all of them loaded, and
that a reference whose target is missing belongs to a module still on the stack (`ClosedBut`): it is this that makes circles
harmless. For `PassesAgree` it keeps, for each of the two passes, *who came first*: `FirstExporter` for sem, `LabelFirst` for
the code generator, program and source modules before binary ones.

**Startup and exit.** `ControlInv` follows the message through D7, its global and D2, A4 through the paths that skip its setting, and
the exit code. `Bases` says that a library is open as often as startup and the program have opened it, less one from exit on
if it is a module's and its base is set; what is closed was open, so that these openings are never fewer than none. The message and exit-code
theorems need `ControlInv` only. All hold whatever fails and whatever the program does with the bases.

**Layout.** For objects, variables and classes of any number and size, arrays of any number of dimensions. `ObjectsInv` says of
the members placed so far that two of them are apart or of two groups of one union (`Clear`), wherever the union began; as the parser numbers groups in order
(`IsBody`), a group that is left is never entered again, so that its next member need not be compared with the others' later ones. A name
declared again replaces its parent's member, and what is apart from all stays apart from the rest. For the variables,
each range begins where the last one ends: `FrameInv` and `GlobalsInv` give each variable the bytes between its own beginning and the next one's,
and `Used` lies in them. That elements lie in their buffer and not on each other is the numbering of `multiDimAddress` (`Linear`): the number of an
element is below the product of the dimensions, and two elements with different indices have different numbers, by a least counterexample over the
dimensions. The recursive functions are unfolded by the lemma `Recursion`.

**E-strings.** Between two characters of a copy, memory is not what anybody asked for yet. `EStringInv` says that what `__strcore` still has
to copy lies `Ahead` of the writing (in another string, or further on in the same) or is `Behind` it, just written,
a fixed number of characters back; the second is a string added to itself. All other strings hold what they
held, as no cell written is outside the destination (`HeaderRight`, `OthersHold`). The recursive function `Data`, which places the
strings, is dealt with by a least counterexample: the set of lengths for which the defining equation has no
solution has no least element. The loops that only look (`StrCmp`, `OstrCmp`, `InStr`) are recursive functions on places: each place
has a first stop behind it or none, from which the function exists (`ScanExists`). Where a loop stops, the texts agree up to there
(`StopIs`), and the first difference decides both whether two cuts are equal (`CutsDiffer`) and which comes first (`OrderIs`); the NUL,
which is in no text, is what makes a shorter text differ. For `InStr` the stop is the least place where the needle matches.

**Numbers.** For words of every even width above 4 bits (10 and 16 have to be words). After i of its steps, `__udivmod` holds
the i top bits of the dividend as q·y + r with r < y, and below them what is left to shift, so that the shifted remainder
loses no bit; `__mul32` keeps d0 + d1·d2 modulo 2^Width. A text that `__itoa` or `__itoah` wrote has the shape sign, zeros, numeral (`TextIs`), and
the numeral is read, digit by digit, back to its word (`NumeralRead`, by a least counterexample over words);
a tab before it and a blank or NUL behind it change nothing (`ValReads`).
The recursive functions are unfolded by the lemma `Recursion`.

**Floppy image.** For disks, hash tables and files of any size, also after a call that ran out of blocks. `AdfInv` says where everything
is: below `nextFree` all is taken, each entry has the range of blocks that its call got (`SpaceSound`, `TreeSound`); each of its
blocks holds what `addDir` or `addFile` wrote there, but for the hash table, the chain and the checksum, which later entries change
(`DiskSound`); and a slot leads to the first block of the entries that belong there, each chain to the next larger one
(`TablesSound`). This order is the key: `insertEntry` walks to the end of a chain, and the newest block is the largest, so that it is
the place where the order goes on. Every link on the disk leads to a later block. From this, and as every set of ranks has a least element, the
recursive functions that read the disk exist (`WalkExists`), and what holds of a block if it holds of the next one holds of all
(`AlongLinks`). `EverythingFound` is that argument four times: along the hash chain, the data blocks, the extension blocks, whose
pointers join to one run (`RunsJoin`), and the list of pointers. The assumption on `Files` says that a file is a sequence, nothing more.

**Binary modules' files.** For modules with any number of entries of any size, in every version of the format. A file is a concatenation of
words, so the first lemmas say how one is taken apart: if `a \o rest` stands at a place, `a` stands there and `rest` behind it (`Splits`, and for each kind
of entry one lemma `…Stands` that says which words a turn will read, and where the next entry begins). `EmodInv` then says of each loop what is
ahead and what has been found: `XrefsAt(j)`, for instance, that the file holds the entries from the j-th on, the private globals, the
end mark and the jobs after it, and that `out` is the module as far as `Before` that job, with j-1 entries. A step finds its entry
(`…Step`) and arrives at the next (`…Arrive`). It is an invariant of cut files as well, as it speaks of the file that was written (`Holds(W, …)`): a cut
one has a beginning of its words (`Begins`). How such a file ends is said apart: with a read that threw, so that the
module is called partial (`Thrown`), or exactly between two jobs or objects, all before them found (`CutBetween`); code may be short (`CodeCut`); and the loops whose entries end in bytes of a name can stand beyond the end with an entry that is not the module's, from
where only a throw is possible (`Lost`). `FilesReadAsWritten` is what the invariant says at the end of a whole
file, `CutFilesFoundWhole` what it says of every end (`Sound`). The recursive functions `From` and `HeldFuncs` are unfolded by the lemma `Recursion`.

*Only model-checked*:

- `LoopsEnd`, `LinkingEnds`, `GetsThrough`, `CopyEnds`: liveness is out of the prover's reach.
- All of `Parser`, `Grammar`, `Codegen`, `Compilation` and `Language`: written with RECURSIVE operators or on top of modules
  that are, which no theorem can be stated about. What such definitions compute for every tree would need induction over data.

## 5. What the models found

These departures were met while
modelling, are in the models as the code has them, and are kept out of the runs by what the runs assume:

- **Heap.** A block of zero bytes is one unit, so that the next block's data pointer, 8 bytes further, is this one's node+16.
  If this one is the newer, `__dispose` of the other unlinks and frees it instead (codegen.js:952), the wrong match that the comment
  at 939-943 says the test prevents.
- **Code of expressions.** A quick compare keeps its subject in D2 (2735) while its items are worked out; an item with `Bounds` in it
  (3505) or another quick compare overwrites it: with `p := x == [Bounds(y, 0, 5), 7, 100]`, TLC refutes `ComputesValue`. `p[i].m`, where `p` is a PTR
  TO or an ARRAY OF objects, takes what lies in the element for the object's address (1890-1897, 1951-1955, 2798-2805): TLC's run goes to
  a wild address. `a, b := f()` with an `f` of one value stores what D1 and D2 hold in the rest, which the comment at 2368 says get 0.
  SHR of a negative constant shifts in zeros when it is folded (sem.js:283) and copies of the sign otherwise. `i :=: a[i]` writes to the element
  of the new `i` (2166-2167). `a[]++` of BYTE or WORD elements extends them as it would CHAR and INT (2835). CONT in a REPEAT skips the UNTIL (2243).
- **Exceptions.** RETURN out of a TRY leaves its frame on the chain (2184). EXIT or CONT out of a SELECT leaves the subject pushed (codegen.js:2335); an enclosing ENDTRY
  takes it for its frame, though the comment at 2270 says A7 is the frame. The epilogue of a procedure
  with HANDLE loads the frame's link into D1 (1862), over the second return value.
- **Linker.** The program's PROC takes the calls other modules make to a module's PROC of that name (235). A source
  module's PROC, imported first, leaves other modules' calls to a binary one of that name at address 0 (sem.js:185,
  codegen.js:306). A module's exported label takes `proc_X` from a later module's PROC X (233).
  A call to the program's own PROC with a binary one's name is not padded with defaults (3709).
- **Startup.** Exit closes a module's library by its base (500-507), which the program can use as well. If it opens a library
  that startup could not open, as the comment at 456-457 has it, and closes it again, the base is still set and exit closes it a second time; so it does
  if the program closes what startup has opened. An OpenLibrary of its own that fails, or a NIL into the base, loses startup's opening.
  `ExitReleases` says that this happens exactly then. Without dos.library the exit code is read through an A4 that was never set (521). The string pool and the
  automatic libraries are never given back.
- **Numbers.** The most negative number is printed with two signs (694-702).
- **Layout.** A member that is an OBJECT gets four bytes whatever its size (sem.js:213), although its address is taken
  for the whole object's (the comment at 217 says it is embedded): what lies behind it is overwritten. BYTE and WORD
  members take four bytes too; so does each element of a member that is an ARRAY OF objects. A member declared with the size 0 that is no array takes no room and is accessed as if it had. Arrays of OBJECT in several dimensions are reserved with the object's size (1792) and
  indexed with steps of four (2007). A global `DEF o:obj` gets no storage, a local one does (1755).
- **Parser**, where a newline or an ELSE is not seen for what it is: `SIZEOF PTR` at the end of a line takes the
  next one along (parser.js:20), as does a line of assembler that ends in a register in parentheses with `+`;
  RETURN, EXIT or CONT without expression before an ELSE on the same line is an error (467), though 39-40 says
  that ELSE ends a statement there; `<(a>b)|c>` is, since parentheses do not reset `cellDepth` (830); after
  a conversion `a!`, an operator that is a word is taken for an operand (867). In native mode `~x`
  gives an undefined tree without an error (887). In E-VO mode, `c ? [1] : x` reads the `:` as the list's type.
- **Binary modules.** A module cut inside its code, or between two jobs, is not called partial (emod.js:171). A byte
  from 0x11 to 0x20 where a library function's name is expected keeps the reader in its loop (244).
- **Floppy.** A call that runs out of blocks keeps those it had got.

## 6. Plan

Every safety property of the modules that a theorem can be stated about is proved. What is only model-checked (section 4) would need induction
over trees, or liveness rules. What would be worth doing next is to model more: the slots of globals and class descriptors that
`emitBinaryModules` binds (OACC, MODINFO flavor 2), and the arithmetic of constant folding.

## 7. Not modelled

- Instruction encodings, the inline assembler: translation tables; their state is the assembler's.
- Of code generation, floats and library calls (what they compute is the libraries' doing), and what section 2 says `Codegen` leaves out.
- Symbol tables: sequential lookups that unit tests reach.
- The thunks for intrinsics of binary modules: machine code of the original run-time.
- Windows and graphics: wrappers of system calls whose behaviour is Intuition's.
- Module resolver and command line: file I/O around a cache.
- Test drivers and tools that compare with the original compiler.
