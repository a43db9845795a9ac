----------------------------- MODULE Assembler -----------------------------
(***************************************************************************)
(* asm68k.js and hunk.js: from the instructions the code generator emits   *)
(* to the words of a program that AmigaDOS has loaded somewhere in memory. *)
(* References to labels are noted as fixups while the code is emitted and  *)
(* filled in by finish(), when every label is known; absolute ones also    *)
(* get a relocation, by which the loader adds the address of the hunk.     *)
(*                                                                         *)
(* The image is modelled by its size and by the contents of its reference  *)
(* fields; all other bytes are left out.  It is emitted in the order of    *)
(* compile(): code, then the blobs of binary modules, then data.           *)
(***************************************************************************)
EXTENDS Integers, FiniteSets

CONSTANTS
  Labels,    \* names of code and data
  Modules,   \* binary modules the program links
  Reach,     \* 2^15: a 16-bit displacement is in -Reach..Reach-1
  Lengths,   \* lengths in bytes of runs of plain instructions
  MaxCode,   \* bound: bytes of code before the modules
  MaxSize,   \* bound: bytes of the image with its data
  Bases      \* addresses at which the loader may put the hunk

\* A module: the length of its CODE, the offsets of its procedures and classes,
\* what its absolute fields hold (offsets into itself), and its placeholder calls.
ModuleShape(m) ==
  /\ m.length \in Nat
  /\ DOMAIN m.entry \subseteq Labels
  /\ \A l \in DOMAIN m.entry : m.entry[l] \in 0..m.length
  /\ \A o \in DOMAIN m.pointer \cup DOMAIN m.call : o \in Nat /\ o % 2 = 0 /\ o + 4 <= m.length
  /\ \A o \in DOMAIN m.pointer : m.pointer[o] \in 0..m.length
  /\ \A o \in DOMAIN m.call : m.call[o] \in Labels
  /\ \A o, p \in DOMAIN m.pointer \cup DOMAIN m.call : o < p => o + 4 <= p
  /\ DOMAIN m.pointer \cap DOMAIN m.call = {}

ASSUME AssemblerAssumption ==
  /\ \A m \in Modules : ModuleShape(m)
  /\ Reach \in Nat \ {0}
  /\ \A n \in Lengths : n \in Nat \ {0} /\ n % 2 = 0
  /\ MaxCode \in Nat /\ MaxSize \in Nat
  /\ Bases \subseteq Nat

Kinds == {"pc16", "abs32", "bsr32"}

VARIABLES
  size,     \* bytes.length, the pc
  labels,   \* the labels defined so far, with their offsets
  fixups,   \* the references to fill in: {at, label, kind}
  relocs,   \* how often each offset is in the list of relocations
  field,    \* the contents of the reference fields, by offset
  blobs,    \* where each module appended so far begins
  phase,    \* "code", "modules", "data", "finished", "written", "loaded"; "thrown"
  base      \* where the loader put the hunk

vars == <<size, labels, fixups, relocs, field, blobs, phase, base>>

Defined == DOMAIN labels

\* The partial function f with x mapped to y, and f extended by what g adds to it.
With(f, x, y) == [z \in DOMAIN f \cup {x} |-> IF z = x THEN y ELSE f[z]]
Extended(f, g) == [z \in DOMAIN f \cup DOMAIN g |-> IF z \in DOMAIN f THEN f[z] ELSE g[z]]
Shifted(f, d) == [z \in {o + d : o \in DOMAIN f} |-> f[z - d]]

Empty == [x \in {} |-> 0]

Even(n) == n + (n % 2)

-----------------------------------------------------------------------------
Init ==
  /\ size = 0
  /\ labels = Empty
  /\ fixups = {}
  /\ relocs = Empty
  /\ field = Empty
  /\ blobs = Empty
  /\ phase = "code"
  /\ base = 0

InCode == phase = "code" /\ size < MaxCode

\* Instructions with no label among their operands: w16 and w32.
Plain(n) ==
  /\ InCode
  /\ size' = size + n
  /\ UNCHANGED <<labels, fixups, relocs, field, blobs, phase, base>>

\* label(): a name can be defined only once.
Define(l) ==
  /\ phase \in {"code", "data"}
  /\ IF l \in Defined
     THEN phase' = "thrown" /\ UNCHANGED labels
     ELSE labels' = With(labels, l, size) /\ UNCHANGED phase
  /\ UNCHANGED <<size, fixups, relocs, field, blobs, base>>

\* The bytes of a field to be filled in: w16(0) or w32(0).
Width(kind) == IF kind = "pc16" THEN 2 ELSE 4

\* An opcode word, then the field.
Refer(l, kind) ==
  /\ InCode
  /\ fixups' = fixups \cup {[at |-> size + 2, label |-> l, kind |-> kind]}
  /\ field' = With(field, size + 2, 0)
  /\ size' = size + 2 + Width(kind)
  /\ UNCHANGED <<labels, relocs, blobs, phase, base>>

Branch(l)   == Refer(l, "pc16")    \* bcc, bra, dbra and label(PC) operands
Absolute(l) == Refer(l, "abs32")   \* bsr, jsr_abs and lea_pc
LongCall(l) == Refer(l, "bsr32")   \* a bsr.l by bsr32At, which nothing calls at present

CodeDone ==
  /\ phase = "code"
  /\ phase' = "modules"
  /\ UNCHANGED <<size, labels, fixups, relocs, field, blobs, base>>

\* A list of relocations with the offsets of S put on it once more.
ListedAlone(S) == [o \in S |-> 1]

Listed(S) == [o \in DOMAIN relocs \cup S |->
                (IF o \in DOMAIN relocs THEN relocs[o] ELSE 0) + (IF o \in S THEN 1 ELSE 0)]

\* Where the next module goes: on a word.
BlobBaseUnaligned == size

BlobBase == Even(size)

\* The pointers of a module count from its own start until it is appended.
RebasedNot(m, b) == Shifted(m.pointer, b)

Rebased(m, b) ==
  [o \in {p + b : p \in DOMAIN m.pointer} |-> m.pointer[o - b] + b]

\* One module of emitBinaryModules: blob, then labelAt for what has no label yet,
\* then its pointers are rebased and listed, and its calls noted as fixups.
AppendModule(m) ==
  LET b == BlobBase
  IN /\ phase = "modules"
     /\ m \notin DOMAIN blobs
     /\ size' = b + m.length
     /\ blobs' = With(blobs, m, b)
     /\ labels' = Extended(labels, [l \in DOMAIN m.entry |-> b + m.entry[l]])
     /\ field' = Extended(Extended(field, Rebased(m, b)), [o \in {c + b : c \in DOMAIN m.call} |-> 0])
     /\ relocs' = Listed({o + b : o \in DOMAIN m.pointer})
     /\ fixups' = fixups \cup {[at |-> o + b, label |-> m.call[o], kind |-> "abs32"] : o \in DOMAIN m.call}
     /\ UNCHANGED <<phase, base>>

\* emitData begins with align().
ModulesDone ==
  /\ phase = "modules"
  /\ DOMAIN blobs = Modules
  /\ phase' = "data"
  /\ size' = Even(size)
  /\ UNCHANGED <<labels, fixups, relocs, field, blobs, base>>

\* A run of n bytes of data: strings, lists, static data, the globals area.
Data(n) ==
  /\ phase = "data"
  /\ size + n <= MaxSize
  /\ size' = size + n
  /\ UNCHANGED <<labels, fixups, relocs, field, blobs, phase, base>>

Align ==
  /\ phase = "data"
  /\ size % 2 = 1
  /\ size' = Even(size)
  /\ UNCHANGED <<labels, fixups, relocs, field, blobs, phase, base>>

-----------------------------------------------------------------------------
(* finish().                                                               *)

\* A displacement in a 16-bit field, and what the processor makes of the field.
Encoded(d) == d % (2 * Reach)

Decoded(w) == IF w >= Reach THEN w - 2 * Reach ELSE w

InReachInclusive(d) == -Reach <= d /\ d <= Reach

InReach(d) == -Reach <= d /\ d < Reach

Fillable(f) ==
  /\ f.label \in Defined
  /\ f.kind = "pc16" => InReach(labels[f.label] - f.at)

\* What finish() writes into the field of a fixup.
Filling(f) ==
  LET target == labels[f.label]
  IN CASE f.kind = "abs32" -> target
       [] f.kind = "bsr32" -> target - f.at
       [] f.kind = "pc16"  -> Encoded(target - f.at)

\* A label that is not defined, or one too far for a branch, throws.
Finish ==
  /\ phase = "data"
  /\ IF \A f \in fixups : Fillable(f)
     THEN /\ phase' = "finished"
          /\ size' = Even(size)
          /\ field' = [o \in DOMAIN field |->
                         IF \E f \in fixups : f.at = o
                         THEN Filling(CHOOSE f \in fixups : f.at = o)
                         ELSE field[o]]
          /\ relocs' = Listed({f.at : f \in {g \in fixups : g.kind = "abs32"}})
     ELSE phase' = "thrown" /\ UNCHANGED <<size, field, relocs>>
  /\ UNCHANGED <<labels, fixups, blobs, base>>

-----------------------------------------------------------------------------
(* The hunk and the loader.                                                *)

\* writeHunk: the code is padded to long words, the relocations follow it.
WriteHunk ==
  /\ phase = "finished"
  /\ phase' = "written"
  /\ size' = 4 * ((size + 3) \div 4)
  /\ UNCHANGED <<labels, fixups, relocs, field, blobs, base>>

\* AmigaDOS puts the hunk at b and adds b to the long word at each relocation.
LoadSeg(b) ==
  /\ phase = "written"
  /\ phase' = "loaded"
  /\ base' = b
  /\ field' = [o \in DOMAIN field |->
                 field[o] + (IF o \in DOMAIN relocs THEN relocs[o] * b ELSE 0)]
  /\ UNCHANGED <<size, labels, fixups, relocs, blobs>>

-----------------------------------------------------------------------------
EmitCode ==
  \/ \E n \in Lengths : Plain(n)
  \/ \E l \in Labels : Define(l) \/ Branch(l) \/ Absolute(l) \/ LongCall(l)
  \/ CodeDone

LinkModules == (\E m \in Modules : AppendModule(m)) \/ ModulesDone

EmitData == Align \/ \E n \in 1..2 : Data(n)

Next == EmitCode \/ LinkModules \/ EmitData \/ Finish \/ WriteHunk \/ \E b \in Bases : LoadSeg(b)

Spec == Init /\ [][Next]_vars

-----------------------------------------------------------------------------
(* Invariants.                                                             *)

Complete == phase \in {"finished", "written", "loaded"}

TypeOK ==
  /\ size \in Nat
  /\ Defined \subseteq Labels /\ \A l \in Defined : labels[l] \in Nat
  /\ \A f \in fixups : /\ f.at \in DOMAIN field
                       /\ f.label \in Labels
                       /\ f.kind \in Kinds
                       /\ Complete /\ f.kind = "pc16" => field[f.at] \in 0..2 * Reach - 1
  /\ \A o \in DOMAIN relocs : relocs[o] \in Nat
  /\ \A o \in DOMAIN field : field[o] \in Int
  /\ DOMAIN blobs \subseteq Modules /\ \A m \in DOMAIN blobs : blobs[m] \in Nat
  /\ phase \in {"code", "modules", "data", "finished", "written", "loaded", "thrown"}
  /\ base \in Bases \cup {0}

NamesLand ==
  \A f \in fixups :
    /\ f.label \in Defined
    /\ CASE f.kind = "abs32" -> field[f.at] = base + labels[f.label]
         [] f.kind = "bsr32" -> f.at + field[f.at] = labels[f.label]
         [] f.kind = "pc16"  -> f.at + Decoded(field[f.at]) = labels[f.label]

ModulePointersLand ==
  \A m \in DOMAIN blobs : \A o \in DOMAIN m.pointer :
    field[blobs[m] + o] = base + blobs[m] + m.pointer[o]

\* Wherever the loader put the program, every reference the code generator made by
\* name leads to where that name is (absolute operands are moved along with
\* the hunk, relative ones are not, and no displacement has wrapped), and a
\* module's pointers into itself lead where they did when it was alone.
ReferencesLand == phase = "loaded" => NamesLand /\ ModulePointersLand

AbsoluteFields ==
  {f.at : f \in {g \in fixups : g.kind = "abs32"}}
    \cup UNION {{blobs[m] + o : o \in DOMAIN m.pointer} : m \in DOMAIN blobs}

\* A 68000 loader can move a long word only at an even address, inside the hunk.
Reachable(o) == o % 2 = 0 /\ o + 4 <= size

\* The relocations are the absolute fields, each of them once: one that is listed
\* twice is moved twice by the loader, one that is missing not at all; and the
\* loader can reach each, though modules and data may be of odd length.
RelocsExact ==
  Complete => relocs = [o \in AbsoluteFields |-> 1] /\ \A o \in DOMAIN relocs : Reachable(o)
=============================================================================
