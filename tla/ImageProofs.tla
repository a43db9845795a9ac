---------------------------- MODULE ImageProofs ----------------------------
(***************************************************************************)
(* What is proved about the two images the compiler builds.                *)
(*                                                                         *)
(* The program's, for any program, any binary modules and any address the  *)
(* loader chooses: references lead where they should, and the list of      *)
(* relocations is exactly the absolute fields.                             *)
(*                                                                         *)
(* The floppy disk's, for disks of any size, hash tables and files of any  *)
(* length: 1760 blocks, 72 slots and files up to the disk's size included. *)
(***************************************************************************)
EXTENDS Assembler, Adf, TLAPS, SequenceTheorems, FiniteSetTheorems, WellFoundedInduction

-----------------------------------------------------------------------------
(* The inductive invariant.                                                *)

\* The offset of m's field o in the image, and all such offsets.
PointerAt(m, o) == blobs[m] + o

IsPointer(x) == \E m \in DOMAIN blobs : \E o \in DOMAIN m.pointer : x = PointerAt(m, o)

\* No two references share a field.  Without this finish() would fill a field for
\* one of them, and the loader move it for the other.
FieldsApart ==
  /\ \A f, g \in fixups : f.at = g.at => f = g
  /\ \A m, n \in DOMAIN blobs : \A o \in DOMAIN m.pointer, p \in DOMAIN n.pointer :
       PointerAt(m, o) = PointerAt(n, p) => m = n /\ o = p
  /\ \A f \in fixups : ~ IsPointer(f.at)

\* Every field is inside the image, on a word; what is emitted next is beyond it.
Inside(x, w) == x \in Nat /\ x % 2 = 0 /\ x + w <= size /\ x \in DOMAIN field

FieldsInside ==
  /\ \A x \in DOMAIN field : x \in Nat /\ x < size
  /\ \A f \in fixups : Inside(f.at, Width(f.kind))
  /\ \A m \in DOMAIN blobs : \A o \in DOMAIN m.pointer : Inside(PointerAt(m, o), 4)
  /\ phase = "code" => size % 2 = 0

\* Before finish() the list has the modules' pointers alone.
Emitting == phase \in {"code", "modules", "data"}

Relocations ==
  /\ Emitting => relocs = [o \in {x \in DOMAIN field : IsPointer(x)} |-> 1]
  /\ Complete => relocs = [o \in AbsoluteFields |-> 1]

AsmInv ==
  /\ TypeOK
  /\ FieldsApart
  /\ FieldsInside
  /\ Relocations
  /\ phase # "loaded" => base = 0
  /\ ModulePointersLand
  /\ Complete => NamesLand

-----------------------------------------------------------------------------
(* Arithmetic and the operators of the model.                              *)

LEMMA EvenFacts == ASSUME NEW n \in Nat PROVE Even(n) \in Nat /\ Even(n) >= n /\ Even(n) % 2 = 0
  BY DEF Even

\* A displacement in reach is read back from its field as it was.
LEMMA ReadBack ==
  ASSUME NEW d \in Int, InReach(d)
  PROVE  Encoded(d) \in 0..2 * Reach - 1 /\ Decoded(Encoded(d)) = d
<1>1. Reach \in Nat /\ Reach > 0
  BY AssemblerAssumption
<1>2. CASE d >= 0
  <2>1. d % (2 * Reach) = d
    BY <1>1, <1>2 DEF InReach
  <2> QED
    BY <1>1, <1>2, <2>1 DEF Encoded, Decoded, InReach
<1>3. CASE d < 0
  <2>1. d % (2 * Reach) = d + 2 * Reach
    BY <1>1, <1>3 DEF InReach
  <2> QED
    BY <1>1, <1>3, <2>1 DEF Encoded, Decoded, InReach
<1> QED
  BY <1>2, <1>3

LEMMA AbsoluteIs ==
  \A x : x \in AbsoluteFields <=> IsPointer(x) \/ \E f \in fixups : f.kind = "abs32" /\ x = f.at
  BY DEF AbsoluteFields, IsPointer, PointerAt

LEMMA InitInv == Init => AsmInv
  BY DEF Init, AsmInv, TypeOK, FieldsApart, FieldsInside, Relocations, ModulePointersLand, Complete,
         Emitting, IsPointer, Defined, Empty

-----------------------------------------------------------------------------
(* Emitting.                                                               *)

\* A step that emits no reference.
LEMMA NoReferenceInv ==
  ASSUME AsmInv, Emitting, Emitting' \/ phase' = "thrown",
         size' \in Nat, size' >= size, phase' = "code" => size' % 2 = 0,
         DOMAIN labels' \subseteq Labels, \A l \in DOMAIN labels' : labels'[l] \in Nat,
         UNCHANGED <<fixups, relocs, field, blobs, base>>
  PROVE  AsmInv'
<1>1. TypeOK'
  BY DEF AsmInv, TypeOK, Emitting, Complete, Defined
<1>2. FieldsApart'
  BY DEF AsmInv, FieldsApart, IsPointer, PointerAt
<1>3. FieldsInside'
  <2>1. \A x \in DOMAIN field' : x \in Nat /\ x < size'
    BY DEF AsmInv, FieldsInside, TypeOK
  <2>2. ASSUME NEW f \in fixups' PROVE Inside(f.at, Width(f.kind))'
    BY DEF AsmInv, FieldsInside, Inside, TypeOK, Width
  <2>3. ASSUME NEW m \in DOMAIN blobs', NEW o \in DOMAIN m.pointer PROVE Inside(PointerAt(m, o), 4)'
    BY DEF AsmInv, FieldsInside, Inside, TypeOK, PointerAt
  <2> QED
    BY <2>1, <2>2, <2>3 DEF FieldsInside
<1>4. Relocations'
  BY DEF AsmInv, Relocations, Emitting, Complete, IsPointer, PointerAt
<1>5. (phase # "loaded" => base = 0)' /\ ModulePointersLand' /\ ~ Complete'
  BY DEF AsmInv, ModulePointersLand, Emitting, Complete
<1> QED
  BY <1>1, <1>2, <1>3, <1>4, <1>5 DEF AsmInv

LEMMA PlainInv == ASSUME AsmInv, NEW n \in Lengths, Plain(n) PROVE AsmInv'
<1>1. n \in Nat /\ n % 2 = 0
  BY AssemblerAssumption
<1>2. size \in Nat /\ size % 2 = 0
  BY DEF AsmInv, TypeOK, FieldsInside, Plain, InCode
<1>3. size + n \in Nat /\ size + n >= size /\ (size + n) % 2 = 0
  BY <1>1, <1>2
<1> QED
  BY <1>3, NoReferenceInv DEF Plain, InCode, Emitting, AsmInv, TypeOK, Defined

LEMMA DefineInv == ASSUME AsmInv, NEW l \in Labels, Define(l) PROVE AsmInv'
<1>1. /\ DOMAIN labels' \subseteq Labels /\ \A k \in DOMAIN labels' : labels'[k] \in Nat
      /\ phase' \in {phase, "thrown"}
  BY DEF Define, With, AsmInv, TypeOK, Defined
<1>2. size \in Nat /\ (phase = "code" => size % 2 = 0)
  BY DEF AsmInv, TypeOK, FieldsInside
<1> QED
  BY <1>1, <1>2, NoReferenceInv DEF Define, Emitting

LEMMA StageInv == ASSUME AsmInv, CodeDone \/ ModulesDone \/ Align \/ \E n \in 1..2 : Data(n) PROVE AsmInv'
<1>1. size \in Nat
  BY DEF AsmInv, TypeOK
<1>2. size' \in Nat /\ size' >= size
  BY <1>1, EvenFacts DEF CodeDone, ModulesDone, Align, Data
<1>3. Emitting /\ Emitting' /\ phase' # "code" /\ UNCHANGED <<labels, fixups, relocs, field, blobs, base>>
  BY DEF CodeDone, ModulesDone, Align, Data, Emitting
<1> QED
  BY <1>2, <1>3, NoReferenceInv DEF AsmInv, TypeOK, Defined

LEMMA ReferInv ==
  ASSUME AsmInv, NEW l \in Labels, NEW kind \in Kinds, Refer(l, kind)
  PROVE  AsmInv'
<1> DEFINE new == [at |-> size + 2, label |-> l, kind |-> kind]
<1>1. /\ size \in Nat /\ size % 2 = 0 /\ Width(kind) \in {2, 4} /\ phase = "code" /\ phase' = "code"
      /\ fixups' = fixups \cup {new} /\ size' = size + 2 + Width(kind)
      /\ UNCHANGED <<labels, relocs, blobs, base>>
  BY DEF AsmInv, TypeOK, FieldsInside, Refer, InCode, Width
<1>2. /\ size' \in Nat /\ size' % 2 = 0 /\ size' > size
      /\ size + 2 \in Nat /\ (size + 2) % 2 = 0
  BY <1>1
<1>3. /\ DOMAIN field' = DOMAIN field \cup {size + 2} /\ field'[size + 2] = 0
      /\ \A x \in DOMAIN field : x # size + 2 /\ field'[x] = field[x]
  BY <1>1 DEF Refer, With, AsmInv, FieldsInside
<1>4. new.at = size + 2 /\ new.kind = kind /\ new.label = l
  OBVIOUS
<1> HIDE DEF new
<1>5. \A x : IsPointer(x)' <=> IsPointer(x)
  BY <1>1 DEF IsPointer, PointerAt
<1>6. \A x : IsPointer(x) => x \in DOMAIN field
  BY DEF IsPointer, AsmInv, FieldsInside, Inside
<1>7. \A f \in fixups : f.at \in DOMAIN field
  BY DEF AsmInv, FieldsInside, Inside
<1>8. TypeOK'
  <2>1. ~ Complete'
    BY <1>1 DEF Complete
  <2>2. \A f \in fixups' : f.at \in DOMAIN field' /\ f.label \in Labels /\ f.kind \in Kinds
    BY <1>1, <1>3, <1>4 DEF AsmInv, TypeOK
  <2>3. \A o \in DOMAIN field' : field'[o] \in Int
    BY <1>3 DEF AsmInv, TypeOK
  <2> QED
    BY <1>1, <1>2, <2>1, <2>2, <2>3 DEF AsmInv, TypeOK, Defined
<1>9. FieldsApart'
  <2>1. \A f, g \in fixups' : f.at = g.at => f = g
    BY <1>1, <1>3, <1>4, <1>7 DEF AsmInv, FieldsApart
  <2>2. \A f \in fixups' : ~ IsPointer(f.at)'
    BY <1>1, <1>3, <1>4, <1>5, <1>6 DEF AsmInv, FieldsApart
  <2>3. \A m, n \in DOMAIN blobs' : \A o \in DOMAIN m.pointer, p \in DOMAIN n.pointer :
          PointerAt(m, o)' = PointerAt(n, p)' => m = n /\ o = p
    BY <1>1 DEF AsmInv, FieldsApart, PointerAt
  <2> QED
    BY <2>1, <2>2, <2>3 DEF FieldsApart
<1>10. FieldsInside'
  <2>2. ASSUME NEW f \in fixups' PROVE Inside(f.at, Width(f.kind))'
    <3>1. CASE f = new
      BY <1>1, <1>2, <1>3, <1>4, <3>1 DEF Inside, Width
    <3>2. CASE f \in fixups
      BY <1>1, <1>2, <1>3, <3>2 DEF Inside, Width, AsmInv, FieldsInside
    <3> QED
      BY <1>1, <3>1, <3>2
  <2>3. \A m \in DOMAIN blobs' : \A o \in DOMAIN m.pointer : Inside(PointerAt(m, o), 4)'
    BY <1>1, <1>2, <1>3 DEF Inside, PointerAt, AsmInv, FieldsInside
  <2>4. \A x \in DOMAIN field' : x \in Nat /\ x < size'
    BY <1>1, <1>2, <1>3 DEF AsmInv, FieldsInside
  <2> QED
    BY <1>1, <1>2, <2>2, <2>3, <2>4 DEF FieldsInside
<1>11. Relocations'
  <2>1. {x \in DOMAIN field' : IsPointer(x)'} = {x \in DOMAIN field : IsPointer(x)}
    BY <1>3, <1>5, <1>6
  <2> QED
    BY <1>1, <2>1 DEF Relocations, Emitting, Complete, AsmInv
<1>12. ModulePointersLand'
  BY <1>1, <1>3 DEF ModulePointersLand, AsmInv, FieldsInside, Inside, PointerAt
<1> QED
  BY <1>1, <1>8, <1>9, <1>10, <1>11, <1>12 DEF AsmInv, Complete

LEMMA AppendInv ==
  ASSUME AsmInv, NEW m \in Modules, AppendModule(m)
  PROVE  AsmInv'
<1>1. PICK b \in Nat : b = Even(size) /\ b >= size /\ b % 2 = 0
  BY EvenFacts DEF AsmInv, TypeOK
<1>2. /\ phase = "modules" /\ m \notin DOMAIN blobs /\ size' = b + m.length
      /\ blobs' = With(blobs, m, b)
      /\ labels' = Extended(labels, [l \in DOMAIN m.entry |-> b + m.entry[l]])
      /\ field' = Extended(Extended(field, Rebased(m, b)), [o \in {c + b : c \in DOMAIN m.call} |-> 0])
      /\ relocs' = Listed({o + b : o \in DOMAIN m.pointer})
      /\ fixups' = fixups \cup {[at |-> o + b, label |-> m.call[o], kind |-> "abs32"] : o \in DOMAIN m.call}
      /\ UNCHANGED <<phase, base>>
  BY <1>1 DEF AppendModule, BlobBase
<1>3. /\ m.length \in Nat /\ DOMAIN m.entry \subseteq Labels
      /\ \A l \in DOMAIN m.entry : m.entry[l] \in 0..m.length
      /\ \A o \in DOMAIN m.pointer : o \in Nat /\ o % 2 = 0 /\ o + 4 <= m.length /\ m.pointer[o] \in 0..m.length
      /\ \A o \in DOMAIN m.call : o \in Nat /\ o % 2 = 0 /\ o + 4 <= m.length /\ m.call[o] \in Labels
      /\ DOMAIN m.pointer \cap DOMAIN m.call = {}
  BY AssemblerAssumption DEF ModuleShape
<1>4. /\ size \in Nat /\ size' \in Nat /\ size' >= b /\ size' >= size
      /\ \A x \in DOMAIN field : x \in Nat /\ x < size
  BY <1>1, <1>2, <1>3 DEF AsmInv, TypeOK, FieldsInside
<1>5. /\ DOMAIN blobs' = DOMAIN blobs \cup {m} /\ blobs'[m] = b
      /\ \A n \in DOMAIN blobs : n # m /\ blobs'[n] = blobs[n]
  BY <1>2 DEF With
<1> DEFINE new == {[at |-> o + b, label |-> m.call[o], kind |-> "abs32"] : o \in DOMAIN m.call}
<1>6. /\ \A f \in new : \E o \in DOMAIN m.call :
           f.at = b + o /\ f.label = m.call[o] /\ f.kind = "abs32"
      /\ \A f, g \in new : f.at = g.at => f = g
      /\ fixups' = fixups \cup new
  <2>1. \A f \in new : \E o \in DOMAIN m.call :
           f.at = b + o /\ f.label = m.call[o] /\ f.kind = "abs32"
    BY <1>1, <1>3
  <2>2. ASSUME NEW f \in new, NEW g \in new, f.at = g.at PROVE f = g
    <3>1. PICK o \in DOMAIN m.call : f = [at |-> o + b, label |-> m.call[o], kind |-> "abs32"]
      OBVIOUS
    <3>2. PICK p \in DOMAIN m.call : g = [at |-> p + b, label |-> m.call[p], kind |-> "abs32"]
      OBVIOUS
    <3>3. o + b = p + b /\ o \in Nat /\ p \in Nat
      BY <2>2, <3>1, <3>2, <1>3
    <3>4. o = p
      BY <3>3, <1>1
    <3> QED
      BY <3>1, <3>2, <3>4
  <2> QED
    BY <2>1, <2>2, <1>2
<1> HIDE DEF new
<1>7. /\ DOMAIN field' = DOMAIN field \cup {o + b : o \in DOMAIN m.pointer}
                           \cup {o + b : o \in DOMAIN m.call}
      /\ \A x \in DOMAIN field : field'[x] = field[x]
      /\ \A o \in DOMAIN m.pointer : field'[b + o] = b + m.pointer[o] /\ b + o \in DOMAIN field'
      /\ \A o \in DOMAIN m.call : field'[b + o] = 0 /\ b + o \in DOMAIN field'
  <2> DEFINE one == Extended(field, Rebased(m, b))
             calls == [o \in {c + b : c \in DOMAIN m.call} |-> 0]
  <2>1. /\ DOMAIN one = DOMAIN field \cup {o + b : o \in DOMAIN m.pointer}
        /\ \A x \in DOMAIN field : one[x] = field[x]
    BY DEF Extended, Rebased
  <2>2. ASSUME NEW o \in DOMAIN m.pointer
        PROVE  one[b + o] = b + m.pointer[o] /\ b + o \in DOMAIN one
    <3>1. b + o = o + b /\ b + o \notin DOMAIN field /\ (b + o) - b = o
      BY <1>1, <1>3, <1>4
    <3>2. b + o \in DOMAIN Rebased(m, b) /\ Rebased(m, b)[b + o] = m.pointer[o] + b
      BY <3>1 DEF Rebased
    <3>3. m.pointer[o] + b = b + m.pointer[o]
      BY <1>1, <1>3
    <3> QED
      BY <3>1, <3>2, <3>3 DEF Extended
  <2>3. field' = Extended(one, calls)
    BY <1>2
  <2>4. DOMAIN calls = {o + b : o \in DOMAIN m.call} /\ \A x \in DOMAIN calls : calls[x] = 0
    OBVIOUS
  <2> HIDE DEF one, calls
  <2>5. /\ DOMAIN field' = DOMAIN one \cup DOMAIN calls
        /\ \A x \in DOMAIN one : field'[x] = one[x]
        /\ \A x \in DOMAIN calls \ DOMAIN one : field'[x] = calls[x]
    BY <2>3 DEF Extended
  <2>6. ASSUME NEW o \in DOMAIN m.call PROVE field'[b + o] = 0 /\ b + o \in DOMAIN field'
    <3>1. b + o = o + b /\ b + o \notin DOMAIN field
      BY <1>1, <1>3, <1>4
    <3>2. b + o \notin {p + b : p \in DOMAIN m.pointer}
      <4>1. ASSUME NEW p \in DOMAIN m.pointer, b + o = p + b PROVE FALSE
        BY <1>1, <1>3, <4>1
      <4> QED
        BY <4>1
    <3> QED
      BY <2>1, <2>4, <2>5, <3>1, <3>2
  <2> QED
    BY <2>1, <2>2, <2>4, <2>5, <2>6
<1>8. \A x : IsPointer(x)' <=> IsPointer(x) \/ \E o \in DOMAIN m.pointer : x = b + o
  BY <1>5 DEF IsPointer, PointerAt
<1>9. /\ \A x : IsPointer(x) => x \in DOMAIN field
      /\ \A f \in fixups : f.at \in DOMAIN field
  BY DEF IsPointer, AsmInv, FieldsInside, Inside
<1>10. TypeOK'
  <2>1. ~ Complete' /\ phase' = "modules" /\ base' = base
    BY <1>2 DEF Complete
  <2>2. \A f \in fixups' : f.at \in DOMAIN field' /\ f.label \in Labels /\ f.kind \in Kinds
    BY <1>3, <1>6, <1>7 DEF AsmInv, TypeOK, Kinds
  <2>3. \A x \in DOMAIN field' : field'[x] \in Int
    <3>1. ASSUME NEW o \in DOMAIN m.pointer PROVE field'[o + b] \in Int
      BY <1>1, <1>3, <1>7
    <3>2. ASSUME NEW o \in DOMAIN m.call PROVE field'[o + b] \in Int
      BY <1>1, <1>3, <1>7
    <3>3. ASSUME NEW x \in DOMAIN field PROVE field'[x] \in Int
      BY <1>7 DEF AsmInv, TypeOK
    <3> QED
      BY <1>7, <3>1, <3>2, <3>3
  <2>4. DOMAIN labels' \subseteq Labels /\ \A l \in DOMAIN labels' : labels'[l] \in Nat
    BY <1>1, <1>2, <1>3 DEF Extended, AsmInv, TypeOK, Defined
  <2>5. \A x \in DOMAIN relocs' : relocs'[x] \in Nat
    BY <1>2 DEF Listed, AsmInv, TypeOK
  <2>6. DOMAIN blobs' \subseteq Modules /\ \A n \in DOMAIN blobs' : blobs'[n] \in Nat
    BY <1>1, <1>5 DEF AsmInv, TypeOK
  <2> QED
    BY <1>4, <2>1, <2>2, <2>3, <2>4, <2>5, <2>6 DEF AsmInv, TypeOK, Defined
<1>11. FieldsApart'
  <2>1. ASSUME NEW f \in fixups', NEW g \in fixups', f.at = g.at PROVE f = g
    <3>1. \A h \in new : h.at \notin DOMAIN field
      BY <1>1, <1>3, <1>4, <1>6
    <3> QED
      BY <1>6, <1>9, <2>1, <3>1 DEF AsmInv, FieldsApart
  <2>2. ASSUME NEW n1 \in DOMAIN blobs', NEW n2 \in DOMAIN blobs',
               NEW o \in DOMAIN n1.pointer, NEW p \in DOMAIN n2.pointer,
               blobs'[n1] + o = blobs'[n2] + p
        PROVE  n1 = n2 /\ o = p
    <3>1. CASE n1 = m /\ n2 = m
      BY <1>1, <1>3, <1>5, <2>2, <3>1
    <3>2. CASE n1 \in DOMAIN blobs /\ n2 \in DOMAIN blobs
      BY <1>5, <2>2, <3>2 DEF AsmInv, FieldsApart, PointerAt
    <3>3. CASE n1 \in DOMAIN blobs /\ n2 = m
      <4>1. blobs[n1] + o \in DOMAIN field
        BY <3>3 DEF AsmInv, FieldsInside, Inside, PointerAt
      <4> QED
        BY <1>1, <1>3, <1>4, <1>5, <2>2, <3>3, <4>1
    <3>4. CASE n2 \in DOMAIN blobs /\ n1 = m
      <4>1. blobs[n2] + p \in DOMAIN field
        BY <3>4 DEF AsmInv, FieldsInside, Inside, PointerAt
      <4> QED
        BY <1>1, <1>3, <1>4, <1>5, <2>2, <3>4, <4>1
    <3> QED
      BY <1>5, <3>1, <3>2, <3>3, <3>4
  <2>3. ASSUME NEW f \in fixups' PROVE ~ IsPointer(f.at)'
    <3>1. CASE f \in fixups
      BY <1>1, <1>3, <1>4, <1>8, <1>9, <3>1 DEF AsmInv, FieldsApart
    <3>2. CASE f \in new
      <4>1. PICK o \in DOMAIN m.call : f.at = b + o
        BY <1>6, <3>2
      <4>2. ~ IsPointer(f.at)
        BY <1>1, <1>3, <1>4, <1>9, <4>1
      <4>3. \A p \in DOMAIN m.pointer : b + p # b + o
        BY <1>1, <1>3
      <4> QED
        BY <1>8, <4>1, <4>2, <4>3
    <3> QED
      BY <1>6, <3>1, <3>2
  <2> QED
    BY <2>1, <2>2, <2>3 DEF FieldsApart, PointerAt
<1>12. FieldsInside'
  <2>1. ASSUME NEW x \in DOMAIN field' PROVE x \in Nat /\ x < size'
    BY <1>1, <1>2, <1>3, <1>4, <1>7
  <2>2. ASSUME NEW f \in fixups' PROVE Inside(f.at, Width(f.kind))'
    <3>1. CASE f \in fixups
      BY <1>4, <1>7, <3>1 DEF AsmInv, FieldsInside, Inside, Width
    <3>2. CASE f \in new
      <4>1. PICK o \in DOMAIN m.call : f.at = b + o /\ f.kind = "abs32"
        BY <1>6, <3>2
      <4> QED
        BY <1>1, <1>2, <1>3, <1>7, <4>1 DEF Inside, Width
    <3> QED
      BY <1>6, <3>1, <3>2
  <2>3. ASSUME NEW n \in DOMAIN blobs', NEW o \in DOMAIN n.pointer PROVE Inside(PointerAt(n, o), 4)'
    <3>1. CASE n = m
      BY <1>1, <1>2, <1>3, <1>5, <1>7, <3>1 DEF Inside, PointerAt
    <3>2. CASE n \in DOMAIN blobs
      BY <1>4, <1>5, <1>7, <3>2 DEF AsmInv, FieldsInside, Inside, PointerAt
    <3> QED
      BY <1>5, <3>1, <3>2
  <2> QED
    BY <1>2, <2>1, <2>2, <2>3 DEF FieldsInside
<1>13. Relocations'
  <2> DEFINE old == {x \in DOMAIN field : IsPointer(x)}
             added == {o + b : o \in DOMAIN m.pointer}
  <2>1. relocs = [x \in old |-> 1]
    BY <1>2 DEF AsmInv, Relocations, Emitting
  <2>2. old \cap added = {}
    BY <1>1, <1>3, <1>4
  <2>3. {x \in DOMAIN field' : IsPointer(x)'} = old \cup added
    <3>1. \A o \in DOMAIN m.pointer : b + o = o + b
      BY <1>1, <1>3
    <3> QED
      BY <1>7, <1>8, <1>9, <3>1
  <2>4. relocs' = Listed(added)
    BY <1>2
  <2> HIDE DEF old, added
  <2>5. Listed(added) = [x \in old \cup added |-> 1]
    BY <2>1, <2>2 DEF Listed
  <2> QED
    BY <1>2, <2>3, <2>4, <2>5 DEF Relocations, Emitting, Complete
<1>14. ModulePointersLand'
  <2>1. base = 0 /\ base' = 0
    BY <1>2 DEF AsmInv
  <2>2. ASSUME NEW n \in DOMAIN blobs', NEW o \in DOMAIN n.pointer
        PROVE  field'[blobs'[n] + o] = base' + blobs'[n] + n.pointer[o]
    <3>1. CASE n = m
      <4>1. o \in DOMAIN m.pointer /\ m.pointer[o] \in Nat /\ blobs'[n] = b
        BY <1>3, <1>5, <3>1
      <4>2. field'[b + o] = b + m.pointer[o]
        BY <1>7, <4>1
      <4> QED
        BY <1>1, <2>1, <3>1, <4>1, <4>2
    <3>2. CASE n \in DOMAIN blobs
      <4>1. blobs[n] + o \in DOMAIN field
        BY <3>2 DEF AsmInv, FieldsInside, Inside, PointerAt
      <4> QED
        BY <1>5, <1>7, <2>1, <3>2, <4>1 DEF AsmInv, ModulePointersLand
    <3> QED
      BY <1>5, <3>1, <3>2
  <2> QED
    BY <2>2 DEF ModulePointersLand
<1> QED
  BY <1>2, <1>10, <1>11, <1>12, <1>13, <1>14 DEF AsmInv, Complete

-----------------------------------------------------------------------------
(* finish(), the hunk and the loader.                                      *)

LEMMA FinishInv == ASSUME AsmInv, Finish PROVE AsmInv'
<1>1. CASE ~ \A f \in fixups : Fillable(f)
  <2>1. /\ phase = "data" /\ phase' = "thrown" /\ size \in Nat
        /\ UNCHANGED <<size, field, relocs, labels, fixups, blobs, base>>
    BY <1>1 DEF Finish, AsmInv, TypeOK
  <2> QED
    BY <2>1, NoReferenceInv DEF Emitting, AsmInv, TypeOK, Defined
<1>2. CASE \A f \in fixups : Fillable(f)
  <2>1. /\ phase = "data" /\ phase' = "finished" /\ size' = Even(size)
        /\ field' = [o \in DOMAIN field |->
                       IF \E f \in fixups : f.at = o
                       THEN Filling(CHOOSE f \in fixups : f.at = o)
                       ELSE field[o]]
        /\ relocs' = Listed({f.at : f \in {g \in fixups : g.kind = "abs32"}})
        /\ UNCHANGED <<labels, fixups, blobs, base>>
    BY <1>2 DEF Finish
  <2>2. size \in Nat /\ size' \in Nat /\ size' >= size
    BY <2>1, EvenFacts DEF AsmInv, TypeOK
  <2>3. DOMAIN field' = DOMAIN field
    BY <2>1
  <2>4. ASSUME NEW f \in fixups PROVE field'[f.at] = Filling(f) /\ f.at \in DOMAIN field
    <3>1. f.at \in DOMAIN field
      BY DEF AsmInv, FieldsInside, Inside
    <3>2. (CHOOSE g \in fixups : g.at = f.at) = f
      BY DEF AsmInv, FieldsApart
    <3> QED
      BY <2>1, <3>1, <3>2
  <2>5. \A x \in DOMAIN field : IsPointer(x) => field'[x] = field[x]
    BY <2>1 DEF AsmInv, FieldsApart
  <2>6. ASSUME NEW f \in fixups
        PROVE  /\ f.label \in Defined /\ labels[f.label] \in Nat /\ f.at \in Nat /\ f.kind \in Kinds
               /\ Filling(f) \in Int
               /\ f.kind = "abs32" => Filling(f) = labels[f.label]
               /\ f.kind = "bsr32" => f.at + Filling(f) = labels[f.label]
               /\ f.kind = "pc16"  => /\ f.at + Decoded(Filling(f)) = labels[f.label]
                                      /\ Filling(f) \in 0..2 * Reach - 1
    <3>1. f.label \in Defined /\ labels[f.label] \in Nat /\ f.at \in Nat /\ f.kind \in Kinds
      BY <1>2 DEF Fillable, AsmInv, TypeOK, FieldsInside, Inside
    <3>2. CASE f.kind = "abs32"
      BY <3>1, <3>2 DEF Filling
    <3>3. CASE f.kind = "bsr32"
      BY <3>1, <3>3 DEF Filling
    <3>4. CASE f.kind = "pc16"
      <4> DEFINE d == labels[f.label] - f.at
      <4>1. d \in Int /\ InReach(d) /\ f.at + d = labels[f.label]
        BY <1>2, <3>1, <3>4 DEF Fillable
      <4>2. Filling(f) = Encoded(d)
        BY <3>4 DEF Filling
      <4> HIDE DEF d
      <4>3. Encoded(d) \in 0..2 * Reach - 1 /\ Decoded(Encoded(d)) = d
        BY <4>1, ReadBack
      <4>4. Encoded(d) \in Int
        BY <4>3, AssemblerAssumption
      <4> QED
        BY <3>1, <3>4, <4>1, <4>2, <4>3, <4>4
    <3> QED
      BY <3>1, <3>2, <3>3, <3>4 DEF Kinds
  <2>7. TypeOK'
    <3>1. ASSUME NEW x \in DOMAIN field PROVE field'[x] \in Int
      <4>1. CASE \E f \in fixups : f.at = x
        BY <2>4, <2>6, <4>1
      <4>2. CASE ~ \E f \in fixups : f.at = x
        BY <2>1, <4>2 DEF AsmInv, TypeOK
      <4> QED
        BY <4>1, <4>2
    <3>2. \A f \in fixups : f.kind = "pc16" => field'[f.at] \in 0..2 * Reach - 1
      BY <2>4, <2>6
    <3>3. \A x \in DOMAIN relocs' : relocs'[x] \in Nat
      BY <2>1 DEF Listed, AsmInv, TypeOK
    <3> QED
      BY <2>1, <2>2, <2>3, <3>1, <3>2, <3>3 DEF AsmInv, TypeOK, Defined
  <2>8. FieldsApart'
    BY <2>1 DEF AsmInv, FieldsApart, IsPointer, PointerAt
  <2>9. FieldsInside'
    <3>1. \A x \in DOMAIN field' : x \in Nat /\ x < size'
      BY <2>2, <2>3 DEF AsmInv, FieldsInside
    <3>2. ASSUME NEW f \in fixups' PROVE Inside(f.at, Width(f.kind))'
      BY <2>1, <2>2, <2>3 DEF AsmInv, FieldsInside, Inside, Width
    <3>3. ASSUME NEW m \in DOMAIN blobs', NEW o \in DOMAIN m.pointer PROVE Inside(PointerAt(m, o), 4)'
      BY <2>1, <2>2, <2>3 DEF AsmInv, FieldsInside, Inside, PointerAt
    <3> QED
      BY <2>1, <3>1, <3>2, <3>3 DEF FieldsInside
  <2>10. Relocations'
    <3> DEFINE old   == {x \in DOMAIN field : IsPointer(x)}
               named == {f.at : f \in {g \in fixups : g.kind = "abs32"}}
    <3>1. relocs = [x \in old |-> 1] /\ relocs' = Listed(named)
      BY <2>1 DEF AsmInv, Relocations, Emitting
    <3>2. old \cap named = {}
      BY DEF AsmInv, FieldsApart
    <3>3. AbsoluteFields' = old \cup named
      <4>1. AbsoluteFields' = AbsoluteFields
        BY <2>1 DEF AbsoluteFields
      <4>2. \A x : IsPointer(x) => x \in DOMAIN field
        BY DEF IsPointer, AsmInv, FieldsInside, Inside
      <4>3. \A x : x \in AbsoluteFields <=> x \in old \/ x \in named
        BY <4>2, AbsoluteIs
      <4> QED
        BY <4>1, <4>3
    <3> HIDE DEF old, named
    <3>4. Listed(named) = [x \in old \cup named |-> 1]
      BY <3>1, <3>2 DEF Listed
    <3> QED
      BY <2>1, <3>1, <3>3, <3>4 DEF Relocations, Emitting, Complete
  <2>11. ModulePointersLand'
    <3>1. ASSUME NEW m \in DOMAIN blobs, NEW o \in DOMAIN m.pointer
          PROVE  field'[blobs[m] + o] = base + blobs[m] + m.pointer[o]
      <4>1. IsPointer(blobs[m] + o) /\ blobs[m] + o \in DOMAIN field
        BY DEF IsPointer, PointerAt, AsmInv, FieldsInside, Inside
      <4> QED
        BY <2>5, <4>1 DEF AsmInv, ModulePointersLand
    <3> QED
      BY <2>1, <3>1 DEF ModulePointersLand
  <2>12. NamesLand'
    <3>1. base = 0 /\ base' = 0
      BY <2>1 DEF AsmInv
    <3>2. \A f \in fixups' : f.kind = "abs32" => field'[f.at] = base' + labels'[f.label]
      BY <2>1, <2>4, <2>6, <3>1
    <3>3. \A f \in fixups' : f.kind = "bsr32" => f.at + field'[f.at] = labels'[f.label]
      BY <2>1, <2>4, <2>6
    <3>4. \A f \in fixups' : f.kind = "pc16" => f.at + Decoded(field'[f.at]) = labels'[f.label]
      BY <2>1, <2>4, <2>6
    <3>5. \A f \in fixups' : f.label \in Defined' /\ f.kind \in Kinds
      BY <2>1, <2>6 DEF Defined
    <3> QED
      BY <3>2, <3>3, <3>4, <3>5 DEF NamesLand, Kinds
  <2> QED
    BY <2>1, <2>7, <2>8, <2>9, <2>10, <2>11, <2>12 DEF AsmInv
<1> QED
  BY <1>1, <1>2

LEMMA WriteHunkInv == ASSUME AsmInv, WriteHunk PROVE AsmInv'
<1>1. /\ phase = "finished" /\ phase' = "written" /\ size \in Nat /\ size' \in Nat /\ size' >= size
      /\ UNCHANGED <<labels, fixups, relocs, field, blobs, base>>
  BY DEF AsmInv, TypeOK, WriteHunk
<1>2. TypeOK'
  BY <1>1 DEF AsmInv, TypeOK, Defined, Complete
<1>3. FieldsApart'
  BY <1>1 DEF AsmInv, FieldsApart, IsPointer, PointerAt
<1>4. FieldsInside'
  <2>1. \A x \in DOMAIN field' : x \in Nat /\ x < size'
    BY <1>1 DEF AsmInv, FieldsInside
  <2>2. ASSUME NEW f \in fixups' PROVE Inside(f.at, Width(f.kind))'
    BY <1>1 DEF AsmInv, FieldsInside, Inside, Width
  <2>3. ASSUME NEW m \in DOMAIN blobs', NEW o \in DOMAIN m.pointer PROVE Inside(PointerAt(m, o), 4)'
    BY <1>1 DEF AsmInv, FieldsInside, Inside, PointerAt
  <2> QED
    BY <1>1, <2>1, <2>2, <2>3 DEF FieldsInside
<1>5. Relocations'
  BY <1>1 DEF AsmInv, Relocations, Emitting, Complete, AbsoluteFields
<1>6. ModulePointersLand' /\ NamesLand'
  <2>1. ModulePointersLand /\ NamesLand
    BY <1>1 DEF AsmInv, Complete
  <2> QED
    BY <1>1, <2>1 DEF ModulePointersLand, NamesLand, Defined
<1> QED
  BY <1>1, <1>2, <1>3, <1>4, <1>5, <1>6 DEF AsmInv, Complete

LEMMA LoadSegInv == ASSUME AsmInv, NEW b \in Bases, LoadSeg(b) PROVE AsmInv'
<1>1. /\ phase = "written" /\ phase' = "loaded" /\ base' = b /\ b \in Nat /\ base = 0
      /\ size \in Nat /\ UNCHANGED <<size, labels, fixups, relocs, blobs>>
  BY AssemblerAssumption DEF AsmInv, TypeOK, LoadSeg
<1>2. relocs = [o \in AbsoluteFields |-> 1]
  BY <1>1 DEF AsmInv, Relocations, Complete
<1>3. DOMAIN field' = DOMAIN field
  BY DEF LoadSeg
<1>4. \A x \in DOMAIN field : field[x] \in Int
  BY DEF AsmInv, TypeOK
<1>5. \A x \in DOMAIN field : x \in AbsoluteFields => field'[x] = field[x] + b
  BY <1>1, <1>2, <1>4 DEF LoadSeg
<1>6. \A x \in DOMAIN field : x \notin AbsoluteFields => field'[x] = field[x]
  BY <1>1, <1>2, <1>4 DEF LoadSeg
<1>7. \A f \in fixups : f.at \in DOMAIN field /\ (f.at \in AbsoluteFields <=> f.kind = "abs32")
  <2>1. ASSUME NEW f \in fixups PROVE f.at \in AbsoluteFields <=> f.kind = "abs32"
    BY AbsoluteIs DEF AsmInv, FieldsApart
  <2> QED
    BY <2>1 DEF AsmInv, FieldsInside, Inside
<1>8. TypeOK'
  <2>1. \A x \in DOMAIN field' : field'[x] \in Int
    BY <1>1, <1>3, <1>4, <1>5, <1>6
  <2>2. \A f \in fixups : f.kind = "pc16" => field'[f.at] \in 0..2 * Reach - 1
    BY <1>1, <1>6, <1>7 DEF AsmInv, TypeOK, Complete
  <2> QED
    BY <1>1, <1>3, <2>1, <2>2 DEF AsmInv, TypeOK, Defined
<1>9. FieldsApart'
  BY <1>1 DEF AsmInv, FieldsApart, IsPointer, PointerAt
<1>10. FieldsInside'
  <2>1. ASSUME NEW f \in fixups' PROVE Inside(f.at, Width(f.kind))'
    BY <1>1, <1>3 DEF AsmInv, FieldsInside, Inside, Width
  <2>2. ASSUME NEW m \in DOMAIN blobs', NEW o \in DOMAIN m.pointer PROVE Inside(PointerAt(m, o), 4)'
    BY <1>1, <1>3 DEF AsmInv, FieldsInside, Inside, PointerAt
  <2> QED
    BY <1>1, <1>3, <2>1, <2>2 DEF AsmInv, FieldsInside
<1>11. Relocations'
  BY <1>1 DEF AsmInv, Relocations, Emitting, Complete, AbsoluteFields
<1>12. ModulePointersLand'
  <2>1. ASSUME NEW m \in DOMAIN blobs, NEW o \in DOMAIN m.pointer
        PROVE  field'[blobs[m] + o] = base' + blobs[m] + m.pointer[o]
    <3>1. blobs[m] + o \in AbsoluteFields /\ blobs[m] + o \in DOMAIN field
      BY AbsoluteIs DEF IsPointer, PointerAt, AsmInv, FieldsInside, Inside
    <3>2. field'[blobs[m] + o] = field[blobs[m] + o] + b
      BY <1>5, <3>1
    <3>3. field[blobs[m] + o] = base + blobs[m] + m.pointer[o]
      BY DEF AsmInv, ModulePointersLand
    <3>4. blobs[m] \in Nat /\ m.pointer[o] \in Nat
      BY AssemblerAssumption DEF AsmInv, TypeOK, ModuleShape
    <3> QED
      BY <1>1, <3>2, <3>3, <3>4
  <2> QED
    BY <1>1, <2>1 DEF ModulePointersLand
<1>13. NamesLand'
  <2>1. NamesLand /\ \A f \in fixups : f.kind \in Kinds
    BY <1>1 DEF AsmInv, Complete, TypeOK
  <2>2. ASSUME NEW f \in fixups
        PROVE  /\ f.label \in Defined /\ labels[f.label] \in Nat
               /\ f.kind = "abs32" => field'[f.at] = b + labels[f.label]
               /\ f.kind = "bsr32" => f.at + field'[f.at] = labels[f.label]
               /\ f.kind = "pc16"  => f.at + Decoded(field'[f.at]) = labels[f.label]
    <3>1. f.label \in Defined /\ labels[f.label] \in Nat
      BY <2>1 DEF NamesLand, AsmInv, TypeOK
    <3>2. CASE f.kind = "abs32"
      <4>1. field[f.at] = base + labels[f.label] /\ base = 0
        BY <1>1, <2>1, <3>2 DEF NamesLand
      <4> QED
        BY <1>5, <1>7, <3>1, <3>2, <4>1, AssemblerAssumption
    <3>3. CASE f.kind = "bsr32"
      BY <1>6, <1>7, <2>1, <3>1, <3>3 DEF NamesLand
    <3>4. CASE f.kind = "pc16"
      BY <1>6, <1>7, <2>1, <3>1, <3>4 DEF NamesLand
    <3> QED
      BY <2>1, <3>1, <3>2, <3>3, <3>4 DEF Kinds
  <2> QED
    BY <1>1, <2>1, <2>2 DEF NamesLand, Defined, Kinds
<1> QED
  BY <1>1, <1>8, <1>9, <1>10, <1>11, <1>12, <1>13 DEF AsmInv

-----------------------------------------------------------------------------
(* The theorems.                                                           *)

LEMMA NextInv == AsmInv /\ [Next]_vars => AsmInv'
<1> SUFFICES ASSUME AsmInv, [Next]_vars PROVE AsmInv'
  OBVIOUS
<1>1. ASSUME NEW n \in Lengths, Plain(n) PROVE AsmInv'
  BY <1>1, PlainInv
<1>2. ASSUME NEW l \in Labels, Define(l) PROVE AsmInv'
  BY <1>2, DefineInv
<1>3. ASSUME NEW l \in Labels, Branch(l) \/ Absolute(l) \/ LongCall(l) PROVE AsmInv'
  BY <1>3, ReferInv DEF Branch, Absolute, LongCall, Kinds
<1>4. ASSUME CodeDone \/ ModulesDone \/ EmitData PROVE AsmInv'
  BY <1>4, StageInv DEF EmitData
<1>5. ASSUME NEW m \in Modules, AppendModule(m) PROVE AsmInv'
  BY <1>5, AppendInv
<1>6. CASE Finish
  BY <1>6, FinishInv
<1>7. CASE WriteHunk
  BY <1>7, WriteHunkInv
<1>8. ASSUME NEW b \in Bases, LoadSeg(b) PROVE AsmInv'
  BY <1>8, LoadSegInv
<1>9. CASE UNCHANGED vars
  <2>1. TypeOK' /\ FieldsApart' /\ FieldsInside'
    BY <1>9 DEF vars, AsmInv, TypeOK, FieldsApart, FieldsInside, Complete, IsPointer, PointerAt, Inside, Defined
  <2>2. Relocations'
    BY <1>9 DEF vars, AsmInv, Relocations, Emitting, Complete, AbsoluteFields, IsPointer, PointerAt
  <2>3. ModulePointersLand' /\ (Complete => NamesLand)'
    BY <1>9 DEF vars, AsmInv, ModulePointersLand, NamesLand, Complete, Defined
  <2> QED
    BY <1>9, <2>1, <2>2, <2>3 DEF AsmInv, vars
<1> QED
  BY <1>1, <1>2, <1>3, <1>4, <1>5, <1>6, <1>7, <1>8, <1>9 DEF Next, EmitCode, LinkModules

\* Fields are apart, inside the image and hold what they should, at every step.
THEOREM AssemblerInvariant == Spec => []AsmInv
  BY InitInv, NextInv, PTL DEF Spec

\* The types, and that a finished 16-bit field holds 16 bits.
THEOREM AssemblerTypes == Spec => []TypeOK
<1>1. AsmInv => TypeOK
  BY DEF AsmInv
<1> QED
  BY <1>1, AssemblerInvariant, PTL

\* Wherever the loader puts the program, each reference asm68k.js noted leads to
\* its label, and each pointer of a binary module to where it led in the module.
THEOREM AssemblerReferencesLand == Spec => []ReferencesLand
<1>1. AsmInv => ReferencesLand
  BY DEF AsmInv, ReferencesLand, Complete
<1> QED
  BY <1>1, AssemblerInvariant, PTL

\* From finish() on the relocations are the absolute fields, each once, at even
\* offsets inside the hunk.
THEOREM AssemblerRelocsExact == Spec => []RelocsExact
<1>1. AsmInv => RelocsExact
  <2> SUFFICES ASSUME AsmInv, Complete
               PROVE  relocs = [o \in AbsoluteFields |-> 1] /\ \A o \in DOMAIN relocs : Reachable(o)
    BY DEF RelocsExact
  <2>1. relocs = [o \in AbsoluteFields |-> 1]
    BY DEF AsmInv, Relocations
  <2>2. ASSUME NEW x \in AbsoluteFields PROVE Reachable(x)
    <3>1. CASE IsPointer(x)
      BY <3>1 DEF IsPointer, AsmInv, FieldsInside, Inside, Reachable
    <3>2. CASE \E f \in fixups : f.kind = "abs32" /\ x = f.at
      BY <3>2 DEF AsmInv, FieldsInside, Inside, Reachable, Width
    <3> QED
      BY <3>1, <3>2, AbsoluteIs
  <2> QED
    BY <2>1, <2>2
<1> QED
  BY <1>1, AssemblerInvariant, PTL

-----------------------------------------------------------------------------
(* The inductive invariant.                                                *)

\* The chunks that files are made of.
Chunks == UNION {{data[i] : i \in DOMAIN data} : data \in Files}

\* The blocks an entry got from alloc(): one after the other.
Size(e) == IF e.dir THEN 1 ELSE FileSize(e.data)
Area(e) == e.block .. e.block + Size(e) - 1

\* What addDir and addFile write into block b of an entry.
Original(e, b) ==
  IF e.dir THEN DirBlock(e.block, e.name, e.parent)
  ELSE FileBlock(e.block, e.name, e.data, e.parent, b)

\* All of the space below nextFree is taken, and nothing above it.
SpaceSound ==
  /\ nextFree \in Nat /\ First <= nextFree
  /\ full \in BOOLEAN /\ finished \in BOOLEAN
  /\ Root \in DOMAIN disk /\ DOMAIN disk \subseteq {Root} \cup First .. Blocks - 1
  /\ ~full => nextFree <= Blocks /\ DOMAIN disk = {Root} \cup First .. nextFree - 1
  /\ used = {Root, Bitmap} \cup {b \in First .. Blocks - 1 : b < nextFree}
  /\ finished => bitmap = {b \in 2 .. Blocks - 1 : b \notin used}

EntrySet == [name : Names, parent : Nat, block : Nat, dir : BOOLEAN, data : Files \cup {<< >>}]

Holds(e) ==
  /\ e.parent \in Dirs
  /\ ~e.dir => e.data \in Files
  /\ First <= e.block /\ e.block + Size(e) <= nextFree
  /\ Area(e) \subseteq DOMAIN disk

\* Entries have a name of their own in their directory, and blocks of their own.
TreeSound ==
  /\ tree \in Seq(EntrySet)
  /\ \A i \in DOMAIN tree : Holds(tree[i])
  /\ \A i, j \in DOMAIN tree : i < j => tree[i].block + Size(tree[i]) <= tree[j].block
  /\ \A i, j \in DOMAIN tree :
       tree[i].name = tree[j].name /\ tree[i].parent = tree[j].parent => i = j

Fields == {"type", "own", "seq", "first", "next", "slots", "size", "name", "chain",
           "parent", "ext", "data", "sum"}

IsBlock(r) == r = [f \in Fields |-> r[f]]

\* A link of a block leads to a later one.
Onward(l, b, d) == l = None \/ (l \in DOMAIN d /\ l > b)

BlockSound(r, b, d) ==
  /\ IsBlock(r)
  /\ r.slots \in [1 .. Slots -> Nat] /\ r.data \in Seq(Chunks) /\ r.seq \in Nat
  /\ Onward(r.chain, b, d) /\ Onward(r.next, b, d) /\ Onward(r.ext, b, d)

\* Everything but the hash table, the hash chain and the checksum stays.
Kept(r, s) ==
  /\ r.seq = s.seq /\ r.first = s.first /\ r.next = s.next /\ r.size = s.size
  /\ r.name = s.name /\ r.parent = s.parent /\ r.ext = s.ext /\ r.data = s.data

OnDisk(e, b) ==
  /\ Kept(disk[b], Original(e, b))
  /\ ~e.dir => disk[b].slots = Original(e, b).slots

DiskSound ==
  /\ \A b \in DOMAIN disk : BlockSound(disk[b], b, disk)
  /\ \A i \in DOMAIN tree : \A b \in Area(tree[i]) : OnDisk(tree[i], b)
  /\ \A b \in DOMAIN disk : b # Root \/ finished => SumRight(disk[b])

\* The headers of the entries that share a slot of a directory.
In(e, dir, s) == e.parent = dir /\ Hash[e.name] = s
Members(T, dir, s) == {T[i].block : i \in {j \in DOMAIN T : In(T[j], dir, s)}}

\* c is the first of M behind b.
IsNext(c, b, M) ==
  \/ c = None /\ \A m \in M : m <= b
  \/ c \in M /\ c > b /\ \A m \in M : m <= b \/ c <= m

\* A slot leads to its first member, and the chain to the others in their order.
TablesSound ==
  /\ \A dir \in Dirs, s \in 1 .. Slots : IsNext(disk[dir].slots[s], None, Members(tree, dir, s))
  /\ \A i \in DOMAIN tree :
       IsNext(disk[tree[i].block].chain, tree[i].block,
              Members(tree, tree[i].parent, Hash[tree[i].name]))

AdfInv == SpaceSound /\ TreeSound /\ DiskSound /\ TablesSound

-----------------------------------------------------------------------------
(* Recursive functions along links.                                        *)

LEMMA LeastOf ==
  ASSUME NEW T \in SUBSET Nat, T # {}
  PROVE  \E t \in T : \A s \in T : t <= s
<1>1. PICK t \in T : \A s \in T : ~ (<<s, t>> \in OpToRel(<, Nat))
  BY WFMin, NatLessThanWellFounded
<1>2. ASSUME NEW s \in T PROVE t <= s
  <2>1. ~ (s < t)
    BY <1>1 DEF OpToRel
  <2> QED
    BY <2>1
<1> QED
  BY <1>2

\* Links within D that lead downwards in a rank, or nowhere.
Ranked(D, link, rank, top) ==
  /\ None \notin D /\ top \in Nat
  /\ link \in [D -> D \cup {None}] /\ rank \in [D -> Nat]
  /\ \A b \in D : rank[b] < top /\ (link[b] \in D => rank[link[b]] < rank[b])

Inherits(P, D, link) == \A b \in D : (link[b] \in D => link[b] \in P) => b \in P

\* What holds of a place when it holds of the next one, holds everywhere.
LEMMA AlongLinks ==
  ASSUME NEW D, NEW link, NEW rank, NEW top, Ranked(D, link, rank, top),
         NEW P, Inherits(P, D, link)
  PROVE  D \subseteq P
<1> SUFFICES ASSUME D \ P # {} PROVE FALSE
  OBVIOUS
<1> DEFINE R == {rank[b] : b \in D \ P}
<1>1. R \in SUBSET Nat /\ R # {}
  BY DEF Ranked
<1>2. PICK r \in R : \A s \in R : r <= s
  BY <1>1, LeastOf
<1>3. PICK b \in D \ P : r = rank[b]
  BY <1>2
<1>4. link[b] \in D /\ link[b] \notin P
  BY <1>3 DEF Inherits
<1>5. rank[link[b]] \in R /\ rank[link[b]] < rank[b] /\ rank[b] \in Nat /\ rank[link[b]] \in Nat
  BY <1>3, <1>4 DEF Ranked
<1>6. rank[b] <= rank[link[b]]
  BY <1>2, <1>3, <1>5
<1> QED
  BY <1>5, <1>6

\* A function that has start where the links end and elsewhere a value made of the next one.
Walks(f, D, T, link, start, make) ==
  /\ f \in [D \cup {None} -> T] /\ f[None] = start
  /\ \A b \in D : f[b] = make[b][f[link[b]]]

Below(D, rank, k) == {b \in D : rank[b] < k}

LEMMA WalkExists ==
  ASSUME NEW D, NEW link, NEW rank, NEW top, Ranked(D, link, rank, top),
         NEW T, NEW start \in T, NEW make \in [D -> [T -> T]]
  PROVE  \E f : Walks(f, D, T, link, start, make)
<1> DEFINE Bad == {k \in Nat : ~ \E f : Walks(f, Below(D, rank, k), T, link, start, make)}
<1>0. /\ None \notin D /\ top \in Nat
      /\ link \in [D -> D \cup {None}] /\ rank \in [D -> Nat]
      /\ \A b \in D : rank[b] < top /\ (link[b] \in D => rank[link[b]] < rank[b])
  BY DEF Ranked
<1>1. ASSUME Bad # {} PROVE FALSE
  <2>1. PICK k \in Bad : \A j \in Bad : k <= j
    BY <1>1, LeastOf
  <2>2. k \in Nat /\ ~ \E f : Walks(f, Below(D, rank, k), T, link, start, make)
    BY <2>1
  <2>3. CASE k = 0
    <3>1. Below(D, rank, k) = {}
      BY <1>0, <2>3 DEF Below
    <3> DEFINE g == [b \in {None} |-> start]
    <3>2. g \in [{} \cup {None} -> T] /\ g[None] = start
      OBVIOUS
    <3>3. Walks(g, {}, T, link, start, make)
      BY <3>2 DEF Walks
    <3> QED
      BY <2>2, <3>1, <3>3
  <2>4. CASE k # 0
    <3>0. k - 1 \in Nat /\ ~ (k <= k - 1)
      BY <2>2, <2>4
    <3>1. k - 1 \notin Bad
      BY <2>1, <3>0
    <3> DEFINE E == Below(D, rank, k - 1)
               F == Below(D, rank, k)
    <3>2. PICK f : Walks(f, E, T, link, start, make)
      BY <3>0, <3>1
    <3>3. /\ f \in [E \cup {None} -> T] /\ f[None] = start
          /\ \A b \in E : f[b] = make[b][f[link[b]]]
      BY <3>2 DEF Walks
    <3>4. E \subseteq F /\ F \subseteq D
      BY <1>0, <2>2 DEF Below
    <3>5. ASSUME NEW b \in F PROVE link[b] \in E \cup {None}
      <4>1. b \in D /\ rank[b] \in Nat /\ rank[b] < k /\ link[b] \in D \cup {None}
        BY <1>0 DEF Below
      <4>2. ASSUME link[b] \in D PROVE rank[link[b]] \in Nat /\ rank[link[b]] < k - 1
        BY <1>0, <2>2, <4>1, <4>2
      <4> QED
        BY <4>1, <4>2 DEF Below
    <3> HIDE DEF E, F
    <3> DEFINE g == [b \in F \cup {None} |-> IF b \in F THEN make[b][f[link[b]]] ELSE start]
    <3>6. g \in [F \cup {None} -> T]
      BY <3>3, <3>4, <3>5
    <3>7. ASSUME NEW b \in E \cup {None} PROVE g[b] = f[b]
      BY <1>0, <3>3, <3>4
    <3>8. g[None] = start /\ \A b \in F : g[b] = make[b][f[link[b]]]
      BY <1>0, <3>4
    <3> HIDE DEF g
    <3>9. \A b \in F : g[b] = make[b][g[link[b]]]
      BY <3>5, <3>7, <3>8
    <3>10. Walks(g, F, T, link, start, make)
      BY <3>6, <3>8, <3>9 DEF Walks
    <3> QED
      BY <2>2, <3>10 DEF F
  <2> QED
    BY <2>3, <2>4
<1>2. Below(D, rank, top) = D
  BY <1>0 DEF Below
<1> QED
  BY <1>0, <1>1, <1>2

-----------------------------------------------------------------------------
(* Blocks.                                                                 *)

NoSlots == [s \in 1 .. Slots |-> None]

LEMMA BlankIsBlock ==
  /\ IsBlock(Blank) /\ Blank.slots = NoSlots /\ Blank.chain = None /\ Blank.seq = 0
  /\ Blank.first = None /\ Blank.next = None /\ Blank.ext = None /\ Blank.data = << >>
BY DEF Blank, IsBlock, Fields, NoSlots

\* What a checksum and what a new link in a chain change.
LEMMA SumKeeps ==
  ASSUME NEW r, IsBlock(r)
  PROVE  /\ IsBlock(Sum(r)) /\ Kept(Sum(r), r) /\ SumRight(Sum(r))
         /\ Sum(r).slots = r.slots /\ Sum(r).chain = r.chain
<1> DEFINE c == Contents(r)
<1>1. Sum(r) = [r EXCEPT !.sum = c]
  BY DEF Sum
<1>2. IsBlock(Sum(r)) /\ Kept(Sum(r), r) /\ Sum(r).slots = r.slots /\ Sum(r).chain = r.chain
  <2> HIDE DEF c
  <2> QED
    BY <1>1 DEF IsBlock, Fields, Kept
<1>3. Sum(r).sum = c
  <2> HIDE DEF c
  <2> QED
    BY <1>1 DEF IsBlock, Fields
<1>4. Contents(Sum(r)) = c
  BY <1>1 DEF Contents, IsBlock, Fields
<1> QED
  BY <1>2, <1>3, <1>4 DEF SumRight

LEMMA ChainKeeps ==
  ASSUME NEW r, IsBlock(r), NEW l
  PROVE  LET s == [r EXCEPT !.chain = l]
         IN IsBlock(s) /\ Kept(s, r) /\ s.slots = r.slots /\ s.chain = l
BY DEF IsBlock, Fields, Kept

LEMMA SlotKeeps ==
  ASSUME NEW r, IsBlock(r), NEW h, NEW l
  PROVE  LET s == [r EXCEPT !.slots[h] = l]
         IN IsBlock(s) /\ Kept(s, r) /\ s.slots = [r.slots EXCEPT ![h] = l] /\ s.chain = r.chain
BY DEF IsBlock, Fields, Kept

LEMMA KeptIsTransitive ==
  ASSUME NEW r, NEW s, NEW t, Kept(r, s), Kept(s, t)
  PROVE  Kept(r, t)
BY DEF Kept

-----------------------------------------------------------------------------
(* What addDir and addFile write.                                          *)

LEMMA ConstantsAre ==
  /\ Slots \in Nat /\ Slots > 0 /\ Root \in Nat /\ Root > 1 /\ None = 0
  /\ Bitmap = Root + 1 /\ First = Root + 2 /\ Blocks \in Nat /\ Blocks > First
  /\ \A name \in Names : Hash[name] \in 1 .. Slots
BY AdfAssumption DEF Bitmap, First, None

\* A file is made of chunks.
LEMMA FileIsData ==
  ASSUME NEW data \in Files
  PROVE  data \in Seq(Chunks) /\ Len(data) \in Nat
<1>1. data \in Seq({data[i] : i \in DOMAIN data})
  BY AdfAssumption
<1>2. {data[i] : i \in DOMAIN data} \subseteq Chunks
  BY DEF Chunks
<1>3. Len(data) \in Nat /\ data \in [1 .. Len(data) -> {data[i] : i \in DOMAIN data}]
  BY <1>1, LenProperties
<1>4. data \in [1 .. Len(data) -> Chunks]
  BY <1>2, <1>3
<1> QED
  BY <1>3, <1>4, SeqDef

\* The pointers of n data blocks fill the header and all extensions but the last.
Fits(n, x) == x * Slots < n /\ n <= x * Slots + Slots

LEMMA ExtensionsAre ==
  ASSUME NEW n \in Nat, n > 0
  PROVE  Extensions(n) \in Nat /\ Fits(n, Extensions(n))
<1>0. Slots \in Nat /\ Slots > 0
  BY ConstantsAre
<1>1. CASE n > Slots
  <2>1. (n - Slots + Slots - 1) = n - 1 /\ n - 1 \in Nat
    BY <1>0
  <2>2. Extensions(n) = (n - 1) \div Slots
    BY <1>1, <2>1 DEF Extensions
  <2>3. PICK q \in Int : q = (n - 1) \div Slots
    BY <1>0, <2>1
  <2>4. PICK r \in 0 .. Slots - 1 : n - 1 = Slots * q + r
    BY <1>0, <2>1, <2>3
  <2>5. q >= 0
    BY <1>0, <2>1, <2>3
  <2>6. PICK p \in Int : p = Slots * q /\ p = q * Slots
    BY <1>0
  <2>7. n - 1 = p + r
    BY <2>4, <2>6
  <2>8. p < n /\ n <= p + Slots
    BY <1>0, <2>7
  <2> QED
    BY <2>2, <2>3, <2>5, <2>6, <2>8 DEF Fits
<1>2. CASE ~ (n > Slots)
  <2>1. Extensions(n) = 0 /\ 0 * Slots = 0
    BY <1>0, <1>2 DEF Extensions
  <2> QED
    BY <1>0, <1>2, <2>1 DEF Fits
<1> QED
  BY <1>1, <1>2

LEMMA CountIs ==
  ASSUME NEW n \in Nat, n > 0, NEW e \in 0 .. Extensions(n)
  PROVE  /\ Count(n, e) \in 1 .. Slots
         /\ e = Extensions(n) => n = e * Slots + Count(n, e)
         /\ e < Extensions(n) => Count(n, e) = Slots /\ e * Slots + Slots < n
         /\ e * Slots \in Nat
<1>0. Slots \in Nat /\ Slots > 0
  BY ConstantsAre
<1>1. PICK x \in Nat : x = Extensions(n) /\ Fits(n, x)
  BY ExtensionsAre
<1>2. PICK p \in Nat : p = x * Slots
  BY <1>0
<1>3. p < n /\ n <= p + Slots
  BY <1>1, <1>2 DEF Fits
<1>4. e \in Nat /\ e <= x
  BY <1>1
<1>5. PICK q \in Nat : q = e * Slots
  BY <1>0, <1>4
<1>6. e < x => q + Slots <= p
  <2> SUFFICES ASSUME e < x PROVE q + Slots <= p
    OBVIOUS
  <2>1. PICK k \in Nat : x = e + 1 + k
    <3>1. x - e - 1 \in Nat /\ x = e + 1 + (x - e - 1)
      BY <1>4
    <3> QED
      BY <3>1
  <2>2. PICK m \in Nat : m = k * Slots
    BY <1>0
  <2>3. (e + 1 + k) * Slots = e * Slots + Slots + k * Slots
    BY <1>0, <1>4
  <2>4. p = q + Slots + m
    BY <1>2, <1>5, <2>1, <2>2, <2>3
  <2> QED
    BY <1>0, <2>4
<1>7. e = x => q = p
  BY <1>2, <1>5
<1>8. Count(n, e) = IF Slots < n - q THEN Slots ELSE n - q
  BY <1>5 DEF Count, Least
<1>9. e = x \/ e < x
  BY <1>4
<1>10. CASE e = x
  <2>1. q = p
    BY <1>7, <1>10
  <2>2. Count(n, e) = n - q /\ n - q \in 1 .. Slots
    BY <1>0, <1>3, <1>8, <2>1
  <2>3. n = q + (n - q)
    BY <1>5
  <2> QED
    BY <1>1, <1>4, <1>5, <1>10, <2>2, <2>3
<1>11. CASE e < x
  <2>1. q + Slots <= p
    BY <1>6, <1>11
  <2>2. Slots < n - q /\ q + Slots < n
    BY <1>0, <1>3, <2>1
  <2>3. Count(n, e) = Slots /\ Slots \in 1 .. Slots
    BY <1>0, <1>8, <2>2
  <2> QED
    BY <1>1, <1>4, <1>5, <1>11, <2>2, <2>3
<1> QED
  BY <1>9, <1>10, <1>11

LEMMA PointersAre ==
  ASSUME NEW header \in Nat, NEW n \in Nat, n > 0, NEW e \in 0 .. Extensions(n)
  PROVE  /\ PointersIn(header, n, e) \in [1 .. Slots -> Nat]
         /\ \A i \in 1 .. Count(n, e) : PointersIn(header, n, e)[Slots - i + 1] = header + (e * Slots + i)
<1> DEFINE c == Count(n, e)
           before == e * Slots
           blocks == [i \in 1 .. c |-> header + (before + i)]
<1>0. Slots \in Nat /\ Slots > 0 /\ None = 0
  BY ConstantsAre
<1>1. c \in 1 .. Slots /\ c \in Nat /\ before \in Nat
  BY <1>0, CountIs
<1>2. PointersIn(header, n, e) = Pointers(blocks)
  BY DEF PointersIn, DataAt
<1> HIDE DEF c, before
<1>3. blocks \in Seq(Nat) /\ Len(blocks) = c
  <2>1. blocks \in [1 .. c -> Nat]
    BY <1>1
  <2> QED
    BY <1>1, <2>1, SeqDef, LenProperties
<1>7. \A i \in 1 .. c : blocks[i] = header + (before + i)
  OBVIOUS
<1> HIDE DEF blocks
<1>4. Pointers(blocks) = [s \in 1 .. Slots |-> IF Slots - s + 1 <= c THEN blocks[Slots - s + 1] ELSE None]
  BY <1>3 DEF Pointers
<1>5. ASSUME NEW s \in 1 .. Slots
      PROVE  (IF Slots - s + 1 <= c THEN blocks[Slots - s + 1] ELSE None) \in Nat
  <2>1. CASE Slots - s + 1 <= c
    <3>1. Slots - s + 1 \in 1 .. c
      BY <1>0, <1>1, <2>1
    <3>2. blocks[Slots - s + 1] = header + (before + (Slots - s + 1))
      BY <1>7, <3>1
    <3> QED
      BY <1>0, <1>1, <2>1, <3>2
  <2> QED
    BY <1>0, <2>1
<1>6. ASSUME NEW i \in 1 .. c
      PROVE  Pointers(blocks)[Slots - i + 1] = header + (before + i)
  <2>1. Slots - i + 1 \in 1 .. Slots /\ Slots - (Slots - i + 1) + 1 = i
    BY <1>0, <1>1
  <2> DEFINE k == Slots - i + 1
  <2>2. Slots - k + 1 = i /\ i <= c
    BY <1>1, <2>1
  <2>3. Pointers(blocks)[k] = IF Slots - k + 1 <= c THEN blocks[Slots - k + 1] ELSE None
    BY <1>4, <2>1
  <2> HIDE DEF k
  <2>4. Pointers(blocks)[k] = blocks[i]
    BY <2>2, <2>3
  <2> QED
    BY <1>7, <2>4 DEF k
<1> QED
  BY <1>2, <1>4, <1>5, <1>6 DEF c, before

LEMMA HeaderBlockIs ==
  ASSUME NEW header, NEW name, NEW data, NEW parent, NEW n, n = DataBlocks(data)
  PROVE  LET r == HeaderBlock(header, name, data, parent)
         IN /\ IsBlock(r) /\ r.chain = None /\ r.next = None /\ r.data = << >>
            /\ r.seq = Count(n, 0) /\ r.first = header + 1 /\ r.slots = PointersIn(header, n, 0)
            /\ r.size = Len(data) /\ r.name = name /\ r.parent = parent /\ r.ext = NextExt(header, n, 0)
BY BlankIsBlock DEF HeaderBlock, IsBlock, Fields, DataAt

LEMMA DataBlockIs ==
  ASSUME NEW header, NEW data, NEW i
  PROVE  LET r == DataBlock(header, data, i)
         IN /\ IsBlock(r) /\ r.chain = None /\ r.ext = None /\ r.first = None /\ r.seq = i
            /\ r.slots = NoSlots
            /\ r.data = IF data = << >> THEN << >> ELSE <<data[i]>>
            /\ r.next = IF i < DataBlocks(data) THEN header + (i + 1) ELSE None
BY BlankIsBlock DEF DataBlock, IsBlock, Fields, DataAt

LEMMA ExtBlockIs ==
  ASSUME NEW header, NEW n, NEW e
  PROVE  LET r == ExtBlock(header, n, e)
         IN /\ IsBlock(r) /\ r.chain = None /\ r.next = None /\ r.first = None /\ r.data = << >>
            /\ r.seq = Count(n, e) /\ r.slots = PointersIn(header, n, e) /\ r.ext = NextExt(header, n, e)
BY BlankIsBlock DEF ExtBlock, IsBlock, Fields

LEMMA DirBlockIs ==
  ASSUME NEW header, NEW name, NEW parent
  PROVE  LET r == DirBlock(header, name, parent)
         IN /\ IsBlock(r) /\ r.chain = None /\ r.next = None /\ r.first = None /\ r.data = << >>
            /\ r.ext = None /\ r.slots = NoSlots /\ r.seq = 0
            /\ r.name = name /\ r.parent = parent
BY BlankIsBlock DEF DirBlock, IsBlock, Fields

LEMMA DataBlocksAre ==
  ASSUME NEW data \in Files
  PROVE  /\ DataBlocks(data) \in Nat /\ DataBlocks(data) > 0
         /\ data # << >> => DataBlocks(data) = Len(data)
         /\ Extensions(DataBlocks(data)) \in Nat
         /\ FileSize(data) \in Nat
         /\ FileSize(data) = 1 + DataBlocks(data) + Extensions(DataBlocks(data))
<1>1. data \in Seq(Chunks) /\ Len(data) \in Nat
  BY FileIsData
<1>2. data # << >> => Len(data) > 0
  BY <1>1, EmptySeq
<1>3. DataBlocks(data) \in Nat /\ DataBlocks(data) > 0 /\ (data # << >> => DataBlocks(data) = Len(data))
  BY <1>1, <1>2 DEF DataBlocks
<1>4. Extensions(DataBlocks(data)) \in Nat
  BY <1>3, ExtensionsAre
<1> QED
  BY <1>3, <1>4 DEF FileSize

\* The blocks of a file: its header, data blocks and extension blocks.
Composed(h, name, data, parent, n, x) ==
  /\ FileBlock(h, name, data, parent, h) = HeaderBlock(h, name, data, parent)
  /\ \A i \in 1 .. n : FileBlock(h, name, data, parent, h + i) = Sum(DataBlock(h, data, i))
  /\ \A e \in 1 .. x : FileBlock(h, name, data, parent, h + n + e) = Sum(ExtBlock(h, n, e))
  /\ h .. h + FileSize(data) - 1 = {h} \cup {h + i : i \in 1 .. n} \cup {h + n + e : e \in 1 .. x}

LEMMA FileBlockIs ==
  ASSUME NEW h \in Nat, NEW name, NEW data \in Files, NEW parent
  PROVE  Composed(h, name, data, parent, DataBlocks(data), Extensions(DataBlocks(data)))
<1> DEFINE n == DataBlocks(data)
           x == Extensions(n)
<1>1. n \in Nat /\ n > 0 /\ x \in Nat /\ FileSize(data) = 1 + n + x
  BY DataBlocksAre
<1> DEFINE F(b) == CASE b = h -> HeaderBlock(h, name, data, parent)
                     [] b \in h + 1 .. h + n -> Sum(DataBlock(h, data, b - h))
                     [] b > h + n -> Sum(ExtBlock(h, n, b - h - n))
<1>2. \A b : FileBlock(h, name, data, parent, b) = F(b)
  BY DEF FileBlock, DataAt
<1>3. F(h) = HeaderBlock(h, name, data, parent)
  BY <1>1
<1>4. ASSUME NEW i \in 1 .. n PROVE F(h + i) = Sum(DataBlock(h, data, i))
  <2>1. h + i # h /\ h + i \in h + 1 .. h + n /\ ~ (h + i > h + n) /\ (h + i) - h = i
    BY <1>1
  <2> QED
    BY <2>1
<1>5. ASSUME NEW e \in 1 .. x PROVE F(h + n + e) = Sum(ExtBlock(h, n, e))
  <2>1. h + n + e # h /\ h + n + e \notin h + 1 .. h + n /\ h + n + e > h + n /\ (h + n + e) - h - n = e
    BY <1>1
  <2> QED
    BY <2>1
<1>6. ASSUME NEW b \in h .. h + (1 + n + x) - 1
      PROVE  b \in {h} \cup {h + i : i \in 1 .. n} \cup {h + n + e : e \in 1 .. x}
  <2>1. CASE b = h
    BY <2>1
  <2>2. CASE b > h /\ b <= h + n
    <3>1. b - h \in 1 .. n /\ b = h + (b - h)
      BY <1>1, <2>2
    <3> QED
      BY <3>1
  <2>3. CASE b > h + n
    <3>1. b - h - n \in 1 .. x /\ b = h + n + (b - h - n)
      BY <1>1, <2>3
    <3> QED
      BY <3>1
  <2> QED
    BY <1>1, <2>1, <2>2, <2>3
<1>7. {h} \cup {h + i : i \in 1 .. n} \cup {h + n + e : e \in 1 .. x} \subseteq h .. h + (1 + n + x) - 1
  BY <1>1
<1> HIDE DEF F
<1>8. h .. h + FileSize(data) - 1 = {h} \cup {h + i : i \in 1 .. n} \cup {h + n + e : e \in 1 .. x}
  BY <1>1, <1>6, <1>7
<1> QED
  BY <1>2, <1>3, <1>4, <1>5, <1>8 DEF Composed

\* What is known of each block of a new entry.
Stays(l, b, A) == l = None \/ (l \in A /\ l > b)

Fresh(o, b, header, A) ==
  /\ IsBlock(o) /\ o.slots \in [1 .. Slots -> Nat] /\ o.data \in Seq(Chunks) /\ o.seq \in Nat
  /\ o.chain = None
  /\ Stays(o.next, b, A) /\ Stays(o.ext, b, A)
  /\ b # header => SumRight(o)

LEMMA SlotsAreBlank ==
  NoSlots \in [1 .. Slots -> Nat]
BY DEF None, NoSlots

LEMMA NextExtStays ==
  ASSUME NEW h \in Nat, NEW n \in Nat, n > 0, NEW x, x = Extensions(n), NEW e \in 0 .. x,
         NEW b \in Nat, b <= h + n + e
  PROVE  Stays(NextExt(h, n, e), b, h .. h + (1 + n + x) - 1)
<1>1. x \in Nat
  BY ExtensionsAre
<1>2. CASE e < x
  <2>1. NextExt(h, n, e) = h + n + (e + 1)
    BY <1>2 DEF NextExt, ExtAt
  <2>2. h + n + (e + 1) \in h .. h + (1 + n + x) - 1 /\ h + n + (e + 1) > b
    BY <1>1, <1>2
  <2> QED
    BY <2>1, <2>2 DEF Stays
<1>3. CASE ~ (e < x)
  <2>1. NextExt(h, n, e) = None
    BY <1>3 DEF NextExt
  <2> QED
    BY <2>1 DEF Stays
<1> QED
  BY <1>2, <1>3

LEMMA FileIsFresh ==
  ASSUME NEW h \in Nat, NEW name, NEW data \in Files, NEW parent,
         NEW b \in h .. h + FileSize(data) - 1
  PROVE  Fresh(FileBlock(h, name, data, parent, b), b, h, h .. h + FileSize(data) - 1)
<1> DEFINE n == DataBlocks(data)
           x == Extensions(n)
           A == h .. h + (1 + n + x) - 1
           o == FileBlock(h, name, data, parent, b)
<1>1. n \in Nat /\ n > 0 /\ x \in Nat /\ FileSize(data) = 1 + n + x /\ (data # << >> => n = Len(data))
  BY DataBlocksAre
<1>2. /\ FileBlock(h, name, data, parent, h) = HeaderBlock(h, name, data, parent)
      /\ \A i \in 1 .. n : FileBlock(h, name, data, parent, h + i) = Sum(DataBlock(h, data, i))
      /\ \A e \in 1 .. x : FileBlock(h, name, data, parent, h + n + e) = Sum(ExtBlock(h, n, e))
      /\ h .. h + FileSize(data) - 1 = {h} \cup {h + i : i \in 1 .. n} \cup {h + n + e : e \in 1 .. x}
  BY FileBlockIs DEF Composed
<1>3. CASE b = h
  <2> DEFINE r == HeaderBlock(h, name, data, parent)
  <2>1. /\ IsBlock(r) /\ r.chain = None /\ r.next = None /\ r.data = << >> /\ r.seq = Count(n, 0)
        /\ r.slots = PointersIn(h, n, 0) /\ r.ext = NextExt(h, n, 0)
    BY HeaderBlockIs
  <2>2. 0 \in 0 .. x /\ b \in Nat /\ b <= h + n + 0
    BY <1>1, <1>3
  <2>3. PointersIn(h, n, 0) \in [1 .. Slots -> Nat] /\ Count(n, 0) \in Nat
    <3>1. PointersIn(h, n, 0) \in [1 .. Slots -> Nat]
      BY <1>1, <2>2, PointersAre
    <3>2. Count(n, 0) \in 1 .. Slots
      BY <1>1, <2>2, CountIs
    <3> QED
      BY <3>1, <3>2
  <2>4. Stays(NextExt(h, n, 0), b, A)
    BY <1>1, <2>2, NextExtStays
  <2>5. << >> \in Seq(Chunks) /\ Stays(None, b, A)
    BY EmptySeq DEF Stays
  <2>6. o = r
    BY <1>2, <1>3
  <2> HIDE DEF r, o, A, n, x
  <2>7. Fresh(o, b, h, A)
    BY <1>3, <2>1, <2>3, <2>4, <2>5, <2>6 DEF Fresh
  <2> QED
    BY <1>1, <2>7 DEF o, A
<1>4. CASE \E i \in 1 .. n : b = h + i
  <2>0. PICK i \in 1 .. n : b = h + i
    BY <1>4
  <2> DEFINE d == DataBlock(h, data, i)
             r == Sum(d)
  <2>1. /\ IsBlock(d) /\ d.chain = None /\ d.ext = None /\ d.seq = i /\ i \in Nat
        /\ d.slots = NoSlots
        /\ d.data = IF data = << >> THEN << >> ELSE <<data[i]>>
        /\ d.next = IF i < n THEN h + (i + 1) ELSE None
    BY DataBlockIs
  <2>2. d.data \in Seq(Chunks)
    <3>1. CASE data = << >>
      BY <2>1, <3>1
    <3>2. CASE data # << >>
      <4>1. data \in Seq(Chunks) /\ Len(data) = n
        BY <1>1, <3>2, FileIsData
      <4>2. data[i] \in Chunks
        BY <4>1
      <4> QED
        BY <2>1, <3>2, <4>2
    <3> QED
      BY <3>1, <3>2
  <2>3. Stays(d.next, b, A)
    <3>1. CASE i < n
      <4>1. h + (i + 1) \in A /\ h + (i + 1) > b
        BY <1>1, <2>0, <3>1
      <4> QED
        BY <2>1, <3>1, <4>1 DEF Stays
    <3> QED
      BY <2>1, <3>1 DEF Stays
  <2>4. d.slots \in [1 .. Slots -> Nat] /\ Stays(d.ext, b, A)
    BY <2>1, SlotsAreBlank DEF Stays
  <2> HIDE DEF d
  <2>5. IsBlock(r) /\ Kept(r, d) /\ SumRight(r) /\ r.slots = d.slots /\ r.chain = d.chain
    BY <2>1, SumKeeps
  <2>6. o = r
    BY <1>2, <2>0 DEF d
  <2> HIDE DEF r, o, A, n, x
  <2>7. Fresh(o, b, h, A)
    BY <2>1, <2>2, <2>3, <2>4, <2>5, <2>6 DEF Fresh, Kept
  <2> QED
    BY <1>1, <2>7 DEF o, A
<1>5. CASE \E e \in 1 .. x : b = h + n + e
  <2>0. PICK e \in 1 .. x : b = h + n + e
    BY <1>5
  <2> DEFINE d == ExtBlock(h, n, e)
             r == Sum(d)
  <2>1. /\ IsBlock(d) /\ d.chain = None /\ d.next = None /\ d.data = << >> /\ d.seq = Count(n, e)
        /\ d.slots = PointersIn(h, n, e) /\ d.ext = NextExt(h, n, e)
    BY ExtBlockIs
  <2>2. e \in 0 .. x /\ b \in Nat /\ b <= h + n + e
    BY <1>1, <2>0
  <2>3. PointersIn(h, n, e) \in [1 .. Slots -> Nat] /\ Count(n, e) \in Nat
    <3>1. PointersIn(h, n, e) \in [1 .. Slots -> Nat]
      BY <1>1, <2>2, PointersAre
    <3>2. Count(n, e) \in 1 .. Slots
      BY <1>1, <2>2, CountIs
    <3> QED
      BY <3>1, <3>2
  <2>4. Stays(NextExt(h, n, e), b, A)
    BY <1>1, <2>2, NextExtStays
  <2>5. << >> \in Seq(Chunks) /\ Stays(None, b, A)
    BY EmptySeq DEF Stays
  <2> HIDE DEF d
  <2>6. IsBlock(r) /\ Kept(r, d) /\ SumRight(r) /\ r.slots = d.slots /\ r.chain = d.chain
    BY <2>1, SumKeeps
  <2>7. o = r
    BY <1>2, <2>0 DEF d
  <2> HIDE DEF r, o, A, n, x
  <2>8. Fresh(o, b, h, A)
    BY <2>1, <2>3, <2>4, <2>5, <2>6, <2>7 DEF Fresh, Kept
  <2> QED
    BY <1>1, <2>8 DEF o, A
<1> QED
  BY <1>2, <1>3, <1>4, <1>5

\* An entry that a caller may make.
Legal(e) == e \in EntrySet /\ (~e.dir => e.data \in Files)

LEMMA AreaIs ==
  ASSUME NEW e, Legal(e)
  PROVE  /\ e.block \in Nat /\ e.parent \in Nat /\ e.name \in Names /\ e.dir \in BOOLEAN
         /\ Size(e) \in Nat /\ Size(e) > 0 /\ e.block \in Area(e)
         /\ \A b \in Area(e) : b \in Nat /\ e.block <= b /\ b < e.block + Size(e)
<1>1. e.block \in Nat /\ e.parent \in Nat /\ e.name \in Names /\ e.dir \in BOOLEAN
  BY DEF Legal, EntrySet
<1>2. Size(e) \in Nat /\ Size(e) > 0
  <2>1. CASE e.dir
    BY <2>1 DEF Size
  <2>2. CASE ~e.dir
    <3>1. e.data \in Files
      BY <2>2 DEF Legal
    <3>2. PICK m \in Nat : m = FileSize(e.data) /\ m > 0
      BY <3>1, DataBlocksAre
    <3> QED
      BY <2>2, <3>2 DEF Size
  <2> QED
    BY <2>1, <2>2
<1> QED
  BY <1>1, <1>2 DEF Area

LEMMA OriginalIsFresh ==
  ASSUME NEW e, Legal(e), NEW b \in Area(e)
  PROVE  Fresh(Original(e, b), b, e.block, Area(e))
<1>1. e.block \in Nat
  BY AreaIs
<1>2. CASE e.dir
  <2> DEFINE r == DirBlock(e.block, e.name, e.parent)
  <2>1. /\ IsBlock(r) /\ r.chain = None /\ r.next = None /\ r.data = << >>
        /\ r.ext = None /\ r.slots = NoSlots /\ r.seq \in Nat
    BY DirBlockIs
  <2>2. b = e.block /\ Original(e, b) = r
    BY <1>1, <1>2 DEF Area, Size, Original
  <2>3. << >> \in Seq(Chunks) /\ Stays(None, b, Area(e))
    BY EmptySeq DEF Stays
  <2> HIDE DEF r
  <2> QED
    BY <2>1, <2>2, <2>3, SlotsAreBlank DEF Fresh
<1>3. CASE ~e.dir
  <2>1. e.data \in Files /\ Area(e) = e.block .. e.block + FileSize(e.data) - 1
    BY <1>3 DEF Legal, Area, Size
  <2>2. Original(e, b) = FileBlock(e.block, e.name, e.data, e.parent, b)
    BY <1>3 DEF Original
  <2> QED
    BY <1>1, <2>1, <2>2, FileIsFresh
<1> QED
  BY <1>2, <1>3

\* The header of an entry.
LEMMA HeaderIs ==
  ASSUME NEW e, Legal(e)
  PROVE  LET r == Original(e, e.block)
         IN /\ r.name = e.name /\ r.parent = e.parent
            /\ r.first = None \/ r.first \in Area(e)
            /\ e.dir => r.slots = NoSlots
            /\ ~e.dir => r.size = Len(e.data)
<1>1. CASE e.dir
  BY <1>1, DirBlockIs DEF Original
<1>2. CASE ~e.dir
  <2>1. e.data \in Files /\ e.block \in Nat /\ Original(e, e.block) = FileBlock(e.block, e.name, e.data, e.parent, e.block)
    BY <1>2, AreaIs DEF Legal, Original
  <2>2. Original(e, e.block) = HeaderBlock(e.block, e.name, e.data, e.parent)
    BY <2>1, FileBlockIs DEF Composed
  <2>3. e.block + 1 \in Area(e)
    <3>1. PICK n, x \in Nat : n > 0 /\ FileSize(e.data) = 1 + n + x
      BY <2>1, DataBlocksAre
    <3>2. Area(e) = e.block .. e.block + (1 + n + x) - 1
      BY <1>2, <3>1 DEF Area, Size
    <3> QED
      BY <2>1, <3>1, <3>2
  <2> QED
    BY <1>2, <2>2, <2>3, HeaderBlockIs
<1> QED
  BY <1>1, <1>2

-----------------------------------------------------------------------------
(* Entering a header into its directory.                                   *)

\* Links that lead to later blocks come to an end.
LEMMA OnwardIsRanked ==
  ASSUME NEW D, D \subseteq 1 .. Blocks, NEW link \in [D -> D \cup {None}],
         \A b \in D : link[b] = None \/ link[b] > b
  PROVE  Ranked(D, link, [b \in D |-> Blocks - b], Blocks)
<1> DEFINE rank == [b \in D |-> Blocks - b]
<1>0. Blocks \in Nat /\ None = 0
  BY ConstantsAre
<1>1. \A b \in D : b \in Nat /\ b # None /\ rank[b] = Blocks - b /\ rank[b] \in Nat /\ rank[b] < Blocks
  BY <1>0
<1>2. rank \in [D -> Nat] /\ None \notin D
  BY <1>1
<1>3. ASSUME NEW b \in D, link[b] \in D PROVE rank[link[b]] < rank[b]
  <2>1. PICK l \in D : l = link[b] /\ l > b
    BY <1>1, <1>3
  <2>2. rank[l] = Blocks - l /\ rank[b] = Blocks - b /\ l \in Nat /\ b \in Nat
    BY <1>1
  <2>3. Blocks - l < Blocks - b
    BY <1>0, <2>1, <2>2
  <2> QED
    BY <2>1, <2>2, <2>3
<1> HIDE DEF rank
<1>4. Ranked(D, link, rank, Blocks)
  BY <1>0, <1>1, <1>2, <1>3 DEF Ranked
<1> QED
  BY <1>4 DEF rank

\* M's blocks are a chain on disk d.
Chained(M, d) == M \subseteq DOMAIN d /\ \A m \in M : IsNext(d[m].chain, m, M)

Linked(d) == DOMAIN d \subseteq 1 .. Blocks /\ \A b \in DOMAIN d : Onward(d[b].chain, b, d)

LastEq(last, d) == last = [b \in DOMAIN d |-> IF d[b].chain = None THEN b ELSE last[d[b].chain]]

LEMMA LastExists ==
  ASSUME NEW d, Linked(d)
  PROVE  \E last : LastEq(last, d)
<1> DEFINE D == DOMAIN d
           T == D \cup {None}
           link == [b \in D |-> d[b].chain]
           make == [b \in D |-> [t \in T |-> IF d[b].chain = None THEN b ELSE t]]
<1>1. link \in [D -> D \cup {None}] /\ \A b \in D : link[b] = d[b].chain /\ (link[b] = None \/ link[b] > b)
  BY DEF Linked, Onward
<1>2. make \in [D -> [T -> T]] /\ \A b \in D, t \in T : make[b][t] = IF d[b].chain = None THEN b ELSE t
  OBVIOUS
<1>3. Ranked(D, link, [b \in D |-> Blocks - b], Blocks)
  BY <1>1, OnwardIsRanked DEF Linked
<1>4. None \in T
  OBVIOUS
<1> HIDE DEF link, make, T
<1>5. PICK f : Walks(f, D, T, link, None, make)
  BY <1>2, <1>3, <1>4, WalkExists
<1>6. f \in [D \cup {None} -> T] /\ \A b \in D : f[b] = make[b][f[link[b]]]
  BY <1>5 DEF Walks
<1> DEFINE g == [b \in D |-> f[b]]
<1>7. ASSUME NEW b \in D PROVE g[b] = IF d[b].chain = None THEN b ELSE g[d[b].chain]
  <2>1. f[link[b]] \in T /\ link[b] = d[b].chain
    BY <1>1, <1>6
  <2>2. g[b] = IF d[b].chain = None THEN b ELSE f[d[b].chain]
    BY <1>2, <1>6, <2>1
  <2>3. d[b].chain # None => g[d[b].chain] = f[d[b].chain]
    BY <1>1
  <2> QED
    BY <2>2, <2>3
<1>8. g = [b \in D |-> g[b]]
  OBVIOUS
<1> HIDE DEF g
<1>9. g = [b \in D |-> IF d[b].chain = None THEN b ELSE g[d[b].chain]]
  BY <1>7, <1>8
<1> QED
  BY <1>9 DEF LastEq

LEMMA LastOfIs ==
  ASSUME NEW d, Linked(d), NEW M, Chained(M, d), NEW block \in M
  PROVE  LastOf(d, block) \in M /\ \A m \in M : m <= LastOf(d, block)
<1> DEFINE D == DOMAIN d
           link == [b \in D |-> d[b].chain]
           last == CHOOSE f : LastEq(f, d)
<1>1. LastOf(d, block) = last[block]
  BY DEF LastOf, LastEq
<1>2. LastEq(last, d)
  BY LastExists
<1> HIDE DEF last
<1>3. \A b \in D : last[b] = IF d[b].chain = None THEN b ELSE last[d[b].chain]
  BY <1>2 DEF LastEq
<1>4. link \in [D -> D \cup {None}] /\ \A b \in D : link[b] = d[b].chain /\ (link[b] = None \/ link[b] > b)
  BY DEF Linked, Onward
<1>5. Ranked(D, link, [b \in D |-> Blocks - b], Blocks)
  BY <1>4, OnwardIsRanked DEF Linked
<1> DEFINE P == {b \in D : b \in M => last[b] \in M /\ \A m \in M : m <= last[b]}
<1>6. ASSUME NEW b \in D, link[b] \in D => link[b] \in P PROVE b \in P
  <2> SUFFICES ASSUME b \in M PROVE last[b] \in M /\ \A m \in M : m <= last[b]
    OBVIOUS
  <2>1. IsNext(d[b].chain, b, M) /\ M \subseteq D
    BY DEF Chained
  <2>2. CASE d[b].chain = None
    <3>1. \A m \in M : m <= b
      <4>1. None \notin M
        BY <2>1, ConstantsAre DEF Linked
      <4> QED
        BY <2>1, <2>2, <4>1 DEF IsNext
    <3> QED
      BY <1>3, <2>2, <3>1
  <2>3. CASE d[b].chain # None
    <3>1. d[b].chain \in M
      BY <2>1, <2>3 DEF IsNext
    <3>2. link[b] \in P /\ link[b] = d[b].chain
      BY <1>4, <1>6, <2>1, <3>1
    <3> QED
      BY <1>3, <2>3, <3>1, <3>2
  <2> QED
    BY <2>2, <2>3
<1> HIDE DEF P, link
<1>7. D \subseteq P
  <2>1. Inherits(P, D, link)
    BY <1>6 DEF Inherits
  <2> QED
    BY <1>5, <2>1, AlongLinks
<1>8. block \in P
  BY <1>7 DEF Chained
<1> QED
  BY <1>1, <1>8 DEF P

\* What a new entry changes: a slot that was empty, ...
Slotted(r, d, dir, h, block) ==
  /\ \A b \in DOMAIN d : r[b].chain = d[b].chain /\ (b # dir => r[b].slots = d[b].slots)
  /\ r[dir].slots = [d[dir].slots EXCEPT ![h] = block]

\* ... or the end of a chain.
Appended(r, d, last, block) ==
  /\ \A b \in DOMAIN d : r[b].slots = d[b].slots /\ (b # last => r[b].chain = d[b].chain)
  /\ r[last].chain = block

Enters(r, d, dir, h, block, M) ==
  /\ DOMAIN r = DOMAIN d
  /\ \A b \in DOMAIN d : /\ IsBlock(r[b]) /\ Kept(r[b], d[b])
                         /\ b # Root /\ SumRight(d[b]) => SumRight(r[b])
  /\ M = {} => Slotted(r, d, dir, h, block)
  /\ M # {} => \E last \in M : (\A m \in M : m <= last) /\ Appended(r, d, last, block)

LEMMA KeptIsReflexive ==
  ASSUME NEW r
  PROVE  Kept(r, r)
BY DEF Kept

LEMMA InsertEnters ==
  ASSUME NEW d, Linked(d), \A b \in DOMAIN d : IsBlock(d[b]),
         NEW dir \in DOMAIN d, NEW name, NEW h, h = Hash[name], NEW block,
         NEW M, Chained(M, d), IsNext(d[dir].slots[h], None, M)
  PROVE  Enters(InsertEntry(d, dir, name, block), d, dir, h, block, M)
<1> DEFINE r == InsertEntry(d, dir, name, block)
           head == d[dir].slots[h]
<1>0. None \notin M
  BY ConstantsAre DEF Chained, Linked
<1>1. CASE head = None
  <2> DEFINE entered == [d[dir] EXCEPT !.slots[h] = block]
             put == IF dir = Root THEN entered ELSE Sum(entered)
  <2>1. r = [d EXCEPT ![dir] = put]
    BY <1>1 DEF InsertEntry
  <2>2. M = {}
    <3>1. ASSUME NEW m \in M PROVE FALSE
      <4>1. m \in Nat /\ m > 0 /\ m <= None
        BY <1>0, <1>1, ConstantsAre DEF IsNext, Chained, Linked
      <4> QED
        BY <4>1, ConstantsAre
    <3> QED
      BY <3>1
  <2>3. /\ IsBlock(entered) /\ Kept(entered, d[dir])
        /\ entered.slots = [d[dir].slots EXCEPT ![h] = block] /\ entered.chain = d[dir].chain
    BY SlotKeeps
  <2> HIDE DEF entered
  <2>4. /\ IsBlock(put) /\ Kept(put, d[dir]) /\ put.slots = [d[dir].slots EXCEPT ![h] = block]
        /\ put.chain = d[dir].chain /\ (dir # Root => SumRight(put))
    <3>1. /\ IsBlock(Sum(entered)) /\ Kept(Sum(entered), entered) /\ SumRight(Sum(entered))
          /\ Sum(entered).slots = entered.slots /\ Sum(entered).chain = entered.chain
      BY <2>3, SumKeeps
    <3>2. Kept(Sum(entered), d[dir])
      BY <2>3, <3>1, KeptIsTransitive
    <3> QED
      BY <2>3, <3>1, <3>2
  <2> HIDE DEF put, r
  <2>5. DOMAIN r = DOMAIN d /\ r[dir] = put /\ \A b \in DOMAIN d : b # dir => r[b] = d[b]
    BY <2>1
  <2>6. ASSUME NEW b \in DOMAIN d
        PROVE  IsBlock(r[b]) /\ Kept(r[b], d[b]) /\ (b # Root /\ SumRight(d[b]) => SumRight(r[b]))
    BY <2>4, <2>5, KeptIsReflexive
  <2>7. Slotted(r, d, dir, h, block)
    BY <2>4, <2>5 DEF Slotted
  <2>8. Enters(r, d, dir, h, block, M)
    BY <2>2, <2>5, <2>6, <2>7 DEF Enters
  <2> QED
    BY <2>8 DEF r
<1>2. CASE head # None
  <2> DEFINE last == LastOf(d, head)
             chained == [d[last] EXCEPT !.chain = block]
             put == Sum(chained)
  <2>1. r = [d EXCEPT ![last] = put]
    BY <1>2 DEF InsertEntry
  <2>2. head \in M
    BY <1>2 DEF IsNext
  <2>3. last \in M /\ \A m \in M : m <= last
    BY <2>2, LastOfIs
  <2>4. last \in DOMAIN d
    BY <2>3 DEF Chained
  <2> HIDE DEF last
  <2>5. /\ IsBlock(chained) /\ Kept(chained, d[last]) /\ chained.slots = d[last].slots /\ chained.chain = block
    BY <2>4, ChainKeeps
  <2> HIDE DEF chained
  <2>6. /\ IsBlock(put) /\ Kept(put, chained) /\ SumRight(put) /\ put.slots = chained.slots /\ put.chain = chained.chain
    BY <2>5, SumKeeps
  <2>7. Kept(put, d[last])
    BY <2>5, <2>6, KeptIsTransitive
  <2> HIDE DEF put, r
  <2>8. DOMAIN r = DOMAIN d /\ r[last] = put /\ \A b \in DOMAIN d : b # last => r[b] = d[b]
    BY <2>1, <2>4
  <2>9. ASSUME NEW b \in DOMAIN d
        PROVE  IsBlock(r[b]) /\ Kept(r[b], d[b]) /\ (b # Root /\ SumRight(d[b]) => SumRight(r[b]))
    BY <2>6, <2>7, <2>8, KeptIsReflexive
  <2>10. Appended(r, d, last, block)
    BY <2>4, <2>5, <2>6, <2>8 DEF Appended
  <2>11. Enters(r, d, dir, h, block, M)
    BY <2>3, <2>8, <2>9, <2>10 DEF Enters
  <2> QED
    BY <2>11 DEF r
<1> QED
  BY <1>1, <1>2

-----------------------------------------------------------------------------
(* One more entry, be it a directory or a file.                            *)

\* The disk before the header is entered.
Written(e) == [b \in DOMAIN disk \cup Area(e) |-> IF b \in Area(e) THEN Original(e, b) ELSE disk[b]]

Grows(e) ==
  /\ Legal(e) /\ e.block = nextFree /\ e.parent \in Dirs /\ Free(e.name, e.parent)
  /\ ~full /\ Alloc(Size(e))
  /\ disk' = [InsertEntry(Written(e), e.parent, e.name, e.block) EXCEPT ![e.block] = Sum(@)]
  /\ tree' = Append(tree, e)

LEMMA DirsAre ==
  ASSUME SpaceSound, TreeSound
  PROVE  /\ Dirs \subseteq DOMAIN disk /\ Dirs \subseteq Nat
         /\ \A dir \in Dirs : dir = Root \/ \E i \in DOMAIN tree : tree[i].dir /\ tree[i].block = dir
<1>1. Root \in Nat /\ Root \in DOMAIN disk
  BY ConstantsAre DEF SpaceSound
<1>2. ASSUME NEW dir \in Dirs, dir # Root
      PROVE  dir \in DOMAIN disk /\ dir \in Nat /\ \E i \in DOMAIN tree : tree[i].dir /\ tree[i].block = dir
  <2>1. PICK i \in DOMAIN tree : tree[i].dir /\ tree[i].block = dir
    BY <1>2 DEF Dirs
  <2>2. tree[i] \in EntrySet /\ Holds(tree[i])
    BY DEF TreeSound
  <2>3. Legal(tree[i])
    BY <2>1, <2>2 DEF Legal
  <2>4. dir \in Area(tree[i]) /\ dir \in Nat
    BY <2>1, <2>3, AreaIs
  <2> QED
    BY <2>1, <2>2, <2>4 DEF Holds
<1> QED
  BY <1>1, <1>2

LEMMA AddDirGrows ==
  ASSUME SpaceSound, TreeSound, NEW name \in Names, NEW parent \in Dirs,
         ~full, Free(name, parent), AddDir(name, parent)
  PROVE  Grows(Entry(name, parent, nextFree, TRUE, << >>))
<1> DEFINE e == Entry(name, parent, nextFree, TRUE, << >>)
<1>1. /\ e.name = name /\ e.parent = parent /\ e.block = nextFree /\ e.dir = TRUE /\ e.data = << >>
      /\ e = [name |-> name, parent |-> parent, block |-> nextFree, dir |-> TRUE, data |-> << >>]
  BY DEF Entry
<1>2. nextFree \in Nat /\ parent \in Nat
  BY DirsAre DEF SpaceSound
<1>3. Legal(e)
  BY <1>1, <1>2 DEF Legal, EntrySet
<1> HIDE DEF e
<1>4. Size(e) = 1 /\ Area(e) = {nextFree}
  BY <1>1, <1>2 DEF Size, Area
<1>5. Written(e) = [c \in DOMAIN disk \cup {nextFree} |->
                     IF c = nextFree THEN DirBlock(nextFree, name, parent) ELSE disk[c]]
  BY <1>1, <1>4 DEF Written, Original
<1>6. /\ Alloc(1) /\ tree' = Append(tree, e)
      /\ disk' = [InsertEntry(Written(e), parent, name, nextFree) EXCEPT ![nextFree] = Sum(@)]
  BY <1>5 DEF AddDir, e
<1>7. Grows(e)
  BY <1>1, <1>3, <1>4, <1>6 DEF Grows
<1> QED
  BY <1>7 DEF e

LEMMA AddFileGrows ==
  ASSUME SpaceSound, TreeSound, NEW name \in Names, NEW parent \in Dirs, NEW data \in Files,
         ~full, Free(name, parent), AddFile(name, data, parent)
  PROVE  Grows(Entry(name, parent, nextFree, FALSE, data))
<1> DEFINE e == Entry(name, parent, nextFree, FALSE, data)
<1>1. /\ e.name = name /\ e.parent = parent /\ e.block = nextFree /\ e.dir = FALSE /\ e.data = data
      /\ e = [name |-> name, parent |-> parent, block |-> nextFree, dir |-> FALSE, data |-> data]
  BY DEF Entry
<1>2. nextFree \in Nat /\ parent \in Nat
  BY DirsAre DEF SpaceSound
<1>3. Legal(e)
  BY <1>1, <1>2 DEF Legal, EntrySet
<1> HIDE DEF e
<1>4. Size(e) = FileSize(data) /\ Area(e) = nextFree .. nextFree + FileSize(data) - 1
  BY <1>1 DEF Size, Area
<1>5. Written(e) = [b \in DOMAIN disk \cup (nextFree .. nextFree + FileSize(data) - 1) |->
                     IF b \in nextFree .. nextFree + FileSize(data) - 1
                     THEN FileBlock(nextFree, name, data, parent, b) ELSE disk[b]]
  BY <1>1, <1>4 DEF Written, Original
<1>6. /\ Alloc(FileSize(data)) /\ tree' = Append(tree, e)
      /\ disk' = [InsertEntry(Written(e), parent, name, nextFree) EXCEPT ![nextFree] = Sum(@)]
  BY <1>5 DEF AddFile, e
<1>7. Grows(e)
  BY <1>1, <1>3, <1>4, <1>6 DEF Grows
<1> QED
  BY <1>7 DEF e

LEMMA StepIs ==
  ASSUME SpaceSound, TreeSound, DiskNext
  PROVE  \/ \E e : Grows(e)
         \/ \E wanted \in Wanted : ~full /\ OutOfBlocks(wanted)
         \/ FinishDisk
<1>1. ASSUME NEW name \in Names, NEW parent \in Dirs, ~full, Free(name, parent), AddDir(name, parent)
      PROVE  \E e : Grows(e)
  BY <1>1, AddDirGrows
<1>2. ASSUME NEW name \in Names, NEW parent \in Dirs, NEW data \in Files,
             ~full, Free(name, parent), AddFile(name, data, parent)
      PROVE  \E e : Grows(e)
  BY <1>2, AddFileGrows
<1> QED
  BY <1>1, <1>2 DEF DiskNext

\* Where a new entry comes to lie, and what it finds there.
LEMMA NewArea ==
  ASSUME AdfInv, NEW e, Grows(e)
  PROVE  /\ e.block \in Nat /\ Size(e) \in Nat /\ Size(e) > 0 /\ e.block \in Area(e) /\ e.block = nextFree
         /\ First <= e.block /\ e.block + Size(e) <= Blocks
         /\ Hash[e.name] \in 1 .. Slots /\ e.parent \in DOMAIN disk /\ e.parent \in Dirs
         /\ DOMAIN disk \subseteq 1 .. Blocks /\ Area(e) \subseteq 1 .. Blocks
         /\ \A b \in DOMAIN disk : b \in Nat /\ b < e.block /\ b \notin Area(e)
         /\ DOMAIN disk = {Root} \cup First .. nextFree - 1
         /\ Area(e) = nextFree .. nextFree + Size(e) - 1
<1>1. Legal(e) /\ e.block = nextFree /\ e.parent \in Dirs /\ ~full /\ nextFree + Size(e) <= Blocks
  BY DEF Grows, Alloc
<1>2. /\ e.block \in Nat /\ e.name \in Names /\ Size(e) \in Nat /\ Size(e) > 0 /\ e.block \in Area(e)
  BY <1>1, AreaIs
<1>3. /\ nextFree \in Nat /\ First <= nextFree /\ DOMAIN disk = {Root} \cup First .. nextFree - 1
  BY <1>1 DEF AdfInv, SpaceSound
<1>4. e.parent \in DOMAIN disk /\ Hash[e.name] \in 1 .. Slots
  BY <1>1, <1>2, DirsAre, ConstantsAre DEF AdfInv
<1>5. Area(e) = nextFree .. nextFree + Size(e) - 1
  BY <1>1 DEF Area
<1>6. ASSUME NEW b \in DOMAIN disk PROVE b \in 1 .. Blocks /\ b \in Nat /\ b < e.block /\ b \notin Area(e)
  BY <1>1, <1>2, <1>3, <1>5, ConstantsAre
<1>7. Area(e) \subseteq 1 .. Blocks
  BY <1>1, <1>2, <1>3, <1>5, ConstantsAre
<1> QED
  BY <1>1, <1>2, <1>3, <1>4, <1>5, <1>6, <1>7

\* Entries' areas do not meet.
LEMMA EntriesAre ==
  ASSUME SpaceSound, TreeSound
  PROVE  /\ \A i \in DOMAIN tree :
              /\ Legal(tree[i]) /\ Holds(tree[i]) /\ tree[i].block \in Area(tree[i])
              /\ tree[i].block \in DOMAIN disk /\ Root \notin Area(tree[i]) /\ Bitmap \notin Area(tree[i])
         /\ \A i, j \in DOMAIN tree : i # j => Area(tree[i]) \cap Area(tree[j]) = {}
         /\ \A i, j \in DOMAIN tree : tree[i].block = tree[j].block => i = j
<1>0. DOMAIN tree \subseteq Nat
  BY LenProperties DEF TreeSound
<1>1. ASSUME NEW i \in DOMAIN tree
      PROVE  /\ Legal(tree[i]) /\ Holds(tree[i]) /\ tree[i].block \in Area(tree[i])
             /\ tree[i].block \in DOMAIN disk /\ Root \notin Area(tree[i]) /\ Bitmap \notin Area(tree[i])
  <2>1. tree[i] \in EntrySet /\ Holds(tree[i]) /\ Legal(tree[i])
    BY DEF TreeSound, Holds, Legal
  <2>2. First <= tree[i].block /\ Area(tree[i]) \subseteq DOMAIN disk
    BY <2>1 DEF Holds
  <2> QED
    BY <2>1, <2>2, AreaIs, ConstantsAre
<1>2. ASSUME NEW i \in DOMAIN tree, NEW j \in DOMAIN tree, i < j, NEW b \in Area(tree[i]), b \in Area(tree[j])
      PROVE  FALSE
  <2>1. tree[i].block + Size(tree[i]) <= tree[j].block
    BY <1>2 DEF TreeSound
  <2>2. b \in Nat /\ b < tree[i].block + Size(tree[i]) /\ tree[j].block <= b
    BY <1>1, <1>2, AreaIs
  <2>3. tree[i].block \in Nat /\ Size(tree[i]) \in Nat /\ tree[j].block \in Nat
    BY <1>1, AreaIs
  <2> QED
    BY <2>1, <2>2, <2>3
<1>3. ASSUME NEW i \in DOMAIN tree, NEW j \in DOMAIN tree, i # j
      PROVE  Area(tree[i]) \cap Area(tree[j]) = {}
  <2>1. i < j \/ j < i
    BY <1>0, <1>3
  <2> QED
    BY <1>2, <2>1
<1>4. ASSUME NEW i \in DOMAIN tree, NEW j \in DOMAIN tree, tree[i].block = tree[j].block
      PROVE  i = j
  BY <1>1, <1>3, <1>4
<1> QED
  BY <1>1, <1>3, <1>4

\* The entries of a table are a chain that begins in its slot.
LEMMA MembersAre ==
  ASSUME AdfInv, NEW dir, NEW s
  PROVE  /\ \A i \in DOMAIN tree : In(tree[i], dir, s) <=> tree[i].block \in Members(tree, dir, s)
         /\ \A m \in Members(tree, dir, s) : \E i \in DOMAIN tree : In(tree[i], dir, s) /\ m = tree[i].block
         /\ Chained(Members(tree, dir, s), disk)
<1>1. \A m \in Members(tree, dir, s) : \E i \in DOMAIN tree : In(tree[i], dir, s) /\ m = tree[i].block
  BY DEF Members
<1>2. ASSUME NEW i \in DOMAIN tree PROVE In(tree[i], dir, s) <=> tree[i].block \in Members(tree, dir, s)
  BY <1>1, EntriesAre DEF Members, AdfInv
<1>3. ASSUME NEW m \in Members(tree, dir, s)
      PROVE  m \in DOMAIN disk /\ IsNext(disk[m].chain, m, Members(tree, dir, s))
  <2>1. PICK i \in DOMAIN tree : In(tree[i], dir, s) /\ m = tree[i].block
    BY <1>1
  <2>2. dir = tree[i].parent /\ s = Hash[tree[i].name]
    BY <2>1 DEF In
  <2> QED
    BY <2>1, <2>2, EntriesAre DEF AdfInv, TablesSound
<1> QED
  BY <1>1, <1>2, <1>3 DEF Chained

Table(e) == Members(tree, e.parent, Hash[e.name])

LEMMA GrowsEnters ==
  ASSUME AdfInv, NEW e, Grows(e)
  PROVE  /\ Enters(disk', Written(e), e.parent, Hash[e.name], e.block, Table(e))
         /\ DOMAIN Written(e) = DOMAIN disk \cup Area(e)
         /\ \A b \in DOMAIN disk : Written(e)[b] = disk[b]
         /\ \A b \in Area(e) : Written(e)[b] = Original(e, b)
         /\ SumRight(disk'[e.block])
<1> DEFINE w == Written(e)
           D == DOMAIN disk
           A == Area(e)
           h == Hash[e.name]
           M == Table(e)
           r == InsertEntry(w, e.parent, e.name, e.block)
<1>1. /\ \A b \in D : b \notin A
      /\ D \subseteq 1 .. Blocks /\ A \subseteq 1 .. Blocks /\ e.parent \in D /\ h \in 1 .. Slots /\ e.block \in A
      /\ e.parent \in Dirs
  BY NewArea
<1>2. DOMAIN w = D \cup A /\ (\A b \in D : w[b] = disk[b]) /\ (\A b \in A : w[b] = Original(e, b))
  BY <1>1 DEF Written
<1>3. Legal(e) /\ disk' = [r EXCEPT ![e.block] = Sum(@)]
  BY DEF Grows
<1> HIDE DEF w, r
<1>4. ASSUME NEW b \in DOMAIN w
      PROVE  IsBlock(w[b]) /\ Onward(w[b].chain, b, w)
  <2>1. CASE b \in D
    BY <1>2, <2>1 DEF AdfInv, DiskSound, BlockSound, Onward
  <2>2. CASE b \in A
    BY <1>2, <1>3, <2>2, OriginalIsFresh DEF Fresh, Onward
  <2> QED
    BY <1>2, <2>1, <2>2
<1>5. Linked(w)
  BY <1>1, <1>2, <1>4 DEF Linked
<1>6. Chained(M, w)
  <2>1. Chained(M, disk)
    BY MembersAre DEF Table
  <2> QED
    BY <1>2, <2>1 DEF Chained
<1>7. IsNext(w[e.parent].slots[h], None, M)
  BY <1>1, <1>2 DEF AdfInv, TablesSound, Table
<1>8. Enters(r, w, e.parent, h, e.block, M)
  BY <1>1, <1>2, <1>4, <1>5, <1>6, <1>7, InsertEnters DEF r
<1>9. /\ DOMAIN r = DOMAIN w
      /\ \A b \in DOMAIN w : /\ IsBlock(r[b]) /\ Kept(r[b], w[b])
                             /\ b # Root /\ SumRight(w[b]) => SumRight(r[b])
  BY <1>8 DEF Enters
<1> DEFINE o == e.block
<1>10. o \in DOMAIN w /\ o \in DOMAIN r
  BY <1>1, <1>2, <1>9
<1>11. /\ IsBlock(Sum(r[o])) /\ Kept(Sum(r[o]), r[o]) /\ SumRight(Sum(r[o]))
       /\ Sum(r[o]).slots = r[o].slots /\ Sum(r[o]).chain = r[o].chain
  BY <1>9, <1>10, SumKeeps
<1>12. Kept(Sum(r[o]), w[o])
  BY <1>9, <1>10, <1>11, KeptIsTransitive
<1>13. DOMAIN disk' = DOMAIN w /\ disk'[o] = Sum(r[o]) /\ \A b \in DOMAIN w : b # o => disk'[b] = r[b]
  BY <1>3, <1>9, <1>10
<1>14. ASSUME NEW b \in DOMAIN w
       PROVE  disk'[b].slots = r[b].slots /\ disk'[b].chain = r[b].chain
  BY <1>11, <1>13
<1>15. ASSUME NEW b \in DOMAIN w
       PROVE  IsBlock(disk'[b]) /\ Kept(disk'[b], w[b]) /\ (b # Root /\ SumRight(w[b]) => SumRight(disk'[b]))
  BY <1>9, <1>11, <1>12, <1>13
<1>16. ASSUME M = {} PROVE Slotted(disk', w, e.parent, h, e.block)
  <2>1. Slotted(r, w, e.parent, h, e.block) /\ e.parent \in DOMAIN w
    BY <1>1, <1>2, <1>8, <1>16 DEF Enters
  <2> QED
    BY <1>14, <2>1 DEF Slotted
<1>17. ASSUME M # {} PROVE \E last \in M : (\A m \in M : m <= last) /\ Appended(disk', w, last, e.block)
  <2>1. PICK last \in M : (\A m \in M : m <= last) /\ Appended(r, w, last, e.block)
    BY <1>8, <1>17 DEF Enters
  <2>2. last \in DOMAIN w
    BY <1>6 DEF Chained
  <2>3. Appended(disk', w, last, e.block)
    BY <1>14, <2>1, <2>2 DEF Appended
  <2> QED
    BY <2>1, <2>3
<1>18. Enters(disk', w, e.parent, h, e.block, M)
  BY <1>13, <1>15, <1>16, <1>17 DEF Enters
<1> QED
  BY <1>2, <1>11, <1>13, <1>18 DEF w

LEMMA GrowsSpace ==
  ASSUME AdfInv, NEW e, Grows(e)
  PROVE  SpaceSound'
<1>1. /\ e.block \in Nat /\ Size(e) \in Nat /\ Size(e) > 0 /\ e.block = nextFree
      /\ First <= e.block /\ e.block + Size(e) <= Blocks
      /\ DOMAIN disk = {Root} \cup First .. nextFree - 1
      /\ Area(e) = nextFree .. nextFree + Size(e) - 1
  BY NewArea
<1>2. DOMAIN disk' = DOMAIN disk \cup Area(e)
  BY GrowsEnters DEF Enters
<1>3. /\ nextFree' = nextFree + Size(e) /\ used' = used \cup nextFree .. nextFree + Size(e) - 1
      /\ finished' = FALSE /\ full' = full /\ ~full
  BY DEF Grows, Alloc
<1>4. used = {Root, Bitmap} \cup {b \in First .. Blocks - 1 : b < nextFree}
  BY DEF AdfInv, SpaceSound
<1>5. DOMAIN disk' = {Root} \cup First .. nextFree' - 1
  BY <1>1, <1>2, <1>3, ConstantsAre
<1>6. used' = {Root, Bitmap} \cup {b \in First .. Blocks - 1 : b < nextFree'}
  BY <1>1, <1>3, <1>4, ConstantsAre
<1>7. nextFree' \in Nat /\ First <= nextFree' /\ nextFree' <= Blocks
  <2>1. PICK f, s \in Nat : f = nextFree /\ s = Size(e) /\ First <= f /\ f + s <= Blocks /\ nextFree' = f + s
    BY <1>1, <1>3
  <2> QED
    BY <2>1, ConstantsAre
<1>8. DOMAIN disk' \subseteq {Root} \cup First .. Blocks - 1
  <2>1. ASSUME NEW b \in DOMAIN disk PROVE b \in {Root} \cup First .. Blocks - 1
    BY DEF AdfInv, SpaceSound
  <2>2. ASSUME NEW b \in Area(e) PROVE b \in First .. Blocks - 1
    BY <1>1, ConstantsAre
  <2> QED
    BY <1>2, <2>1, <2>2
<1> QED
  <2>1. full' = FALSE /\ Root \in DOMAIN disk'
    BY <1>3, <1>5 DEF AdfInv, SpaceSound
  <2> QED
    BY <1>3, <1>5, <1>6, <1>7, <1>8, <2>1 DEF SpaceSound

LEMMA GrowsTree ==
  ASSUME AdfInv, NEW e, Grows(e)
  PROVE  /\ DOMAIN tree' = DOMAIN tree \cup {Len(tree) + 1} /\ Len(tree) + 1 \notin DOMAIN tree
         /\ tree'[Len(tree) + 1] = e /\ \A i \in DOMAIN tree : tree'[i] = tree[i]
         /\ tree' \in Seq(EntrySet)
         /\ Dirs' = IF e.dir THEN Dirs \cup {e.block} ELSE Dirs
<1>1. tree \in Seq(EntrySet) /\ e \in EntrySet /\ tree' = Append(tree, e)
  BY DEF AdfInv, TreeSound, Grows, Legal
<1>2. /\ DOMAIN tree = 1 .. Len(tree) /\ Len(tree) \in Nat /\ tree' \in Seq(EntrySet)
      /\ Len(tree') = Len(tree) + 1 /\ DOMAIN tree' = 1 .. Len(tree) + 1
      /\ tree'[Len(tree) + 1] = e /\ \A i \in 1 .. Len(tree) : tree'[i] = tree[i]
  BY <1>1, LenProperties, AppendProperties
<1>3. DOMAIN tree' = DOMAIN tree \cup {Len(tree) + 1} /\ Len(tree) + 1 \notin DOMAIN tree
  BY <1>2
<1>4. Dirs' = {Root} \cup {f.block : f \in {tree'[i] : i \in {j \in DOMAIN tree' : tree'[j].dir}}}
  BY DEF Dirs
<1> DEFINE n == Len(tree) + 1
<1>5. /\ DOMAIN tree' = DOMAIN tree \cup {n} /\ n \notin DOMAIN tree /\ tree'[n] = e
      /\ \A i \in DOMAIN tree : tree'[i] = tree[i]
  BY <1>2, <1>3
<1> HIDE DEF n
<1>6. Dirs' = IF e.dir THEN Dirs \cup {e.block} ELSE Dirs
  <2>1. ASSUME NEW b \in Dirs' PROVE b \in Dirs \/ (e.dir /\ b = e.block)
    <3>1. CASE b = Root
      BY <3>1 DEF Dirs
    <3>2. CASE b # Root
      <4>1. PICK j \in DOMAIN tree' : tree'[j].dir /\ b = tree'[j].block
        BY <1>4, <2>1, <3>2
      <4> QED
        BY <1>5, <4>1 DEF Dirs
    <3> QED
      BY <3>1, <3>2
  <2>2. ASSUME NEW b \in Dirs PROVE b \in Dirs'
    <3>1. CASE b = Root
      BY <1>4, <3>1
    <3>2. CASE b # Root
      <4>1. PICK j \in DOMAIN tree : tree[j].dir /\ b = tree[j].block
        BY <2>2, <3>2 DEF Dirs
      <4>2. j \in DOMAIN tree' /\ tree'[j].dir /\ b = tree'[j].block
        BY <1>5, <4>1
      <4> QED
        BY <1>4, <4>2
    <3> QED
      BY <3>1, <3>2
  <2>3. ASSUME e.dir PROVE e.block \in Dirs'
    <3>1. n \in DOMAIN tree' /\ tree'[n].dir /\ e.block = tree'[n].block
      BY <1>5, <2>3
    <3> QED
      BY <1>4, <3>1
  <2> QED
    BY <2>1, <2>2, <2>3
<1> QED
  BY <1>1, <1>2, <1>3, <1>6

LEMMA GrowsTreeSound ==
  ASSUME AdfInv, NEW e, Grows(e)
  PROVE  TreeSound'
<1> DEFINE n == Len(tree) + 1
<1>1. /\ DOMAIN tree' = DOMAIN tree \cup {n} /\ n \notin DOMAIN tree
      /\ tree'[n] = e /\ \A i \in DOMAIN tree : tree'[i] = tree[i]
      /\ tree' \in Seq(EntrySet)
      /\ Dirs \subseteq Dirs'
  BY GrowsTree
<1>2. DOMAIN disk' = DOMAIN disk \cup Area(e)
  BY GrowsEnters DEF Enters
<1>3. /\ nextFree' = nextFree + Size(e) /\ Legal(e) /\ e.block = nextFree /\ e.parent \in Dirs
      /\ Free(e.name, e.parent)
  BY DEF Grows, Alloc
<1>4. nextFree \in Nat /\ Size(e) \in Nat /\ Size(e) > 0 /\ First <= nextFree
  BY NewArea
<1>5. ASSUME NEW i \in DOMAIN tree' PROVE Holds(tree[i])'
  <2>1. CASE i \in DOMAIN tree
    <3>1. Holds(tree[i])
      BY <2>1 DEF AdfInv, TreeSound
    <3>2. tree[i].block \in Nat /\ Size(tree[i]) \in Nat
      BY <2>1, EntriesAre, AreaIs DEF AdfInv
    <3>3. tree[i].block + Size(tree[i]) <= nextFree'
      BY <1>3, <1>4, <3>1, <3>2 DEF Holds
    <3> QED
      BY <1>1, <1>2, <2>1, <3>1, <3>3 DEF Holds
  <2>2. CASE i = n
    <3>1. e.block + Size(e) <= nextFree'
      BY <1>3, <1>4
    <3> QED
      BY <1>1, <1>2, <1>3, <1>4, <2>2, <3>1 DEF Holds, Legal
  <2> QED
    BY <1>1, <2>1, <2>2
<1>6. ASSUME NEW i \in DOMAIN tree', NEW j \in DOMAIN tree', i < j
      PROVE  tree'[i].block + Size(tree'[i]) <= tree'[j].block
  <2>1. DOMAIN tree = 1 .. Len(tree) /\ Len(tree) \in Nat
    BY LenProperties DEF AdfInv, TreeSound
  <2>2. i \in DOMAIN tree
    BY <1>1, <1>6, <2>1
  <2>3. CASE j \in DOMAIN tree
    BY <1>1, <1>6, <2>2, <2>3 DEF AdfInv, TreeSound
  <2>4. CASE j = n
    <3>1. Holds(tree[i])
      BY <2>2 DEF AdfInv, TreeSound
    <3> QED
      BY <1>1, <1>3, <2>2, <2>4, <3>1 DEF Holds
  <2> QED
    BY <1>1, <2>3, <2>4
<1>7. ASSUME NEW i \in DOMAIN tree', NEW j \in DOMAIN tree',
             tree'[i].name = tree'[j].name, tree'[i].parent = tree'[j].parent
      PROVE  i = j
  BY <1>1, <1>3, <1>7 DEF AdfInv, TreeSound, Free
<1> HIDE DEF n
<1> QED
  BY <1>1, <1>5, <1>6, <1>7 DEF TreeSound

LEMMA GrowsDiskSound ==
  ASSUME AdfInv, NEW e, Grows(e)
  PROVE  DiskSound'
<1> DEFINE w == Written(e)
           D == DOMAIN disk
           A == Area(e)
           h == Hash[e.name]
           M == Table(e)
           n == Len(tree) + 1
<1>1. /\ (\A b \in D : b \in Nat /\ b \notin A /\ b < e.block) /\ e.block \in A /\ e.block \in Nat /\ e.parent \in D
      /\ h \in 1 .. Slots /\ e.parent \in Dirs /\ Legal(e)
  BY NewArea DEF Grows
<1>2. /\ Enters(disk', w, e.parent, h, e.block, M) /\ DOMAIN w = D \cup A
      /\ \A b \in D : w[b] = disk[b]
      /\ \A b \in A : w[b] = Original(e, b)
      /\ SumRight(disk'[e.block])
  BY GrowsEnters
<1> HIDE DEF w
<1>3. /\ DOMAIN disk' = D \cup A
      /\ \A b \in D \cup A : /\ IsBlock(disk'[b]) /\ Kept(disk'[b], w[b])
                             /\ b # Root /\ SumRight(w[b]) => SumRight(disk'[b])
  BY <1>2 DEF Enters
<1>4. /\ DOMAIN tree' = DOMAIN tree \cup {n}
      /\ tree'[n] = e /\ \A i \in DOMAIN tree : tree'[i] = tree[i]
  BY GrowsTree
<1>5. M \subseteq D
  BY MembersAre DEF Table, Chained
<1>6. \A b \in D \cup A : disk'[b].chain = w[b].chain \/ (b \in D /\ disk'[b].chain = e.block)
  BY <1>2, <1>5 DEF Enters, Slotted, Appended
<1>7. \A b \in D \cup A : b # e.parent => disk'[b].slots = w[b].slots
  BY <1>2, <1>5 DEF Enters, Slotted, Appended
<1>8. disk'[e.parent].slots = w[e.parent].slots \/ disk'[e.parent].slots = [w[e.parent].slots EXCEPT ![h] = e.block]
  BY <1>1, <1>2, <1>5 DEF Enters, Slotted, Appended
<1>9. ASSUME NEW b \in D PROVE BlockSound(disk'[b], b, disk')
  <2>1. BlockSound(disk[b], b, disk) /\ Kept(disk'[b], disk[b]) /\ IsBlock(disk'[b])
    BY <1>2, <1>3 DEF AdfInv, DiskSound
  <2>2. disk[b].slots \in [1 .. Slots -> Nat]
    BY <2>1 DEF BlockSound
  <2>3. disk'[b].slots \in [1 .. Slots -> Nat]
    <3>1. disk'[b].slots = disk[b].slots \/ disk'[b].slots = [disk[b].slots EXCEPT ![h] = e.block]
      BY <1>1, <1>2, <1>7, <1>8
    <3>2. PICK l \in [1 .. Slots -> Nat] : l = disk[b].slots
      BY <2>2
    <3>3. [l EXCEPT ![h] = e.block] \in [1 .. Slots -> Nat]
      BY <1>1
    <3> QED
      BY <3>1, <3>2, <3>3
  <2>4. Onward(disk'[b].chain, b, disk')
    BY <1>1, <1>2, <1>3, <1>6, <2>1 DEF BlockSound, Onward
  <2> QED
    BY <1>3, <2>1, <2>3, <2>4 DEF BlockSound, Onward, Kept
<1>10. ASSUME NEW b \in A PROVE BlockSound(disk'[b], b, disk')
  <2>1. Fresh(w[b], b, e.block, A) /\ Kept(disk'[b], w[b]) /\ IsBlock(disk'[b])
    BY <1>1, <1>2, <1>3, OriginalIsFresh
  <2>2. b \notin D
    BY <1>1
  <2>3. disk'[b].slots = w[b].slots /\ disk'[b].chain = w[b].chain
    BY <1>1, <1>6, <1>7, <2>2
  <2> QED
    BY <1>3, <2>1, <2>3 DEF BlockSound, Fresh, Stays, Onward, Kept
<1>11. ASSUME NEW i \in DOMAIN tree', NEW b \in Area(tree'[i]) PROVE OnDisk(tree[i], b)'
  <2>1. CASE i \in DOMAIN tree
    <3>1. /\ b \in D /\ OnDisk(tree[i], b) /\ tree'[i] = tree[i]
      BY <1>4, <1>11, <2>1, EntriesAre DEF AdfInv, DiskSound, Holds
    <3>2. Kept(disk'[b], disk[b]) /\ Kept(disk[b], Original(tree[i], b))
      BY <1>2, <1>3, <3>1 DEF OnDisk
    <3>3. Kept(disk'[b], Original(tree[i], b))
      BY <3>2, KeptIsTransitive
    <3>4. ~tree[i].dir => b # e.parent
      <4>1. ASSUME ~tree[i].dir, b = e.parent PROVE FALSE
        <5>1. b = Root \/ \E j \in DOMAIN tree : tree[j].dir /\ tree[j].block = b
          BY <1>1, <4>1, DirsAre DEF AdfInv
        <5>2. b # Root
          BY <1>11, <2>1, <3>1, EntriesAre DEF AdfInv
        <5>3. PICK j \in DOMAIN tree : tree[j].dir /\ tree[j].block = b
          BY <5>1, <5>2
        <5>4. i # j /\ b \in Area(tree[j]) /\ b \in Area(tree[i])
          BY <1>11, <3>1, <4>1, <5>3, EntriesAre DEF AdfInv
        <5> QED
          BY <2>1, <5>4, EntriesAre DEF AdfInv
      <4> QED
        BY <4>1
    <3>5. ~tree[i].dir => disk'[b].slots = Original(tree[i], b).slots
      BY <1>2, <1>7, <3>1, <3>4 DEF OnDisk
    <3> QED
      BY <3>1, <3>3, <3>5 DEF OnDisk
  <2>2. CASE i = n
    <3>1. b \in A /\ b # e.parent /\ tree'[i] = e
      BY <1>1, <1>4, <1>11, <2>2
    <3> QED
      BY <1>2, <1>3, <1>7, <3>1 DEF OnDisk
  <2> QED
    BY <1>4, <2>1, <2>2
<1>12. ASSUME NEW b \in D \cup A, b # Root PROVE SumRight(disk'[b])
  <2>1. CASE b \in D
    BY <1>2, <1>3, <1>12, <2>1 DEF AdfInv, DiskSound
  <2>2. CASE b \in A /\ b # e.block
    BY <1>1, <1>2, <1>3, <1>12, <2>2, OriginalIsFresh DEF Fresh
  <2> QED
    BY <1>2, <2>1, <2>2
<1>13. finished' = FALSE
  BY DEF Grows, Alloc
<1> QED
  BY <1>3, <1>9, <1>10, <1>11, <1>12, <1>13 DEF DiskSound

\* Members of a table when one more entry comes last.
LEMMA GrowsMembers ==
  ASSUME AdfInv, NEW e, Grows(e), NEW dir, NEW s
  PROVE  Members(tree', dir, s) = IF In(e, dir, s) THEN Members(tree, dir, s) \cup {e.block} ELSE Members(tree, dir, s)
<1> DEFINE n == Len(tree) + 1
<1>1. /\ DOMAIN tree' = DOMAIN tree \cup {n} /\ n \notin DOMAIN tree
      /\ tree'[n] = e /\ \A i \in DOMAIN tree : tree'[i] = tree[i]
  BY GrowsTree
<1> HIDE DEF n
<1>2. Members(tree', dir, s) = {tree'[i].block : i \in {j \in DOMAIN tree' : In(tree'[j], dir, s)}}
  BY DEF Members, In
<1>3. ASSUME NEW b \in Members(tree', dir, s) PROVE b \in Members(tree, dir, s) \/ (In(e, dir, s) /\ b = e.block)
  <2>1. PICK i \in DOMAIN tree' : In(tree'[i], dir, s) /\ b = tree'[i].block
    BY <1>2, <1>3
  <2>2. CASE i = n
    BY <1>1, <2>1, <2>2
  <2>3. CASE i # n
    <3>1. i \in DOMAIN tree /\ In(tree[i], dir, s) /\ b = tree[i].block
      BY <1>1, <2>1, <2>3
    <3> QED
      BY <3>1 DEF Members
  <2> QED
    BY <2>2, <2>3
<1>4. ASSUME NEW b \in Members(tree, dir, s) PROVE b \in Members(tree', dir, s)
  <2>1. PICK i \in DOMAIN tree : In(tree[i], dir, s) /\ b = tree[i].block
    BY <1>4 DEF Members
  <2>2. i \in DOMAIN tree' /\ In(tree'[i], dir, s) /\ b = tree'[i].block
    BY <1>1, <2>1
  <2> QED
    BY <1>2, <2>2
<1>5. ASSUME In(e, dir, s) PROVE e.block \in Members(tree', dir, s)
  <2>1. n \in DOMAIN tree' /\ In(tree'[n], dir, s) /\ e.block = tree'[n].block
    BY <1>1, <1>5
  <2> QED
    BY <1>2, <2>1
<1> QED
  BY <1>3, <1>4, <1>5

\* A block behind all others in its chain.
LEMMA NextStays ==
  ASSUME NEW c, NEW b, NEW M, NEW new, IsNext(c, b, M), c \in M \/ b \in M,
         b \in M => \E m \in M : ~ (m <= b), \A m \in M : m < new, M \subseteq Nat, new \in Nat, b \in Nat,
         None \notin M
  PROVE  IsNext(c, b, M \cup {new})
<1>1. c \in M /\ c > b /\ \A m \in M : m <= b \/ c <= m
  BY DEF IsNext
<1>2. c <= new
  BY <1>1
<1> QED
  BY <1>1, <1>2 DEF IsNext

LEMMA GrowsTables ==
  ASSUME AdfInv, NEW e, Grows(e)
  PROVE  TablesSound'
<1> DEFINE w == Written(e)
           D == DOMAIN disk
           A == Area(e)
           h == Hash[e.name]
           M == Table(e)
           n == Len(tree) + 1
           new == e.block
<1>1. /\ (\A b \in D : b \in Nat /\ b \notin A /\ b < new) /\ new \in A /\ new \in Nat /\ e.parent \in D
      /\ h \in 1 .. Slots /\ e.parent \in Dirs /\ Legal(e) /\ D \subseteq 1 .. Blocks
  BY NewArea DEF Grows
<1>2. /\ Enters(disk', w, e.parent, h, new, M) /\ DOMAIN w = D \cup A
      /\ \A b \in D : w[b] = disk[b]
      /\ \A b \in A : w[b] = Original(e, b)
  BY GrowsEnters
<1> HIDE DEF w
<1>3. /\ M = {} => Slotted(disk', w, e.parent, h, new)
      /\ M # {} => \E last \in M : (\A m \in M : m <= last) /\ Appended(disk', w, last, new)
  BY <1>2 DEF Enters
<1>4. /\ DOMAIN tree' = DOMAIN tree \cup {n} /\ n \notin DOMAIN tree
      /\ tree'[n] = e /\ \A i \in DOMAIN tree : tree'[i] = tree[i]
      /\ Dirs' = IF e.dir THEN Dirs \cup {new} ELSE Dirs
  BY GrowsTree
<1> HIDE DEF n
<1>5. \A dir, s : Members(tree', dir, s) = IF In(e, dir, s) THEN Members(tree, dir, s) \cup {new} ELSE Members(tree, dir, s)
  BY GrowsMembers
<1>6. M = Members(tree, e.parent, h) /\ In(e, e.parent, h)
  BY DEF Table, In
<1>7. \A dir, s : Members(tree, dir, s) \subseteq D
  BY MembersAre DEF Chained
<1>8. None \notin D
  BY <1>1, ConstantsAre
<1>9. \A b \in D \cup A : b # e.parent => disk'[b].slots = w[b].slots
  BY <1>2, <1>3 DEF Slotted, Appended
<1>10. Dirs \subseteq D
  BY DirsAre DEF AdfInv
<1>11. ASSUME NEW dir \in Dirs', NEW s \in 1 .. Slots
       PROVE  IsNext(disk'[dir].slots[s], None, Members(tree', dir, s))
  <2>1. CASE dir \notin Dirs
    <3>1. dir = new /\ e.dir /\ dir \in A /\ dir # e.parent
      BY <1>1, <1>4, <1>11, <2>1
    <3>2. disk'[dir].slots = NoSlots
      BY <1>1, <1>2, <1>9, <3>1, HeaderIs
    <3>3. disk'[dir].slots[s] = None
      BY <3>2 DEF NoSlots
    <3>4. Members(tree, dir, s) = {}
      <4>1. ASSUME NEW i \in DOMAIN tree, In(tree[i], dir, s) PROVE FALSE
        <5>1. tree[i].parent \in Dirs
          BY EntriesAre DEF AdfInv, Holds
        <5> QED
          BY <2>1, <4>1, <5>1 DEF In
      <4> QED
        BY <4>1 DEF Members
    <3>5. Members(tree', dir, s) = {}
      BY <1>5, <3>1, <3>4 DEF In
    <3> QED
      BY <3>3, <3>5 DEF IsNext
  <2>2. CASE dir \in Dirs
    <3>1. IsNext(disk[dir].slots[s], None, Members(tree, dir, s)) /\ dir \in D
      BY <1>10, <2>2 DEF AdfInv, TablesSound
    <3>2. CASE ~ In(e, dir, s)
      <4>1. dir # e.parent \/ s # h
        BY <3>2 DEF In
      <4>2. disk'[dir].slots[s] = disk[dir].slots[s]
        <5>1. CASE dir # e.parent
          BY <1>2, <1>9, <3>1, <5>1
        <5>2. CASE dir = e.parent /\ M = {}
          <6>1. disk'[dir].slots = [disk[dir].slots EXCEPT ![h] = new] /\ s # h
            BY <1>2, <1>3, <3>1, <4>1, <5>2 DEF Slotted
          <6> QED
            BY <6>1
        <5>3. CASE dir = e.parent /\ M # {}
          BY <1>2, <1>3, <3>1, <5>3 DEF Appended
        <5> QED
          BY <5>1, <5>2, <5>3
      <4> QED
        BY <1>5, <3>1, <3>2, <4>2
    <3>3. CASE In(e, dir, s)
      <4>1. dir = e.parent /\ s = h /\ Members(tree, dir, s) = M /\ Members(tree', dir, s) = M \cup {new}
        BY <1>5, <1>6, <3>3 DEF In
      <4>2. CASE M = {}
        <5>1. disk'[dir].slots = [disk[dir].slots EXCEPT ![h] = new]
          BY <1>2, <1>3, <3>1, <4>1, <4>2 DEF Slotted
        <5>2. h \in DOMAIN disk[dir].slots
          <6>1. BlockSound(disk[dir], dir, disk)
            BY <3>1 DEF AdfInv, DiskSound
          <6> QED
            BY <1>1, <6>1 DEF BlockSound
        <5>3. disk'[dir].slots[s] = new /\ Members(tree', dir, s) = {new} /\ new > None
          BY <1>1, <1>8, <4>1, <4>2, <5>1, <5>2, ConstantsAre
        <5> QED
          BY <1>1, <5>3 DEF IsNext
      <4>3. CASE M # {}
        <5>1. disk'[dir].slots = disk[dir].slots
          BY <1>2, <1>3, <3>1, <4>3 DEF Appended
        <5>2. M \subseteq Nat /\ \A m \in M : m < new /\ ~ (m <= None)
          BY <1>1, <1>6, <1>7, <1>8, ConstantsAre
        <5>3. disk[dir].slots[s] \in M
          BY <3>1, <4>1, <4>3, <5>2 DEF IsNext
        <5>4. IsNext(disk[dir].slots[s], None, M \cup {new})
          BY <1>1, <1>7, <1>8, <3>1, <4>1, <5>2, <5>3, NextStays, ConstantsAre
        <5> QED
          BY <4>1, <5>1, <5>4
      <4> QED
        BY <4>2, <4>3
    <3> QED
      BY <3>2, <3>3
  <2> QED
    BY <2>1, <2>2
<1>12. ASSUME NEW i \in DOMAIN tree
       PROVE  IsNext(disk'[tree[i].block].chain, tree[i].block, Members(tree', tree[i].parent, Hash[tree[i].name]))
  <2> DEFINE f == tree[i]
             b == f.block
             t == Hash[f.name]
  <2>1. /\ b \in D /\ b \in Nat /\ IsNext(disk[b].chain, b, Members(tree, f.parent, t))
        /\ b \in Members(tree, f.parent, t) /\ (b \in M <=> In(f, e.parent, h)) /\ In(f, f.parent, t)
    <3>1. In(f, f.parent, t)
      BY DEF In
    <3>2. b \in Members(tree, f.parent, t) /\ (b \in M <=> In(f, e.parent, h))
      BY <1>6, <3>1, MembersAre
    <3> QED
      BY <1>1, <3>1, <3>2, EntriesAre DEF AdfInv, TablesSound
  <2> HIDE DEF b, t, f
  <2>2. CASE ~ In(e, f.parent, t)
    <3>1. b \notin M
      BY <2>1, <2>2 DEF In
    <3>2. disk'[b].chain = disk[b].chain
      BY <1>2, <1>3, <2>1, <3>1 DEF Slotted, Appended
    <3>3. IsNext(disk'[b].chain, b, Members(tree', f.parent, t))
      BY <1>5, <2>1, <2>2, <3>2
    <3> QED
      BY <3>3 DEF b, t, f
  <2>3. CASE In(e, f.parent, t)
    <3>1. f.parent = e.parent /\ t = h /\ Members(tree, f.parent, t) = M /\ Members(tree', f.parent, t) = M \cup {new}
      BY <1>5, <1>6, <2>3 DEF In
    <3>2. b \in M /\ M \subseteq Nat /\ None \notin M /\ \A m \in M : m < new
      BY <1>1, <1>6, <1>7, <1>8, <2>1, <3>1
    <3>3. PICK last \in M : (\A m \in M : m <= last) /\ Appended(disk', w, last, new)
      BY <1>3, <3>2
    <3>4. CASE b = last
      <4>1. disk'[b].chain = new
        BY <3>3, <3>4 DEF Appended
      <4>2. new > b /\ \A m \in M \cup {new} : m <= b \/ new <= m
        BY <1>1, <2>1, <3>2, <3>3, <3>4
      <4>3. IsNext(disk'[b].chain, b, Members(tree', f.parent, t))
        BY <3>1, <4>1, <4>2 DEF IsNext
      <4> QED
        BY <4>3 DEF b, t, f
    <3>5. CASE b # last
      <4>1. disk'[b].chain = disk[b].chain
        BY <1>2, <2>1, <3>3, <3>5 DEF Appended
      <4>2. ~ (last <= b)
        BY <2>1, <3>2, <3>3, <3>5
      <4>3. IsNext(disk[b].chain, b, M \cup {new})
        BY <1>1, <2>1, <3>1, <3>2, <3>3, <4>2, NextStays
      <4>4. IsNext(disk'[b].chain, b, Members(tree', f.parent, t))
        BY <3>1, <4>1, <4>3
      <4> QED
        BY <4>4 DEF b, t, f
    <3> QED
      BY <3>4, <3>5
  <2> QED
    BY <2>2, <2>3
<1>13. IsNext(disk'[new].chain, new, Members(tree', e.parent, h))
  <2>1. w[new].chain = None
    BY <1>1, <1>2, OriginalIsFresh DEF Fresh
  <2>2. disk'[new].chain = None
    BY <1>1, <1>2, <1>3, <1>6, <1>7, <2>1 DEF Slotted, Appended
  <2>3. Members(tree', e.parent, h) = M \cup {new}
    BY <1>5, <1>6
  <2>4. \A m \in M \cup {new} : m <= new
    BY <1>1, <1>6, <1>7
  <2> QED
    BY <2>2, <2>3, <2>4 DEF IsNext
<1>14. ASSUME NEW i \in DOMAIN tree'
       PROVE  IsNext(disk'[tree'[i].block].chain, tree'[i].block, Members(tree', tree'[i].parent, Hash[tree'[i].name]))
  <2>1. CASE i \in DOMAIN tree
    BY <1>4, <1>12, <2>1
  <2>2. CASE i = n
    BY <1>4, <1>13, <2>2
  <2> QED
    BY <1>4, <2>1, <2>2
<1> QED
  BY <1>11, <1>14 DEF TablesSound

-----------------------------------------------------------------------------
(* The invariant.                                                          *)

LEMMA GrowsKeeps ==
  ASSUME AdfInv, NEW e, Grows(e)
  PROVE  AdfInv'
BY GrowsSpace, GrowsTreeSound, GrowsDiskSound, GrowsTables DEF AdfInv

\* A call that runs out of blocks writes none.
LEMMA OutOfBlocksKeeps ==
  ASSUME AdfInv, NEW wanted, ~full, OutOfBlocks(wanted)
  PROVE  AdfInv'
<1>1. /\ used' = used \cup nextFree .. Blocks - 1 /\ nextFree' = Blocks + 1 /\ full' = TRUE /\ finished' = FALSE
      /\ disk' = disk /\ bitmap' = bitmap /\ tree' = tree
  BY DEF OutOfBlocks
<1>2. /\ nextFree \in Nat /\ First <= nextFree /\ nextFree <= Blocks
      /\ Root \in DOMAIN disk /\ DOMAIN disk \subseteq {Root} \cup First .. Blocks - 1
      /\ used = {Root, Bitmap} \cup {b \in First .. Blocks - 1 : b < nextFree}
  BY DEF AdfInv, SpaceSound
<1>3. SpaceSound'
  <2>1. used' = {Root, Bitmap} \cup {b \in First .. Blocks - 1 : b < nextFree'}
    BY <1>1, <1>2, ConstantsAre
  <2>2. nextFree' \in Nat /\ First <= nextFree'
    BY <1>1, ConstantsAre
  <2> QED
    BY <1>1, <1>2, <2>1, <2>2 DEF SpaceSound
<1>4. Dirs' = Dirs
  BY <1>1 DEF Dirs
<1>5. ASSUME NEW i \in DOMAIN tree PROVE Holds(tree[i])'
  <2>1. Holds(tree[i]) /\ tree[i].block \in Nat /\ Size(tree[i]) \in Nat
    BY EntriesAre, AreaIs DEF AdfInv
  <2>2. tree[i].block + Size(tree[i]) <= nextFree'
    BY <1>1, <1>2, <2>1, ConstantsAre DEF Holds
  <2> QED
    BY <1>1, <1>4, <2>1, <2>2 DEF Holds
<1>6. TreeSound'
  BY <1>1, <1>5 DEF AdfInv, TreeSound
<1>7. DiskSound'
  BY <1>1 DEF AdfInv, DiskSound, OnDisk
<1>8. TablesSound'
  BY <1>1, <1>4 DEF AdfInv, TablesSound
<1> QED
  BY <1>3, <1>6, <1>7, <1>8 DEF AdfInv

LEMMA FinishKeeps ==
  ASSUME AdfInv, FinishDisk
  PROVE  AdfInv'
<1> DEFINE titled == [disk[Root] EXCEPT !.type = "header"]
           put == Sum(titled)
<1>1. /\ disk' = [disk EXCEPT ![Root] = put]
      /\ bitmap' = {b \in 2 .. Blocks - 1 : b \notin used} /\ finished' = TRUE
      /\ nextFree' = nextFree /\ used' = used /\ tree' = tree /\ full' = full
  BY DEF FinishDisk
<1>2. Root \in DOMAIN disk /\ BlockSound(disk[Root], Root, disk)
  BY DEF AdfInv, SpaceSound, DiskSound
<1>3. /\ IsBlock(titled) /\ Kept(titled, disk[Root]) /\ titled.slots = disk[Root].slots
      /\ titled.chain = disk[Root].chain
  BY <1>2 DEF BlockSound, IsBlock, Fields, Kept
<1> HIDE DEF titled
<1>4. /\ IsBlock(put) /\ Kept(put, disk[Root]) /\ SumRight(put) /\ put.slots = disk[Root].slots
      /\ put.chain = disk[Root].chain
  <2>1. /\ IsBlock(put) /\ Kept(put, titled) /\ SumRight(put) /\ put.slots = titled.slots
        /\ put.chain = titled.chain
    BY <1>3, SumKeeps
  <2> QED
    BY <1>3, <2>1, KeptIsTransitive
<1> HIDE DEF put
<1>5. /\ DOMAIN disk' = DOMAIN disk /\ disk'[Root] = put
      /\ \A b \in DOMAIN disk : b # Root => disk'[b] = disk[b]
  BY <1>1, <1>2
<1>6. ASSUME NEW b \in DOMAIN disk
      PROVE  /\ Kept(disk'[b], disk[b]) /\ disk'[b].slots = disk[b].slots /\ disk'[b].chain = disk[b].chain
             /\ IsBlock(disk'[b]) /\ SumRight(disk'[b])
  <2>1. BlockSound(disk[b], b, disk) /\ (b # Root => SumRight(disk[b]))
    BY DEF AdfInv, DiskSound
  <2> QED
    BY <1>4, <1>5, <2>1, KeptIsReflexive DEF BlockSound
<1>7. Dirs' = Dirs /\ Dirs \subseteq DOMAIN disk
  BY <1>1, DirsAre DEF Dirs, AdfInv
<1>8. SpaceSound'
  BY <1>1, <1>5 DEF AdfInv, SpaceSound
<1>9. ASSUME NEW i \in DOMAIN tree PROVE Holds(tree[i])'
  BY <1>1, <1>5, <1>7, EntriesAre DEF AdfInv, Holds
<1>10. TreeSound'
  BY <1>1, <1>9 DEF AdfInv, TreeSound
<1>11. ASSUME NEW b \in DOMAIN disk PROVE BlockSound(disk'[b], b, disk')
  <2>1. BlockSound(disk[b], b, disk)
    BY DEF AdfInv, DiskSound
  <2> QED
    BY <1>5, <1>6, <2>1 DEF BlockSound, Onward, Kept
<1>12. ASSUME NEW i \in DOMAIN tree, NEW b \in Area(tree[i]) PROVE OnDisk(tree[i], b)'
  <2>1. b \in DOMAIN disk /\ OnDisk(tree[i], b)
    BY EntriesAre DEF AdfInv, Holds, DiskSound
  <2>2. Kept(disk'[b], Original(tree[i], b))
    BY <1>6, <2>1, KeptIsTransitive DEF OnDisk
  <2> QED
    BY <1>1, <1>6, <2>1, <2>2 DEF OnDisk
<1>13. DiskSound'
  BY <1>1, <1>5, <1>6, <1>11, <1>12 DEF DiskSound
<1>14. TablesSound'
  <2>1. \A i \in DOMAIN tree : tree[i].block \in DOMAIN disk
    BY EntriesAre DEF AdfInv
  <2> QED
    BY <1>1, <1>6, <1>7, <2>1 DEF AdfInv, TablesSound
<1> QED
  BY <1>8, <1>10, <1>13, <1>14 DEF AdfInv

LEMMA InitIsSound ==
  ASSUME DiskInit
  PROVE  AdfInv
<1>1. /\ disk = [b \in {Root} |-> Blank] /\ nextFree = First /\ used = {Root, Bitmap}
      /\ finished = FALSE /\ tree = << >> /\ full = FALSE
  BY DEF DiskInit
<1>2. DOMAIN tree = {} /\ tree \in Seq(EntrySet) /\ DOMAIN disk = {Root} /\ disk[Root] = Blank
  <2>1. tree \in Seq(EntrySet) /\ Len(tree) = 0
    BY <1>1, EmptySeq
  <2>2. DOMAIN tree = 1 .. 0
    BY <2>1, LenProperties
  <2> QED
    BY <1>1, <2>1, <2>2
<1>3. SpaceSound
  <2>1. First \in Nat /\ First <= Blocks /\ First .. First - 1 = {} /\ {b \in First .. Blocks - 1 : b < First} = {}
    BY ConstantsAre
  <2>2. DOMAIN disk = {Root} \cup First .. nextFree - 1
    BY <1>1, <1>2, <2>1
  <2>3. used = {Root, Bitmap} \cup {b \in First .. Blocks - 1 : b < nextFree}
    BY <1>1, <2>1
  <2> QED
    <3>1. nextFree \in Nat /\ First <= nextFree /\ nextFree <= Blocks
      BY <1>1, <2>1
    <3>2. Root \in DOMAIN disk /\ DOMAIN disk \subseteq {Root} \cup First .. Blocks - 1
      BY <1>2
    <3> QED
      BY <1>1, <2>2, <2>3, <3>1, <3>2 DEF SpaceSound
<1>4. TreeSound
  BY <1>2 DEF TreeSound
<1>5. BlockSound(Blank, Root, disk)
  <2>1. << >> \in Seq(Chunks)
    BY EmptySeq
  <2> QED
    BY <2>1, BlankIsBlock, SlotsAreBlank DEF BlockSound, Onward
<1>6. DiskSound
  BY <1>1, <1>2, <1>5 DEF DiskSound
<1>7. Dirs = {Root} /\ \A dir, s : Members(tree, dir, s) = {}
  BY <1>2 DEF Dirs, Members
<1>8. TablesSound
  <2>1. disk[Root].slots = NoSlots
    BY <1>2, BlankIsBlock
  <2>2. \A s \in 1 .. Slots : disk[Root].slots[s] = None
    BY <2>1 DEF NoSlots
  <2>3. IsNext(None, None, {})
    BY DEF IsNext
  <2>4. \A dir \in Dirs, s \in 1 .. Slots : IsNext(disk[dir].slots[s], None, Members(tree, dir, s))
    BY <1>7, <2>2, <2>3
  <2>5. DOMAIN tree = {}
    BY <1>2
  <2> QED
    BY <2>4, <2>5 DEF TablesSound
<1> QED
  BY <1>3, <1>4, <1>6, <1>8 DEF AdfInv

LEMMA StutterKeeps ==
  ASSUME AdfInv, UNCHANGED diskVars
  PROVE  AdfInv'
<1>1. /\ disk' = disk /\ nextFree' = nextFree /\ used' = used /\ bitmap' = bitmap /\ finished' = finished
      /\ tree' = tree /\ full' = full
  BY DEF diskVars
<1>2. Dirs' = Dirs
  BY <1>1 DEF Dirs
<1>3. SpaceSound'
  BY <1>1 DEF AdfInv, SpaceSound
<1>4. TreeSound'
  BY <1>1, <1>2 DEF AdfInv, TreeSound, Holds
<1>5. DiskSound'
  BY <1>1 DEF AdfInv, DiskSound, OnDisk
<1>6. TablesSound'
  BY <1>1, <1>2 DEF AdfInv, TablesSound
<1> QED
  BY <1>3, <1>4, <1>5, <1>6 DEF AdfInv

\* On a disk of any size, entries of any directories, names and files lie in
\* areas of their own, as addDir and addFile wrote them but for tables and chains,
\* which lead to all entries of a slot in their order (adf.js, insertEntry).
THEOREM AdfInvariant == DiskSpec => []AdfInv
<1>1. DiskInit => AdfInv
  BY InitIsSound
<1>2. AdfInv /\ [DiskNext]_diskVars => AdfInv'
  <2> SUFFICES ASSUME AdfInv, [DiskNext]_diskVars PROVE AdfInv'
    OBVIOUS
  <2>1. CASE DiskNext
    <3>1. \/ \E e : Grows(e)
          \/ \E wanted \in Wanted : ~full /\ OutOfBlocks(wanted)
          \/ FinishDisk
      BY <2>1, StepIs DEF AdfInv
    <3> QED
      BY <3>1, GrowsKeeps, OutOfBlocksKeeps, FinishKeeps
  <2>2. CASE UNCHANGED diskVars
    BY <2>2, StutterKeeps
  <2> QED
    BY <2>1, <2>2
<1> QED
  BY <1>1, <1>2, PTL DEF DiskSpec

-----------------------------------------------------------------------------
(* The blocks that an entry's words lead to.                               *)

ReachEq(f, D, link) == f = [b \in D \cup {None} |-> IF b = None THEN {} ELSE {b} \cup f[link[b]]]

LEMMA ReachExists ==
  ASSUME NEW D, D \subseteq 1 .. Blocks, NEW link \in [D -> D \cup {None}],
         \A b \in D : link[b] = None \/ link[b] > b
  PROVE  \E f : ReachEq(f, D, link)
<1> DEFINE T == SUBSET D
           make == [b \in D |-> [t \in T |-> {b} \cup t]]
<1>1. Ranked(D, link, [b \in D |-> Blocks - b], Blocks)
  BY OnwardIsRanked
<1>2. make \in [D -> [T -> T]] /\ {} \in T
  OBVIOUS
<1>3. \A b \in D, t \in T : make[b][t] = {b} \cup t
  OBVIOUS
<1> HIDE DEF make, T
<1>4. PICK f : Walks(f, D, T, link, {}, make)
  BY <1>1, <1>2, WalkExists
<1>5. f \in [D \cup {None} -> T] /\ f[None] = {} /\ \A b \in D : f[b] = make[b][f[link[b]]]
  BY <1>4 DEF Walks
<1>6. None \notin D
  BY ConstantsAre
<1>7. ASSUME NEW b \in D PROVE f[b] = {b} \cup f[link[b]]
  <2>1. f[link[b]] \in T
    BY <1>5
  <2> QED
    BY <1>3, <1>5, <2>1
<1>8. ReachEq(f, D, link)
  BY <1>5, <1>6, <1>7 DEF ReachEq
<1> QED
  BY <1>8

\* Links that stay in an area lead to no other block.
LEMMA ReachStays ==
  ASSUME NEW D, D \subseteq 1 .. Blocks, NEW link \in [D -> D \cup {None}],
         \A b \in D : link[b] = None \/ link[b] > b,
         NEW A, A \subseteq D, \A b \in A : link[b] = None \/ link[b] \in A,
         NEW f, ReachEq(f, D, link), NEW b \in A \cup {None}
  PROVE  f[b] \subseteq A
<1>1. PICK rank : Ranked(D, link, rank, Blocks)
  BY OnwardIsRanked
<1>2. None \notin D
  BY ConstantsAre
<1>3. f[None] = {} /\ \A c \in D : f[c] = {c} \cup f[link[c]]
  BY <1>2 DEF ReachEq
<1> DEFINE P == {c \in D : c \in A => f[c] \subseteq A}
<1>4. ASSUME NEW c \in D, link[c] \in D => link[c] \in P PROVE c \in P
  <2> SUFFICES ASSUME c \in A PROVE f[c] \subseteq A
    OBVIOUS
  <2>1. f[link[c]] \subseteq A
    BY <1>3, <1>4
  <2> QED
    BY <1>3, <2>1
<1> HIDE DEF P
<1>5. D \subseteq P
  <2>1. Inherits(P, D, link)
    BY <1>4 DEF Inherits
  <2> QED
    BY <1>1, <2>1, AlongLinks
<1>6. CASE b = None
  BY <1>3, <1>6
<1>7. CASE b \in A
  <2>1. b \in P
    BY <1>5, <1>7
  <2> QED
    BY <1>7, <2>1 DEF P
<1> QED
  BY <1>6, <1>7

\* An entry's words lead to blocks of its area only.
LEMMA AreaIsClosed ==
  ASSUME AdfInv, NEW i \in DOMAIN tree
  PROVE  LET e == tree[i]
         IN /\ Area(e) \subseteq DOMAIN disk /\ e.block \in Area(e)
            /\ disk[e.block].first = None \/ disk[e.block].first \in Area(e)
            /\ \A b \in Area(e) : /\ Stays(disk[b].next, b, Area(e))
                                  /\ Stays(disk[b].ext, b, Area(e))
<1> DEFINE e == tree[i]
<1>1. Legal(e) /\ Holds(e) /\ e.block \in Area(e)
  BY EntriesAre DEF AdfInv
<1>2. ASSUME NEW b \in Area(e) PROVE Kept(disk[b], Original(e, b))
  BY DEF AdfInv, DiskSound, OnDisk
<1>3. ASSUME NEW b \in Area(e) PROVE Stays(disk[b].next, b, Area(e)) /\ Stays(disk[b].ext, b, Area(e))
  BY <1>1, <1>2, OriginalIsFresh DEF Fresh, Kept
<1>4. disk[e.block].first = None \/ disk[e.block].first \in Area(e)
  BY <1>1, <1>2, HeaderIs DEF Kept
<1> QED
  BY <1>1, <1>3, <1>4 DEF Holds

\* The disk's links of one kind.
LEMMA LinksAre ==
  ASSUME AdfInv
  PROVE  LET D == DOMAIN disk
         IN /\ D \subseteq 1 .. Blocks /\ None \notin D
            /\ \A b \in D : /\ b \in Nat
                            /\ disk[b].ext \in D \cup {None} /\ (disk[b].ext = None \/ disk[b].ext > b)
                            /\ disk[b].next \in D \cup {None} /\ (disk[b].next = None \/ disk[b].next > b)
                            /\ disk[b].chain \in D \cup {None} /\ (disk[b].chain = None \/ disk[b].chain > b)
<1>1. DOMAIN disk \subseteq {Root} \cup First .. Blocks - 1
  BY DEF AdfInv, SpaceSound
<1>2. DOMAIN disk \subseteq 1 .. Blocks /\ None \notin DOMAIN disk
  BY <1>1, ConstantsAre
<1>3. \A b \in DOMAIN disk : BlockSound(disk[b], b, disk)
  BY DEF AdfInv, DiskSound
<1> QED
  BY <1>2, <1>3 DEF BlockSound, Onward

LEMMA BlocksOfIsInArea ==
  ASSUME AdfInv, NEW i \in DOMAIN tree
  PROVE  BlocksOf(tree[i]) \subseteq Area(tree[i])
<1> DEFINE e == tree[i]
           D == DOMAIN disk
           A == Area(e)
           ext == [b \in D |-> disk[b].ext]
           next == [b \in D |-> disk[b].next]
           ExtsEq(f) == f = [b \in DOMAIN disk \cup {None} |-> IF b = None THEN {} ELSE {b} \cup f[disk[b].ext]]
           DatasEq(f) == f = [b \in DOMAIN disk \cup {None} |-> IF b = None THEN {} ELSE {b} \cup f[disk[b].next]]
           exts == CHOOSE f : ExtsEq(f)
           datas == CHOOSE f : DatasEq(f)
<1>1. BlocksOf(e) = exts[e.block] \cup datas[disk[e.block].first]
  BY DEF BlocksOf
<1>2. /\ D \subseteq 1 .. Blocks
      /\ ext \in [D -> D \cup {None}] /\ \A b \in D : ext[b] = disk[b].ext /\ (ext[b] = None \/ ext[b] > b)
  BY LinksAre
<1>3. /\ next \in [D -> D \cup {None}] /\ \A b \in D : next[b] = disk[b].next /\ (next[b] = None \/ next[b] > b)
  BY LinksAre
<1>4. /\ A \subseteq D /\ e.block \in A /\ disk[e.block].first \in A \cup {None}
      /\ \A b \in A : (disk[b].next = None \/ disk[b].next \in A) /\ (disk[b].ext = None \/ disk[b].ext \in A)
  BY AreaIsClosed DEF Stays
<1> HIDE DEF ext, next
<1>5. \A f : ReachEq(f, D, ext) <=> ExtsEq(f)
  <2>1. ASSUME NEW f PROVE ReachEq(f, D, ext) <=> ExtsEq(f)
    <3>1. [b \in D \cup {None} |-> IF b = None THEN {} ELSE {b} \cup f[ext[b]]]
            = [b \in D \cup {None} |-> IF b = None THEN {} ELSE {b} \cup f[disk[b].ext]]
      BY <1>2
    <3> QED
      BY <3>1 DEF ReachEq
  <2> QED
    BY <2>1
<1>6. \A f : ReachEq(f, D, next) <=> DatasEq(f)
  <2>1. ASSUME NEW f PROVE ReachEq(f, D, next) <=> DatasEq(f)
    <3>1. [b \in D \cup {None} |-> IF b = None THEN {} ELSE {b} \cup f[next[b]]]
            = [b \in D \cup {None} |-> IF b = None THEN {} ELSE {b} \cup f[disk[b].next]]
      BY <1>3
    <3> QED
      BY <3>1 DEF ReachEq
  <2> QED
    BY <2>1
<1>7. (\E f : ReachEq(f, D, ext)) /\ (\E f : ReachEq(f, D, next))
  BY <1>2, <1>3, ReachExists
<1> HIDE DEF ExtsEq, DatasEq
<1>8. ExtsEq(exts) /\ DatasEq(datas)
  BY <1>5, <1>6, <1>7
<1> HIDE DEF exts, datas
<1>9. ReachEq(exts, D, ext) /\ ReachEq(datas, D, next)
  BY <1>5, <1>6, <1>8
<1>10. exts[e.block] \subseteq A
  <2>1. \A b \in A : ext[b] = None \/ ext[b] \in A
    BY <1>2, <1>4
  <2>2. e.block \in A \cup {None} /\ A \subseteq D
    BY <1>4
  <2> HIDE DEF e, A, D
  <2> QED
    BY <1>2, <1>9, <2>1, <2>2, ReachStays
<1>11. datas[disk[e.block].first] \subseteq A
  <2>1. \A b \in A : next[b] = None \/ next[b] \in A
    BY <1>3, <1>4
  <2> QED
    BY <1>2, <1>3, <1>4, <1>9, <2>1, ReachStays
<1> QED
  BY <1>1, <1>10, <1>11

-----------------------------------------------------------------------------
(* The properties of the runs.                                             *)

\* No block belongs to two entries, to the root or to the bitmap, whatever files and
\* directories are written (adf.js, alloc).
THEOREM BlocksStayApart == DiskSpec => []BlocksApart
<1>1. ASSUME AdfInv PROVE BlocksApart
  <2>1. ASSUME NEW i \in DOMAIN tree, NEW j \in DOMAIN tree
        PROVE  /\ i # j => BlocksOf(tree[i]) \cap BlocksOf(tree[j]) = {}
               /\ BlocksOf(tree[i]) \cap {Root, Bitmap} = {}
    <3>1. BlocksOf(tree[i]) \subseteq Area(tree[i]) /\ BlocksOf(tree[j]) \subseteq Area(tree[j])
      BY <1>1, BlocksOfIsInArea
    <3>2. /\ i # j => Area(tree[i]) \cap Area(tree[j]) = {}
          /\ Root \notin Area(tree[i]) /\ Bitmap \notin Area(tree[i])
      BY <1>1, EntriesAre DEF AdfInv
    <3> QED
      BY <3>1, <3>2
  <2> QED
    BY <2>1 DEF BlocksApart
<1>2. AdfInv => BlocksApart
  BY <1>1
<1> QED
  BY <1>2, AdfInvariant, PTL

\* A finished disk has the right checksums, also of headers whose chains grew
\* later, and its bitmap is what is free (adf.js, insertEntry and finish).
THEOREM FinishedStaysSound == DiskSpec => []FinishedSound
<1>1. ASSUME AdfInv, finished PROVE
        /\ \A b \in DOMAIN disk : SumRight(disk[b])
        /\ \A i \in DOMAIN tree : BlocksOf(tree[i]) \cap bitmap = {}
        /\ {Root, Bitmap} \cap bitmap = {}
        /\ ~full => Cardinality(bitmap) = Blocks - 2 - Cardinality(DOMAIN disk \cup {Bitmap})
  <2>1. /\ bitmap = {b \in 2 .. Blocks - 1 : b \notin used}
        /\ used = {Root, Bitmap} \cup {b \in First .. Blocks - 1 : b < nextFree}
        /\ nextFree \in Nat /\ First <= nextFree
    BY <1>1 DEF AdfInv, SpaceSound
  <2>2. \A b \in DOMAIN disk : SumRight(disk[b])
    BY <1>1 DEF AdfInv, DiskSound
  <2>3. ASSUME NEW i \in DOMAIN tree PROVE BlocksOf(tree[i]) \cap bitmap = {}
    <3>1. BlocksOf(tree[i]) \subseteq Area(tree[i]) /\ Holds(tree[i]) /\ Legal(tree[i])
      BY <1>1, BlocksOfIsInArea, EntriesAre DEF AdfInv
    <3>2. Area(tree[i]) \subseteq used
      <4>1. ASSUME NEW b \in Area(tree[i]) PROVE b \in used
        <5>1. b \in Nat /\ tree[i].block <= b /\ b < tree[i].block + Size(tree[i])
              /\ tree[i].block \in Nat /\ Size(tree[i]) \in Nat
          BY <3>1, AreaIs
        <5>2. First <= b /\ b < nextFree
          BY <2>1, <3>1, <5>1, ConstantsAre DEF Holds
        <5>3. b \in {Root} \cup First .. Blocks - 1
          BY <1>1, <3>1 DEF Holds, AdfInv, SpaceSound
        <5> QED
          BY <2>1, <5>2, <5>3
      <4> QED
        BY <4>1
    <3> QED
      BY <2>1, <3>1, <3>2
  <2>4. {Root, Bitmap} \cap bitmap = {}
    BY <2>1
  <2>5. ASSUME ~full PROVE Cardinality(bitmap) = Blocks - 2 - Cardinality(DOMAIN disk \cup {Bitmap})
    <3> DEFINE all == 2 .. Blocks - 1
    <3>1. DOMAIN disk = {Root} \cup First .. nextFree - 1 /\ nextFree <= Blocks
      BY <1>1, <2>5 DEF AdfInv, SpaceSound
    <3>2. used = DOMAIN disk \cup {Bitmap} /\ used \subseteq all
      BY <2>1, <3>1, ConstantsAre
    <3>3. IsFiniteSet(all) /\ Cardinality(all) = Blocks - 2
      BY FS_Interval, ConstantsAre
    <3>4. bitmap = all \ used /\ all \cap used = used
      BY <2>1, <3>2
    <3> HIDE DEF all
    <3>5. IsFiniteSet(used) /\ Cardinality(bitmap) = Cardinality(all) - Cardinality(used)
      <4>1. IsFiniteSet(used)
        BY <3>2, <3>3, FS_Subset
      <4>2. Cardinality(all \ used) = Cardinality(all) - Cardinality(all \cap used)
        BY <3>3, <4>1, FS_Difference
      <4> QED
        BY <3>4, <4>1, <4>2
    <3> QED
      BY <3>2, <3>3, <3>5
  <2> QED
    BY <2>2, <2>3, <2>4, <2>5
<1>2. AdfInv => FinishedSound
  BY <1>1 DEF FinishedSound
<1> QED
  BY <1>2, AdfInvariant, PTL

-----------------------------------------------------------------------------
(* Finding an entry.                                                       *)

\* Every entry's header holds its name.
LEMMA NamesAre ==
  ASSUME AdfInv, NEW i \in DOMAIN tree
  PROVE  /\ disk[tree[i].block].name = tree[i].name /\ disk[tree[i].block].parent = tree[i].parent
         /\ ~tree[i].dir => disk[tree[i].block].size = Len(tree[i].data)
<1>1. Legal(tree[i]) /\ tree[i].block \in Area(tree[i])
  BY EntriesAre DEF AdfInv
<1>2. Kept(disk[tree[i].block], Original(tree[i], tree[i].block))
  BY <1>1 DEF AdfInv, DiskSound, OnDisk
<1> QED
  BY <1>1, <1>2, HeaderIs DEF Kept

FoundEq(f, name) ==
  f = [b \in DOMAIN disk \cup {None} |-> IF b = None \/ disk[b].name = name THEN b ELSE f[disk[b].chain]]

LEMMA FoundExists ==
  ASSUME AdfInv, NEW name
  PROVE  \E f : FoundEq(f, name)
<1> DEFINE D == DOMAIN disk
           T == D \cup {None}
           link == [b \in D |-> disk[b].chain]
           make == [b \in D |-> [t \in T |-> IF disk[b].name = name THEN b ELSE t]]
<1>1. /\ D \subseteq 1 .. Blocks /\ None \notin D /\ None \in T
      /\ link \in [D -> D \cup {None}] /\ \A b \in D : link[b] = disk[b].chain /\ (link[b] = None \/ link[b] > b)
  BY LinksAre
<1>2. make \in [D -> [T -> T]] /\ \A b \in D, t \in T : make[b][t] = IF disk[b].name = name THEN b ELSE t
  OBVIOUS
<1> HIDE DEF link, make
<1>3. PICK rank : Ranked(D, link, rank, Blocks)
  BY <1>1, OnwardIsRanked
<1>4. PICK f : Walks(f, D, T, link, None, make)
  BY <1>1, <1>2, <1>3, WalkExists
<1>5. f \in [T -> T] /\ f[None] = None /\ \A b \in D : f[b] = make[b][f[link[b]]]
  BY <1>4 DEF Walks
<1>6. ASSUME NEW b \in D PROVE f[b] = IF disk[b].name = name THEN b ELSE f[disk[b].chain]
  <2>1. f[link[b]] \in T /\ link[b] = disk[b].chain
    BY <1>1, <1>5
  <2> QED
    BY <1>2, <1>5, <2>1
<1>7. f = [b \in T |-> f[b]]
  BY <1>5
<1>8. FoundEq(f, name)
  BY <1>1, <1>5, <1>6, <1>7 DEF FoundEq
<1> QED
  BY <1>8

\* The walk from b on finds a block of that name, or there is none from b on.
Finds(f, b, M, name) ==
  \/ f[b] = None /\ \A m \in M : m < b \/ disk[m].name # name
  \/ f[b] \in M /\ disk[f[b]].name = name

LEMMA ChainFinds ==
  ASSUME AdfInv, NEW name, NEW f, FoundEq(f, name), NEW M, Chained(M, disk), NEW b \in M
  PROVE  Finds(f, b, M, name)
<1> DEFINE D == DOMAIN disk
           link == [c \in D |-> disk[c].chain]
<1>1. /\ D \subseteq 1 .. Blocks /\ None \notin D
      /\ link \in [D -> D \cup {None}] /\ \A c \in D : link[c] = disk[c].chain /\ (link[c] = None \/ link[c] > c)
  BY LinksAre
<1>2. f[None] = None /\ \A c \in D : f[c] = IF disk[c].name = name THEN c ELSE f[disk[c].chain]
  BY <1>1 DEF FoundEq
<1>3. M \subseteq D /\ \A m \in M : IsNext(disk[m].chain, m, M)
  BY DEF Chained
<1> HIDE DEF link
<1>4. PICK rank : Ranked(D, link, rank, Blocks)
  BY <1>1, OnwardIsRanked
<1> DEFINE P == {c \in D : c \in M => Finds(f, c, M, name)}
<1>5. ASSUME NEW c \in D, link[c] \in D => link[c] \in P PROVE c \in P
  <2> SUFFICES ASSUME c \in M PROVE Finds(f, c, M, name)
    OBVIOUS
  <2>0. IsNext(disk[c].chain, c, M) /\ c \in Nat /\ M \subseteq Nat
    BY <1>1, <1>3
  <2>1. CASE disk[c].name = name
    BY <1>2, <2>1 DEF Finds
  <2>2. CASE disk[c].name # name /\ disk[c].chain \notin M
    <3>1. disk[c].chain = None /\ \A m \in M : m <= c
      BY <2>0, <2>2 DEF IsNext
    <3>2. \A m \in M : m < c \/ disk[m].name # name
      BY <2>0, <2>2, <3>1
    <3>3. f[c] = None
      BY <1>2, <2>2, <3>1
    <3> QED
      BY <3>2, <3>3 DEF Finds
  <2>3. CASE disk[c].name # name /\ disk[c].chain \in M
    <3>1. PICK l \in M : l = disk[c].chain /\ f[c] = f[l] /\ l \in P
      BY <1>1, <1>2, <1>3, <1>5, <2>3
    <3>2. Finds(f, l, M, name)
      BY <3>1
    <3>3. \A m \in M : m <= c \/ l <= m
      BY <1>1, <1>3, <2>0, <3>1 DEF IsNext
    <3>4. (\A m \in M : m < l \/ disk[m].name # name) => \A m \in M : m < c \/ disk[m].name # name
      BY <2>0, <2>3, <3>3
    <3> QED
      BY <3>1, <3>2, <3>4 DEF Finds
  <2> QED
    BY <2>1, <2>2, <2>3
<1> HIDE DEF P
<1>6. Inherits(P, D, link)
  BY <1>5 DEF Inherits
<1>7. D \subseteq P
  BY <1>4, <1>6, AlongLinks
<1> QED
  BY <1>3, <1>7 DEF P

\* Looking a name up finds the entry of that name and directory, if there is one.
LEMMA LookupFinds ==
  ASSUME AdfInv, NEW dir \in Dirs, NEW name \in Names
  PROVE  /\ \A i \in DOMAIN tree : tree[i].name = name /\ tree[i].parent = dir => Lookup(name, dir) = tree[i].block
         /\ Free(name, dir) => Lookup(name, dir) = None
<1> DEFINE s == Hash[name]
           M == Members(tree, dir, s)
           found == CHOOSE f : FoundEq(f, name)
           head == disk[dir].slots[s]
<1>1. Lookup(name, dir) = found[head]
  BY DEF Lookup, FoundEq
<1>2. FoundEq(found, name)
  BY FoundExists
<1> HIDE DEF found
<1>3. /\ \A i \in DOMAIN tree : In(tree[i], dir, s) <=> tree[i].block \in M
      /\ \A m \in M : \E i \in DOMAIN tree : In(tree[i], dir, s) /\ m = tree[i].block
      /\ Chained(M, disk)
  BY MembersAre
<1>4. M \subseteq Nat /\ None \notin M /\ \A m \in M : m > None
  BY <1>3, LinksAre, ConstantsAre DEF Chained
<1>5. IsNext(head, None, M)
  BY ConstantsAre DEF AdfInv, TablesSound
<1>6. found[None] = None
  BY <1>2 DEF FoundEq
<1> HIDE DEF head, M
<1>7. \/ found[head] = None /\ \A m \in M : disk[m].name # name
      \/ found[head] \in M /\ disk[found[head]].name = name
  <2>1. CASE head \in M
    <3>1. Finds(found, head, M, name)
      BY <1>2, <1>3, <2>1, ChainFinds
    <3>2. \A m \in M : ~ (m < head)
      <4>1. \A m \in M : m <= None \/ head <= m
        BY <1>4, <1>5, <2>1 DEF IsNext
      <4>2. ASSUME NEW m \in M PROVE ~ (m < head)
        BY <1>4, <2>1, <4>1, ConstantsAre
      <4> QED
        BY <4>2
    <3> QED
      BY <3>1, <3>2 DEF Finds
  <2>2. CASE head \notin M
    <3>1. head = None /\ \A m \in M : m <= None
      BY <1>5, <2>2 DEF IsNext
    <3>2. M = {}
      <4>1. ASSUME NEW m \in M PROVE FALSE
        BY <1>4, <3>1, ConstantsAre
      <4> QED
        BY <4>1
    <3> QED
      BY <1>6, <3>1, <3>2
  <2> QED
    BY <2>1, <2>2
<1>8. ASSUME NEW i \in DOMAIN tree, tree[i].name = name, tree[i].parent = dir
      PROVE  found[head] = tree[i].block
  <2>1. tree[i].block \in M /\ disk[tree[i].block].name = name
    BY <1>3, <1>8, NamesAre DEF In
  <2>2. found[head] \in M /\ disk[found[head]].name = name
    BY <1>7, <2>1
  <2>3. PICK j \in DOMAIN tree : In(tree[j], dir, s) /\ found[head] = tree[j].block
    BY <1>3, <2>2
  <2>4. tree[j].name = name /\ tree[j].parent = dir
    BY <2>2, <2>3, NamesAre DEF In
  <2>5. i = j
    BY <1>8, <2>4 DEF AdfInv, TreeSound
  <2> QED
    BY <2>3, <2>5
<1>9. ASSUME Free(name, dir) PROVE found[head] = None
  <2>1. ASSUME found[head] \in M, disk[found[head]].name = name PROVE FALSE
    <3>1. PICK j \in DOMAIN tree : In(tree[j], dir, s) /\ found[head] = tree[j].block
      BY <1>3, <2>1
    <3>2. tree[j].name = name /\ tree[j].parent = dir
      BY <2>1, <3>1, NamesAre DEF In
    <3> QED
      BY <1>9, <3>2 DEF Free
  <2> QED
    BY <1>7, <2>1
<1> QED
  BY <1>1, <1>8, <1>9

-----------------------------------------------------------------------------
(* Reading a file.                                                         *)

\* What the j-th data block of a file holds, and where the k-th block that has
\* pointers is, the header being the one before the first.
Datum(data, j) == IF data = << >> THEN << >> ELSE <<data[j]>>
At(h, n, k) == IF k = 0 THEN h ELSE h + n + k

DataLaid(h, data, n) ==
  \A j \in 1 .. n :
    /\ h + j \in DOMAIN disk
    /\ disk[h + j].data = Datum(data, j)
    /\ disk[h + j].next = IF j < n THEN h + (j + 1) ELSE None

PointersLaid(h, n, x) ==
  \A k \in 0 .. x :
    /\ At(h, n, k) \in DOMAIN disk
    /\ disk[At(h, n, k)].seq = Count(n, k)
    /\ disk[At(h, n, k)].slots = PointersIn(h, n, k)
    /\ disk[At(h, n, k)].ext = IF k < x THEN At(h, n, k + 1) ELSE None

LEMMA FileIsLaid ==
  ASSUME AdfInv, NEW i \in DOMAIN tree, ~tree[i].dir, NEW n, n = DataBlocks(tree[i].data)
  PROVE  /\ disk[tree[i].block].first = tree[i].block + 1
         /\ DataLaid(tree[i].block, tree[i].data, n)
         /\ PointersLaid(tree[i].block, n, Extensions(n))
<1> DEFINE e == tree[i]
           h == e.block
           data == e.data
           x == Extensions(n)
<1>1. Legal(e) /\ h \in Area(e) /\ Area(e) \subseteq DOMAIN disk /\ h \in Nat /\ data \in Files
  BY EntriesAre, AreaIs DEF AdfInv, Legal, Holds
<1>2. n \in Nat /\ n > 0 /\ x \in Nat
  BY <1>1, DataBlocksAre
<1>3. \A b \in Area(e) : /\ Kept(disk[b], FileBlock(h, e.name, data, e.parent, b))
                         /\ disk[b].slots = FileBlock(h, e.name, data, e.parent, b).slots
  BY DEF AdfInv, DiskSound, OnDisk, Original
<1>4. Area(e) = h .. h + FileSize(data) - 1
  BY DEF Area, Size
<1>0. n = DataBlocks(data)
  OBVIOUS
<1> DEFINE F(b) == FileBlock(h, e.name, data, e.parent, b)
<1> HIDE DEF e, h, data, x
<1>5. /\ F(h) = HeaderBlock(h, e.name, data, e.parent)
      /\ \A j \in 1 .. n : F(h + j) = Sum(DataBlock(h, data, j)) /\ h + j \in Area(e)
      /\ \A k \in 1 .. x : F(h + n + k) = Sum(ExtBlock(h, n, k)) /\ h + n + k \in Area(e)
  <2> DEFINE name == e.name
             parent == e.parent
  <2> HIDE DEF name, parent
  <2>1. /\ FileBlock(h, name, data, parent, h) = HeaderBlock(h, name, data, parent)
        /\ \A j \in 1 .. n : FileBlock(h, name, data, parent, h + j) = Sum(DataBlock(h, data, j))
        /\ \A k \in 1 .. x : FileBlock(h, name, data, parent, h + n + k) = Sum(ExtBlock(h, n, k))
        /\ h .. h + FileSize(data) - 1 = {h} \cup {h + j : j \in 1 .. n} \cup {h + n + k : k \in 1 .. x}
    <3>1. Composed(h, name, data, parent, n, x)
      BY <1>0, <1>1, FileBlockIs DEF x
    <3> QED
      BY <3>1 DEF Composed
  <2> QED
    BY <1>4, <2>1 DEF name, parent
<1> HIDE DEF F
<1>6. disk[h].first = h + 1 /\ disk[h].seq = Count(n, 0) /\ disk[h].slots = PointersIn(h, n, 0)
      /\ disk[h].ext = NextExt(h, n, 0)
  <2>1. Kept(disk[h], F(h)) /\ disk[h].slots = F(h).slots
    BY <1>1, <1>3 DEF F
  <2> QED
    BY <1>0, <1>5, <2>1, HeaderBlockIs DEF Kept
<1>7. ASSUME NEW j \in 1 .. n
      PROVE  disk[h + j].data = Datum(data, j) /\ disk[h + j].next = IF j < n THEN h + (j + 1) ELSE None
  <2> DEFINE r == DataBlock(h, data, j)
  <2>1. Kept(disk[h + j], Sum(r))
    BY <1>3, <1>5 DEF F
  <2>2. IsBlock(r) /\ r.data = Datum(data, j) /\ r.next = IF j < n THEN h + (j + 1) ELSE None
    BY DataBlockIs DEF Datum, data, e
  <2> HIDE DEF r
  <2> QED
    BY <2>1, <2>2, SumKeeps DEF Kept
<1>8. ASSUME NEW k \in 1 .. x
      PROVE  /\ disk[h + n + k].seq = Count(n, k) /\ disk[h + n + k].slots = PointersIn(h, n, k)
             /\ disk[h + n + k].ext = NextExt(h, n, k)
  <2> DEFINE r == ExtBlock(h, n, k)
  <2>1. Kept(disk[h + n + k], Sum(r)) /\ disk[h + n + k].slots = Sum(r).slots
    BY <1>3, <1>5 DEF F
  <2>2. IsBlock(r) /\ r.seq = Count(n, k) /\ r.slots = PointersIn(h, n, k) /\ r.ext = NextExt(h, n, k)
    BY ExtBlockIs
  <2> HIDE DEF r
  <2> QED
    BY <2>1, <2>2, SumKeeps DEF Kept
<1>9. DataLaid(h, data, n)
  BY <1>1, <1>5, <1>7 DEF DataLaid
<1>10. ASSUME NEW k \in 0 .. x
       PROVE  /\ At(h, n, k) \in DOMAIN disk /\ disk[At(h, n, k)].seq = Count(n, k)
              /\ disk[At(h, n, k)].slots = PointersIn(h, n, k)
              /\ disk[At(h, n, k)].ext = IF k < x THEN At(h, n, k + 1) ELSE None
  <2>1. NextExt(h, n, k) = IF k < x THEN At(h, n, k + 1) ELSE None
    BY <1>2 DEF NextExt, ExtAt, At, x
  <2>2. CASE k = 0
    BY <1>1, <1>6, <2>1, <2>2 DEF At
  <2>3. CASE k # 0
    <3>1. k \in 1 .. x /\ At(h, n, k) = h + n + k
      BY <1>2, <2>3 DEF At
    <3> QED
      BY <1>1, <1>5, <1>8, <2>1, <3>1
  <2> QED
    BY <2>2, <2>3
<1>11. PointersLaid(h, n, x)
  BY <1>10 DEF PointersLaid
<1> QED
  BY <1>6, <1>9, <1>11 DEF h, data, e, x

\* The data behind a block, along the chain of data blocks.
DataEq(f) == f = [b \in DOMAIN disk \cup {None} |-> IF b = None THEN << >> ELSE disk[b].data \o f[disk[b].next]]

LEMMA DataExists ==
  ASSUME AdfInv
  PROVE  \E f : DataEq(f)
<1> DEFINE D == DOMAIN disk
           T == Seq(Chunks)
           link == [b \in D |-> disk[b].next]
           make == [b \in D |-> [t \in T |-> disk[b].data \o t]]
<1>1. /\ D \subseteq 1 .. Blocks /\ None \notin D
      /\ link \in [D -> D \cup {None}] /\ \A b \in D : link[b] = disk[b].next /\ (link[b] = None \/ link[b] > b)
  <2>1. /\ D \subseteq 1 .. Blocks /\ None \notin D
        /\ \A b \in D : disk[b].next \in D \cup {None} /\ (disk[b].next = None \/ disk[b].next > b)
    BY LinksAre, SMTT(30)
  <2> QED
    BY <2>1
<1>2. make \in [D -> [T -> T]] /\ \A b \in D, t \in T : make[b][t] = disk[b].data \o t
  <2>1. \A b \in D : disk[b].data \in T
    BY DEF AdfInv, DiskSound, BlockSound
  <2>2. \A b \in D, t \in T : disk[b].data \o t \in T
    BY <2>1, ConcatProperties
  <2> QED
    BY <2>2
<1>3. << >> \in T
  BY EmptySeq
<1> HIDE DEF link, make, T
<1>4. PICK rank : Ranked(D, link, rank, Blocks)
  BY <1>1, OnwardIsRanked
<1>5. PICK f : Walks(f, D, T, link, << >>, make)
  BY <1>2, <1>3, <1>4, WalkExists
<1>6. f \in [D \cup {None} -> T] /\ f[None] = << >> /\ \A b \in D : f[b] = make[b][f[link[b]]]
  BY <1>5 DEF Walks
<1>7. ASSUME NEW b \in D PROVE f[b] = disk[b].data \o f[disk[b].next]
  <2>1. f[link[b]] \in T /\ link[b] = disk[b].next
    BY <1>1, <1>6
  <2> QED
    BY <1>2, <1>6, <2>1
<1>8. f = [b \in D \cup {None} |-> f[b]]
  BY <1>6
<1>9. DataEq(f)
  BY <1>1, <1>6, <1>7, <1>8 DEF DataEq
<1> QED
  BY <1>9

\* The data from the j-th data block on, and up to it.
From(data, j) == IF data = << >> THEN << >> ELSE SubSeq(data, j, Len(data))
Upto(data, j) == IF data = << >> THEN << >> ELSE SubSeq(data, 1, j)

LEMMA PartsAre ==
  ASSUME NEW data \in Files, NEW n, n = DataBlocks(data)
  PROVE  /\ From(data, 1) = data /\ Upto(data, n) = data /\ Upto(data, 0) = << >>
         /\ Datum(data, n) \o << >> = From(data, n)
         /\ \A j \in 1 .. n - 1 : Datum(data, j) \o From(data, j + 1) = From(data, j)
         /\ \A j \in 1 .. n : Upto(data, j - 1) \o Datum(data, j) = Upto(data, j)
         /\ \A j \in 1 .. n : Datum(data, j) \in Seq(Chunks)
<1>1. data \in Seq(Chunks) /\ Len(data) \in Nat /\ n \in Nat /\ n > 0 /\ (data # << >> => n = Len(data))
  BY FileIsData, DataBlocksAre
<1>2. CASE data = << >>
  <2>1. << >> \o << >> = << >> /\ << >> \in Seq(Chunks)
    BY EmptySeq, ConcatEmptySeq
  <2> QED
    BY <1>2, <2>1 DEF From, Upto, Datum
<1>3. CASE data # << >>
  <2>0. /\ n = Len(data)
        /\ \A j : From(data, j) = SubSeq(data, j, n) /\ Upto(data, j) = SubSeq(data, 1, j) /\ Datum(data, j) = <<data[j]>>
    BY <1>1, <1>3 DEF From, Upto, Datum
  <2>1. SubSeq(data, 1, n) = data /\ SubSeq(data, 1, 0) = << >>
    BY <1>1, <2>0, SubSeqFull, SubSeqEmpty
  <2>2. \A j \in 1 .. n : <<data[j]>> \o SubSeq(data, j + 1, n) = SubSeq(data, j, n)
    BY <1>1, <2>0, SubSeqRecursiveFirst
  <2>3. \A j \in 1 .. n : SubSeq(data, 1, j - 1) \o <<data[j]>> = SubSeq(data, 1, j)
    BY <1>1, <2>0, SubSeqRecursiveSecond
  <2>4. \A j \in 1 .. n : <<data[j]>> \in Seq(Chunks)
    <3>1. \A j \in 1 .. n : data[j] \in Chunks
      BY <1>1, <2>0, ElementOfSeq
    <3> QED
      BY <3>1
  <2>5. SubSeq(data, n + 1, n) = << >>
    BY <1>1, SubSeqEmpty
  <2>6. n \in 1 .. n /\ \A j \in 1 .. n - 1 : j \in 1 .. n
    BY <1>1
  <2>7. <<data[n]>> \o << >> = SubSeq(data, n, n)
    BY <2>2, <2>5, <2>6
  <2>8. From(data, 1) = data /\ Upto(data, n) = data /\ Upto(data, 0) = << >>
    BY <2>0, <2>1
  <2>9. Datum(data, n) \o << >> = From(data, n)
    BY <2>0, <2>7
  <2>10. \A j \in 1 .. n - 1 : Datum(data, j) \o From(data, j + 1) = From(data, j)
    BY <2>0, <2>2, <2>6
  <2>11. \A j \in 1 .. n : Upto(data, j - 1) \o Datum(data, j) = Upto(data, j)
    BY <2>0, <2>3
  <2> QED
    BY <2>0, <2>4, <2>8, <2>9, <2>10, <2>11
<1> QED
  BY <1>2, <1>3

\* Along the chain of its data blocks a file reads as it was written.
LEMMA ChainReads ==
  ASSUME AdfInv, NEW i \in DOMAIN tree, ~tree[i].dir
  PROVE  ReadChain(tree[i].block) = tree[i].data
<1> DEFINE h == tree[i].block
           data == tree[i].data
           n == DataBlocks(data)
           D == DOMAIN disk
           link == [b \in D |-> disk[b].next]
           walk == CHOOSE f : DataEq(f)
<1>1. ReadChain(h) = walk[disk[h].first]
  BY DEF ReadChain, DataEq
<1>2. DataEq(walk)
  BY DataExists
<1> HIDE DEF walk
<1>3. /\ D \subseteq 1 .. Blocks /\ None \notin D
      /\ link \in [D -> D \cup {None}] /\ \A b \in D : link[b] = disk[b].next /\ (link[b] = None \/ link[b] > b)
  <2>1. /\ D \subseteq 1 .. Blocks /\ None \notin D
        /\ \A b \in D : disk[b].next \in D \cup {None} /\ (disk[b].next = None \/ disk[b].next > b)
    BY LinksAre, SMTT(30)
  <2> QED
    BY <2>1
<1>4. walk[None] = << >> /\ \A b \in D : walk[b] = disk[b].data \o walk[disk[b].next]
  BY <1>2, <1>3 DEF DataEq
<1>5. h \in Nat /\ data \in Files
  BY EntriesAre, AreaIs DEF AdfInv, Legal
<1>6. n \in Nat /\ n > 0
  BY <1>5, DataBlocksAre
<1>7. disk[h].first = h + 1 /\ DataLaid(h, data, n)
  BY FileIsLaid
<1>8. /\ From(data, 1) = data /\ Datum(data, n) \o << >> = From(data, n)
      /\ \A j \in 1 .. n - 1 : Datum(data, j) \o From(data, j + 1) = From(data, j)
  BY <1>5, PartsAre
<1> HIDE DEF link, n, h, data
<1>9. PICK rank : Ranked(D, link, rank, Blocks)
  BY <1>3, OnwardIsRanked
<1> DEFINE P == {b \in D : \A j \in 1 .. n : b = h + j => walk[b] = From(data, j)}
<1>10. ASSUME NEW b \in D, link[b] \in D => link[b] \in P PROVE b \in P
  <2> SUFFICES ASSUME NEW j \in 1 .. n, b = h + j PROVE walk[b] = From(data, j)
    OBVIOUS
  <2>1. walk[b] = Datum(data, j) \o walk[link[b]] /\ link[b] = IF j < n THEN h + (j + 1) ELSE None
    BY <1>3, <1>4, <1>7 DEF DataLaid
  <2>2. CASE j < n
    <3>1. j + 1 \in 1 .. n /\ j \in 1 .. n - 1
      BY <1>6, <2>2
    <3>2. link[b] = h + (j + 1) /\ link[b] \in D
      BY <1>7, <2>1, <2>2, <3>1 DEF DataLaid
    <3>3. walk[link[b]] = From(data, j + 1)
      BY <1>10, <3>1, <3>2
    <3> QED
      BY <1>8, <2>1, <3>1, <3>3
  <2>3. CASE ~ (j < n)
    <3>1. j = n /\ link[b] = None
      BY <1>6, <2>1, <2>3
    <3> QED
      BY <1>4, <1>8, <2>1, <3>1
  <2> QED
    BY <2>2, <2>3
<1> HIDE DEF P
<1>11. Inherits(P, D, link)
  BY <1>10 DEF Inherits
<1>12. D \subseteq P
  BY <1>9, <1>11, AlongLinks
<1>13. 1 \in 1 .. n /\ h + 1 \in D
  BY <1>6, <1>7 DEF DataLaid
<1>14. walk[h + 1] = From(data, 1)
  BY <1>12, <1>13 DEF P
<1> QED
  BY <1>1, <1>7, <1>8, <1>14 DEF h, data

\* m pointers to blocks in a row, from behind the first p of those behind h.
Run(h, p, m) == [j \in 1 .. m |-> h + (p + j)]

IsRun(r, h, p, m) == r \in Seq(Nat) /\ Len(r) = m /\ \A j \in 1 .. m : r[j] = h + (p + j)

LEMMA RunIs ==
  ASSUME NEW h \in Nat, NEW p \in Nat, NEW m \in Nat
  PROVE  IsRun(Run(h, p, m), h, p, m)
<1>1. Run(h, p, m) \in [1 .. m -> Nat]
  BY DEF Run
<1>2. Run(h, p, m) \in Seq(Nat)
  BY <1>1, SeqDef
<1>3. Len(Run(h, p, m)) = m
  BY <1>1, <1>2, LenProperties
<1> QED
  BY <1>2, <1>3 DEF Run, IsRun

Joins(h, p, c, m) == Run(h, p, c) \o Run(h, p + c, m) = Run(h, p, c + m)

LEMMA RunsJoin ==
  ASSUME NEW h \in Nat, NEW p \in Nat, NEW c \in Nat, NEW m \in Nat
  PROVE  Joins(h, p, c, m)
<1> DEFINE r == Run(h, p, c)
           s == Run(h, p + c, m)
           t == Run(h, p, c + m)
<1>1. r \in Seq(Nat) /\ Len(r) = c /\ \A j \in 1 .. c : r[j] = h + (p + j)
  BY RunIs DEF IsRun
<1>2. s \in Seq(Nat) /\ Len(s) = m /\ \A j \in 1 .. m : s[j] = h + (p + c + j)
  <2>1. p + c \in Nat
    OBVIOUS
  <2> QED
    BY <2>1, RunIs DEF IsRun
<1>3. t \in Seq(Nat) /\ Len(t) = c + m /\ \A j \in 1 .. c + m : t[j] = h + (p + j)
  <2>1. c + m \in Nat
    OBVIOUS
  <2> QED
    BY <2>1, RunIs DEF IsRun
<1> HIDE DEF r, s, t
<1>4. /\ r \o s \in Seq(Nat) /\ Len(r \o s) = c + m
      /\ \A j \in 1 .. c + m : (r \o s)[j] = IF j <= c THEN r[j] ELSE s[j - c]
  <2>1. r \in Seq(Nat) /\ s \in Seq(Nat) /\ Len(r) = c /\ Len(s) = m
    BY <1>1, <1>2
  <2>2. /\ r \o s \in Seq(Nat) /\ Len(r \o s) = Len(r) + Len(s)
        /\ \A j \in 1 .. Len(r) + Len(s) : (r \o s)[j] = IF j <= Len(r) THEN r[j] ELSE s[j - Len(r)]
    BY <2>1, ConcatProperties
  <2> QED
    BY <2>1, <2>2
<1>5. ASSUME NEW j \in 1 .. c + m PROVE (r \o s)[j] = t[j]
  <2>1. CASE j <= c
    <3>1. j \in 1 .. c
      BY <2>1
    <3> QED
      BY <1>1, <1>3, <1>4, <2>1, <3>1
  <2>2. CASE ~ (j <= c)
    <3>1. j - c \in 1 .. m
      BY <2>2
    <3>2. s[j - c] = h + (p + c + (j - c)) /\ h + (p + c + (j - c)) = h + (p + j)
      BY <1>2, <3>1
    <3> QED
      BY <1>3, <1>4, <2>2, <3>2
  <2> QED
    BY <2>1, <2>2
<1>6. r \o s = t
  BY <1>3, <1>4, <1>5, SeqEqual
<1> QED
  BY <1>6 DEF r, s, t, Joins

\* The pointers of a block, in order, and those behind it.
InBlock(b) == [i \in 1 .. disk[b].seq |-> disk[b].slots[Slots - i + 1]]

PointersEq(f) == f = [b \in DOMAIN disk \cup {None} |-> IF b = None THEN << >> ELSE InBlock(b) \o f[disk[b].ext]]

Pointed == UNION {{InBlock(b)[i] : i \in 1 .. disk[b].seq} : b \in DOMAIN disk}

LEMMA InBlockIs ==
  ASSUME AdfInv, NEW b \in DOMAIN disk
  PROVE  InBlock(b) \in Seq(Pointed)
<1>1. disk[b].seq \in Nat
  BY DEF AdfInv, DiskSound, BlockSound
<1>2. InBlock(b) \in [1 .. disk[b].seq -> Pointed]
  <2>1. \A i \in 1 .. disk[b].seq : InBlock(b)[i] \in Pointed
    BY DEF Pointed
  <2>2. InBlock(b) = [i \in 1 .. disk[b].seq |-> InBlock(b)[i]]
    BY DEF InBlock
  <2> QED
    BY <2>1, <2>2
<1> QED
  BY <1>1, <1>2, SeqDef

LEMMA PointersExist ==
  ASSUME AdfInv
  PROVE  \E f : PointersEq(f)
<1> DEFINE D == DOMAIN disk
           T == Seq(Pointed)
           link == [b \in D |-> disk[b].ext]
           make == [b \in D |-> [t \in T |-> InBlock(b) \o t]]
<1>1. /\ D \subseteq 1 .. Blocks /\ None \notin D
      /\ link \in [D -> D \cup {None}] /\ \A b \in D : link[b] = disk[b].ext /\ (link[b] = None \/ link[b] > b)
  <2>1. /\ D \subseteq 1 .. Blocks /\ None \notin D
        /\ \A b \in D : disk[b].ext \in D \cup {None} /\ (disk[b].ext = None \/ disk[b].ext > b)
    BY LinksAre, SMTT(30)
  <2> QED
    BY <2>1
<1>2. make \in [D -> [T -> T]] /\ \A b \in D, t \in T : make[b][t] = InBlock(b) \o t
  <2>1. \A b \in D, t \in T : InBlock(b) \o t \in T
    BY InBlockIs, ConcatProperties
  <2> QED
    BY <2>1
<1>3. << >> \in T
  BY EmptySeq
<1> HIDE DEF link, make, T
<1>4. PICK rank : Ranked(D, link, rank, Blocks)
  BY <1>1, OnwardIsRanked
<1>5. PICK f : Walks(f, D, T, link, << >>, make)
  BY <1>2, <1>3, <1>4, WalkExists
<1>6. f \in [D \cup {None} -> T] /\ f[None] = << >> /\ \A b \in D : f[b] = make[b][f[link[b]]]
  BY <1>5 DEF Walks
<1>7. ASSUME NEW b \in D PROVE f[b] = InBlock(b) \o f[disk[b].ext]
  <2>1. f[link[b]] \in T /\ link[b] = disk[b].ext
    BY <1>1, <1>6
  <2> QED
    BY <1>2, <1>6, <2>1
<1>8. f = [b \in D \cup {None} |-> f[b]]
  BY <1>6
<1>9. PointersEq(f)
  BY <1>1, <1>6, <1>7, <1>8 DEF PointersEq
<1> QED
  BY <1>9

\* The header and the extensions have the pointers to all data blocks, in order.
LEMMA PointersLead ==
  ASSUME AdfInv, NEW walk, PointersEq(walk), NEW h \in Nat, NEW n \in Nat, n > 0,
         PointersLaid(h, n, Extensions(n))
  PROVE  walk[h] = Run(h, 0, n)
<1> DEFINE D == DOMAIN disk
           link == [b \in D |-> disk[b].ext]
           x == Extensions(n)
           Left(k) == Run(h, k * Slots, n - k * Slots)
<1>1. /\ D \subseteq 1 .. Blocks /\ None \notin D
      /\ link \in [D -> D \cup {None}] /\ \A b \in D : link[b] = disk[b].ext /\ (link[b] = None \/ link[b] > b)
  <2>1. /\ D \subseteq 1 .. Blocks /\ None \notin D
        /\ \A b \in D : disk[b].ext \in D \cup {None} /\ (disk[b].ext = None \/ disk[b].ext > b)
    BY LinksAre, SMTT(30)
  <2> QED
    BY <2>1
<1>2. walk[None] = << >> /\ \A b \in D : walk[b] = InBlock(b) \o walk[disk[b].ext]
  BY <1>1 DEF PointersEq
<1>3. x \in Nat
  BY ExtensionsAre
<1>4. ASSUME NEW k \in 0 .. x
      PROVE  /\ Count(n, k) \in 1 .. Slots /\ k * Slots \in Nat
             /\ k = x => n = k * Slots + Count(n, k)
             /\ k < x => Count(n, k) = Slots /\ k * Slots + Slots < n
  BY CountIs
<1>5. ASSUME NEW k \in 0 .. x PROVE InBlock(At(h, n, k)) = Run(h, k * Slots, Count(n, k))
  <2> DEFINE b == At(h, n, k)
             c == Count(n, k)
             p == k * Slots
  <2>1. disk[b].seq = c /\ disk[b].slots = PointersIn(h, n, k)
    BY DEF PointersLaid
  <2>2. \A j \in 1 .. c : PointersIn(h, n, k)[Slots - j + 1] = h + (p + j)
    BY PointersAre
  <2> HIDE DEF b, c, p
  <2>3. InBlock(b) = Run(h, p, c)
    BY <2>1, <2>2 DEF InBlock, Run
  <2> QED
    BY <2>3 DEF b, c, p
<1> HIDE DEF link, x
<1>6. PICK rank : Ranked(D, link, rank, Blocks)
  BY <1>1, OnwardIsRanked
<1> DEFINE P == {b \in D : \A k \in 0 .. x : b = At(h, n, k) => walk[b] = Left(k)}
<1> HIDE DEF Left
<1>7. ASSUME NEW b \in D, link[b] \in D => link[b] \in P PROVE b \in P
  <2> SUFFICES ASSUME NEW k \in 0 .. x, b = At(h, n, k) PROVE walk[b] = Left(k)
    OBVIOUS
  <2>1. walk[b] = Run(h, k * Slots, Count(n, k)) \o walk[link[b]]
    BY <1>1, <1>2, <1>5
  <2>2. link[b] = IF k < x THEN At(h, n, k + 1) ELSE None
    BY <1>1 DEF PointersLaid, x
  <2>3. PICK p \in Nat, c \in Nat : p = k * Slots /\ c = Count(n, k) /\ c > 0
    BY <1>4, ConstantsAre
  <2>4. CASE k < x
    <3>1. k + 1 \in 0 .. x
      BY <1>3, <2>4
    <3>2. link[b] = At(h, n, k + 1) /\ link[b] \in D
      BY <2>2, <2>4, <3>1 DEF PointersLaid, x
    <3>3. walk[link[b]] = Left(k + 1)
      BY <1>7, <3>1, <3>2
    <3>4. (k + 1) * Slots = p + c /\ p + c < n
      <4>1. c = Slots /\ p + Slots < n
        BY <1>4, <2>3, <2>4
      <4>2. (k + 1) * Slots = k * Slots + Slots
        BY <1>3, ConstantsAre
      <4> QED
        BY <2>3, <4>1, <4>2
    <3>5. Left(k + 1) = Run(h, p + c, n - (p + c))
      BY <3>4 DEF Left
    <3>6. n - (p + c) \in Nat /\ c + (n - (p + c)) = n - p
      BY <2>3, <3>4
    <3>7. Run(h, p, c) \o Run(h, p + c, n - (p + c)) = Run(h, p, n - p)
      <4>1. PICK m \in Nat : m = n - (p + c) /\ c + m = n - p
        BY <3>6
      <4>2. Joins(h, p, c, m)
        BY <2>3, RunsJoin
      <4> QED
        BY <4>1, <4>2 DEF Joins
    <3> QED
      BY <2>1, <2>3, <3>3, <3>5, <3>7 DEF Left
  <2>5. CASE ~ (k < x)
    <3>1. k = x /\ link[b] = None
      BY <1>3, <2>2, <2>5
    <3>2. n - p = c
      BY <1>4, <2>3, <3>1
    <3>3. Run(h, p, c) \o << >> = Run(h, p, c)
      BY <2>3, RunIs, ConcatEmptySeq DEF IsRun
    <3> QED
      BY <1>2, <2>1, <2>3, <3>1, <3>2, <3>3 DEF Left
  <2> QED
    BY <2>4, <2>5
<1> HIDE DEF P
<1>8. Inherits(P, D, link)
  BY <1>7 DEF Inherits
<1>9. D \subseteq P
  BY <1>6, <1>8, AlongLinks
<1>10. 0 \in 0 .. x /\ At(h, n, 0) = h /\ h \in D
  <2>1. 0 \in 0 .. x /\ At(h, n, 0) = h
    BY <1>3 DEF At
  <2> QED
    BY <2>1 DEF PointersLaid, x
<1>11. walk[h] = Left(0)
  BY <1>9, <1>10 DEF P
<1>12. Left(0) = Run(h, 0, n)
  <2>1. 0 * Slots = 0 /\ n - 0 = n
    BY ConstantsAre
  <2> QED
    BY <2>1 DEF Left
<1> QED
  BY <1>11, <1>12

\* The data of the first blocks of a list.
GatherEq(f, blocks) ==
  f = [i \in 0 .. Len(blocks) |-> IF i = 0 THEN << >> ELSE f[i - 1] \o disk[blocks[i]].data]

\* Blocks in a row, each with its piece of a file, give the file.
LEMMA GatherGives ==
  ASSUME NEW data \in Files, NEW n, n = DataBlocks(data), NEW h \in Nat, DataLaid(h, data, n),
         NEW blocks, blocks = Run(h, 0, n), NEW f, GatherEq(f, blocks)
  PROVE  f[n] = data
<1>1. n \in Nat /\ n > 0
  BY DataBlocksAre
<1>2. Len(blocks) = n /\ \A j \in 1 .. n : blocks[j] = h + j
  <2>1. IsRun(blocks, h, 0, n)
    BY <1>1, RunIs
  <2> QED
    BY <1>1, <2>1 DEF IsRun
<1>3. /\ Upto(data, n) = data /\ Upto(data, 0) = << >>
      /\ \A j \in 1 .. n : Upto(data, j - 1) \o Datum(data, j) = Upto(data, j)
  BY PartsAre
<1>4. f[0] = << >> /\ \A j \in 1 .. n : f[j] = f[j - 1] \o Datum(data, j)
  <2>1. \A j \in 1 .. n : disk[blocks[j]].data = Datum(data, j)
    BY <1>2 DEF DataLaid
  <2>2. f = [i \in 0 .. n |-> IF i = 0 THEN << >> ELSE f[i - 1] \o disk[blocks[i]].data]
    BY <1>2 DEF GatherEq
  <2>3. 0 \in 0 .. n /\ \A j \in 1 .. n : j \in 0 .. n /\ j # 0
    BY <1>1
  <2>4. f[0] = << >>
    BY <2>2, <2>3
  <2>5. ASSUME NEW j \in 1 .. n PROVE f[j] = f[j - 1] \o disk[blocks[j]].data
    <3> DEFINE E(i) == IF i = 0 THEN << >> ELSE f[i - 1] \o disk[blocks[i]].data
    <3>1. E(j) = f[j - 1] \o disk[blocks[j]].data
      BY <2>3
    <3>2. f = [i \in 0 .. n |-> E(i)]
      BY <2>2
    <3> HIDE DEF E
    <3>3. f[j] = E(j)
      BY <2>3, <3>2
    <3> QED
      BY <3>1, <3>3
  <2> QED
    BY <2>1, <2>4, <2>5
<1> DEFINE D == 1 .. n
           link == [j \in D |-> j - 1]
           rank == [j \in D |-> j]
           P == {j \in D : f[j] = Upto(data, j)}
<1>5. Ranked(D, link, rank, n + 1)
  <2>1. n + 1 \in Nat /\ None \notin D /\ rank \in [D -> Nat] /\ \A j \in D : rank[j] < n + 1
    BY <1>1, ConstantsAre
  <2>2. \A j \in D : link[j] = j - 1 /\ rank[j] = j /\ (j - 1 = 0 \/ j - 1 \in D) /\ j - 1 < j
    BY <1>1
  <2>3. link \in [D -> D \cup {None}]
    BY <2>2, ConstantsAre
  <2>4. \A j \in D : link[j] \in D => rank[link[j]] < rank[j]
    BY <2>2
  <2> HIDE DEF D, link, rank
  <2> QED
    BY <2>1, <2>3, <2>4 DEF Ranked
<1>6. ASSUME NEW j \in D, link[j] \in D => link[j] \in P PROVE j \in P
  <2>1. f[j] = f[j - 1] \o Datum(data, j) /\ Upto(data, j) = Upto(data, j - 1) \o Datum(data, j)
    BY <1>3, <1>4
  <2>2. f[j - 1] = Upto(data, j - 1)
    <3>1. CASE j = 1
      BY <1>3, <1>4, <3>1
    <3>2. CASE j # 1
      <4>1. j - 1 \in D /\ link[j] = j - 1
        BY <1>1, <3>2
      <4> QED
        BY <1>6, <4>1
    <3> QED
      BY <3>1, <3>2
  <2> QED
    BY <2>1, <2>2
<1>7. Inherits(P, D, link)
  <2> HIDE DEF P, D, link
  <2> QED
    BY <1>6 DEF Inherits
<1>8. D \subseteq P
  <2> HIDE DEF P, D, link, rank
  <2> QED
    BY <1>5, <1>7, AlongLinks
<1>9. n \in D
  BY <1>1
<1>10. f[n] = Upto(data, n)
  BY <1>8, <1>9
<1> QED
  BY <1>3, <1>10

LEMMA GatherExists ==
  ASSUME AdfInv, NEW n \in Nat, n > 0, NEW blocks, Len(blocks) = n, \A j \in 1 .. n : blocks[j] \in DOMAIN disk
  PROVE  \E f : GatherEq(f, blocks)
<1> DEFINE D == 1 .. n
           T == Seq(Chunks)
           link == [j \in D |-> j - 1]
           rank == [j \in D |-> j]
           make == [j \in D |-> [t \in T |-> t \o disk[blocks[j]].data]]
<1>1. Ranked(D, link, rank, n + 1)
  <2>1. n + 1 \in Nat /\ None \notin D /\ rank \in [D -> Nat] /\ \A j \in D : rank[j] < n + 1
    BY ConstantsAre
  <2>2. \A j \in D : link[j] = j - 1 /\ rank[j] = j /\ (j - 1 = 0 \/ j - 1 \in D) /\ j - 1 < j
    OBVIOUS
  <2>3. link \in [D -> D \cup {None}]
    BY <2>2, ConstantsAre
  <2>4. \A j \in D : link[j] \in D => rank[link[j]] < rank[j]
    BY <2>2
  <2> HIDE DEF D, link, rank
  <2> QED
    BY <2>1, <2>3, <2>4 DEF Ranked
<1>2. make \in [D -> [T -> T]] /\ \A j \in D, t \in T : make[j][t] = t \o disk[blocks[j]].data
  <2>1. \A j \in D : disk[blocks[j]].data \in T
    BY DEF AdfInv, DiskSound, BlockSound
  <2>2. \A j \in D, t \in T : t \o disk[blocks[j]].data \in T
    BY <2>1, ConcatProperties
  <2> QED
    BY <2>2
<1>3. << >> \in T /\ \A j \in D : link[j] = j - 1
  BY EmptySeq
<1>4. D \cup {None} = 0 .. n /\ None \notin D /\ None = 0
  BY ConstantsAre
<1> HIDE DEF make, link, rank, D, T
<1>5. PICK f : Walks(f, D, T, link, << >>, make)
  BY <1>1, <1>2, <1>3, WalkExists
<1>6. f \in [0 .. n -> T] /\ f[0] = << >> /\ \A j \in D : f[j] = make[j][f[j - 1]] /\ f[j - 1] \in T
  <2>1. f \in [D \cup {None} -> T] /\ f[None] = << >> /\ \A j \in D : f[j] = make[j][f[link[j]]]
    BY <1>5 DEF Walks
  <2>2. \A j \in D : link[j] \in D \cup {None}
    BY <1>1 DEF Ranked
  <2> QED
    BY <1>3, <1>4, <2>1, <2>2
<1>7. \A j \in D : f[j] = f[j - 1] \o disk[blocks[j]].data
  BY <1>2, <1>6
<1>8. f = [j \in 0 .. n |-> IF j = 0 THEN << >> ELSE f[j - 1] \o disk[blocks[j]].data]
  BY <1>4, <1>6, <1>7
<1> QED
  BY <1>8 DEF GatherEq

\* Through the pointers of its header and extensions a file reads as it was written.
LEMMA PointersRead ==
  ASSUME AdfInv, NEW i \in DOMAIN tree, ~tree[i].dir
  PROVE  ReadPointers(tree[i].block) = tree[i].data
<1> DEFINE h == tree[i].block
           data == tree[i].data
           n == DataBlocks(data)
           walk == CHOOSE f : PointersEq(f)
           blocks == walk[h]
           gather == CHOOSE f : GatherEq(f, blocks)
<1>1. ReadPointers(h) = gather[Len(blocks)]
  BY DEF ReadPointers, PointersEq, GatherEq, InBlock
<1>2. PointersEq(walk)
  BY PointersExist
<1> HIDE DEF gather, walk
<1>3. h \in Nat /\ data \in Files
  BY EntriesAre, AreaIs DEF AdfInv, Legal
<1>4. n \in Nat /\ n > 0
  BY <1>3, DataBlocksAre
<1>5. DataLaid(h, data, n) /\ PointersLaid(h, n, Extensions(n))
  BY FileIsLaid
<1> HIDE DEF h, data, n
<1>6. blocks = Run(h, 0, n)
  BY <1>2, <1>3, <1>4, <1>5, PointersLead
<1> HIDE DEF blocks
<1>7. Len(blocks) = n /\ \A j \in 1 .. n : blocks[j] = h + j
  <2>1. IsRun(blocks, h, 0, n)
    BY <1>3, <1>4, <1>6, RunIs
  <2> QED
    BY <1>3, <2>1 DEF IsRun
<1>8. \A j \in 1 .. n : blocks[j] \in DOMAIN disk
  BY <1>5, <1>7 DEF DataLaid
<1>9. GatherEq(gather, blocks)
  BY <1>4, <1>7, <1>8, GatherExists DEF gather
<1>10. gather[n] = data
  BY <1>3, <1>5, <1>6, <1>9, GatherGives DEF n
<1> QED
  BY <1>1, <1>7, <1>10 DEF h, data

\* Every entry is found under its name in its directory and nowhere else, and every
\* file reads as it was written, along its chain and through its pointers, however
\* long the chains and the files (adf.js, addDir, addFile and insertEntry).
THEOREM EverythingStaysFound == DiskSpec => []EverythingFound
<1>1. ASSUME AdfInv, NEW i \in DOMAIN tree
      PROVE  LET e == tree[i]
             IN /\ Lookup(e.name, e.parent) = e.block
                /\ disk[e.block].parent = e.parent
                /\ ~e.dir => /\ ReadChain(e.block) = e.data
                             /\ ReadPointers(e.block) = e.data
                             /\ disk[e.block].size = Len(e.data)
  <2>1. tree[i].parent \in Dirs /\ tree[i].name \in Names
    BY <1>1, EntriesAre, AreaIs DEF AdfInv, Holds
  <2>2. Lookup(tree[i].name, tree[i].parent) = tree[i].block
    BY <1>1, <2>1, LookupFinds
  <2> QED
    BY <1>1, <2>2, NamesAre, ChainReads, PointersRead
<1>2. ASSUME AdfInv, NEW dir \in Dirs, NEW name \in Names, Free(name, dir)
      PROVE  Lookup(name, dir) = None
  BY <1>2, LookupFinds
<1>3. AdfInv => EverythingFound
  BY <1>1, <1>2 DEF EverythingFound
<1> QED
  BY <1>3, AdfInvariant, PTL
=============================================================================
