------------------------------ MODULE Layout ------------------------------
(***************************************************************************)
(* Where a program's data lie: the members of its objects (sem.js,          *)
(* defObject), its global variables, their buffers and the descriptors of   *)
(* its classes in the area that A4 points into (codegen.js, compile,        *)
(* globalSlot, binaryClassGlobals), and the local variables of a procedure  *)
(* with their buffers and its exception frame below A5 (emitProc).          *)
(*                                                                          *)
(* A variable is [type, dims]; dims are the sizes declared in brackets,     *)
(* << >> when there are none.  A variable with dimensions holds the address *)
(* of its buffer.                                                           *)
(***************************************************************************)
EXTENDS Objects

CONSTANTS
  Bodies,      \* what an object may declare: sequences of members
  MaxObjects,  \* how many objects; each but the first has the one before as
               \* parent or none
  Contexts,    \* the collections of objects that variables are declared with
  Variables,   \* what a variable may be
  MaxVariables,
  Classes      \* classes of modules: their descriptors' sizes

\* The parser numbers the unions of an object and the groups of a union.
IsBody(body) ==
  /\ body \in Seq({body[i] : i \in DOMAIN body})
  /\ \A i \in DOMAIN body : {body[i].count, body[i].union, body[i].group} \subseteq Nat
  /\ \A i \in 2 .. Len(body) :
       body[i - 1].union = body[i].union => body[i - 1].group <= body[i].group

\* A size is an error at any type but these (emitProc).
IsVariable(v) ==
  /\ v.dims \in Seq(Nat)
  /\ v.dims # << >> => Base(v.type) \in {"none", "STRING", "LIST", "ARRAY"}

ASSUME LayoutAssumption ==
  /\ {MaxObjects, MaxVariables} \subseteq Nat
  /\ Classes \subseteq Nat
  /\ \A body \in Bodies : IsBody(body)
  /\ \A v \in Variables : IsVariable(v)

VARIABLES
  objects,     \* sem.objects, by number
  globals,     \* global variables with slot and buf, their place from A4
  regions,     \* _bcGlobals: class |-> the places of pointer and descriptor
  globalSize,
  locals,      \* local variables with slot and buf, their place from A5
  frame,       \* bytes below A5
  handler      \* excOff, where HANDLE's frame is; 0 without

vars == <<objects, globals, regions, globalSize, locals, frame, handler>>

-----------------------------------------------------------------------------
(* Buffers *)

Product(dims) ==
  LET product[k \in 0 .. Len(dims)] == IF k = 0 THEN 1 ELSE product[k - 1] * dims[k]
  IN product[Len(dims)]

\* The words before the characters of a STRING and the items of a LIST.
Header == 4

\* What a declared array has elements of.
Of(v) == IF Base(v.type) = "ARRAY" THEN v.type[2] ELSE <<"none">>
Element(v) == ElemSize(Of(v), objects)

\* Mutant: no room for the NUL.
LocalBytesBare(v) ==
  CASE Base(v.type) = "STRING" -> Even(Header + Product(v.dims))
    [] Base(v.type) = "LIST" -> Header + 4 * Product(v.dims)
    [] OTHER -> Even(Product(v.dims) * Element(v))

\* What a local variable's dimensions take in the frame.
LocalBytes(v) ==
  CASE Base(v.type) = "STRING" -> 2 * ((Header + Product(v.dims) + 2) \div 2)
    [] Base(v.type) = "LIST" -> Header + 4 * Product(v.dims)
    [] OTHER -> Even(Product(v.dims) * Element(v))

\* Mutant: the header is forgotten.
GlobalBytesBare(v) ==
  CASE Base(v.type) = "STRING" -> Even(Product(v.dims) + 1)
    [] Base(v.type) = "LIST" -> 4 * Product(v.dims)
    [] OTHER -> Even(Product(v.dims) * Element(v))

\* What a global variable's dimensions take.
GlobalBytes(v) ==
  CASE Base(v.type) = "STRING" -> 2 * ((Header + Product(v.dims) + 2) \div 2)
    [] Base(v.type) = "LIST" -> 2 * ((Header + 4 * Product(v.dims) + 2) \div 2)
    [] OTHER -> Even(Product(v.dims) * Element(v))

Buffered(v) == v.dims # << >>

\* A local variable that is an object, not a pointer to one.
Inline(v) == ~Buffered(v) /\ Base(v.type) = "OBJECT" /\ objects[v.type[2]].size > 0

-----------------------------------------------------------------------------
Init ==
  /\ objects = << >>
  /\ globals = << >> /\ regions = << >> /\ globalSize = 32
  /\ locals = << >> /\ frame = 0 /\ handler = 0

\* defObject; parents are objects declared before.
DefineObject(body, parent) ==
  /\ Len(objects) < MaxObjects
  /\ globals = << >> /\ regions = << >> /\ locals = << >>
  /\ objects' = Append(objects, DefObject(IF parent = 0 THEN Nothing ELSE objects[parent], body))
  /\ UNCHANGED <<globals, regions, globalSize, locals, frame, handler>>

\* sem.js comes first: all objects are there before a variable is.
Declaring == objects \in Contexts

\* compile: a slot by globalSlot, then the buffer behind all slots so far.
DefineGlobal(v) ==
  /\ Declaring /\ Len(globals) < MaxVariables
  /\ regions = << >> /\ locals = << >>
  /\ globals' = Append(globals, [type |-> v.type, dims |-> v.dims,
                                 slot |-> globalSize, buf |-> globalSize + 4])
  /\ globalSize' = globalSize + 4 + IF Buffered(v) THEN GlobalBytes(v) ELSE 0
  /\ UNCHANGED <<objects, regions, locals, frame, handler>>

\* binaryClassGlobals: the first use of a class reserves its descriptor.
UseClass(size) ==
  /\ Declaring /\ size \notin DOMAIN regions
  /\ regions' = [s \in DOMAIN regions \cup {size} |->
       IF s = size THEN [slot |-> globalSize, region |-> globalSize + 4] ELSE regions[s]]
  /\ globalSize' = globalSize + 4 + Even(size)
  /\ UNCHANGED <<objects, globals, locals, frame, handler>>

\* emitProc: the variable itself, and below it its buffer or its object.
DefineLocal(v) ==
  LET slot == frame + 4
      bytes == IF Buffered(v) THEN LocalBytes(v)
               ELSE IF Inline(v) THEN Even(objects[v.type[2]].size) ELSE 0
  IN
  /\ Declaring /\ Len(globals) + Len(locals) < MaxVariables /\ handler = 0
  /\ locals' = Append(locals, [type |-> v.type, dims |-> v.dims,
                               slot |-> -slot, buf |-> -(slot + bytes)])
  /\ frame' = slot + bytes
  /\ UNCHANGED <<objects, globals, regions, globalSize, handler>>

\* emitProc: HANDLE's {prev, sp, fp, resume-pc} below the variables.
Handle ==
  /\ Declaring /\ handler = 0
  /\ frame' = frame + 16
  /\ handler' = -frame'
  /\ UNCHANGED <<objects, globals, regions, globalSize, locals>>

\* Types name objects that there are.
Known(t) ==
  CASE Base(t) = "OBJECT" -> t[2] \in DOMAIN objects
    [] Base(t) \in {"ARRAY", "PTR"} -> Base(t[2]) = "OBJECT" => t[2][2] \in DOMAIN objects
    [] OTHER -> TRUE

Next ==
  \/ \E body \in Bodies, parent \in {0, Len(objects)} :
       (\A i \in DOMAIN body : Known(body[i].type)) /\ DefineObject(body, parent)
  \/ \E v \in Variables : Known(v.type) /\ (DefineGlobal(v) \/ DefineLocal(v))
  \/ \E size \in Classes : UseClass(size)
  \/ Handle

Spec == Init /\ [][Next]_vars

-----------------------------------------------------------------------------
(* Properties.  A range is <<first byte, how many>>. *)

Disjoint(r, s) == r[1] + r[2] <= s[1] \/ s[1] + s[2] <= r[1]
Inside(r, from, end) == from <= r[1] /\ r[1] + r[2] <= end

\* Two groups of one union are meant to overlap; parent and child may use one
\* number for unions at different places.
Alternatives(a, b) ==
  a.union # 0 /\ a.union = b.union /\ a.base = b.base /\ a.group # b.group

RangeOf(m) == <<m.offset, Bytes(m, objects)>>

\* Members that are objects are given four bytes, whatever their object's size
\* (typeSize): they are left out.
MembersOf(o) ==
  {o.members[i] : i \in {j \in DOMAIN o.members : Base(o.members[j].type) # "OBJECT"}}

\* What the program writes through one member never changes another, with
\* inherited members and the groups of unions in any order, and what is wider
\* than a byte is at an even address, where the 68000 can reach it.
MembersApart ==
  \A n \in DOMAIN objects :
    /\ objects[n].size % 2 = 0
    /\ \A m \in MembersOf(objects[n]) :
         /\ m.width > 1 => m.offset % 2 = 0
         /\ Inside(RangeOf(m), 0, objects[n].size)
         /\ \A other \in MembersOf(objects[n]) \ {m} :
              Alternatives(m, other) \/ Disjoint(RangeOf(m), RangeOf(other))

\* The indices of a variable's elements.
Places(dims) ==
  {place \in [DOMAIN dims -> UNION {0 .. dims[k] - 1 : k \in DOMAIN dims}] :
     \A k \in DOMAIN dims : place[k] < dims[k]}

\* multiDimAddress: the number of an element among all.  (muls.w is exact for
\* factors of 16 bits; what it does to larger ones is left out.)
Linear(dims, place) ==
  LET linear[k \in 0 .. Len(dims)] ==
        IF k = 0 THEN 0 ELSE linear[k - 1] * dims[k] + place[k]
  IN linear[Len(dims)]

\* addressOf and multiDimAddress: where an element is and how wide it is.
At(v, place) ==
  LET width == IF Len(v.dims) = 1 THEN Stride(v.type, objects) ELSE TypeSize(Of(v))
  IN <<v.buf + Linear(v.dims, place) * width, width>>

IsArray(v) == Buffered(v) /\ Base(v.type) \notin {"STRING", "LIST"}

\* The ranges a program uses through a variable: the variable, the header, the
\* characters with their NUL, the elements; an object.
Used(v, inline) ==
  {<<v.slot, 4>>} \cup
  CASE Base(v.type) = "STRING" /\ Buffered(v) -> {<<v.buf, Header + Product(v.dims) + 1>>}
    [] Base(v.type) = "LIST" /\ Buffered(v) -> {<<v.buf, Header + 4 * Product(v.dims)>>}
    [] IsArray(v) -> {At(v, place) : place \in Places(v.dims)}
    [] inline -> {<<v.buf, objects[v.type[2]].size>>}
    [] OTHER -> {}

Apart(R, S) == \A r \in R, s \in S : Disjoint(r, s)

\* A variable and what it holds the address of, and two elements of an array.
ApartIn(v, inline) ==
  /\ \A r, s \in Used(v, inline) : r # s => Disjoint(r, s)
  /\ IsArray(v) => \A p, q \in Places(v.dims) : p # q => Disjoint(At(v, p), At(v, q))

FrameApart ==
  LET used(i) == Used(locals[i], Inline(locals[i]))
      record == <<handler, 16>>
  IN /\ \A i \in DOMAIN locals :
          /\ ApartIn(locals[i], Inline(locals[i]))
          /\ \A r \in used(i) : Inside(r, -frame, 0)
          /\ \A j \in DOMAIN locals \ {i} : Apart(used(i), used(j))
     /\ handler # 0 => Inside(record, -frame, 0) /\ \A i \in DOMAIN locals : Apart({record}, used(i))

GlobalsApart ==
  LET used(i) == Used(globals[i], FALSE)
      region(s) == {<<regions[s].slot, 4>>, <<regions[s].region, s>>}
  IN /\ \A i \in DOMAIN globals :
          /\ ApartIn(globals[i], FALSE)
          /\ \A r \in used(i) : Inside(r, 32, globalSize)
          /\ \A j \in DOMAIN globals \ {i} : Apart(used(i), used(j))
          /\ \A s \in DOMAIN regions : Apart(used(i), region(s))
     /\ \A s \in DOMAIN regions :
          /\ \A r \in region(s) : Inside(r, 32, globalSize)
          /\ \A r1, r2 \in region(s) : r1 # r2 => Disjoint(r1, r2)
          /\ \A t \in DOMAIN regions \ {s} : Apart(region(s), region(t))

\* Whatever a program stores in its variables, in elements within their bounds
\* and in inline objects stays out of all other variables, out of the registers
\* saved above the frame, out of the record that HANDLE relies on and out of the
\* descriptors that a class's builder fills: the compiler's sizes and addressOf's
\* and multiDimAddress' strides come out of different tables.
VariablesApart == FrameApart /\ GlobalsApart
=============================================================================
