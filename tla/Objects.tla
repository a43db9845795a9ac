------------------------------ MODULE Objects ------------------------------
(***************************************************************************)
(* Types and objects as sem.js lays them out and codegen.js uses them: how  *)
(* many bytes a member takes, at which offset it lies, how wide an access   *)
(* to it is and how far apart the elements of an array are.                 *)
(*                                                                          *)
(* A type is a tuple that begins with its base: <<"LONG">>, <<"PTR", t>>,    *)
(* <<"ARRAY", t>>, <<"OBJECT", name>>; <<"none">> is a declaration without.   *)
(* A declared member is [name, type, count, union, group]; count is 1 for a *)
(* member without a size, union is 0 outside of UNION.                      *)
(***************************************************************************)
EXTENDS Integers, Sequences

Base(t) == t[1]
Embedded(t) == Base(t) \in {"ARRAY", "OBJECT"}

Even(n) == n + (n % 2)
Larger(a, b) == IF a < b THEN b ELSE a

\* typeSize of sem.js, which knows nothing of BYTE and WORD
SemSize(t) ==
  CASE Base(t) = "CHAR" -> 1
    [] Base(t) = "INT" -> 2
    [] OTHER -> 4

\* typeSize of codegen.js
TypeSize(t) ==
  CASE Base(t) \in {"none", "CHAR", "BYTE"} -> 1
    [] Base(t) \in {"INT", "WORD"} -> 2
    [] OTHER -> 4

ElemSize(t, objects) ==
  CASE Base(t) \in {"CHAR", "BYTE"} -> 1
    [] Base(t) \in {"INT", "WORD"} -> 2
    [] Base(t) = "OBJECT" /\ t[2] \in DOMAIN objects -> objects[t[2]].size
    [] OTHER -> 4

-----------------------------------------------------------------------------
(* Objects.  A member of an object has the declaration's fields, its        *)
(* offset, its union's, and the width of an access, 0 for an embedded one:  *)
(* its address is taken.                                                    *)

Nothing == [members |-> << >>, size |-> 0]

\* INT and LONG begin at even addresses.
Start(type, at) == IF SemSize(type) > 1 THEN Even(at) ELSE at

\* Mutant: what follows a union begins behind the last group.
UnionEndLast(s, base, end) == end

\* A union ends where the longest of its groups does.
UnionEnd(s, base, end) == Larger(Larger(base, s.size), end)

\* Each group of a union begins where the union does.
UnionFrom(s, base, m) ==
  IF m.union = s.union /\ m.group = s.group THEN s.at ELSE base

\* s: the members placed, the size so far; of the union at hand its number,
\* group and base, and at, the place of the group's next member.
PlaceMember(s, m) ==
  LET base == IF m.union = s.union THEN s.base ELSE Even(s.size)
      offset == Start(m.type, IF m.union = 0 THEN s.size ELSE UnionFrom(s, base, m))
      end == offset + SemSize(m.type) * m.count
      placed == [name |-> m.name, type |-> m.type, count |-> m.count,
                 union |-> m.union, group |-> m.group, offset |-> offset,
                 base |-> IF m.union = 0 THEN 0 ELSE base,
                 width |-> IF Embedded(m.type) THEN 0 ELSE SemSize(m.type)]
      same == {i \in DOMAIN s.members : s.members[i].name = m.name}
  IN [members |-> IF same = {} THEN Append(s.members, placed)
                  ELSE [s.members EXCEPT ![CHOOSE i \in same : TRUE] = placed],
      size |-> IF m.union = 0 THEN end ELSE UnionEnd(s, base, end),
      union |-> m.union, group |-> m.group, base |-> base, at |-> end]

\* defObject: a child begins with its parent's members.
DefObject(parent, members) ==
  LET start == [members |-> parent.members, size |-> parent.size,
                union |-> 0, group |-> 0, base |-> 0, at |-> 0]
      placed[n \in 0 .. Len(members)] ==
        IF n = 0 THEN start ELSE PlaceMember(placed[n - 1], members[n])
      all == placed[Len(members)]
  IN [members |-> all.members, size |-> Even(all.size)]

MemberOf(object, name) ==
  object.members[CHOOSE i \in DOMAIN object.members : object.members[i].name = name]

-----------------------------------------------------------------------------
(* What the code expects of memory *)

\* The bytes that a program reaches through a member.
Bytes(m, objects) ==
  CASE Base(m.type) = "ARRAY" -> m.count * ElemSize(m.type[2], objects)
    [] Base(m.type) = "OBJECT" -> m.count * ElemSize(m.type, objects)
    [] OTHER -> m.width

\* ARRAY OF, STRING, LIST and PTR TO: what an index yields (typeOf).
Indexed(t) ==
  CASE Base(t) = "STRING" -> <<"CHAR">>
    [] Base(t) = "LIST" -> <<"LONG">>
    [] Base(t) = "ARRAY" -> IF t[2] = <<"none">> THEN <<"CHAR">> ELSE t[2]
    [] Base(t) = "PTR" -> t[2]
    [] OTHER -> <<"none">>

\* The element's size in addressOf.
Stride(t, objects) == ElemSize(Indexed(t), objects)
=============================================================================
