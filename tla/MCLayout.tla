----------------------------- MODULE MCLayout -----------------------------
(* Objects of one or two members, every type before and after every other,  *)
(* and unions of two groups before, behind and between others; a parent and *)
(* its child.  Two variables of each kind, with no object or one.           *)
EXTENDS Layout

Members == {<< <<"CHAR">>, 1>>, << <<"INT">>, 1>>, << <<"LONG">>, 1>>, << <<"PTR", <<"CHAR">>>>, 1>>,
            << <<"ARRAY", <<"CHAR">>>>, 3>>, << <<"ARRAY", <<"INT">>>>, 3>>,
            << <<"OBJECT", 1>>, 1>>}

Member(n, kind, union, group) ==
  [name |-> n, type |-> kind[1], count |-> kind[2], union |-> union, group |-> group]

Char == << <<"CHAR">>, 1>>
Long == << <<"LONG">>, 1>>
Array == << <<"ARRAY", <<"CHAR">>>>, 3>>

Plain(s) == [i \in DOMAIN s |-> Member(i, s[i], 0, 0)]

\* A union of a group of one or two members and a group of one.
Unions ==
  {<<Member(1, Char, 0, 0), Member(2, a, 1, 1), Member(3, b, 1, 1), Member(4, c, 1, 2),
     Member(5, after, 0, 0)>> : a, b, c \in {Char, Long, Array}, after \in {Char, Long}}

\* A child may have a member of its parent's name.
SomeBodies == {Plain(s) : s \in UNION {[1 .. n -> Members] : n \in 1 .. 2}}
FamilyBodies == SomeBodies \cup Unions

\* Variables are declared with no object or one, of two sizes: CHAR; LONG and CHAR.
Placed(n, type, offset, width) ==
  [name |-> n, type |-> type, count |-> 1, union |-> 0, group |-> 0, offset |-> offset, base |-> 0, width |-> width]
OneMember == [members |-> <<Placed(1, <<"CHAR">>, 0, 1)>>, size |-> 2]
TwoMembers == [members |-> <<Placed(1, <<"LONG">>, 0, 4), Placed(2, <<"CHAR">>, 4, 1)>>, size |-> 6]
Few == {<< >>, <<OneMember>>, <<TwoMembers>>}

Pairs == [type : {<<"STRING">>, <<"LIST">>, <<"none">>, <<"ARRAY", <<"none">>>>, <<"ARRAY", <<"CHAR">>>>,
                  <<"ARRAY", <<"WORD">>>>, <<"ARRAY", <<"OBJECT", 1>>>>},
          dims : {<<1>>, <<2>>}]

SomeVariables ==
  Pairs \cup [type : {<<"none">>, <<"LONG">>, <<"OBJECT", 1>>, <<"PTR", <<"OBJECT", 1>>>>, <<"STRING">>},
              dims : {<< >>}]
        \cup [type : {<<"ARRAY", <<"CHAR">>>>, <<"ARRAY", <<"INT">>>>, <<"ARRAY", <<"LONG">>>>},
              dims : {<<2, 3>>, <<2, 1, 2>>}]

SomeClasses == {5, 8}
=============================================================================
