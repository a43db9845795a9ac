---------------------------- MODULE MCAssembler ----------------------------
(* Programs of a few instructions and two binary modules, for TLC.         *)
EXTENDS Assembler

CONSTANTS sort, table

SomeLabels == {sort, table}

\* A module of odd length that exports sort, with a pointer to its own offset 4.
Exporter == [length |-> 7, entry |-> [l \in {sort} |-> 4],
             pointer |-> [o \in {0} |-> 4], call |-> [o \in {} |-> sort]]

\* A module that calls sort in another module, with two pointers into itself.
Importer == [length |-> 14, entry |-> [l \in {} |-> 0],
             pointer |-> [o \in {6, 10} |-> o - 6], call |-> [o \in {2} |-> sort]]

TwoModules == {Exporter, Importer}
SomeLengths == {2}
SomeBases == {0, 64}
=============================================================================
