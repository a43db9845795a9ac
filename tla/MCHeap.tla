------------------------------- MODULE MCHeap -------------------------------
(* The heap on small memories, for TLC.                                    *)
EXTENDS Heap

\* Two sizes that round to different numbers of units, the smallest string, and
\* one static pointer beyond the memory.
SomeSizes == {1, 9}
SomeStrings == {0}
SomeForeign == {Memory + 3}
=============================================================================
