------------------------------ MODULE HeapSpec ------------------------------
(***************************************************************************)
(* What the run-time heap of a compiled E program promises, with no chain, *)
(* no headers and no walk: a set of disjoint blocks, each named by the     *)
(* pointer the program got for it.  New and String add a block, Dispose,   *)
(* DisposeLink and END remove exactly the block they name, and the exit    *)
(* code gives every block back before the program ends.                    *)
(***************************************************************************)
EXTENDS Integers

CONSTANT Memory         \* 8-byte units of memory the system can hand out

VARIABLES blocks,       \* the blocks the program owns
          phase         \* "run", then "freeall" at exit, then "exited"

specVars == <<blocks, phase>>

\* A block: its first unit, its length, and how far past its first unit the
\* program's pointer lies (1 for a NEW object, 2 for a complex E-string).
Block == [at : 1..Memory, len : 1..Memory, off : {1, 2}]

Apart(b, c) == b.at + b.len <= c.at \/ c.at + c.len <= b.at

Init == blocks = {} /\ phase = "run"

Acquire ==
  /\ phase = "run"
  /\ \E b \in Block :
       /\ \A c \in blocks : Apart(b, c)
       /\ blocks' = blocks \cup {b}
  /\ UNCHANGED phase

\* Naming an estring by its link field (DisposeLink) is naming it too.
Names(p, b) == p = b.at + b.off \/ p = b.at + 1

Dispose(p) ==
  /\ phase = "run"
  /\ \E b \in blocks : Names(p, b) /\ blocks' = blocks \ {b}
  /\ UNCHANGED phase

Exit == phase = "run" /\ phase' = "freeall" /\ UNCHANGED blocks

Release ==
  /\ phase = "freeall"
  /\ \E b \in blocks : blocks' = blocks \ {b}
  /\ UNCHANGED phase

Finish ==
  /\ phase = "freeall"
  /\ blocks = {}
  /\ phase' = "exited"
  /\ UNCHANGED blocks

Next ==
  \/ Acquire
  \/ \E p \in 1..Memory + 2 : Dispose(p)
  \/ Exit
  \/ Release
  \/ Finish

Spec == Init /\ [][Next]_specVars
=============================================================================
