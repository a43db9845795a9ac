---------------------------- MODULE Compilation ----------------------------
(***************************************************************************)
(* Programs compiled by Codegen, run by Machine and measured by Language:   *)
(* one of Sources is chosen and compiled, its input variables are given     *)
(* values, and its code runs until it halts.                                *)
(*                                                                          *)
(* A source has procs, by name, and order, that in which they are compiled; *)
(* types of variables; objects with their parents, and methods, the         *)
(* procedure of each method; globals and mem, what the variables and the    *)
(* memory hold at the start; inputs, the globals that are given every one   *)
(* of InputValues; and watched, those whose values at the end are compared  *)
(* (the others may hold addresses of code).                                 *)
(***************************************************************************)
EXTENDS Machine, Codegen

CONSTANTS Sources, InputValues

VARIABLES
  source,    \* number of the program
  given      \* the globals it began with, << >> before it does

vars == <<source, given, code, at, pc, d, a0, a5, stack, glob, mem, cc>>

E == INSTANCE Language

Source == Sources[source]

Init ==
  /\ source \in DOMAIN Sources
  /\ Reset /\ given = << >> /\ glob = << >> /\ mem = << >>

Compile ==
  /\ code = << >>
  /\ LET compiled == Compiled(Source)
     IN ~compiled.failed /\ code' = compiled.code /\ at' = compiled.at
  /\ UNCHANGED <<source, given, pc, d, a0, a5, stack, glob, mem, cc>>

\* With an error there is no program.
Reject == code = << >> /\ Compiled(Source).failed /\ UNCHANGED vars

\* The start-up code of the program has laid out its globals and memory.
Begin ==
  /\ code # << >> /\ given = << >>
  /\ \E values \in [Source.inputs -> InputValues] :
       given' = [n \in DOMAIN Source.globals |->
                   IF n \in Source.inputs THEN values[n] ELSE Source.globals[n]]
  /\ glob' = given' /\ mem' = Source.mem
  /\ UNCHANGED <<source, code, at, pc, d, a0, a5, stack, cc>>

Running == given # << >> /\ ~Halted /\ ~Trapped

Execute == Running /\ Step /\ UNCHANGED <<source, given>>

Next == Compile \/ Reject \/ Begin \/ Execute \/ (given # << >> /\ ~Running /\ UNCHANGED vars)

Spec == Init /\ [][Next]_vars

-----------------------------------------------------------------------------
(* Correctness *)

\* Where the program means something, its code comes to its end with the
\* variables and the memory as the program's meaning has them, with the stack
\* and A5 as they were; it does not divide by zero on the way.
ComputesValue ==
  given # << >> /\ ~Running =>
    LET meaning == E!Meaning(Source, given, Source.mem)
    IN meaning.ok =>
         /\ Halted
         /\ \A n \in Source.watched : glob[n] = meaning.g[n]
         /\ mem = meaning.mem
         /\ stack = << >> /\ a5 = 0
=============================================================================
