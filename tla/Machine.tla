------------------------------ MODULE Machine ------------------------------
(***************************************************************************)
(* The 68000 as far as the code of E's statements and expressions uses it:  *)
(* four data registers, one address register, the frame pointer A5, the     *)
(* stack, the globals behind A4, and memory.  The instructions bear the     *)
(* names of asm68k.js's methods where those are short, and labels in place  *)
(* of displacements: that labels are resolved rightly is Assembler's part.  *)
(* Global variables are known by name; the stack is a sequence of longs, of *)
(* which the last is at A7.                                                 *)
(***************************************************************************)
EXTENDS Words

\* op.l source, destination: the destination afterwards.
Operate(op, a, b) ==
  CASE op = "add" -> Long(a + b)
    [] op = "sub" -> Long(a - b)
    [] op = "and" -> AndBits(a, b)
    [] op = "or" -> OrBits(a, b)
    [] op = "eor" -> EorBits(a, b)
    [] op = "muls" -> Word(a) * Word(b)
    [] op = "divs" -> LET q == Quotient(a, Word(b)) IN IF q = Word(q) THEN q ELSE Word(a)
    [] op = "rems" -> LET q == Quotient(a, Word(b))
                      IN IF q = Word(q) THEN a - q * Word(b) ELSE Asr(a, Bits \div 2)
    [] op = "asl" -> Lsl(a, b % (2 * Bits))
    [] op = "asr" -> Asr(a, b % (2 * Bits))
    [] op = "lsr" -> Lsr(a, b % (2 * Bits))

Holds(condition, x, y) ==
  CASE condition = "eq" -> x = y
    [] condition = "ne" -> x # y
    [] condition = "gt" -> x > y
    [] condition = "lt" -> x < y
    [] condition = "ge" -> x >= y
    [] condition = "le" -> x <= y

-----------------------------------------------------------------------------
(* A program is its code, a sequence of instructions, and at, the place of  *)
(* each of its labels.                                                      *)

VARIABLES
  code, at, \* nothing until there is a program
  pc, d, a0, a5, stack, glob, mem,
  cc        \* what the last comparison compared

program == <<code, at>>

\* What is in registers that nobody has set, and on the stack where nobody wrote.
Stale == 77

Reset ==
  /\ code = << >> /\ at = << >> /\ pc = 1
  /\ d = [r \in 0 .. 3 |-> Stale] /\ a0 = 0 /\ a5 = 0 /\ stack = << >>
  /\ cc = <<0, 0>>

Instruction == code[pc]
Op == Instruction[1]
Halted == Op = "halt"

\* divs by zero
Trapped == Op = "op" /\ Instruction[2] \in {"divs", "rems"} /\ Word(d[Instruction[3]]) = 0

Continue == pc' = pc + 1
GoTo(label) == pc' = at[label]
Set(r, value) == d' = [d EXCEPT ![r] = value]

\* Variables by their place: <<"glob", name>> or <<"frame", disp>>, disp longs
\* above A5 (args) or below it (locals).
Variable(place) == IF place[1] = "glob" THEN glob[place[2]] ELSE stack[a5 - place[2]]
SetVariable(place, value) ==
  IF place[1] = "glob"
  THEN glob' = [glob EXCEPT ![place[2]] = value] /\ UNCHANGED stack
  ELSE stack' = [stack EXCEPT ![a5 - place[2]] = value] /\ UNCHANGED glob

\* moveq, move.l between data registers, and between these and A0
Move ==
  /\ \/ Op = "moveq" /\ Set(Instruction[3], Instruction[2]) /\ UNCHANGED a0
     \/ Op = "move" /\ Set(Instruction[3], d[Instruction[2]]) /\ UNCHANGED a0
     \/ Op = "toA" /\ a0' = d[Instruction[2]] /\ UNCHANGED d
     \/ Op = "fromA" /\ Set(0, a0) /\ UNCHANGED a0
     \/ Op = "lea" /\ a0' = Instruction[2] /\ UNCHANGED d
     \/ Op = "leaA" /\ a0' = a0 + Instruction[2] /\ UNCHANGED d
     \/ Op = "leaD" /\ a0' = a0 + d[0] /\ UNCHANGED d
     \/ Op = "leaCode" /\ Set(0, at[Instruction[2]]) /\ UNCHANGED a0
  /\ Continue /\ UNCHANGED <<program, a5, stack, glob, mem, cc>>

\* -(A7), (A7)+, n(A7), addq #n,A7
Stack ==
  /\ \/ Op = "push" /\ stack' = Append(stack, d[0]) /\ UNCHANGED <<d, a0>>
     \/ /\ Op = "pop" /\ Set(Instruction[2], stack[Len(stack)])
        /\ stack' = SubSeq(stack, 1, Len(stack) - 1) /\ UNCHANGED a0
     \/ /\ Op = "popA" /\ a0' = stack[Len(stack)]
        /\ stack' = SubSeq(stack, 1, Len(stack) - 1) /\ UNCHANGED d
     \/ Op = "peek" /\ Set(Instruction[2], stack[Len(stack)]) /\ UNCHANGED <<stack, a0>>
     \/ Op = "drop" /\ stack' = SubSeq(stack, 1, Len(stack) - Instruction[2]) /\ UNCHANGED <<d, a0>>
  /\ Continue /\ UNCHANGED <<program, a5, glob, mem, cc>>

\* n(A4) and n(A5)
Access ==
  /\ \/ Op = "get" /\ Set(0, Variable(Instruction[2])) /\ UNCHANGED <<glob, stack>>
     \/ Op = "put" /\ SetVariable(Instruction[2], d[0]) /\ UNCHANGED d
     \/ /\ Op = "addTo"
        /\ SetVariable(Instruction[3], Long(Variable(Instruction[3]) + Instruction[2]))
        /\ UNCHANGED d
  /\ Continue /\ UNCHANGED <<program, a0, a5, mem, cc>>

\* n(A0)
Memory ==
  /\ \/ /\ Op = "load"
        /\ Set(Instruction[5], Load(mem, a0 + Instruction[2], Instruction[3], Instruction[4]))
        /\ UNCHANGED mem
     \/ /\ Op = "store"
        /\ mem' = Store(mem, a0 + Instruction[2], Instruction[3], d[0])
        /\ UNCHANGED d
  /\ Continue /\ UNCHANGED <<program, a0, a5, stack, glob, cc>>

\* Register arithmetic
Arithmetic ==
  /\ ~Trapped
  /\ \/ Op = "op" /\ Set(Instruction[4], Operate(Instruction[2], d[Instruction[4]], d[Instruction[3]]))
     \/ Op = "addq" /\ Set(0, Long(d[0] + Instruction[2]))
     \/ Op = "neg" /\ Set(0, Long(-d[0]))
     \/ Op = "not" /\ Set(0, -d[0] - 1)
     \/ Op = "scc" /\ Set(0, IF Holds(Instruction[2], cc[1], cc[2]) THEN -1 ELSE 0)
  /\ Continue /\ UNCHANGED <<program, a0, a5, stack, glob, mem, cc>>

\* cmp.l and tst.l
Compare ==
  /\ \/ Op = "cmp" /\ cc' = <<d[Instruction[3]], d[Instruction[2]]>>
     \/ Op = "tst" /\ cc' = <<d[0], 0>>
  /\ Continue /\ UNCHANGED <<program, d, a0, a5, stack, glob, mem>>

Branch ==
  /\ \/ Op = "label" /\ Continue
     \/ Op = "bra" /\ GoTo(Instruction[2])
     \/ /\ Op = "bcc"
        /\ IF Holds(Instruction[2], cc[1], cc[2]) THEN GoTo(Instruction[3]) ELSE Continue
  /\ UNCHANGED <<program, d, a0, a5, stack, glob, mem, cc>>

\* bsr, jsr (A0) and rts; link and unlk.  New locals hold what was there.
Call ==
  /\ \/ Op = "bsr" /\ stack' = Append(stack, pc + 1) /\ GoTo(Instruction[2]) /\ UNCHANGED a5
     \/ Op = "jsrA" /\ stack' = Append(stack, pc + 1) /\ pc' = a0 /\ UNCHANGED a5
     \/ /\ Op = "rts" /\ pc' = stack[Len(stack)]
        /\ stack' = SubSeq(stack, 1, Len(stack) - 1) /\ UNCHANGED a5
     \/ /\ Op = "link" /\ Continue
        /\ stack' = stack \o <<a5>> \o [i \in 1 .. Instruction[2] |-> Stale]
        /\ a5' = Len(stack) + 1
     \/ /\ Op = "unlk" /\ Continue
        /\ stack' = SubSeq(stack, 1, a5 - 1) /\ a5' = stack[a5]
  /\ UNCHANGED <<program, d, a0, glob, mem, cc>>

\* bsr to a routine of the run-time: __mul32 keeps D2, and D1 is spent.
RunTime ==
  /\ Op = "mul32"
  /\ d' = [d EXCEPT ![0] = Long(d[0] * d[1]), ![1] = 0]
  /\ Continue /\ UNCHANGED <<program, a0, a5, stack, glob, mem, cc>>

Step == Move \/ Stack \/ Access \/ Memory \/ Arithmetic \/ Compare \/ Branch \/ Call \/ RunTime
=============================================================================
