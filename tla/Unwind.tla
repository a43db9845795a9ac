------------------------------- MODULE Unwind -------------------------------
(***************************************************************************)
(* The code codegen.js emits for procedures, HANDLE/EXCEPT, TRY/CATCH,     *)
(* SELECT, loops, RETURN, Raise, Throw, ReThrow and CleanUp, at the level  *)
(* of the 68k stack: A7, A5, the chain of handler frames whose head is at  *)
(* 28(A4), and the words in memory they lead to.                           *)
(*                                                                         *)
(* Any program that nests these constructs is a behaviour: the actions     *)
(* open, close and leave constructs in every order the parser accepts.     *)
(* What the machine does next is read from memory words, as the code does, *)
(* not from the nest of constructs, which only says where in the source    *)
(* the program is.                                                         *)
(*                                                                         *)
(* Addresses count the long words pushed since startup: a deeper word has  *)
(* a higher number, A7 is the number of the word on top, and 4(A7) is the  *)
(* word before it.  Word 0 is where startup left A7.                       *)
(***************************************************************************)
EXTENDS Integers

CONSTANTS
  Values,     \* exception values and exit codes; 0 is no exception
  MaxArgs,    \* most arguments a call pushes
  MaxNest,    \* bound: constructs open at once
  MaxStack,   \* bound: words on the stack
  Escapes     \* ways out the program uses: "try", "select" or none

ASSUME UnwindAssumption ==
  /\ Values \subseteq Nat /\ 0 \in Values
  /\ MaxArgs \in Nat
  /\ MaxNest \in Nat \ {0}
  /\ MaxStack \in Nat
  /\ Escapes \subseteq {"try", "select"}

VARIABLES
  depth,      \* number of open constructs
  scope,      \* the open constructs, 1..depth, outermost first
  sp,         \* A7
  fp,         \* A5
  mem,        \* the words of the stack
  head,       \* 28(A4): the innermost handler frame, 0 for none
  exception,  \* the global variable `exception'
  exitcode,   \* 16(A4)
  d1,         \* what D1 holds after a return: "second", "chain" or "other"
  mode        \* "start", "run", "exit"; "wild" once the processor goes on at
              \* garbage or inside a construct the program has left

vars == <<depth, scope, sp, fp, mem, head, exception, exitcode, d1, mode>>

-----------------------------------------------------------------------------
(* Words and constructs.                                                   *)

Word == [k : {"addr", "code", "data"}, v : Int]
Addr(x) == [k |-> "addr", v |-> x]
Code(i) == [k |-> "code", v |-> i]   \* code in the construct number i
Data    == [k |-> "data", v |-> 0]

\* A word that is not an address, used as one.
Lost == -1

At(x)     == IF x \in 1..MaxStack THEN mem[x] ELSE Data
AddrAt(x) == IF At(x).k = "addr" THEN At(x).v ELSE Lost

Scope == [kind : {"proc", "try", "select", "loop"}, handle : BOOLEAN,
          auto : BOOLEAN, phase : {"body", "except", "catch", "rets"},
          armed : BOOLEAN, args : 0..MaxArgs, at : Nat]

\* at is where A7 was when the construct was opened (its arguments included).
Proc(h, a, n) == [kind |-> "proc", handle |-> h, auto |-> a, phase |-> "body",
                  armed |-> h, args |-> n, at |-> sp]
Block(k, m)   == [kind |-> k, handle |-> FALSE, auto |-> FALSE, phase |-> "body",
                  armed |-> m, args |-> 0, at |-> sp]

\* An entry of scope beyond depth.
NoScope == [kind |-> "loop", handle |-> FALSE, auto |-> FALSE, phase |-> "body",
            armed |-> FALSE, args |-> 0, at |-> 0]

\* D1 is a scratch register: only a return puts a result there.
Scratch == d1' = "other"

\* Once A7 is x the words above it are not the program's any more (the system may
\* put anything there): they count as data.
Drop(x) == mem' = [y \in 1..MaxStack |-> IF y > x THEN Data ELSE mem[y]]

\* The first d constructs stay open.
CutTo(d) == /\ depth' = d
            /\ scope' = [i \in 1..MaxNest |-> IF i <= d THEN scope[i] ELSE NoScope]

OpenScope(c) == depth < MaxNest /\ depth' = depth + 1 /\ scope' = [scope EXCEPT ![depth + 1] = c]

Max0(S) == IF S = {} THEN 0 ELSE CHOOSE i \in S : \A j \in S : j <= i

CurrentProc == Max0({i \in 1..depth : scope[i].kind = "proc"})
Loop        == Max0({i \in 1..depth : scope[i].kind = "loop"})

\* Statements run in a body, an EXCEPT or a CATCH; in ENDPROC's expressions only
\* calls do.
InStatements == mode = "run" /\ scope[depth].phase # "rets"

-----------------------------------------------------------------------------
(* A handler frame {prev, sp, fp, resume-pc} occupies four words that end  *)
(* at address f, so prev is at f, sp at f-1, fp at f-2, resume-pc at f-3.  *)

HandlerFrameSwapped(m, f, prev, base, code) ==
  [m EXCEPT ![f] = Addr(prev), ![f - 1] = Addr(base), ![f - 2] = Addr(f), ![f - 3] = code]

HandlerFrameAlone(m, f, prev, base, code) ==
  [m EXCEPT ![f] = Addr(0), ![f - 1] = Addr(f), ![f - 2] = Addr(base), ![f - 3] = code]

HandlerFrame(m, f, prev, base, code) ==
  [m EXCEPT ![f] = Addr(prev), ![f - 1] = Addr(f), ![f - 2] = Addr(base), ![f - 3] = code]

Init ==
  /\ depth = 0
  /\ scope = [i \in 1..MaxNest |-> NoScope]
  /\ sp = 0
  /\ fp = 0
  /\ mem = [x \in 1..MaxStack |-> Data]
  /\ head = 0
  /\ exception = 0
  /\ exitcode = 0
  /\ d1 = "other"
  /\ mode = "start"

\* A call pushes its arguments, bsr pushes the return address and link pushes A5;
\* a procedure with HANDLE then links its handler frame.  (Locals are left out.)
Pushed(n, d, base) ==
  [x \in 1..MaxStack |->
     CASE x = base + n + 1 -> Code(d)
       [] x = base + n + 2 -> Addr(fp)
       [] x > base /\ x <= base + n -> Data
       [] OTHER -> mem[x]]

Call(h, a, n) ==
  LET base == sp + n + 2
      top  == IF h THEN base + 4 ELSE base
  IN /\ mode \in {"start", "run"}
     /\ mode = "start" => n = 0
     /\ a => h
     /\ top <= MaxStack
     /\ OpenScope(Proc(h, a, n))
     /\ sp' = top
     /\ fp' = base
     /\ IF h
        THEN /\ mem' = HandlerFrame(Pushed(n, depth, sp), top, head, base, Code(depth + 1))
             /\ head' = top
        ELSE /\ mem' = Pushed(n, depth, sp)
             /\ UNCHANGED head
     /\ mode' = "run"
     /\ Scratch
     /\ UNCHANGED <<exception, exitcode>>

OpenTry ==
  /\ InStatements
  /\ sp + 4 <= MaxStack
  /\ OpenScope(Block("try", TRUE))
  /\ sp' = sp + 4
  /\ mem' = HandlerFrame(mem, sp + 4, head, fp, Code(depth + 1))
  /\ head' = sp + 4
  /\ Scratch
  /\ UNCHANGED <<fp, exception, exitcode, mode>>

\* The subject of a SELECT is pushed and stays until ENDSELECT.
OpenSelect ==
  /\ InStatements
  /\ sp + 1 <= MaxStack
  /\ OpenScope(Block("select", FALSE))
  /\ sp' = sp + 1
  /\ mem' = [mem EXCEPT ![sp + 1] = Data]
  /\ Scratch
  /\ UNCHANGED <<fp, head, exception, exitcode, mode>>

OpenLoop ==
  /\ InStatements
  /\ OpenScope(Block("loop", FALSE))
  /\ Scratch
  /\ UNCHANGED <<sp, fp, mem, head, exception, exitcode, mode>>

\* The word on top of the stack, taken for the prev word of a frame.
PrevOnTop == AddrAt(sp)

\* The end of a TRY body: head := (A7), the frame is popped, CATCH is skipped.
CloseTry ==
  /\ InStatements
  /\ scope[depth].kind = "try" /\ scope[depth].phase = "body"
  /\ CutTo(depth - 1)
  /\ head' = PrevOnTop
  /\ sp' = sp - 4
  /\ Drop(sp - 4)
  /\ Scratch
  /\ UNCHANGED <<fp, exception, exitcode, mode>>

CloseCatch ==
  /\ InStatements
  /\ scope[depth].kind = "try" /\ scope[depth].phase = "catch"
  /\ CutTo(depth - 1)
  /\ Scratch
  /\ UNCHANGED <<sp, fp, mem, head, exception, exitcode, mode>>

CloseSelectKeepsSubject ==
  /\ InStatements
  /\ scope[depth].kind = "select"
  /\ CutTo(depth - 1)
  /\ Scratch
  /\ UNCHANGED <<sp, fp, mem, head, exception, exitcode, mode>>

CloseSelect ==
  /\ InStatements
  /\ scope[depth].kind = "select"
  /\ CutTo(depth - 1)
  /\ sp' = sp - 1
  /\ Drop(sp - 1)
  /\ Scratch
  /\ UNCHANGED <<fp, head, exception, exitcode, mode>>

CloseLoop ==
  /\ InStatements
  /\ scope[depth].kind = "loop"
  /\ CutTo(depth - 1)
  /\ Scratch
  /\ UNCHANGED <<sp, fp, mem, head, exception, exitcode, mode>>

\* EXIT and CONT are a branch to a label of the innermost loop: no word is popped
\* and no handler unlinked.  Escapes says which constructs the program jumps out of.
MayJumpOut(i) == /\ scope[i].armed => "try" \in Escapes
                 /\ scope[i].kind = "select" => "select" \in Escapes

LeaveLoop(d) ==
  /\ InStatements
  /\ Loop > CurrentProc
  /\ d \in {Loop - 1, Loop}
  /\ \A i \in Loop + 1..depth : MayJumpOut(i)
  /\ CutTo(d)
  /\ Scratch
  /\ UNCHANGED <<sp, fp, mem, head, exception, exitcode, mode>>

-----------------------------------------------------------------------------
(* Procedures end.                                                         *)

\* The word prev of the current procedure's frame, at excOff(A5).
PrevOf(base) == AddrAt(base + 4)

\* An EXCEPT DO part entered with no exception sees none.
ClearException == exception' = 0

BodyEnds ==
  /\ mode = "run"
  /\ scope[depth].kind = "proc" /\ scope[depth].phase = "body"
  /\ IF scope[depth].auto
     THEN /\ ClearException
          /\ head' = PrevOf(fp)
          /\ scope' = [scope EXCEPT ![depth].phase = "except", ![depth].armed = FALSE]
     ELSE /\ scope' = [scope EXCEPT ![depth].phase = "rets"]
          /\ UNCHANGED <<exception, head>>
  /\ Scratch
  /\ UNCHANGED <<depth, sp, fp, mem, exitcode, mode>>

ExceptEnds ==
  /\ mode = "run"
  /\ scope[depth].kind = "proc" /\ scope[depth].phase = "except"
  /\ scope' = [scope EXCEPT ![depth].phase = "rets"]
  /\ Scratch
  /\ UNCHANGED <<depth, sp, fp, mem, head, exception, exitcode, mode>>

UnlinkNothing(p, multi) == UNCHANGED head /\ d1' = IF multi THEN "second" ELSE "other"

Unlink(p, multi) ==
  IF scope[p].handle
  THEN head' = PrevOf(fp) /\ d1' = "chain"
  ELSE UNCHANGED head /\ d1' = IF multi THEN "second" ELSE "other"

\* The epilogue label: a procedure with HANDLE puts prev in D1 and in the head;
\* unlk and rts take A7, A5 and the return address from memory; the caller pops
\* the arguments.  multi: two values are returned, the second of them in D1.
Epilogue(p, multi) ==
  /\ Unlink(p, multi)
  /\ IF At(fp - 1) = Code(p - 1)
     THEN /\ CutTo(p - 1)
          /\ sp' = fp - 2 - scope[p].args
          /\ Drop(fp - 2 - scope[p].args)
          /\ fp' = AddrAt(fp)
          /\ mode' = IF p = 1 THEN "exit" ELSE mode
     ELSE /\ mode' = "wild"
          /\ UNCHANGED <<depth, scope, sp, fp, mem>>
  /\ UNCHANGED <<exception, exitcode>>

\* RETURN: from anywhere in the statements of the procedure.
Return(multi) ==
  /\ InStatements
  /\ scope[CurrentProc].handle \/ \A i \in CurrentProc..depth : scope[i].armed => "try" \in Escapes
  /\ Epilogue(CurrentProc, multi)

\* ENDPROC, once its expressions are worked out.
EndProc(multi) ==
  /\ mode = "run"
  /\ scope[depth].phase = "rets"
  /\ Epilogue(depth, multi)

-----------------------------------------------------------------------------
(* Exceptions.                                                             *)

\* __raise with no handler: the value is the exit code, A7 is startup's.
Terminate(v) ==
  /\ CutTo(0)
  /\ sp' = 0
  /\ Drop(0)
  /\ exitcode' = v
  /\ mode' = "exit"
  /\ Scratch
  /\ UNCHANGED <<fp, head>>

\* What __raise finds in the frame at head.
FrameSp == AddrAt(head - 1)
FrameFp == AddrAt(head - 2)
FramePc == At(head - 3)

\* resume-pc leads into a construct the program is still in.
Resumable == /\ FramePc.k = "code" /\ FramePc.v \in 1..depth
             /\ scope[FramePc.v].kind \in {"try", "proc"}
             /\ FrameSp # Lost /\ FrameFp # Lost

\* A7 and A5 come from the frame, and the code at resume-pc unlinks it: CATCH
\* through (A7), and pops it; EXCEPT through excOff(A5).
Resume ==
  LET d == FramePc.v
      try == scope[d].kind = "try"
  IN /\ depth' = d
     /\ scope' = [i \in 1..MaxNest |->
          IF i > d THEN NoScope
          ELSE IF i = d THEN [scope[i] EXCEPT !.phase = IF try THEN "catch" ELSE "except",
                                              !.armed = FALSE]
          ELSE scope[i]]
     /\ fp' = FrameFp
     /\ IF try THEN head' = AddrAt(FrameSp) /\ sp' = FrameSp - 4 /\ Drop(FrameSp - 4)
               ELSE head' = PrevOf(FrameFp) /\ sp' = FrameSp /\ Drop(FrameSp)
     /\ Scratch
     /\ UNCHANGED <<exitcode, mode>>

DoRaise(v) ==
  /\ mode = "run"
  /\ exception' = v
  /\ IF head = 0 THEN Terminate(v)
     ELSE IF Resumable THEN Resume
     ELSE /\ mode' = "wild"
          /\ Scratch
          /\ UNCHANGED <<depth, scope, sp, fp, mem, head, exitcode>>

\* Raise(v) and Throw(v, info), in a statement or an expression.
Raise(v) == DoRaise(v)

\* ReThrow() does nothing when there is no exception.
ReThrow == exception # 0 /\ DoRaise(exception)

CleanUp(v) ==
  /\ mode = "run"
  /\ Terminate(v)
  /\ UNCHANGED exception

-----------------------------------------------------------------------------
Next ==
  \/ \E h, a \in BOOLEAN : \E n \in 0..MaxArgs : Call(h, a, n)
  \/ OpenTry \/ OpenSelect \/ OpenLoop
  \/ CloseTry \/ CloseCatch \/ CloseSelect \/ CloseLoop
  \/ \E d \in 0..MaxNest : LeaveLoop(d)
  \/ BodyEnds \/ ExceptEnds
  \/ \E multi \in BOOLEAN : Return(multi) \/ EndProc(multi)
  \/ \E v \in Values : Raise(v) \/ CleanUp(v)
  \/ ReThrow

Spec == Init /\ [][Next]_vars

-----------------------------------------------------------------------------
(* Invariants.                                                             *)

TypeOK ==
  /\ depth \in 0..MaxNest
  /\ scope \in [1..MaxNest -> Scope]
  /\ sp \in 0..MaxStack
  /\ fp \in 0..MaxStack
  /\ mem \in [1..MaxStack -> Word]
  /\ head \in 0..MaxStack
  /\ exception \in Values
  /\ exitcode \in Values
  /\ d1 \in {"second", "chain", "other"}
  /\ mode \in {"start", "run", "exit", "wild"}

\* The words an open construct has on the stack.
Width(c) ==
  CASE c.kind = "proc"   -> c.args + 2 + (IF c.handle THEN 4 ELSE 0)
    [] c.kind = "try"    -> IF c.phase = "body" THEN 4 ELSE 0
    [] c.kind = "select" -> 1
    [] c.kind = "loop"   -> 0

\* A7 is where the constructs the program is in put it: no construct that was
\* left has left words behind, and none was robbed of its own.
StackBalanced ==
  mode = "run" =>
    /\ scope[1].at = 0
    /\ \A i \in 1..depth - 1 : scope[i + 1].at = scope[i].at + Width(scope[i])
    /\ sp = scope[depth].at + Width(scope[depth])

\* The frame of the construct i, and the innermost armed construct up to i.
FrameOf(i) == scope[i].at + Width(scope[i])
ArmedUpTo(i) == Max0({j \in 1..i : scope[j].armed})
FrameOrNone(i) == IF i = 0 THEN 0 ELSE FrameOf(i)

\* The chain at 28(A4) is the armed constructs, innermost first, and each of
\* their frames says where to go on, with which A7 and A5.
ChainIsArmed ==
  mode = "run" =>
    /\ head = FrameOrNone(ArmedUpTo(depth))
    /\ \A i \in 1..depth : scope[i].armed =>
         LET f == FrameOf(i) IN
           /\ mem[f] = Addr(FrameOrNone(ArmedUpTo(i - 1)))
           /\ mem[f - 1] = Addr(f)
           /\ mem[f - 3] = Code(i)

\* The processor never goes on at a garbage address: neither rts nor __raise
\* finds a word that is not what was put there.
NeverWild == mode # "wild"

-----------------------------------------------------------------------------
(* The machine implements the language.                                    *)

NestOf == [i \in 1..depth |-> [kind |-> scope[i].kind, handle |-> scope[i].handle,
                               auto |-> scope[i].auto, phase |-> scope[i].phase,
                               armed |-> scope[i].armed]]

Language == INSTANCE UnwindSpec WITH nest <- NestOf

\* Every Raise, RETURN and CleanUp of the machine goes where the language says.
ImplementsUnwindSpec == Language!Spec
=============================================================================
