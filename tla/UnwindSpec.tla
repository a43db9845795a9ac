----------------------------- MODULE UnwindSpec -----------------------------
(***************************************************************************)
(* What E's exceptions mean to the programmer, with no stack, no registers *)
(* and no chain: a program is inside a nest of procedures, TRY blocks,     *)
(* SELECTs and loops; some of them are armed to catch.  Raise goes to the  *)
(* innermost armed one and nowhere else, and leaving a construct by any    *)
(* way out disarms it.                                                     *)
(***************************************************************************)
EXTENDS Integers, Sequences

CONSTANT Values         \* exception values and exit codes; 0 is no exception

VARIABLES
  nest,       \* the open constructs, outermost first
  exception,  \* the global variable `exception'
  exitcode,   \* what the program gives back to the system
  mode        \* "start", "run", "exit"

specVars == <<nest, exception, exitcode, mode>>

Top == nest[Len(nest)]

\* A procedure with HANDLE is armed until its EXCEPT part is entered, a TRY
\* block until its CATCH part is.  auto is EXCEPT DO.
Proc(h, a) == [kind |-> "proc", handle |-> h, auto |-> a, phase |-> "body", armed |-> h]
Try        == [kind |-> "try", handle |-> FALSE, auto |-> FALSE, phase |-> "body", armed |-> TRUE]
Plain(k)   == [kind |-> k, handle |-> FALSE, auto |-> FALSE, phase |-> "body", armed |-> FALSE]

\* The position of the innermost construct that satisfies P, 0 if none does.
Innermost(P(_)) ==
  LET S == {i \in 1..Len(nest) : P(nest[i])}
  IN  IF S = {} THEN 0 ELSE CHOOSE i \in S : \A j \in S : j <= i

CurrentProc == Innermost(LAMBDA c : c.kind = "proc")
Catcher     == Innermost(LAMBDA c : c.armed)
Loop        == Innermost(LAMBDA c : c.kind = "loop")

Cut(i) == SubSeq(nest, 1, i)

Init == nest = <<>> /\ exception = 0 /\ exitcode = 0 /\ mode = "start"

Call ==
  /\ mode \in {"start", "run"}
  /\ mode' = "run"
  /\ \E h, a \in BOOLEAN : nest' = Append(nest, Proc(h, a))
  /\ UNCHANGED <<exception, exitcode>>

Open ==
  /\ mode = "run"
  /\ nest' \in {Append(nest, c) : c \in {Try, Plain("select"), Plain("loop")}}
  /\ UNCHANGED <<exception, exitcode, mode>>

Close ==
  /\ mode = "run"
  /\ Top.kind # "proc"
  /\ nest' = Cut(Len(nest) - 1)
  /\ UNCHANGED <<exception, exitcode, mode>>

\* EXIT leaves the innermost loop of the procedure, CONT goes on with it.
LeaveLoop ==
  /\ mode = "run"
  /\ Loop > CurrentProc
  /\ nest' \in {Cut(Loop - 1), Cut(Loop)}
  /\ UNCHANGED <<exception, exitcode, mode>>

\* The body of a procedure ends: an EXCEPT DO part is entered with the exception
\* cleared, an EXCEPT part is passed over; then the return values are worked out.
BodyEnds ==
  /\ mode = "run"
  /\ Top.kind = "proc" /\ Top.phase = "body"
  /\ nest' = IF Top.auto
             THEN [nest EXCEPT ![Len(nest)].phase = "except", ![Len(nest)].armed = FALSE]
             ELSE [nest EXCEPT ![Len(nest)].phase = "rets"]
  /\ exception' = IF Top.auto THEN 0 ELSE exception
  /\ UNCHANGED <<exitcode, mode>>

ExceptEnds ==
  /\ mode = "run"
  /\ Top.kind = "proc" /\ Top.phase = "except"
  /\ nest' = [nest EXCEPT ![Len(nest)].phase = "rets"]
  /\ UNCHANGED <<exception, exitcode, mode>>

Return ==
  /\ mode = "run"
  /\ nest' = Cut(CurrentProc - 1)
  /\ mode' = IF CurrentProc = 1 THEN "exit" ELSE "run"
  /\ UNCHANGED <<exception, exitcode>>

Raise(v) ==
  /\ mode = "run"
  /\ exception' = v
  /\ IF Catcher = 0
     THEN /\ nest' = <<>>
          /\ exitcode' = v
          /\ mode' = "exit"
     ELSE /\ nest' = [Cut(Catcher) EXCEPT ![Catcher].phase =
                         IF nest[Catcher].kind = "try" THEN "catch" ELSE "except",
                                          ![Catcher].armed = FALSE]
          /\ UNCHANGED <<exitcode, mode>>

CleanUp(v) ==
  /\ mode = "run"
  /\ nest' = <<>>
  /\ exitcode' = v
  /\ mode' = "exit"
  /\ UNCHANGED exception

Next ==
  \/ Call \/ Open \/ Close \/ LeaveLoop \/ BodyEnds \/ ExceptEnds \/ Return
  \/ \E v \in Values : Raise(v) \/ CleanUp(v)

Spec == Init /\ [][Next]_specVars
=============================================================================
