------------------------------ MODULE Language ------------------------------
(***************************************************************************)
(* What E's expressions and statements mean, as the README (The E language) *)
(* and the programs of tools/diff-test.js with their comments have it, for  *)
(* Codegen's code to be measured by.  Trees are those of Codegen.           *)
(*                                                                          *)
(* The state s of a program: g and l, the values of the globals and of the  *)
(* running procedure's variables; mem; v, the value of the expression, and  *)
(* more, those that a procedure returned beside it; sig, what keeps the     *)
(* next statement from running: exit, cont, return or nothing; ok, FALSE as *)
(* soon as the program has done something without a meaning.                *)
(***************************************************************************)
EXTENDS Objects, Words, SequencesExt

Truth(b) == IF b THEN -1 ELSE 0

RECURSIVE Constant(_)
Constant(e) ==
  CASE e[1] = "Num" -> TRUE
    [] e[1] \in {"Paren", "Neg", "Not"} -> Constant(e[2])
    [] e[1] = "Bin" -> Constant(e[3]) /\ Constant(e[4])
    [] OTHER -> FALSE

\* * and / take their operands from half a long; but x*2 and x*4 are
\* additions, and what is constant is worked out by the compiler.
Half(n) == n = Word(n)

Computed(op, a, b) ==
  CASE op = "+" -> Long(a + b)
    [] op = "-" -> Long(a - b)
    [] op = "*" -> Long(a * b)
    [] op = "/" -> IF b = 0 THEN 0 ELSE Long(Quotient(a, b))
    [] op = "AND" -> AndBits(a, b)
    [] op = "OR" -> OrBits(a, b)
    [] op = "XOR" -> EorBits(a, b)
    [] op = "SHL" -> Lsl(a, b)
    [] op = "SHR" -> Asr(a, b)
    [] op = "=" -> Truth(a = b)
    [] op = "<>" -> Truth(a # b)
    [] op = "<" -> Truth(a < b)
    [] op = ">" -> Truth(a > b)
    [] op = "<=" -> Truth(a <= b)
    [] op = ">=" -> Truth(a >= b)

Doubling(e) == e[2] = "*" /\ e[4] \in {<<"Num", 2>>, <<"Num", 4>>}

\* Quotients beyond half a long, and shifts by less than nothing or more than
\* a long, have no meaning.
HasMeaning(op, a, b, constant) ==
  CASE op = "/" -> b # 0 /\ (constant \/ (Half(b) /\ Half(Quotient(a, b))))
    [] op \in {"SHL", "SHR"} -> b \in 0 .. Bits - 1 /\ (op = "SHL" \/ ~constant \/ a >= 0)
    [] OTHER -> TRUE

-----------------------------------------------------------------------------
(* Types: how wide a value in memory is, and whether it has a sign. *)

RECURSIVE TypeIn(_, _)

Pointee(t) == IF Base(t) = "PTR" THEN t[2][2] ELSE t[2]
MemberIn(e, p) == MemberOf(p.objects[Pointee(TypeIn(e[2], p))], e[3])

TypeIn(e, p) ==
  CASE e[1] = "Var" -> IF e[2] \in DOMAIN p.types THEN p.types[e[2]] ELSE <<"LONG">>
    [] e[1] = "Paren" -> TypeIn(e[2], p)
    [] e[1] = "Cast" -> e[3]
    [] e[1] = "Member" -> MemberIn(e, p).type
    [] e[1] = "Index" -> Indexed(TypeIn(e[2], p))
    [] OTHER -> <<"LONG">>

Width(t) == CASE Base(t) \in {"CHAR", "BYTE"} -> 1 [] Base(t) \in {"INT", "WORD"} -> 2 [] OTHER -> 4
HasSign(t) == Base(t) \notin {"CHAR", "WORD"}
SizeOf(t, p) == IF Base(t) = "OBJECT" THEN p.objects[t[2]].size ELSE Width(t)

\* What a pointer moves by.
StepOf(t, p) ==
  CASE Base(t) = "PTR" -> SizeOf(t[2], p)
    [] Base(t) \in {"ARRAY", "LIST"} -> SizeOf(Indexed(t), p)
    [] OTHER -> 1

-----------------------------------------------------------------------------
(* Variables *)

Is(s, v) == [s EXCEPT !.v = v]
Read(s, name) == IF name \in DOMAIN s.l THEN s.l[name] ELSE s.g[name]
Write(s, name, v) ==
  IF name \in DOMAIN s.l THEN [s EXCEPT !.l[name] = v] ELSE [s EXCEPT !.g[name] = v]

-----------------------------------------------------------------------------
(* The definitions that need each other *)

RECURSIVE Meant(_, _, _, _)

Value(e, s, p) == Meant("Value", e, s, p)
Address(e, s, p) == Meant("Address", e, s, p)
Quicks(x, items, s, p) == Meant("Quicks", <<x, items>>, s, p)
Unified(list, items, s, p) == Meant("Unified", <<list, items>>, s, p)
Execute(x, s, p) == Meant("Execute", x, s, p)
Turn(loop, s, p) == Meant("Turn", loop, s, p)
Branches(branches, otherwise, s, p) == Meant("Branches", <<branches, otherwise>>, s, p)
Cases(x, cases, default, s, p) == Meant("Cases", <<x, cases, default>>, s, p)
Called(name, args, s, p) == Meant("Called", <<name, args>>, s, p)

\* The values of several expressions, from left to right: t.vs.
Values(es, s, p) ==
  FoldLeft(LAMBDA r, e : LET t == Value(e, r.s, p) IN [s |-> t, vs |-> Append(r.vs, t.v)],
           [s |-> s, vs |-> << >>], es)

\* s.v is assigned; it stays the value.
Assigned(target, s, p) ==
  IF target[1] = "Var" THEN Write(s, target[2], s.v)
  ELSE LET t == Address(target, s, p)
       IN [t EXCEPT !.mem = Store(t.mem, t.v, Width(TypeIn(target, p)), s.v), !.v = s.v]

Stored(target, v, s, p) == Assigned(target, Is(s, v), p)

\* Where a member, an element or what is pointed to lies.
DoAddress(e, s, p) ==
  CASE e[1] = "Member" -> LET t == Value(e[2], s, p) IN Is(t, t.v + MemberIn(e, p).offset)
    [] e[1] = "Index" ->
         LET both == Values(<<e[2], e[3]>>, s, p)
         IN Is(both.s, both.vs[1] + both.vs[2] * SizeOf(TypeIn(e, p), p))
    [] e[1] = "Deref" -> Is(s, Read(s, e[2]))

Fetched(e, s, p) ==
  LET t == Address(e, s, p)
      type == TypeIn(e, p)
  IN IF Embedded(type) THEN t ELSE Is(t, Load(t.mem, t.v, Width(type), HasSign(type)))

-----------------------------------------------------------------------------
(* Expressions *)

Binary(e, s, p) ==
  LET both == Values(<<e[3], e[4]>>, s, p)
      a == both.vs[1]
      b == both.vs[2]
      halves == e[2] = "*" /\ ~Constant(e) /\ ~Doubling(e)
  IN [both.s EXCEPT !.v = IF halves THEN Word(a) * Word(b) ELSE Computed(e[2], a, b),
                    !.ok = @ /\ HasMeaning(e[2], a, b, Constant(e))]

\* x == [a, b TO c]: the items up to the first that fits.
DoQuicks(x, items, s, p) ==
  IF items = << >> THEN Is(s, 0)
  ELSE LET low == Value(items[1][1], s, p)
           high == Value(items[1][2], low, p)
       IN IF Len(items[1]) = 1
          THEN IF x = low.v THEN Is(low, -1) ELSE Quicks(x, Tail(items), low, p)
          ELSE IF x < low.v THEN Quicks(x, Tail(items), low, p)
          ELSE IF x <= high.v THEN Is(high, -1) ELSE Quicks(x, Tail(items), high, p)

\* list <=> [pattern]: variables bind, constants must be equal, up to the
\* first that is not.
DoUnified(list, items, s, p) ==
  LET Element(t, i) ==
        LET v == Load(t.mem, list + 4 * (i - 1), 4, TRUE)
        IN IF t.v = 0 THEN t
           ELSE CASE items[i][1] = "Var" -> Write(t, items[i][2], v)
                  [] items[i][1] = "List" -> Unified(v, items[i][4], t, p)
                  [] OTHER -> Is(t, Truth(v = items[i][2]))
  IN IF Load(s.mem, list - 2, 2, TRUE) # Len(items) THEN Is(s, 0)
     ELSE FoldLeft(Element, Is(s, -1), [i \in DOMAIN items |-> i])

\* A list is filled when it is evaluated, one item after the other, and is
\* always the same memory.
Filled(e, s, p) ==
  LET object == Base(e[2]) = "OBJECT"
      Slot(i) == IF object THEN p.objects[e[2][2]].members[i].offset ELSE (i - 1) * Width(e[2])
      Size(i) == IF object THEN Width(p.objects[e[2][2]].members[i].type) ELSE Width(e[2])
      Item(t, i) == LET u == Value(e[4][i], t, p)
                    IN [u EXCEPT !.mem = Store(u.mem, e[3] + Slot(i), Size(i), u.v)]
  IN Is(FoldLeft(Item, s, [i \in DOMAIN e[4] |-> i]), e[3])

\* x++ is the old value, x-- the new one; of a[i]++ it is a that moves.
Stepped(e, s, p) ==
  LET variable == IF e[2][1] = "Index" THEN e[2][2] ELSE e[2]
      step == StepOf(TypeIn(variable, p), p)
      Moved(t, by) == Write(t, variable[2], Long(Read(t, variable[2]) + by))
      before == IF e[1] = "PostDec" THEN Moved(s, -step) ELSE s
      value == Value(e[2], before, p)
  IN IF e[1] = "PostInc" THEN Moved(value, step) ELSE value

\* Built-in functions of values alone
Function(name, a) ==
  CASE name \in {"Shl", "Lsl"} -> Lsl(a[1], a[2])
    [] name = "Lsr" -> Lsr(a[1], a[2])
    [] name = "Shr" -> Asr(a[1], a[2])
    [] name = "Eor" -> EorBits(a[1], a[2])
    [] name = "And" -> AndBits(a[1], a[2])
    [] name = "Or" -> OrBits(a[1], a[2])
    [] name = "Mod" -> IF a[2] = 0 THEN 0 ELSE a[1] - a[2] * Quotient(a[1], a[2])
    [] name = "Mul" -> Long(a[1] * a[2])
    [] name = "Min" -> IF a[1] < a[2] THEN a[1] ELSE a[2]
    [] name = "Max" -> IF a[1] > a[2] THEN a[1] ELSE a[2]
    [] name = "Compare" -> IF a[1] < a[2] THEN -1 ELSE IF a[1] = a[2] THEN 0 ELSE 1
    [] name = "Sign" -> IF a[1] < 0 THEN -1 ELSE IF a[1] = 0 THEN 0 ELSE 1
    [] name = "Abs" -> Long(Abs(a[1]))
    [] name = "Even" -> Truth(a[1] % 2 = 0)
    [] name = "Odd" -> Truth(a[1] % 2 = 1)
    [] name = "Not" -> -1 - a[1]
    [] name = "Bounds" -> LET least == IF a[1] < a[2] THEN a[2] ELSE a[1]
                          IN IF least > a[3] THEN a[3] ELSE least

FunctionHasMeaning(name, a) ==
  CASE name \in {"Shl", "Shr", "Lsl", "Lsr"} -> a[2] \in 0 .. Bits - 1
    [] name = "Mod" -> a[2] # 0 /\ Half(a[2]) /\ Half(Quotient(a[1], a[2]))
    [] OTHER -> TRUE

Peeked(name, t) ==
  CASE name = "Long" -> Load(t.mem, t.v, 4, TRUE)
    [] name = "Int" -> Load(t.mem, t.v, 2, TRUE)
    [] name = "Char" -> Load(t.mem, t.v, 1, FALSE)
    [] name = "Byte" -> Load(t.mem, t.v, 1, TRUE)
    [] name = "Word" -> Load(t.mem, t.v, 2, FALSE)
    [] name = "ListLen" -> Load(t.mem, t.v - 2, 2, TRUE)

PokeWidth == [n \in {"PutByte", "PutChar", "PutInt", "PutWord", "PutLong"} |->
                IF n \in {"PutByte", "PutChar"} THEN 1 ELSE IF n = "PutLong" THEN 4 ELSE 2]

BuiltIn(name, args, s, p) ==
  LET given == Values(args, s, p)
      t == given.s
  IN CASE name = "Eval" -> Value(t.v, t, p)
       [] name \in DOMAIN PokeWidth -> [t EXCEPT !.mem = Store(t.mem, given.vs[1], PokeWidth[name], t.v)]
       [] name \in {"Long", "Int", "Char", "Byte", "Word", "ListLen"} -> Is(t, Peeked(name, t))
       [] OTHER -> [t EXCEPT !.v = Function(name, given.vs), !.ok = @ /\ FunctionHasMeaning(name, given.vs)]

DoValue(e, s, p) ==
  CASE e[1] = "Num" -> Is(s, e[2])
    [] e[1] = "Var" -> Is(s, Read(s, e[2]))
    [] e[1] \in {"Paren", "Cast"} -> Value(e[2], s, p)
    [] e[1] = "Neg" -> LET t == Value(e[2], s, p) IN Is(t, Long(-t.v))
    [] e[1] = "Not" -> LET t == Value(e[2], s, p) IN Is(t, -1 - t.v)
    [] e[1] = "Bin" /\ e[2] # "<=>" -> Binary(e, s, p)
    [] e[1] = "Bin" /\ e[2] = "<=>" -> LET t == Value(e[3], s, p) IN Unified(t.v, e[4][4], t, p)
    [] e[1] = "Quick" -> LET t == Value(e[2], s, p) IN Quicks(t.v, e[3], t, p)
    [] e[1] = "AndAlso" ->
         LET t == Value(e[2], s, p)
             u == Value(e[3], t, p)
         IN IF t.v = 0 THEN t ELSE Is(u, Truth(u.v # 0))
    [] e[1] = "OrElse" ->
         LET t == Value(e[2], s, p)
             u == Value(e[3], t, p)
         IN IF t.v # 0 THEN Is(t, -1) ELSE Is(u, Truth(u.v # 0))
    [] e[1] = "AssignExp" -> Assigned(e[2], Value(e[3], s, p), p)
    [] e[1] = "Ternary" ->
         LET t == Value(e[2], s, p) IN IF t.v # 0 THEN Value(e[3], t, p) ELSE Value(e[4], t, p)
    [] e[1] = "But" -> Value(e[3], Value(e[2], s, p), p)
    [] e[1] \in {"Member", "Index", "Deref"} -> Fetched(e, s, p)
    [] e[1] \in {"PostInc", "PostDec"} -> Stepped(e, s, p)
    [] e[1] = "Call" -> IF e[2] \in DOMAIN p.procs THEN Called(e[2], e[3], s, p)
                        ELSE BuiltIn(e[2], e[3], s, p)
    [] e[1] = "Method" ->
         LET RECURSIVE Method(_)
             Method(o) == IF <<o, e[3]>> \in DOMAIN p.methods THEN p.methods[<<o, e[3]>>] ELSE Method(p.parents[o])
         IN Called(Method(Pointee(TypeIn(e[2], p))), <<e[2]>> \o e[4], s, p)
    [] e[1] = "List" -> Filled(e, s, p)
    [] e[1] = "Quote" -> Is(s, e[2])

-----------------------------------------------------------------------------
(* Statements *)

Body(ss, s, p) == FoldLeft(LAMBDA t, x : IF t.sig = "" THEN Execute(x, t, p) ELSE t, s, ss)

\* After a loop's body: EXIT ends the loop, CONT the turn.
Caught(signal, s) == IF s.sig = signal THEN [s EXCEPT !.sig = ""] ELSE s
Taken(branch, t) == (t.v # 0) # branch[1]

\* The first branch that is true, or the statements otherwise: s, the state
\* afterwards, and found, whether there was one.
DoBranches(branches, otherwise, s, p) ==
  IF branches = << >> THEN [s |-> Body(otherwise, s, p), found |-> FALSE]
  ELSE LET t == Value(branches[1][2], s, p)
       IN IF Taken(branches[1], t) THEN [s |-> Body(branches[1][3], t, p), found |-> TRUE]
          ELSE Branches(Tail(branches), otherwise, t, p)

\* The turns of a loop, for as long as none ends it.
DoTurn(loop, s, p) ==
  LET After(t, next) == IF t.sig = "" THEN Turn(loop, next, p) ELSE t
  IN CASE loop[1] = "While" ->
            LET t == Branches(loop[2], << >>, s, p)
                u == Caught("cont", t.s)
                always == IF loop[3] = << >> \/ u.sig # "" THEN u ELSE Body(loop[3][1], u, p)
                end == Caught("cont", always)
            IN IF ~t.found THEN t.s ELSE After(end, end)
       [] loop[1] = "Repeat" ->
            LET t == Body(loop[2], s, p)
                c == Value(loop[4], t, p)
            IN IF t.sig # "" THEN t
               ELSE IF (c.v # 0) # loop[3] THEN c ELSE Turn(loop, c, p)
       [] loop[1] = "Loop" ->
            LET t == Caught("cont", Body(loop[2], s, p)) IN After(t, t)
       [] loop[1] = "For" ->
            LET limit == Value(loop[4], s, p)
                i == Read(limit, loop[2])
                t == Caught("cont", Body(loop[6], limit, p))
            IN IF IF loop[5] > 0 THEN i > limit.v ELSE i < limit.v THEN limit
               ELSE After(t, Write(t, loop[2], Long(Read(t, loop[2]) + loop[5])))

Looped(loop, s, p) == Caught("exit", Turn(loop, s, p))

\* The first case that the subject is among.
DoCases(x, cases, default, s, p) ==
  IF cases = << >> THEN Body(default, s, p)
  ELSE LET t == Quicks(x, cases[1][1], s, p)
       IN IF t.v # 0 THEN Body(cases[1][2], t, p) ELSE Cases(x, Tail(cases), default, t, p)

Returned(es, s, p) ==
  LET r == Values(es, s, p)
  IN IF es = << >> THEN [Is(s, 0) EXCEPT !.more = << >>]
     ELSE [Is(r.s, r.vs[1]) EXCEPT !.more = Tail(r.vs)]

\* A procedure has its arguments, those left out by default, and its locals.
DoCalled(name, args, s, p) ==
  LET proc == p.procs[name]
      default == [i \in DOMAIN proc.args |->
                    IF proc.args[i].init = << >> THEN <<"Num", 0>> ELSE proc.args[i].init[1]]
      passed == Values([i \in DOMAIN proc.args |-> IF i \in DOMAIN args THEN args[i] ELSE default[i]], s, p)
      argNames == {proc.args[i].name : i \in DOMAIN proc.args}
      inside == [n \in argNames \cup Range(proc.locals) |->
                   IF n \in argNames THEN passed.vs[CHOOSE i \in DOMAIN proc.args : proc.args[i].name = n]
                   ELSE 0]
      t == Body(proc.body, [passed.s EXCEPT !.l = inside], p)
      u == IF t.sig = "return" THEN t ELSE Returned(proc.returns, t, p)
  IN [u EXCEPT !.l = s.l, !.sig = ""]

DoExecute(x, s, p) ==
  CASE x[1] = "ExprStat" -> Value(x[2], s, p)
    [] x[1] = "Def" ->
         FoldLeft(LAMBDA t, v : IF v[2] = << >> THEN t ELSE Assigned(<<"Var", v[1]>>, Value(v[2][1], t, p), p), s, x[2])
    [] x[1] = "Assign" -> Assigned(x[2], Value(x[3], s, p), p)
    [] x[1] = "MultiAssign" ->
         LET t == Value(x[3], s, p)
             vs == <<t.v>> \o t.more
         IN FoldLeft(LAMBDA u, i : Write(u, x[2][i], vs[i]), t, [i \in DOMAIN x[2] |-> i])
    [] x[1] = "Swap" ->
         LET both == Values(<<x[2], x[3]>>, s, p)
         IN Stored(x[3], both.vs[1], Stored(x[2], both.vs[2], both.s, p), p)
    [] x[1] \in {"Inc", "Dec"} ->
         LET t == Value(x[2], s, p)
         IN Stored(x[2], Long(t.v + (IF x[1] = "Inc" THEN 1 ELSE -1)), t, p)
    [] x[1] = "Return" -> [Returned(x[2], s, p) EXCEPT !.sig = "return"]
    [] x[1] = "If" -> Branches(x[2], x[3], s, p).s
    [] x[1] \in {"While", "Repeat", "Loop"} -> Looped(x, s, p)
    [] x[1] = "For" -> LET t == Value(x[3], s, p) IN Looped(x, Write(t, x[2], t.v), p)
    [] x[1] = "Select" -> LET t == Value(x[2], s, p) IN Cases(t.v, x[3], x[4], t, p)
    [] x[1] \in {"Exit", "Cont"} ->
         LET t == IF x[3] = << >> THEN s ELSE Value(x[3], s, p)
         IN IF x[3] = << >> \/ (t.v # 0) # x[2] THEN [t EXCEPT !.sig = IF x[1] = "Exit" THEN "exit" ELSE "cont"] ELSE t

Meant(what, e, s, p) ==
  CASE what = "Value" -> DoValue(e, s, p)
    [] what = "Address" -> DoAddress(e, s, p)
    [] what = "Quicks" -> DoQuicks(e[1], e[2], s, p)
    [] what = "Unified" -> DoUnified(e[1], e[2], s, p)
    [] what = "Execute" -> DoExecute(e, s, p)
    [] what = "Turn" -> DoTurn(e, s, p)
    [] what = "Branches" -> DoBranches(e[1], e[2], s, p)
    [] what = "Cases" -> DoCases(e[1], e[2], e[3], s, p)
    [] what = "Called" -> DoCalled(e[1], e[2], s, p)

\* The program from its first globals and memory to its end.
Meaning(p, globals, mem) ==
  Called("main", << >>,
         [g |-> globals, l |-> << >>, mem |-> mem, v |-> 0, more |-> << >>, sig |-> "", ok |-> TRUE], p)
=============================================================================
