------------------------------ MODULE Codegen ------------------------------
(***************************************************************************)
(* What codegen.js makes of expressions, statements and procedures: code    *)
(* for Machine.  A tree is a tuple that begins with its kind of node.       *)
(*                                                                          *)
(* The generator is passed along as a record g: code, the instructions so   *)
(* far; disp, the displacement that the last address came with; quotes, the *)
(* quoted expressions still to be compiled; failed, whether an error has    *)
(* been found.  The context x is emitProc's ctx with what it takes from the *)
(* program: args, locals, types, epilogue, the targets ends and conts of    *)
(* EXIT and CONT, and procs and objects.                                    *)
(*                                                                          *)
(* uniq makes a label of the place where it is needed, which no other label *)
(* of its kind has.                                                         *)
(***************************************************************************)
EXTENDS Objects, Words, SequencesExt

Emit(g, instructions) == [g EXCEPT !.code = @ \o instructions]
Uniq(g) == Len(g.code)
Push == <<"push">>

-----------------------------------------------------------------------------
(* Constants: foldConst gives << >> or a sequence of the one value.  It     *)
(* works with 32-bit operators of JavaScript, whose >>> shifts in zeros.    *)

RECURSIVE Fold(_)

FoldTwo(op, a, b) ==
  CASE op = "+" -> <<Long(a + b)>>
    [] op = "-" -> <<Long(a - b)>>
    [] op = "*" -> <<Long(a * b)>>
    [] op = "/" -> IF b = 0 THEN << >> ELSE <<Long(Quotient(a, b))>>
    [] op = "AND" -> <<AndBits(a, b)>>
    [] op = "OR" -> <<OrBits(a, b)>>
    [] op = "XOR" -> <<EorBits(a, b)>>
    [] op = "SHL" -> <<Lsl(a, b % Bits)>>
    [] op = "SHR" -> <<Unsigned(a) \div 2^(b % Bits)>>
    [] op = "=" -> <<IF a = b THEN -1 ELSE 0>>
    [] op = "<>" -> <<IF a # b THEN -1 ELSE 0>>
    [] op = "<" -> <<IF a < b THEN -1 ELSE 0>>
    [] op = ">" -> <<IF a > b THEN -1 ELSE 0>>
    [] op = "<=" -> <<IF a <= b THEN -1 ELSE 0>>
    [] op = ">=" -> <<IF a >= b THEN -1 ELSE 0>>
    [] OTHER -> << >>

Fold(e) ==
  CASE e[1] = "Num" -> <<e[2]>>
    [] e[1] = "Paren" -> Fold(e[2])
    [] e[1] \in {"Neg", "Not"} ->
         LET v == Fold(e[2])
         IN IF v = << >> THEN v ELSE IF e[1] = "Neg" THEN <<Long(-v[1])>> ELSE <<-v[1] - 1>>
    [] e[1] = "Bin" ->
         LET l == Fold(e[3])
             r == Fold(e[4])
         IN IF l = << >> \/ r = << >> THEN << >> ELSE FoldTwo(e[2], l[1], r[1])
    [] OTHER -> << >>

-----------------------------------------------------------------------------
(* Types and places *)

TypeOfVar(name, x) == IF name \in DOMAIN x.types THEN x.types[name] ELSE <<"none">>

RECURSIVE TypeOf(_, _)

\* The object that a member is looked up in.
ObjectOf(t, x) == x.objects[IF Base(t) = "PTR" THEN t[2][2] ELSE t[2]]

TypeOf(e, x) ==
  CASE e[1] = "Var" -> TypeOfVar(e[2], x)
    [] e[1] = "Paren" -> TypeOf(e[2], x)
    [] e[1] = "Cast" -> e[3]
    [] e[1] = "Member" -> MemberOf(ObjectOf(TypeOf(e[2], x), x), e[3]).type
    [] e[1] = "Index" -> Indexed(TypeOf(e[2], x))
    [] OTHER -> <<"none">>

MemberInfo(e, x) == MemberOf(ObjectOf(TypeOf(e[2], x), x), e[3])

\* accessSize; 0 is the address itself.
AccessSize(e, x) ==
  CASE e[1] = "Member" -> MemberInfo(e, x).width
    [] e[1] = "Index" -> (CASE Base(TypeOf(e, x)) \in {"CHAR", "BYTE"} -> 1
                            [] Base(TypeOf(e, x)) \in {"INT", "WORD"} -> 2
                            [] OTHER -> 4)
    [] OTHER -> 4

\* accessSigned, and loadFrom's default where the type does not say.
AccessSigned(e, x) ==
  CASE Base(TypeOf(e, x)) \in {"CHAR", "WORD"} -> FALSE
    [] Base(TypeOf(e, x)) \in {"BYTE", "INT"} -> TRUE
    [] OTHER -> AccessSize(e, x) = 2

\* ptrDelta and elemSize: what ++ and -- add.
PtrDelta(t, x) ==
  CASE Base(t) = "PTR" /\ Base(t[2]) = "OBJECT" -> x.objects[t[2][2]].size
    [] Base(t) \in {"PTR", "ARRAY"} -> TypeSize(t[2])
    [] Base(t) = "LIST" -> 4
    [] OTHER -> 1

\* The arguments are pushed from left to right; the last one is just above A5
\* and the return address.
ArgDisp(args, i) == 2 + Len(args) - i

IndexIn(seq, member) == CHOOSE i \in DOMAIN seq : seq[i] = member

\* varRef: locals, then arguments, then globals.
VarRef(name, x) ==
  IF name \in Range(x.locals) THEN <<"frame", -IndexIn(x.locals, name)>>
  ELSE IF name \in Range(x.args) THEN <<"frame", ArgDisp(x.args, IndexIn(x.args, name))>>
  ELSE <<"glob", name>>

LoadVar(name, x, g) == Emit(g, <<<<"get", VarRef(name, x)>>>>)
StoreVar(name, x, g) == Emit(g, <<<<"put", VarRef(name, x)>>>>)

LoadFrom(size, signed, g) == Emit(g, <<<<"load", g.disp, size, signed, 0>>>>)
StoreTo(size, g) == Emit(g, <<<<"store", g.disp, size>>>>)

-----------------------------------------------------------------------------
(* The methods that call each other *)

RECURSIVE Gen(_, _, _, _)

Exp(e, x, g) == Gen("Exp", e, x, g)
Exps(es, x, g) == Gen("Exps", es, x, g)          \* each is pushed
AddressOf(e, x, g) == Gen("AddressOf", e, x, g)
Unify(items, x, g) == Gen("Unify", items, x, g)
Stat(s, x, g) == Gen("Stat", s, x, g)
Stats(ss, x, g) == Gen("Stats", ss, x, g)
Quick(items, x, g) == Gen("Quick", items, x, g)
Matches(matches, x, g) == Gen("Matches", matches, x, g)
Procedure(name, source, g) == Gen("Proc", name, source, g)

GenExps(es, x, g) == IF es = << >> THEN g ELSE Exps(Tail(es), x, Emit(Exp(Head(es), x, g), <<Push>>))

\* Both operands: the left one in D0, the right one in D1.
Operands(l, r, x, g) ==
  Emit(Exp(r, x, Emit(Exp(l, x, g), <<Push>>)), <<<<"move", 0, 1>>, <<"pop", 0>>>>)

Comparisons == [o \in {"=", "<>", "<", ">", "<=", ">="} |->
  CASE o = "=" -> "eq" [] o = "<>" -> "ne" [] o = "<" -> "lt"
    [] o = ">" -> "gt" [] o = "<=" -> "le" [] o = ">=" -> "ge"]

Operations == [o \in {"+", "-", "*", "/", "AND", "OR", "XOR", "SHL", "SHR"} |->
  CASE o = "+" -> "add" [] o = "-" -> "sub" [] o = "*" -> "muls" [] o = "/" -> "divs"
    [] o = "AND" -> "and" [] o = "OR" -> "or" [] o = "XOR" -> "eor"
    [] o = "SHL" -> "asl" [] o = "SHR" -> "asr"]

\* genUnify: the pattern is compared with the list in D0.
GenUnify(e, x, g) ==
  LET l == Exp(e[3], x, g)
      u == Uniq(l)
      matched == Unify(e[4][4], [x EXCEPT !.fail = <<"ufail", u>>], l)
  IN Emit(matched, <<<<"moveq", -1, 0>>, <<"bra", <<"uend", u>>>>, <<"label", <<"ufail", u>>>>,
                     <<"moveq", 0, 0>>, <<"label", <<"uend", u>>>>>>)

\* A constant that half a long cannot hold is an error beside * and /.
Unsafe(e) ==
  e[2] \in {"*", "/"} /\ \E c \in Range(Fold(e[3]) \o Fold(e[4])) : c # Word(c)

\* fchain in integer mode.  Constants are folded; * 2 and * 4 are additions.
Chain(e, x, g) ==
  LET folded == Fold(e)
      times == Fold(e[4])
  IN IF folded # << >> THEN Emit(g, <<<<"moveq", folded[1], 0>>>>)
     ELSE IF e[2] = "<=>" THEN GenUnify(e, x, g)
     ELSE IF e[2] = "*" /\ times \in {<<2>>, <<4>>}
     THEN Emit(Exp(e[3], x, g),
               [i \in 1 .. (times[1] \div 2) |-> <<"op", "add", 0, 0>>])
     ELSE LET both == Operands(e[3], e[4], x, IF Unsafe(e) THEN [g EXCEPT !.failed = TRUE] ELSE g)
          IN IF e[2] \in DOMAIN Operations
             THEN Emit(both, <<<<"op", Operations[e[2]], 1, 0>>>>)
             ELSE Emit(both, <<<<"cmp", 1, 0>>, <<"scc", Comparisons[e[2]]>>>>)

\* unifyPattern: the list lies on the stack while its elements are looked at.
\* << >> as an element's tree is not a pattern.
UnifyItem(item, i, x, g, failPop) ==
  LET value == Emit(g, <<<<"peek", 1>>, <<"toA", 1>>, <<"load", 4 * (i - 1), 4, TRUE, 0>>>>)
  IN CASE item[1] = "Var" -> StoreVar(item[2], x, value)
       [] item[1] = "List" -> Unify(item[4], [x EXCEPT !.fail = failPop], value)
       [] OTHER -> Emit(value, <<<<"moveq", Fold(item)[1], 1>>, <<"cmp", 1, 0>>,
                                <<"bcc", "ne", failPop>>>>)

GenUnifyPattern(items, x, g) ==
  LET u == Uniq(g)
      failPop == <<"ufp", u>>
      start == Emit(g, <<Push, <<"toA", 0>>, <<"load", -2, 2, TRUE, 1>>, <<"moveq", Len(items), 0>>,
                         <<"cmp", 0, 1>>, <<"bcc", "ne", failPop>>>>)
      all == FoldLeft(LAMBDA h, i : UnifyItem(items[i], i, x, h, failPop), start,
                      [i \in DOMAIN items |-> i])
  IN Emit(all, <<<<"drop", 1>>, <<"bra", <<"ucont", u>>>>, <<"label", failPop>>, <<"drop", 1>>,
                  <<"bra", x.fail>>, <<"label", <<"ucont", u>>>>>>)

-----------------------------------------------------------------------------
(* Addresses and assignments *)

\* addressOf
GenAddressOf(e, x, g) ==
  CASE e[1] = "Member" ->
         [Emit(Exp(e[2], x, g), <<<<"toA", 0>>>>) EXCEPT !.disp = MemberInfo(e, x).offset]
    [] e[1] = "Deref" -> [Emit(LoadVar(e[2], x, g), <<<<"toA", 0>>>>) EXCEPT !.disp = 0]
    [] e[1] = "Index" ->
         LET size == Stride(TypeOf(e[2], x), x.objects)
             object == Exp(e[2], x, g)
             constant == Fold(e[3])
             index == Exp(e[3], x, Emit(object, <<Push>>))
             scaled == CASE size = 1 -> index
                         [] size = 2 -> Emit(index, <<<<"op", "add", 0, 0>>>>)
                         [] size = 4 -> Emit(index, <<<<"op", "add", 0, 0>>, <<"op", "add", 0, 0>>>>)
                         [] OTHER -> Emit(index, <<<<"moveq", size, 1>>, <<"op", "muls", 1, 0>>>>)
         IN IF constant # << >>
            THEN [Emit(object, <<<<"toA", 0>>>>) EXCEPT !.disp = constant[1] * size]
            ELSE [Emit(scaled, <<<<"popA">>, <<"leaD">>>>) EXCEPT !.disp = 0]

\* assignInD0
AssignInD0(target, x, g) ==
  IF target[1] = "Var" THEN StoreVar(target[2], x, g)
  ELSE LET address == AddressOf(target, x, Emit(g, <<Push>>))
       IN StoreTo(AccessSize(target, x), Emit(address, <<<<"pop", 0>>>>))

\* Member and Index as values
MemoryValue(e, x, g) ==
  LET address == AddressOf(e, x, g)
  IN IF AccessSize(e, x) = 0
     THEN Emit(address, <<<<"leaA", address.disp>>, <<"fromA">>>>)
     ELSE LoadFrom(AccessSize(e, x), AccessSigned(e, x), address)

\* x++ and x--: the variable moves, whatever is indexed by it.  addq and subq
\* leave D0 alone, a longer way is saved around.
Bump(place, delta) ==
  IF Abs(delta) <= 8 THEN <<<<"addTo", delta, place>>>>
  ELSE <<<<"get", place>>, <<"move", 0, 1>>, <<"moveq", delta, 0>>, <<"op", "add", 1, 0>>,
         <<"put", place>>>>

\* Mutant: the way that uses D0 is not saved around.
BumpAfterBare(place, delta) == Bump(place, delta)

BumpAfter(place, delta) ==
  IF delta <= 8 THEN Bump(place, delta) ELSE <<Push>> \o Bump(place, delta) \o <<<<"pop", 0>>>>

PostStep(e, x, g) ==
  LET indexed == e[2][1] = "Index"
      variable == IF indexed THEN e[2][2] ELSE e[2]
      place == VarRef(variable[2], x)
      delta == IF indexed THEN ElemSize(TypeOf(e[2], x), x.objects)
               ELSE PtrDelta(TypeOf(variable, x), x)
      moved == IF e[1] = "PostDec" THEN Emit(g, Bump(place, -delta)) ELSE g
      address == AddressOf(e[2], x, moved)
      value == IF indexed THEN LoadFrom(AccessSize(e[2], x), AccessSize(e[2], x) = 2, address)
               ELSE Emit(moved, <<<<"get", place>>>>)
  IN IF e[1] = "PostInc" THEN Emit(value, BumpAfter(place, delta)) ELSE value

-----------------------------------------------------------------------------
(* Calls *)

TwoOperands == [n \in {"Shl", "Shr", "Lsl", "Lsr", "Eor", "And", "Or", "Mod"} |->
  CASE n = "Shl" -> "asl" [] n = "Shr" -> "asr" [] n = "Lsl" -> "asl" [] n = "Lsr" -> "lsr"
    [] n = "Eor" -> "eor" [] n = "And" -> "and" [] n = "Or" -> "or" [] n = "Mod" -> "rems"]

\* Built-in functions of two operands that are compiled in place
Builtin2(name, u) ==
  CASE name \in DOMAIN TwoOperands -> <<<<"op", TwoOperands[name], 1, 0>>>>
    [] name = "Mul" -> <<<<"mul32">>>>
    [] name \in {"Min", "Max"} ->
         <<<<"cmp", 1, 0>>, <<"bcc", IF name = "Min" THEN "le" ELSE "ge", <<"mm", u>>>>,
           <<"move", 1, 0>>, <<"label", <<"mm", u>>>>>>
    [] name = "Compare" ->
         <<<<"cmp", 1, 0>>, <<"bcc", "eq", <<"cmpeq", u>>>>, <<"bcc", "gt", <<"cmpgt", u>>>>,
           <<"moveq", -1, 0>>, <<"bra", <<"cmpend", u>>>>,
           <<"label", <<"cmpgt", u>>>>, <<"moveq", 1, 0>>, <<"bra", <<"cmpend", u>>>>,
           <<"label", <<"cmpeq", u>>>>, <<"moveq", 0, 0>>, <<"label", <<"cmpend", u>>>>>>

\* of one
Builtin1(name, u) ==
  CASE name = "Sign" ->
         <<<<"tst">>, <<"bcc", "eq", <<"sgnend", u>>>>, <<"bcc", "gt", <<"sgnp", u>>>>,
           <<"moveq", -1, 0>>, <<"bra", <<"sgnend", u>>>>,
           <<"label", <<"sgnp", u>>>>, <<"moveq", 1, 0>>, <<"label", <<"sgnend", u>>>>>>
    [] name = "Abs" -> <<<<"tst">>, <<"bcc", "ge", <<"abs", u>>>>, <<"neg">>, <<"label", <<"abs", u>>>>>>
    [] name \in {"Even", "Odd"} ->
         <<<<"moveq", 1, 1>>, <<"op", "and", 1, 0>>, <<"tst">>,
           <<"scc", IF name = "Even" THEN "eq" ELSE "ne">>>>
    [] name = "Not" -> <<<<"not">>>>
    [] name = "Long" -> <<<<"toA", 0>>, <<"load", 0, 4, TRUE, 0>>>>
    [] name = "Int" -> <<<<"toA", 0>>, <<"load", 0, 2, TRUE, 0>>>>
    [] name = "Char" -> <<<<"toA", 0>>, <<"load", 0, 1, FALSE, 0>>>>
    [] name = "Byte" -> <<<<"toA", 0>>, <<"load", 0, 1, TRUE, 0>>>>
    [] name = "Word" -> <<<<"toA", 0>>, <<"load", 0, 2, FALSE, 0>>>>
    [] name = "ListLen" -> <<<<"toA", 0>>, <<"load", -2, 2, TRUE, 0>>>>
    [] name = "Eval" -> <<<<"toA", 0>>, <<"jsrA">>>>

\* of three: Bounds(v, lo, hi)
Bounds(u) ==
  <<<<"move", 0, 2>>, <<"pop", 1>>, <<"pop", 0>>,
    <<"cmp", 1, 0>>, <<"bcc", "ge", <<"blo", u>>>>, <<"move", 1, 0>>, <<"label", <<"blo", u>>>>,
    <<"cmp", 2, 0>>, <<"bcc", "le", <<"bdn", u>>>>, <<"move", 2, 0>>, <<"label", <<"bdn", u>>>>>>

PutSize(name) ==
  CASE name \in {"PutByte", "PutChar"} -> 1 [] name \in {"PutInt", "PutWord"} -> 2
    [] name = "PutLong" -> 4

CallBuiltin(name, args, x, g) ==
  CASE name = "Bounds" ->
         LET h == Exp(args[3], x, Exps(<<args[1], args[2]>>, x, g)) IN Emit(h, Bounds(Uniq(h)))
    [] name \in {"PutByte", "PutChar", "PutInt", "PutWord", "PutLong"} ->
         LET h == Exp(args[2], x, Exps(<<args[1]>>, x, g))
         IN Emit(h, <<<<"popA">>, <<"store", 0, PutSize(name)>>>>)
    [] Len(args) = 2 -> LET h == Operands(args[1], args[2], x, g) IN Emit(h, Builtin2(name, Uniq(h)))
    [] Len(args) = 1 -> LET h == Exp(args[1], x, g) IN Emit(h, Builtin1(name, Uniq(h)))

\* A procedure finds all its arguments in the frame: the omitted ones are
\* pushed with their default values.
Passed(proc, args) ==
  args \o [i \in 1 .. Len(proc.args) - Len(args) |->
             LET arg == proc.args[Len(args) + i]
             IN IF arg.init = << >> THEN <<"Num", 0>> ELSE arg.init[1]]

CallProc(name, args, x, g) ==
  LET passed == Passed(x.procs[name], args)
  IN Emit(Exps(passed, x, g), <<<<"bsr", <<"proc", name>>>>, <<"drop", Len(passed)>>>>)

\* o.m(args): the nearest m of o's object and its ancestors; o is passed first.
\* It is a procedure of its own.
RECURSIVE MethodOf(_, _, _)
MethodOf(object, name, x) ==
  IF <<object, name>> \in DOMAIN x.methods THEN x.methods[<<object, name>>]
  ELSE MethodOf(x.parents[object], name, x)

CallMethod(e, x, g) ==
  LET t == TypeOf(e[2], x)
      method == MethodOf(IF Base(t) = "PTR" THEN t[2][2] ELSE t[2], e[3], x)
      passed == <<e[2]>> \o e[4]
  IN Emit(Exps(passed, x, g), <<<<"bsr", <<"proc", method>>>>, <<"drop", Len(passed)>>>>)

\* genList: a static area, filled on every evaluation; a list has its length
\* before it.  List trees are <<"List", type, at, items>>.
GenList(e, x, g) ==
  LET object == Base(e[2]) = "OBJECT"
      members == x.objects[e[2][2]].members
      size == CASE Base(e[2]) = "CHAR" -> 1 [] Base(e[2]) = "INT" -> 2 [] OTHER -> 4
      Slot(i) == IF object THEN [disp |-> members[i].offset,
                                 size |-> IF members[i].width \in {1, 2} THEN members[i].width ELSE 4]
                 ELSE [disp |-> (i - 1) * size, size |-> size]
      Item(h, i) == Emit(Exp(e[4][i], x, h), <<<<"lea", e[3]>>, <<"store", Slot(i).disp, Slot(i).size>>>>)
  IN Emit(FoldLeft(Item, g, [i \in DOMAIN e[4] |-> i]), <<<<"lea", e[3]>>, <<"fromA">>>>)

-----------------------------------------------------------------------------
(* Expressions: the value in D0 *)

\* QuickCompare: the subject is kept in D2.
GenQuick(items, x, g) ==
  IF items = << >> THEN g
  ELSE LET item == Head(items)
           low == Emit(Exp(item[1], x, g), <<<<"cmp", 0, 2>>>>)
           skip == <<"qcskip", Uniq(low)>>
           next == IF Len(item) = 1 THEN Emit(low, <<<<"bcc", "eq", x.fail>>>>)
                   ELSE Emit(Exp(item[2], x, Emit(low, <<<<"bcc", "lt", skip>>>>)),
                             <<<<"cmp", 0, 2>>, <<"bcc", "le", x.fail>>, <<"label", skip>>>>)
       IN Quick(Tail(items), x, next)

QuickCompare(e, x, g) ==
  LET subject == Emit(Exp(e[2], x, g), <<<<"move", 0, 2>>>>)
      u == Uniq(subject)
  IN Emit(Quick(e[3], [x EXCEPT !.fail = <<"qctrue", u>>], subject),
          <<<<"moveq", 0, 0>>, <<"bra", <<"qcend", u>>>>, <<"label", <<"qctrue", u>>>>,
            <<"moveq", -1, 0>>, <<"label", <<"qcend", u>>>>>>)

\* ANDALSO and ORELSE: out is where the first operand that decides goes to.
Logical(e, x, g) ==
  LET leave == IF e[1] = "AndAlso" THEN "eq" ELSE "ne"
      whole == IF e[1] = "AndAlso" THEN -1 ELSE 0
      left == Exp(e[2], x, g)
      out == <<"scout", Uniq(left)>>
      end == <<"scend", Uniq(left)>>
      right == Exp(e[3], x, Emit(left, <<<<"tst">>, <<"bcc", leave, out>>>>))
  IN Emit(right, <<<<"tst">>, <<"bcc", leave, out>>, <<"moveq", whole, 0>>, <<"bra", end>>,
                   <<"label", out>>, <<"moveq", -1 - whole, 0>>, <<"label", end>>>>)

Ternary(e, x, g) ==
  LET condition == Exp(e[2], x, g)
      else == <<"telse", Uniq(condition)>>
      end == <<"tend", Uniq(condition)>>
      then == Exp(e[3], x, Emit(condition, <<<<"tst">>, <<"bcc", "eq", else>>>>))
  IN Emit(Exp(e[4], x, Emit(then, <<<<"bra", end>>, <<"label", else>>>>)), <<<<"label", end>>>>)

\* A quoted expression is compiled later, behind the procedure.
Quote(e, x, g) ==
  LET label == <<"quote", Uniq(g)>>
  IN [Emit(g, <<<<"leaCode", label>>>>) EXCEPT !.quotes = Append(@, [label |-> label, exp |-> e[2]])]

GenExp(e, x, g) ==
  CASE e[1] = "Num" -> Emit(g, <<<<"moveq", e[2], 0>>>>)
    [] e[1] = "Var" -> LoadVar(e[2], x, g)
    [] e[1] \in {"Paren", "Cast"} -> Exp(e[2], x, g)
    [] e[1] = "Neg" -> Emit(Exp(e[2], x, g), <<<<"neg">>>>)
    [] e[1] = "Not" -> Emit(Exp(e[2], x, g), <<<<"not">>>>)
    [] e[1] = "Bin" -> Chain(e, x, g)
    [] e[1] = "Quick" -> QuickCompare(e, x, g)
    [] e[1] \in {"AndAlso", "OrElse"} -> Logical(e, x, g)
    [] e[1] = "AssignExp" -> AssignInD0(e[2], x, Exp(e[3], x, g))
    [] e[1] = "Ternary" -> Ternary(e, x, g)
    [] e[1] = "But" -> Exp(e[3], x, Exp(e[2], x, g))
    [] e[1] \in {"Member", "Index"} -> MemoryValue(e, x, g)
    [] e[1] = "Deref" -> LoadFrom(4, TRUE, AddressOf(e, x, g))
    [] e[1] \in {"PostInc", "PostDec"} -> PostStep(e, x, g)
    [] e[1] = "Call" -> IF e[2] \in DOMAIN x.procs THEN CallProc(e[2], e[3], x, g)
                        ELSE CallBuiltin(e[2], e[3], x, g)
    [] e[1] = "Method" -> CallMethod(e, x, g)
    [] e[1] = "List" -> GenList(e, x, g)
    [] e[1] = "Quote" -> Quote(e, x, g)

-----------------------------------------------------------------------------
(* Statements *)

\* One value in D0, or two or three in D0, D1 and D2.
ReturnValues(es, x, g) ==
  CASE es = << >> -> Emit(g, <<<<"moveq", 0, 0>>>>)
    [] Len(es) = 1 -> Exp(es[1], x, g)
    [] Len(es) = 2 -> Operands(es[1], es[2], x, g)
    [] Len(es) = 3 -> Emit(Exp(es[3], x, Exps(<<es[1], es[2]>>, x, g)),
                           <<<<"move", 0, 2>>, <<"pop", 1>>, <<"pop", 0>>>>)

\* Branch to where a condition does not hold; N turns the condition round.
Unless(negated, label) == <<<<"tst">>, <<"bcc", IF negated THEN "ne" ELSE "eq", label>>>>
When(negated, label) == <<<<"tst">>, <<"bcc", IF negated THEN "eq" ELSE "ne", label>>>>

\* IF trees are <<"If", branches, else>>, a branch <<negated, condition, body>>.
If(s, x, g) ==
  LET end == <<"endif", Uniq(Exp(s[2][1][2], x, g))>>
      Final(i) == i = Len(s[2]) /\ s[3] = << >>
      Branch1(h, i) ==
        LET b == s[2][i]
            condition == Exp(b[2], x, h)
            next == <<"elif", Uniq(condition)>>
            body == Stats(b[3], x, Emit(condition, Unless(b[1], IF Final(i) THEN end ELSE next)))
        IN Emit(body, IF i = 1 /\ Final(i) THEN << >> ELSE <<<<"bra", end>>, <<"label", next>>>>)
      all == FoldLeft(Branch1, g, [i \in DOMAIN s[2] |-> i])
  IN Emit(Stats(s[3], x, all), <<<<"label", end>>>>)

Loop(x, end, cont) == [x EXCEPT !.ends = Append(@, end), !.conts = Append(@, cont)]

\* WHILE with ELSEWHILE and ALWAYS: <<"While", branches, always>>, always a
\* sequence of at most one body.
While(s, x, g) ==
  LET u == Uniq(g)
      top == <<"wh", u>>
      end == <<"whend", u>>
      always == IF s[3] = << >> THEN top ELSE <<"whalw", u>>
      inside == Loop(x, end, always)
      Branch1(h, b) ==
        LET condition == Exp(b[2], inside, h)
            next == <<"whnext", Uniq(condition)>>
        IN Emit(Stats(b[3], inside, Emit(condition, Unless(b[1], next))),
                <<<<"bra", always>>, <<"label", next>>>>)
      branches == Emit(FoldLeft(Branch1, Emit(g, <<<<"label", top>>>>), s[2]), <<<<"bra", end>>>>)
      all == IF s[3] = << >> THEN branches
             ELSE Emit(Stats(s[3][1], inside, Emit(branches, <<<<"label", always>>>>)), <<<<"bra", top>>>>)
  IN Emit(all, <<<<"label", end>>>>)

\* <<"Repeat", body, negated, condition>>
Repeat(s, x, g) ==
  LET u == Uniq(g)
      body == Stats(s[2], Loop(x, <<"rpend", u>>, <<"rp", u>>), Emit(g, <<<<"label", <<"rp", u>>>>>>))
      inside == Loop(x, <<"rpend", u>>, <<"rp", u>>)
  IN Emit(Exp(s[4], inside, body),
          Unless(s[3], <<"rp", u>>) \o <<<<"label", <<"rpend", u>>>>>>)

\* <<"Loop", body>>
LoopStat(s, x, g) ==
  LET u == Uniq(g)
      body == Stats(s[2], Loop(x, <<"lpend", u>>, <<"lp", u>>), Emit(g, <<<<"label", <<"lp", u>>>>>>))
  IN Emit(body, <<<<"bra", <<"lp", u>>>>, <<"label", <<"lpend", u>>>>>>)

\* <<"For", variable, from, to, step, body>>; the limit is worked out again
\* for every turn.
For(s, x, g) ==
  LET from == StoreVar(s[2], x, Exp(s[3], x, g))
      u == Uniq(from)
      end == <<"forend", u>>
      cont == <<"forcont", u>>
      limit == Emit(Exp(s[4], Loop(x, end, cont), Emit(from, <<<<"label", <<"for", u>>>>>>)),
                    <<<<"move", 0, 1>>>>)
      test == Emit(LoadVar(s[2], x, limit),
                   <<<<"cmp", 1, 0>>, <<"bcc", IF s[5] > 0 THEN "gt" ELSE "lt", end>>>>)
      body == Emit(Stats(s[6], Loop(x, end, cont), test), <<<<"label", cont>>>>)
      stepped == IF s[5] # 0 /\ Abs(s[5]) <= 8 THEN Emit(body, <<<<"addTo", s[5], VarRef(s[2], x)>>>>)
                 ELSE StoreVar(s[2], x, Emit(LoadVar(s[2], x, body),
                                             <<<<"moveq", s[5], 1>>, <<"op", "add", 1, 0>>>>))
  IN Emit(stepped, <<<<"bra", <<"for", u>>>>, <<"label", end>>>>)

\* The tests of a CASE: the subject is read from the stack.
GenMatches(matches, x, g) ==
  IF matches = << >> THEN g
  ELSE LET m == Head(matches)
           Test(e, h) == Emit(Exp(e, x, h), <<<<"move", 0, 1>>, <<"peek", 0>>, <<"cmp", 1, 0>>>>)
           low == Test(m[1], g)
           next == <<"rng", Uniq(low)>>
           tested == IF Len(m) = 1 THEN Emit(low, <<<<"bcc", "eq", x.fail>>>>)
                     ELSE Emit(Test(m[2], Emit(low, <<<<"bcc", "lt", next>>>>)),
                               <<<<"bcc", "le", x.fail>>, <<"label", next>>>>)
       IN Matches(Tail(matches), x, tested)

\* <<"Select", subject, cases, default>>, a case <<matches, body>>
Select(s, x, g) ==
  LET subject == Emit(Exp(s[2], x, g), <<Push>>)
      u == Uniq(subject)
      CaseLabel(i) == <<"case", u, i>>
      indices == [i \in DOMAIN s[3] |-> i]
      tests == FoldLeft(LAMBDA h, i : Matches(s[3][i][1], [x EXCEPT !.fail = CaseLabel(i)], h),
                        subject, indices)
      bodies == FoldLeft(LAMBDA h, i : Emit(Stats(s[3][i][2], x, Emit(h, <<<<"label", CaseLabel(i)>>>>)),
                                            <<<<"bra", <<"selend", u>>>>>>),
                         Emit(tests, <<<<"bra", <<"seldef", u>>>>>>), indices)
  IN Emit(Stats(s[4], x, Emit(bodies, <<<<"label", <<"seldef", u>>>>>>)),
          <<<<"label", <<"selend", u>>>>, <<"drop", 1>>>>)

\* a, b, c := f(): what is in D0, D1 and D2
MultiAssign(s, x, g) ==
  LET Target(h, i) == StoreVar(s[2][i], x, IF i = 1 THEN h ELSE Emit(h, <<<<"move", i - 1, 0>>>>))
  IN FoldLeft(Target, Exp(s[3], x, g), [i \in DOMAIN s[2] |-> i])

\* a :=: b: both are read, then both are written.
Swap(s, x, g) ==
  LET read == Exps(<<s[2], s[3]>>, x, g)
      first == AssignInD0(s[2], x, Emit(read, <<<<"pop", 0>>>>))
  IN AssignInD0(s[3], x, Emit(first, <<<<"pop", 0>>>>))

\* INC and DEC, which move by one whatever the type
IncDec(lval, delta, x, g) ==
  IF lval[1] = "Var" THEN Emit(g, <<<<"addTo", delta, VarRef(lval[2], x)>>>>)
  ELSE LET address == AddressOf(lval, x, g)
           size == AccessSize(lval, x)
       IN StoreTo(size, Emit(LoadFrom(size, size = 2, address), <<<<"addq", delta>>>>))

GenStat(s, x, g) ==
  CASE s[1] = "ExprStat" -> Exp(s[2], x, g)
    [] s[1] = "Def" ->
         FoldLeft(LAMBDA h, v : IF v[2] = << >> THEN h ELSE StoreVar(v[1], x, Exp(v[2][1], x, h)), g, s[2])
    [] s[1] = "Assign" -> AssignInD0(s[2], x, Exp(s[3], x, g))
    [] s[1] = "MultiAssign" -> MultiAssign(s, x, g)
    [] s[1] = "Swap" -> Swap(s, x, g)
    [] s[1] = "Inc" -> IncDec(s[2], 1, x, g)
    [] s[1] = "Dec" -> IncDec(s[2], -1, x, g)
    [] s[1] = "Return" -> Emit(ReturnValues(s[2], x, g), <<<<"bra", x.epilogue>>>>)
    [] s[1] = "If" -> If(s, x, g)
    [] s[1] = "While" -> While(s, x, g)
    [] s[1] = "Repeat" -> Repeat(s, x, g)
    [] s[1] = "Loop" -> LoopStat(s, x, g)
    [] s[1] = "For" -> For(s, x, g)
    [] s[1] = "Select" -> Select(s, x, g)
    [] s[1] \in {"Exit", "Cont"} ->
         LET targets == IF s[1] = "Exit" THEN x.ends ELSE x.conts
             target == targets[Len(targets)]
         IN IF s[3] = << >> THEN Emit(g, <<<<"bra", target>>>>)
            ELSE Emit(Exp(s[3], x, g), When(s[2], target))

GenStats(ss, x, g) == IF ss = << >> THEN g ELSE Stats(Tail(ss), x, Stat(Head(ss), x, g))

-----------------------------------------------------------------------------
(* Procedures and programs *)

RECURSIVE Quotes(_, _)
Quotes(x, g) ==
  IF g.quotes = << >> THEN g
  ELSE LET q == Head(g.quotes)
           h == Emit([g EXCEPT !.quotes = Tail(@)], <<<<"label", q.label>>>>)
       IN Quotes(x, Emit(Exp(q.exp, x, h), <<<<"rts">>>>))

\* emitProc: a procedure is [args, locals, body, returns].
EmitProc(name, source, g) ==
  LET proc == source.procs[name]
      x == [args |-> [i \in DOMAIN proc.args |-> proc.args[i].name], locals |-> proc.locals,
            types |-> source.types, objects |-> source.objects, parents |-> source.parents,
            methods |-> source.methods, procs |-> source.procs,
            epilogue |-> <<"ep", name>>, ends |-> << >>, conts |-> << >>, fail |-> << >>]
      start == Emit(g, <<<<"label", <<"proc", name>>>>, <<"link", Len(proc.locals)>>>>)
      values == ReturnValues(proc.returns, x, Stats(proc.body, x, start))
  IN Quotes(x, Emit(values, <<<<"label", x.epilogue>>, <<"unlk">>, <<"rts">>>>))

\* There is always code, the start-up's; the question makes TLC work out g
\* here, instead of at the bottom of a tree.
Gen(method, e, x, g) ==
  CASE g.code = << >> -> g
    [] method = "Exp" -> GenExp(e, x, g)
    [] method = "Exps" -> GenExps(e, x, g)
    [] method = "AddressOf" -> GenAddressOf(e, x, g)
    [] method = "Unify" -> GenUnifyPattern(e, x, g)
    [] method = "Quick" -> GenQuick(e, x, g)
    [] method = "Matches" -> GenMatches(e, x, g)
    [] method = "Stat" -> GenStat(e, x, g)
    [] method = "Stats" -> GenStats(e, x, g)
    [] method = "Proc" -> EmitProc(e, x, g)

Compiled(source) ==
  LET start == [code |-> <<<<"bsr", <<"proc", "main">>>>, <<"halt">>>>, disp |-> 0, quotes |-> << >>,
                failed |-> FALSE]
      g == FoldLeft(LAMBDA h, name : Procedure(name, source, h), start, source.order)
      labels == {i \in DOMAIN g.code : g.code[i][1] = "label"}
  IN [code |-> g.code, failed |-> g.failed,
      at |-> [l \in {g.code[i][2] : i \in labels} |-> CHOOSE i \in labels : g.code[i][2] = l]]
=============================================================================
