----------------------------- MODULE MCCodegen -----------------------------
(* Programs, most of them after those of tools/diff-test.js, for TLC: each  *)
(* runs on every pair of values of its two inputs x and y.  The last one    *)
(* does not compile.                                                        *)
EXTENDS Compilation

SomeValues == {-128, -9, -1, 0, 1, 2, 5, 9, 100}

\* Trees
N(n) == <<"Num", n>>
V(name) == <<"Var", name>>
x == V("x")
y == V("y")
Bin(a, op, b) == <<"Bin", op, a, b>>
F(name, args) == <<"Call", name, args>>
Local(name, init) == <<name, init>>
Let(name, e) == <<"Assign", V(name), e>>
SetTo(target, e) == <<"Assign", target, e>>
At(e, i) == <<"Index", e, i>>
Dot(e, m) == <<"Member", e, m>>
Do(e) == <<"ExprStat", e>>
Provided(c, body) == <<"If", <<<<FALSE, c, body>>>>, << >>>>
Return(e) == <<"Return", <<e>>>>
Exit(c) == <<"Exit", FALSE, c>>
Cont(c) == <<"Cont", FALSE, c>>

Arg(name) == [name |-> name, init |-> << >>]
Proc(args, locals, body, returns) ==
  [args |-> args, locals |-> locals, body |-> body, returns |-> returns]
Main(body) == Proc(<< >>, << >>, body, << >>)

\* rec of diff-test.js with an array: 9 bytes and one for evenness
Placed(n, type, offset, width) ==
  [name |-> n, type |-> type, count |-> 1, union |-> 0, group |-> 0, offset |-> offset, width |-> width]
Rec == [members |-> <<Placed("tag", <<"CHAR">>, 0, 1), Placed("n", <<"INT">>, 2, 2),
                      Placed("big", <<"LONG">>, 4, 4), Placed("buf", <<"ARRAY", <<"CHAR">>>>, 8, 0)>>,
        size |-> 10]
Objects1 == [o \in {"rec", "child"} |-> Rec]
Parents1 == [o \in {"child"} |-> "rec"]
Types1 == [a |-> <<"ARRAY", <<"INT">>>>, c |-> <<"ARRAY", <<"CHAR">>>>, l |-> <<"PTR", <<"LONG">>>>,
           r |-> <<"PTR", <<"OBJECT", "rec">>>>, self |-> <<"PTR", <<"OBJECT", "rec">>>>,
           k |-> <<"PTR", <<"OBJECT", "child">>>>, pi |-> <<"PTR", <<"INT">>>>, li |-> <<"LIST">>]

\* 56 bytes; lists of three and of two have their lengths before 24 and 44.
Mem1 == [b \in 0 .. 55 |-> CASE b = 23 -> 3 [] b = 43 -> 2 [] b \in {20, 22, 40, 42} -> 0 [] OTHER -> b % 4]

Variables == {"x", "y", "p", "q", "s", "t", "a", "c", "l", "r", "k", "pi", "li"}

Program(procs, order) ==
  [procs |-> procs, order |-> order, types |-> Types1, objects |-> Objects1, parents |-> Parents1,
   methods |-> [m \in {<<"rec", "bump">>} |-> "rec.bump"],
   globals |-> [n \in Variables \cup {"code"} |-> 0], mem |-> Mem1,
   inputs |-> {"x", "y"}, watched |-> Variables]

Simple(body) == Program([main |-> Main(body)], <<"main">>)
With(name, proc, body) == Program([n \in {"main", name} |-> IF n = "main" THEN Main(body) ELSE proc],
                                  <<"main", name>>)

p == V("p")
q == V("q")
s == V("s")
t == V("t")
n == V("n")
i == V("i")

\* No precedence; * and / on half a long but for x*2 and x*4, constants whole.
Calculated == Simple(<<
  Let("p", Bin(Bin(x, "+", y), "*", N(3))), Let("q", Bin(Bin(x, "*", N(4)), "-", Bin(y, "*", N(2)))),
  Let("s", Bin(Bin(N(20), "*", N(20)), "+", Bin(Bin(N(100), "/", N(7)), "+", <<"Neg", y>>))),
  Let("t", Bin(Bin(x, "-", y), "-", Bin(N(20), "SHR", N(2))))>>)

Divided == Simple(<<
  Let("p", Bin(x, "/", N(3))), Let("q", F("Mod", <<x, y>>)), Let("s", Bin(y, "/", F("Abs", <<x>>)))>>)

ByBits == Simple(<<
  Let("p", Bin(Bin(x, "AND", y), "XOR", Bin(<<"Not", x>>, "OR", N(9)))),
  Let("q", Bin(Bin(x, "SHR", N(3)), "+", Bin(y, "SHL", N(2)))),
  Let("s", F("Eor", <<F("And", <<x, N(29)>>), F("Or", <<y, F("Not", <<x>>)>>)>>)),
  Let("t", Bin(F("Shr", <<y, N(2)>>), "-", F("Shl", <<x, N(1)>>))),
  Let("l", Bin(F("Lsr", <<y, N(2)>>), "-", F("Lsl", <<x, N(1)>>)))>>)

Functions == Simple(<<
  Let("p", Bin(F("Min", <<x, y>>), "+", F("Max", <<y, N(3)>>))),
  Let("q", F("Bounds", <<Bin(x, "-", y), <<"Neg", N(5)>>, F("Abs", <<y>>)>>)),
  Let("s", Bin(F("Compare", <<x, y>>), "+", Bin(F("Sign", <<x>>), "*", N(4)))),
  Let("t", Bin(F("Mul", <<x, y>>), "+", Bin(F("Even", <<x>>), "-", F("Odd", <<y>>))))>>)

\* Each operand counts its own evaluation in t.
Counted(e) == <<"But", <<"AssignExp", t, Bin(t, "+", N(1))>>, e>>
ShortCircuits == Simple(<<
  Let("p", <<"AndAlso", Counted(Bin(x, ">", y)), Counted(x)>>),
  Let("q", <<"OrElse", Counted(Bin(x, "<=", y)), Counted(y)>>),
  Let("s", <<"Ternary", <<"Quick", x, <<<<N(2)>>, <<N(-10), Counted(y)>>, <<N(100)>>>>>>,
             Bin(x, "<>", N(2)), <<"AndAlso", Bin(y, ">=", N(0)), Bin(Bin(x, "=", y), "OR", N(6))>>>>)>>)

\* fac, whose products overflow, and fib
Recursion == Program(
  [main |-> Main(<<Let("p", F("fac", <<Bin(x, "AND", N(7))>>)), Let("q", F("fib", <<Bin(y, "AND", N(5))>>))>>),
   fac |-> Proc(<<Arg("n")>>, << >>, <<Provided(Bin(n, "<=", N(1)), <<Return(N(1))>>)>>,
                <<Bin(n, "*", F("fac", <<Bin(n, "-", N(1))>>))>>),
   fib |-> Proc(<<Arg("n")>>, << >>, <<Provided(Bin(n, "<", N(2)), <<Return(n)>>)>>,
                <<Bin(F("fib", <<Bin(n, "-", N(1))>>), "+", F("fib", <<Bin(n, "-", N(2))>>))>>)],
  <<"fac", "main", "fib">>)

\* Arguments from left to right, those left out by default
Arguments == With("f",
  Proc(<<Arg("u"), [Arg("v") EXCEPT !.init = <<N(5)>>], [Arg("w") EXCEPT !.init = <<y>>], Arg("z")>>, <<"j", "i", "k2">>,
       <<<<"Def", <<Local("j", <<V("u")>>), Local("i", <<Bin(V("j"), "-", V("v"))>>), Local("k2", << >>)>>>>, Let("u", Bin(V("w"), "-", V("z")))>>,
       <<Bin(Bin(i, "*", N(2)), "-", V("u"))>>),
  <<Let("p", F("f", <<x>>)), Let("q", F("f", <<y, <<"PostInc", x>>>>)),
    Let("s", F("f", <<<<"AssignExp", y, N(3)>>, Bin(y, "+", x), F("f", <<y, x, N(1)>>), x>>))>>)

\* Arrays; FOR with three kinds of step
Arrays == Simple(<<
  Let("a", N(4)), Let("c", N(30)),
  <<"For", "p", N(0), N(4), 1, <<SetTo(At(V("a"), p), Bin(Bin(p, "*", p), "-", x))>>>>,
  <<"For", "p", N(4), N(0), -2, <<Let("t", Bin(t, "+", At(V("a"), p))), SetTo(At(V("c"), p), At(V("a"), p))>>>>,
  <<"For", "q", N(0), N(30), 12, <<Let("s", Bin(s, "*", N(2))), Let("s", Bin(s, "+", At(V("c"), Bin(q, "/", N(6)))))>>>>,
  <<"Inc", At(V("a"), N(1))>>, <<"Dec", At(V("c"), Bin(N(0), "+", N(3)))>>, <<"Dec", q>>>>)

\* Members of every width, casts, pointers, and swaps of all of them
Membered == Simple(<<
  Let("r", N(8)), Let("k", N(28)), Let("pi", V("r")),
  SetTo(Dot(V("r"), "tag"), x), SetTo(Dot(V("r"), "n"), y), SetTo(Dot(V("r"), "big"), Bin(x, "-", y)),
  Let("p", Bin(Dot(V("r"), "tag"), "+", Dot(V("r"), "n"))),
  <<"Swap", Dot(V("r"), "tag"), Dot(V("k"), "n")>>, <<"Swap", x, Dot(<<"Paren", V("k")>>, "big")>>,
  SetTo(At(Dot(V("r"), "buf"), N(1)), N(2)), <<"Inc", Dot(V("k"), "tag")>>, <<"Inc", Dot(V("k"), "n")>>,
  Let("q", Dot(<<"Cast", V("pi"), <<"PTR", <<"OBJECT", "rec">>>>>>, "big")),
  Let("l", N(48)), SetTo(<<"Deref", "l">>, y), Let("t", <<"Deref", "l">>)>>)

\* EXIT, RETURN and CONT out of a SELECT, which has its subject on the stack
Selected == With("f",
  Proc(<<Arg("n")>>, <<"i">>,
    <<Let("i", N(0)),
      <<"While", <<<<FALSE, Bin(i, "<", N(6)), <<
         Let("i", Bin(i, "+", N(1))),
         <<"Select", n, <<
            <<<<<<N(2)>>, <<Bin(i, "-", N(1)), Bin(i, "+", N(1))>>>>, <<Exit(Bin(i, ">", N(3)))>>>>,
            <<<<<<N(-10), N(-1)>>, <<N(0)>>>>, <<
               <<"Select", i, <<<<<<<<N(1)>>>>, <<Cont(<< >>)>>>>, <<<<<<N(4)>>>>, <<Return(Bin(t, "-", i))>>>>>>, << >>>>>>>>,
            <<<<<<N(5)>>>>, <<Let("t", Bin(t, "+", N(1)))>>>>>>,
          <<Let("t", Bin(t, "+", N(10)))>>>>,
         Let("s", Bin(s, "+", N(1)))>>>>>>, << >>>>>>,
    <<Bin(i, "+", s)>>),
  <<Let("p", F("f", <<x>>)), Let("q", Bin(y, "-", F("f", <<Bin(y, "AND", N(7))>>)))>>)

\* The ways to loop, those of E-VO included
Loops == With("f",
  Proc(<<Arg("n")>>, << >>,
    <<<<"Loop", <<Let("n", Bin(n, "-", N(3))), Provided(Bin(n, "<", N(0)), <<Return(n)>>), Cont(Bin(n, ">", N(9))),
                  Let("s", Bin(s, "+", N(1)))>>>>>>, << >>),
  <<Let("p", F("f", <<Bin(x, "AND", N(31))>>)),
    <<"While", <<<<FALSE, Bin(p, "<", N(4)), <<Let("p", Bin(p, "+", N(2))), Cont(Bin(p, "=", N(1)))>>>>,
                 <<TRUE, Bin(q, ">", N(2)), <<Let("q", Bin(q, "+", N(1))), Exit(Bin(q, "=", y))>>>>>>,
               <<<<Let("t", Bin(t, "+", p))>>>>>>,
    <<"Repeat", <<Let("q", Bin(q, "+", N(1))), Exit(Bin(q, "=", x))>>, FALSE, Bin(q, ">=", N(6))>>,
    <<"Repeat", <<Let("p", Bin(p, "+", N(3)))>>, TRUE, Bin(p, "<", N(9))>>,
    <<"For", "li", N(0), N(5), 1, <<<<"Cont", TRUE, Bin(V("li"), "AND", N(1))>>, Let("s", Bin(s, "+", V("li")))>>>>,
    <<"If", <<<<TRUE, Bin(x, "=", y), <<Let("q", N(1))>>>>, <<FALSE, Bin(x, ">", N(0)), <<Let("q", N(2))>>>>>>,
            <<Let("q", N(3))>>>>,
    <<"If", <<<<FALSE, y, <<Let("t", Bin(t, "+", q))>>>>, <<TRUE, x, <<Let("t", N(0))>>>>>>, << >>>>>>)

\* Two and three values at once
Two == With("f",
  Proc(<<Arg("n")>>, <<"i">>,
       <<Provided(n, <<<<"MultiAssign", <<"i", "n">>, F("f", <<N(0)>>)>>, <<"Return", <<n, i>>>>>>)>>,
       <<Bin(x, "-", y), <<"PostInc", y>>>>),
  <<<<"MultiAssign", <<"p", "q">>, F("f", <<x>>)>>, Let("s", Bin(F("f", <<N(0)>>), "-", F("f", <<F("f", <<y>>)>>)))>>)

Three == With("f",
  Proc(<<Arg("n")>>, << >>, <<Provided(Bin(n, ">", N(0)), <<<<"Return", <<n, x, F("Max", <<x, n>>)>>>>>>)>>,
       <<y, <<"PostDec", x>>, x>>),
  <<<<"MultiAssign", <<"p", "q", "s">>, F("f", <<x>>)>>, Let("t", F("f", <<y>>))>>)

\* Lists are static memory; typed ones are objects; patterns bind.
List3(items) == <<"List", <<"LONG">>, 24, items>>
List2(items) == <<"List", <<"LONG">>, 44, items>>
Lists == Simple(<<
  Let("l", List3(<<x, Bin(x, "*", N(2)), y>>)), Let("p", At(V("l"), N(1))),
  SetTo(At(V("l"), Bin(N(1), "AND", x)), N(7)),
  Let("q", Bin(V("l"), "<=>", List3(<<x, V("s"), N(5)>>))),
  Let("l", List3(<<N(1), List2(<<y, N(2)>>), Bin(At(V("l"), N(0)), "+", N(1))>>)),
  Let("t", Bin(V("l"), "<=>", List3(<<N(1), List2(<<V("s"), N(2)>>), V("pi")>>))),
  Let("li", Bin(Bin(V("l"), "<=>", List2(<<V("s"), V("x")>>)), "+", F("ListLen", <<V("l")>>)))>>)

TypedLists == Simple(<<
  Let("r", <<"List", <<"OBJECT", "rec">>, 8, <<x, y, Bin(x, "-", y)>>>>),
  Let("p", Bin(Dot(V("r"), "tag"), "+", Dot(V("r"), "n"))),
  Let("a", <<"List", <<"INT">>, 32, <<x, y>>>>), Let("q", At(V("a"), N(1))),
  Let("c", <<"List", <<"CHAR">>, 2, <<y, N(3), x>>>>), Let("s", At(V("c"), F("Odd", <<Bin(y, "AND", N(0))>>)))>>)

\* Quoted expressions see the variables as they are when they are evaluated.
Quoted == With("f",
  Proc(<<Arg("n")>>, <<"i", "k2">>,
       <<Let("i", <<"Quote", Bin(n, "-", x)>>), Let("k2", <<"Quote", Bin(F("Eval", <<i>>), "+", N(1))>>),
         <<"Inc", n>>, Let("x", Bin(x, "+", N(2)))>>,
       <<F("Eval", <<V("k2")>>)>>),
  <<Let("code", <<"Quote", Bin(Bin(x, "*", x), "+", y)>>), Let("p", F("Eval", <<V("code")>>)), <<"Dec", x>>,
    Let("q", Bin(F("f", <<y>>), "-", F("Eval", <<V("code")>>)))>>)

\* ++ and -- move the variable, by the size of what it points to; of an element
\* too it is the array that moves.
Stepping == Simple(<<
  Let("p", Bin(<<"PostInc", x>>, "-", <<"PostDec", y>>)),
  Let("l", N(8)), SetTo(At(V("l"), N(0)), x), SetTo(At(V("l"), N(1)), N(99)),
  Let("q", <<"PostInc", At(V("l"), N(0))>>), Let("s", At(V("l"), N(0))), Let("t", <<"PostDec", At(V("l"), N(0))>>),
  Let("pi", N(10)), Do(<<"PostInc", V("pi")>>), Let("r", N(30)), Let("k", <<"PostInc", V("r")>>),
  Let("t", Bin(t, "+", <<"PostDec", V("r")>>)), Do(<<"PostInc", V("li")>>)>>)

Methods == With("rec.bump",
  Proc(<<Arg("self"), Arg("by")>>, << >>,
       <<SetTo(Dot(V("self"), "big"), Bin(Dot(V("self"), "big"), "+", V("by")))>>, <<Dot(V("self"), "big")>>),
  <<Let("k", N(10)), SetTo(Dot(V("k"), "big"), x), Let("r", N(30)), SetTo(Dot(V("r"), "big"), N(1)),
    Let("p", Bin(<<"Method", V("k"), "bump", <<y>>>>, "-", <<"Method", V("r"), "bump", <<x>>>>))>>)

Peeks == Simple(<<
  Let("p", F("PutChar", <<N(9), x>>)), Let("q", F("PutInt", <<N(12), Bin(x, "+", y)>>)),
  Let("s", F("PutLong", <<N(16), y>>)), Do(F("PutByte", <<N(20), y>>)), Do(F("PutWord", <<N(30), x>>)),
  Let("t", Bin(Bin(F("Char", <<N(9)>>), "-", F("Int", <<N(12)>>)), "+", Bin(F("Long", <<N(16)>>), "-", F("Int", <<N(30)>>)))),
  Let("l", Bin(F("Byte", <<N(9)>>), "-", F("Word", <<N(30)>>)))>>)
\* Half a long is from -8 to 7.
TooLarge == Simple(<<Let("p", Bin(x, "*", N(7))), Let("q", Bin(<<"Neg", N(9)>>, "/", y))>>)

SomeSources == <<Calculated, Divided, ByBits, Functions, ShortCircuits, Recursion, Arguments, Arrays, Membered,
                 Selected, Loops, Two, Three, Lists, TypedLists, Quoted, Stepping, Methods, Peeks, TooLarge>>
=============================================================================
