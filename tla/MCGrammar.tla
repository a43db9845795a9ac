------------------------------ MODULE MCGrammar ------------------------------
EXTENDS Grammar

A == <<"Var", "a">>
B == <<"Var", "b">>
One == <<"Lit", "1">>
Obj == <<"OBJECT", "obj">>

-----------------------------------------------------------------------------
(* Expressions: everything around everything, two levels deep *)

\* A chain that a float conversion ends takes no operator that may begin an item.
RECURSIVE EndsInFloat(_)
EndsInFloat(e) == e[1] = "FloatConv" \/ (e[1] = "But" /\ EndsInFloat(e[3]))

RECURSIVE Greater(_)
Greater(e) ==
  CASE e[1] = "Bin" -> e[2] = ">" \/ Greater(e[3]) \/ Greater(e[4])
    [] e[1] \in {"Lit", "Var", "Nil", "AddrOf", "SIZEOF", "PSIZEOF", "OFFSETOF", "ARRAYSIZE"} -> FALSE
    [] e[1] \in {"List", "Cell"} -> \E i \in DOMAIN e[2] : Greater(e[2][i])
    [] e[1] = "Call" -> \E i \in DOMAIN e[3] : Greater(e[3][i])
    [] e[1] \in {"But", "AssignExp", "Ternary"} -> \E i \in 2 .. Len(e) : Greater(e[i])
    [] OTHER -> Greater(e[2])

Lvals == {A, <<"Index", A, <<One>>>>, <<"Member", A, "b">>, <<"Cast", A, <<"PTR", Obj>>>>}

AsOperand(e) == {<<"Neg", e>>, <<"FloatPrefix", e>>} \cup IF Evo THEN {<<"Not", e>>} ELSE {}

AsRight(e) ==
  {<<"Bin", op, B, e>> : op \in {"+", "/", "<", ">", "<=>", "AND", "OR", "SHL", "SHR"}}
  \cup {<<"Bin", "-", <<"Bin", "*", A, B>>, e>>, <<"But", A, e>>}

AsLeft(e) ==
  {<<"Bin", op, e, B>> : op \in {"+", "*", "=", ">", ">=", "AND"}
                                \cup IF EndsInFloat(e) THEN {} ELSE {"-", "<", "!", "XOR"}}
  \cup {<<"FloatConv", e>>}
  \cup IF Evo /\ ~EndsInFloat(e) THEN {<<"QuickCompare", e, <<<<One>>, <<A, B>>>>>>} ELSE {}

AsAny(e) ==
  {<<"Paren", e>>, <<"Paren", <<"AssignExp", <<"Deref", A>>, e>>>>,
   <<"List", <<e>>, << >>>>, <<"List", <<A, e>>, <<<<"LONG">>>>>>,
   <<"Call", <<"Var", "Fun">>, <<e>>>>, <<"Call", <<"Member", A, "b">>, <<e, e>>>>,
   <<"Index", A, <<e>>>>, <<"Quote", e>>, <<"AssignExp", A, e>>,
   <<"Ternary", e, A, B>>, <<"Ternary", A, e, e>>,
   <<"Member", <<"Paren", e>>, "b">>, <<"PostInc", <<"Index", A, <<e>>>>>>,
   <<"New", <<"List", <<e>>, << >>>>>>}

AsCell(e) == {<<"Cell", <<e>>, << >>>>, <<"Cell", <<A, e>>, <<>>>>, <<"Cell", <<A>>, <<e>>>>,
              <<"Cell", <<e>>, <<B>>>>}

Around(e) ==
  AsAny(e) \cup (IF Greater(e) THEN {} ELSE AsCell(e))
  \cup (IF Level(e) \in {"item", "chain"} THEN AsLeft(e) ELSE {})
  \cup (IF Level(e) \in {"item", "chain", "but"} THEN {<<"But", e, B>>} ELSE {})
  \cup (IF Level(e) = "item" \/ e[1] \in {"Quote", "AssignExp", "Ternary"}
        THEN AsRight(e) \cup AsOperand(e) ELSE {})

Atoms ==
  Lvals \cup {One, <<"Nil">>, <<"AddrOf", "a">>, <<"SIZEOF", "obj">>, <<"SIZEOF", "LONG">>,
              <<"PostDec", A>>, <<"Deref", <<"Deref", A>>>>, <<"New", A>>,
              <<"Super", <<"Call", <<"Member", A, "b">>, << >>>>>>, <<"List", << >>, << >>>>,
              <<"Index", A, << >>>>, <<"Call", <<"Var", "Fun">>, << >>>>}
  \cup IF Evo THEN {<<"OFFSETOF", "obj", "a">>, <<"ARRAYSIZE", One, "a">>, <<"PSIZEOF", "obj">>}
       ELSE {}

\* A cell as the right operand of "<" needs a blank, which tight leaves out.
CellRight(e) == e[1] = "Bin" /\ e[2] = "<" /\ e[4][1] = "Cell"

Exps == {e \in UNION {Around(f) : f \in Around(A)}
               \cup UNION {Around(f) : f \in Atoms} : ~CellRight(e)}

-----------------------------------------------------------------------------
(* Statements *)

Set == <<"Assign", A, One>>
CallB == <<"ExprStat", <<"Call", <<"Var", "Fun">>, <<B>>>>>>

Simples ==
  {Set, CallB, <<"RETURN", << >>>>, <<"RETURN", <<A, B>>>>, <<"EXIT", << >>>>,
   <<"EXIT", <<A>>>>, <<"Label", "lab">>, <<"JUMP", "lab">>, <<"INC", A>>,
   <<"VOID", One>>, <<"NEW", <<A, <<"List", <<One>>, << >>>>>>>>, <<"END", <<A, B>>>>,
   <<"INCBIN", "'text'">>, <<"LONG", <<One, A>>>>, <<"MultiAssign", <<"a", "b">>, One>>,
   <<"Asm", <<"MOVE", "a", ",", "D0">>>>, <<"Assign", <<"Deref", A>>, B>>,
   <<"Assign", <<"Index", A, <<B>>>>, <<"Ternary", A, B, One>>>>,
   <<"ExprStat", <<"PostInc", A>>>>,
   <<"DEF", <<<<"a", << >>, << >>, << >>>>, <<"b", <<One>>, <<<<"ARRAY", <<<<"CHAR">>>>>>>>, << >>>>,
             <<"i", << >>, <<<<"PTR", Obj>>>>, <<<<"Nil">>>>>>>>>>}
  \cup IF Evo THEN {<<"CONT", <<A>>>>, <<"Swap", A, B>>,
                    <<"Assign", A, <<"Bin", "+", A, One>>>>,
                    <<"DEF", <<<<"a", <<One, One>>, << >>, << >>>>>>>>} ELSE {}

\* Statements around statements.
Wrapped(s) ==
  {<<"If", FALSE, A, <<s>>, << >>, << >>>>,
   <<"If", FALSE, A, <<s>>, << >>, <<<<CallB>>>>>>,
   <<"If", FALSE, A, <<Set>>, << >>, <<<<s>>>>>>,
   <<"If", FALSE, A, <<s, s>>, <<<<FALSE, B, <<s>>>>>>, <<<<s>>>>>>,
   <<"For", "i", One, A, << >>, <<s>>>>,
   <<"While", <<<<FALSE, A, <<s>>>>>>, << >>>>,
   <<"Repeat", <<s>>, FALSE, A>>, <<"Loop", <<s>>>>,
   <<"Select", A, << >>, << >>, <<<<<<<<One>>>>, <<s>>>>, <<<<<<One, B>>, <<A>>>>, << >>>>>>, <<<<s>>>>>>,
   <<"Select", A, <<One>>, <<s>>, << >>, << >>>>}
  \cup IF Evo THEN {<<"If", TRUE, A, <<s>>, <<<<TRUE, B, <<s>>>>>>, << >>>>,
                    <<"While", <<<<TRUE, A, <<s>>>>, <<FALSE, B, <<s>>>>, <<TRUE, B, << >>>>>>, <<<<s>>>>>>,
                    <<"Repeat", <<s>>, TRUE, A>>, <<"Try", <<s>>, <<s>>>>} ELSE {}

Inner == {Set, <<"RETURN", << >>>>, <<"Label", "lab">>, <<"Asm", <<"MOVE", "a", ",", "D0">>>>}

Stats2 == Simples \cup UNION {Wrapped(s) : s \in Simples}
Stats3 == UNION {Wrapped(t) : t \in UNION {Wrapped(s) : s \in Inner}}
          \cup UNION {Wrapped(u) : u \in UNION {Wrapped(t) : t \in
                 {<<"If", FALSE, A, <<Set>>, << >>, << >>>>}}}

-----------------------------------------------------------------------------
(* Declarations *)

Member(name, type, access, group) == <<<<name, << >>, type, << >>>>, access, group>>

Decls ==
  {<<TRUE, <<"CONST", <<<<"CON", One>>, <<"D0", <<"Bin", "+", One, <<"Lit", "2">>>>>>>>>>>>,
   <<FALSE, <<"ENUM", <<<<"CON", << >>>>, <<"D0", <<One>>>>>>>>>>,
   <<FALSE, <<"SET", <<"CON", "D0">>>>>>,
   <<FALSE, <<"RAISE", <<<<One, <<"Bin", "=", <<"Call", <<"Var", "Fun">>, << >>>>, <<"Nil">>>>>>>>>>>>,
   <<FALSE, <<"MODULE", <<"'text'", "'text'">>>>>>,
   <<FALSE, <<"Library", <<"'text'", ",", "1">>, <<<<"a", << >>>>, <<"Fun", <<"D0", "D0">>>>>>>>>>,
   <<TRUE, <<"DEF", <<<<"a", << >>, <<<<"LONG">>>>, <<One>>>>, <<"b", << >>, << >>, << >>>>>>>>>>,
   <<FALSE, <<"Label", "lab">>>>, <<FALSE, <<"LONG", <<One, <<"Lit", "2">>>>>>>>,
   <<FALSE, <<"Asm", <<"MOVE", "a", ",", "D0">>>>>>,
   <<TRUE, <<"Object", "obj", <<"a">>, << >>>>>>,
   <<FALSE, <<"Object", "obj", << >>, <<Member("a", <<<<"LONG">>>>, "none", << >>),
                                        Member("b", << >>, "PRIVATE", << >>),
                                        Member("i", <<<<"INT">>>>, "PUBLIC", << >>)>>>>>>}
  \cup IF Evo
       THEN {<<FALSE, <<"Object", "obj", << >>, <<Member("a", << >>, "none", << >>),
                                                  Member("b", << >>, "none", <<1, 0>>),
                                                  Member("i", << >>, "none", <<1, 0>>),
                                                  Member("b", <<<<"WORD">>>>, "none", <<1, 1>>),
                                                  Member("a", << >>, "none", << >>)>>>>>>}
       ELSE {}

Main(body) == <<FALSE, <<"Proc", "a", << >>, << >>, FALSE, body, << >>, << >>>>>>

Procs ==
  {Main(<< >>),
   <<TRUE, <<"Proc", "b", <<<<"i", << >>, << >>, <<One>>>>, <<"a", << >>, <<<<"PTR", Obj>>>>, << >>>>>>,
             <<"obj">>, TRUE, <<Set>>, <<<<TRUE, <<CallB>>>>>>, <<A, B>>>>>>,
   <<FALSE, <<"Proc", "Fun", << >>, << >>, TRUE, <<Set>>, <<<<FALSE, << >>>>>>, << >>>>>>,
   <<FALSE, <<"Proc", "a", << >>, << >>, FALSE, << >>, << >>, <<A, B>>>>>>}

OfBody(body) == << << >>, << >>, <<Main(body)>> >>

-----------------------------------------------------------------------------
Lay(breaks, oneLine, symbols) == [breaks |-> breaks, oneLine |-> oneLine, symbols |-> symbols]

SomeSources ==
  ({OfBody(<<<<"Assign", A, e>>, Set>>) : e \in Exps}
     \X {Lay(b, FALSE, Evo) : b \in {"inside", "broken", "tight"}})
  \cup ({OfBody(<<s, CallB>>) : s \in Stats2 \cup Stats3}
     \X {Lay(b, o, FALSE) : b \in {"inside", "broken", "comments"}, o \in BOOLEAN})
  \cup ({<<IF d[1] THEN <<<<"CON", "=", "1">>>> ELSE << >>, <<d, e>>, <<p>>>> : d, e \in Decls, p \in Procs}
     \X {Lay("broken", TRUE, Evo), Lay("semicolons", FALSE, FALSE)})

SomeBodies == {<< >>, <<Set, <<"If", FALSE, A, <<CallB>>, << >>, <<<<Set>>>>>>>>, <<<<"Loop", <<Set>>>>>>}

\* No token after which a line goes on.
SomeJunk == {"a", "1", "'text'", ")", "]", ":", "!", "THEN", "ENDFOR", "ENDPROC", "RETURN", "DEF",
             "NIL", "++", "MOVE", "ELSE", "IF", "LOOP", "UNTIL", "VOID"}
=============================================================================
