------------------------------- MODULE Parser -------------------------------
(***************************************************************************)
(* The E parser: lines, expressions, statements and declarations (lexer.js, *)
(* parser.js).                                                             *)
(*                                                                          *)
(* A token is a string; its spelling says what kind it is, as the lexer     *)
(* decides by the first two letters.  A tree is a tuple whose first element *)
(* is the kind of node; what may be missing is a sequence of at most one.   *)
(*                                                                          *)
(* The parser is recursive descent over the tokens.  Its state is passed    *)
(* from operator to operator as a record s: the position k, the number of   *)
(* errors e, the depths soft (softElse) and cell (cellDepth), and v, the    *)
(* tree that the last operator has made.                                    *)
(***************************************************************************)
EXTENDS Integers, Sequences

CONSTANT Evo     \* the E-VO extension is on

VARIABLES toks, glued    \* the tokens, and after which of them no blank follows

-----------------------------------------------------------------------------
(* Tokens *)

Idents == {"a", "b", "i", "obj", "lab"}
Ecalls == {"Fun"}
Uppers == {"CON", "LIBRARY", "MOVE", "D0", "SHL", "XOR"} \cup IF Evo THEN {"NOT", "ANDALSO"} ELSE {}
Literals == {"1", "2", "'text'"}
Ends == {"nl", "eof"}

BaseTypes == {"LONG", "INT", "CHAR", "STRING", "LIST"} \cup IF Evo THEN {"BYTE", "WORD"} ELSE {}

EvoKeywords == {"IFN", "ELSEIFN", "WHILEN", "ELSEWHILE", "ELSEWHILEN", "ALWAYS", "UNTILN",
                "EXITN", "CONT", "CONTN", "PSIZEOF", "ARRAYSIZE", "OFFSETOF",
                "UNION", "ENDUNION", "TRY", "CATCH", "ENDTRY", "BYTE", "WORD"}

Keywords ==
  {"DEF", "IF", "THEN", "ELSE", "ELSEIF", "ENDIF", "FOR", "TO", "STEP", "DO", "ENDFOR",
   "WHILE", "ENDWHILE", "REPEAT", "UNTIL", "LOOP", "ENDLOOP", "SELECT", "OF", "CASE",
   "DEFAULT", "ENDSELECT", "RETURN", "JUMP", "INC", "DEC", "EXIT", "VOID", "NEW", "END",
   "INCBIN", "SUPER", "BUT", "AND", "OR", "SIZEOF", "NIL", "PTR", "ARRAY", "IS", "ENDPROC",
   "PROC", "HANDLE", "EXCEPT", "MODULE", "CONST", "ENUM", "SET", "OBJECT", "ENDOBJECT",
   "PRIVATE", "PUBLIC", "RAISE", "OPT", "EXPORT", "LONG", "INT", "CHAR", "STRING", "LIST"}
  \cup IF Evo THEN EvoKeywords ELSE {}

Names == Idents \cup Ecalls \cup Uppers

\* Mutant: a line also goes on after a closing parenthesis.
ContinuesAlso == {",", "+", "-", "*", "/", "(", ")", "[", "{", ":=", "=", "<", "<=", ">=", "<>",
                  "<=>", "::", ".", "quote", "^", "|", "AND", "OR", "BUT", "OF", "TO", "STEP",
                  "IS", "PTR"}

\* continuesLine
Continues == {",", "+", "-", "*", "/", "(", "[", "{", ":=", "=", "<", "<=", ">=", "<>",
              "<=>", "::", ".", "quote", "^", "|", "AND", "OR", "BUT", "OF", "TO", "STEP",
              "IS", "PTR"}

\* The lexer's separators: a newline, a semicolon, a comment over several
\* lines; runs of them count once.  "_" stands for no blank between tokens.
Separators == {"nl", ";", "long comment"}

\* The places of a sequence that pass a test, in order.
Where(seq, Test(_)) == SelectSeq([i \in DOMAIN seq |-> i], Test)

Scanned(raw) ==
  LET at == Where(raw, LAMBDA i : raw[i] \notin {"comment", "_"})
      separator(n) == raw[at[n]] \in Separators
      kept == Where(at, LAMBDA n : separator(n) => n > 1 /\ ~separator(n - 1))
  IN [toks  |-> [m \in DOMAIN kept |-> IF separator(kept[m]) THEN "nl" ELSE raw[at[kept[m]]]],
      glued |-> {m \in DOMAIN kept : at[kept[m]] < Len(raw) /\ raw[at[kept[m]] + 1] = "_"}]

\* The parser's constructor takes out the newlines that end no statement.
Joined(lexed) ==
  LET kept == Where(lexed.toks, LAMBDA i :
                lexed.toks[i] = "nl" => i = 1 \/ lexed.toks[i - 1] \notin Continues)
  IN [toks  |-> [m \in DOMAIN kept |-> lexed.toks[kept[m]]],
      glued |-> {m \in DOMAIN kept : kept[m] \in lexed.glued}]

-----------------------------------------------------------------------------
(* The token stream *)

Start == [k |-> 1, e |-> 0, soft |-> 0, cell |-> 0, v |-> << >>]

Tok(i) == toks[IF i > Len(toks) THEN Len(toks) ELSE i]
At(s, t) == Tok(s.k) = t
In(s, T) == Tok(s.k) \in T
Pair(s, t, u) == Tok(s.k) = t /\ Tok(s.k + 1) = u /\ s.k \in glued
Advance(s) == [s EXCEPT !.k = IF @ < Len(toks) THEN @ + 1 ELSE @]
Over(s, n) == IF n = 1 THEN Advance(s) ELSE Advance(Advance(s))
Error(s) == [s EXCEPT !.e = @ + 1]
Val(s, tree) == [s EXCEPT !.v = tree]

Eat(s, t) == IF At(s, t) THEN Advance(s) ELSE s
Expect(s, t) == IF At(s, t) THEN Advance(s) ELSE Error(s)
ExpectOf(s, T) == IF In(s, T) THEN Val(Advance(s), Tok(s.k)) ELSE Val(Error(s), "?")

First(i, T) == CHOOSE j \in i .. Len(toks) : toks[j] \in T /\ \A h \in i .. j - 1 : toks[h] \notin T
Sync(s) == [s EXCEPT !.k = First(@, Ends)]

RECURSIVE SkipNl(_)
SkipNl(s) == IF At(s, "nl") THEN SkipNl(Advance(s)) ELSE s

\* Mutant: ELSE does not end the statement before it.
ExpectNlHard(s) ==
  IF At(s, "eof") THEN s
  ELSE IF At(s, "nl") THEN Advance(s)
  ELSE Sync(Error(s))

ExpectNl(s) ==
  IF (s.soft > 0 /\ At(s, "ELSE")) \/ At(s, "eof") THEN s
  ELSE IF At(s, "nl") THEN Advance(s)
  ELSE Sync(Error(s))

-----------------------------------------------------------------------------
(* The methods that call each other: Exp(s) is a call of ParseExp(s), and so *)
(* on, which are defined below.                                            *)

RECURSIVE Method(_, _, _)

Exp(s) == Method("Exp", "", s)
Buts(s) == Method("Buts", "", s)
Chain(s) == Method("Chain", "", s)
Links(s) == Method("Links", "", s)
Item(s) == Method("Item", "", s)
Postfix(s) == Method("Postfix", "", s)
Lval(s) == Method("Lval", "", s)
Type(s) == Method("Type", "", s)
ListItems(s) == Method("ListItems", "", s)
Args(s) == Method("Args", "", s)
Dims(s) == Method("Dims", "", s)
DeclParts(s) == Method("DeclParts", "", s)
Stat(s) == Method("Stat", "", s)
Elifs(s) == Method("Elifs", "", s)
Branches(s) == Method("Branches", "", s)
Cases(s) == Method("Cases", "", s)
Settings(s) == Method("Settings", "", s)
Registers(s) == Method("Registers", "", s)
Functions(s) == Method("Functions", "", s)
MemberLine(s) == Method("MemberLine", "", s)
Members(s) == Method("Members", "", s)
Group(s) == Method("Group", "", s)
Groups(s) == Method("Groups", "", s)
Program(s) == Method("Program", "", s)
Lines(kind, s) == Method("Lines", kind, s)
Commas(kind, s) == Method("Commas", kind, s)
Stats(terminators, s) == Method("Stats", terminators, s)

-----------------------------------------------------------------------------
(* Variables and lists *)

\* parseVarDecl: a name, dimensions, and then a type and a default in any order
ParseDims(s) ==
  LET r == Exp(Advance(s))
      dims == Val(Expect(r, "]"), Append(s.v, r.v))
  IN IF ~At(s, "[") THEN s ELSE IF Evo THEN Dims(dims) ELSE dims

ParseDeclParts(s) ==
  LET type == Type(Advance(s))
      init == Chain(Advance(s))
  IN CASE At(s, ":") /\ s.v[3] = << >> -> DeclParts(Val(type, [s.v EXCEPT ![3] = <<type.v>>]))
       [] At(s, "=") /\ s.v[4] = << >> -> DeclParts(Val(init, [s.v EXCEPT ![4] = <<init.v>>]))
       [] OTHER -> s

VarDecl(s) ==
  LET name == ExpectOf(s, Names)
      dims == Dims(Val(name, << >>))
  IN DeclParts(Val(dims, <<name.v, dims.v, << >>, << >>>>))

\* do { item } while (this.eat(',')), for the kinds of item that come in lists;
\* s.v is the sequence of items so far.
ParseCommas(kind, s) ==
  LET r == CASE kind = "Exp" -> Exp(s)
             [] kind = "Lval" -> Lval(s)
             [] kind = "Target" -> IF At(s, "[") THEN Item(s) ELSE Lval(s)
             [] kind = "Var" -> VarDecl(SkipNl(s))
             [] kind = "Range" -> LET f == Exp(s)
                                      t == Exp(Advance(f))
                                  IN IF At(f, "TO") THEN Val(t, <<f.v, t.v>>) ELSE Val(f, <<f.v>>)
      items == Val(r, Append(s.v, r.v))
  IN IF At(items, ",") THEN Commas(kind, Advance(items)) ELSE items

List(kind, s) == Commas(kind, Val(s, << >>))

-----------------------------------------------------------------------------
(* Expressions: no precedence, strictly from left to right *)

\* parseExp
ParseExp(s) ==
  LET r == Buts(Chain(s))
      then == Chain(Advance(r))
      else == Chain(Expect(then, ":"))
  IN IF Evo /\ At(r, "?") THEN Val(else, <<"Ternary", r.v, then.v, else.v>>) ELSE r

ParseButs(s) ==
  LET r == Chain(Advance(s))
  IN IF At(s, "BUT") THEN Buts(Val(r, <<"But", s.v, r.v>>)) ELSE s

ParseChain(s) ==
  LET r == Item(Advance(s))
  IN IF At(s, "-") THEN Links(Val(r, <<"Neg", r.v>>)) ELSE Links(Item(s))

\* peekCompoundAssign: the operator of an E-VO "a += b", "none" if it is not one
Compound(s) ==
  LET ops == {t \in {"+", "-", "*", "/", "AND", "OR"} : Pair(s, t, "=")}
  IN CASE Pair(s, "<", "<=") -> "SHL"
       [] Pair(s, ">", ">=") -> "SHR"
       [] ops # {} -> Tok(s.k)
       [] OTHER -> "none"

BinOps ==
  {"+", "-", "*", "/", "=", "<>", "<", ">", "<=", ">=", "<=>", "!",
   "AND", "OR", "SHL", "SHR", "XOR"} \cup IF Evo THEN {"ANDALSO", "ORELSE"} ELSE {}

\* The operator at s and the number of its tokens, 0 if there is none.
Operator(s) ==
  LET t == Tok(s.k)
      none == [op |-> "none", n |-> 0]
      symbol == CASE Pair(s, "=", "=") -> "=="
                  [] Pair(s, "<", "<") /\ s.cell = 0 -> "SHL"
                  [] Pair(s, ">", ">") /\ s.cell = 0 -> "SHR"
                  [] Pair(s, "|", "|") /\ s.cell = 0 -> "OR"
                  [] OTHER -> "none"
      closesCell == t = ">" /\ s.cell > 0
  IN IF Evo /\ Compound(s) # "none" THEN none
     ELSE IF Evo /\ symbol # "none" THEN [op |-> symbol, n |-> 2]
     ELSE CASE Evo /\ t = "&" -> [op |-> "AND", n |-> 1]
            [] t \in BinOps /\ ~closesCell -> [op |-> t, n |-> 1]
            [] OTHER -> none

AtItemStart(s) ==
  In(s, Literals \cup Names \cup {"(", "[", "{", "quote", "^", "-", "~", "<",
                                  "IF", "SIZEOF", "NEW", "NIL", "SUPER"})

\* The loop of parseChain; s.v is what is on the left.
ParseLinks(s) ==
  LET o == Operator(s)
      after == Over(s, o.n)
      range == List("Range", Expect(after, "["))
      right == Item(after)
  IN CASE o.n = 0 -> s
       [] o.op = "==" ->
            Links(Val(Expect(range, "]"), <<"QuickCompare", s.v, range.v>>))
       [] o.op = "!" /\ ~AtItemStart(after) -> Links(Val(after, <<"FloatConv", s.v>>))
       [] OTHER -> Links(Val(right, <<"Bin", o.op, s.v, right.v>>))

\* parseType
ParseType(s) ==
  LET to == Type(Expect(Advance(s), "TO"))
      of == Type(Advance(Advance(s)))
  IN CASE At(s, "PTR") -> Val(to, <<"PTR", to.v>>)
       [] At(s, "ARRAY") ->
            IF At(Advance(s), "OF") THEN Val(of, <<"ARRAY", <<of.v>>>>)
            ELSE Val(Advance(s), <<"ARRAY", << >>>>)
       [] In(s, BaseTypes) -> Val(Advance(s), <<Tok(s.k)>>)
       [] In(s, Names) -> Val(Advance(s), <<"OBJECT", Tok(s.k)>>)
       [] OTHER -> Val(Error(s), <<"LONG">>)

\* parseListLit: newlines mean nothing inside the brackets
ParseListItems(s) ==
  LET start == SkipNl(s)
      r == Exp(start)
      items == SkipNl(Val(r, Append(s.v, r.v)))
  IN IF At(start, "]") THEN start
     ELSE IF At(items, ",") THEN ListItems(Advance(items)) ELSE items

ListLit(s) ==
  LET items == ListItems(Val(Expect(s, "["), << >>))
      end == Expect(SkipNl(items), "]")
      type == Type(Advance(end))
  IN IF At(end, ":") THEN Val(type, <<"List", items.v, <<type.v>>>>)
     ELSE Val(end, <<"List", items.v, << >>>>)

\* The arguments of a call, up to the parenthesis.
ParseArgs(s) ==
  LET r == Exp(SkipNl(s))
      args == SkipNl(Val(r, Append(s.v, r.v)))
  IN IF At(args, ",") THEN Args(Advance(args)) ELSE args

ParsePostfix(s) ==
  LET after == Advance(s)
      open == SkipNl(after)
      args == IF At(open, ")") THEN Val(open, << >>) ELSE Args(Val(open, << >>))
      index == IF At(after, "]") THEN Val(after, << >>) ELSE LET r == Exp(after) IN Val(r, <<r.v>>)
      type == Type(after)
  IN CASE At(s, "(") -> Postfix(Val(Expect(args, ")"), <<"Call", s.v, args.v>>))
       [] At(s, "[") -> Postfix(Val(Expect(index, "]"), <<"Index", s.v, index.v>>))
       [] At(s, ".") -> IF In(after, Names)
                        THEN Postfix(Val(Advance(after), <<"Member", s.v, Tok(after.k)>>))
                        ELSE Val(Error(after), s.v)
       [] At(s, "::") -> Postfix(Val(type, <<"Cast", s.v, type.v>>))
       [] At(s, "++") -> Postfix(Val(after, <<"PostInc", s.v>>))
       [] At(s, "--") -> Postfix(Val(after, <<"PostDec", s.v>>))
       [] OTHER -> s

Ref(s) == Postfix(Val(Advance(s), <<"Var", Tok(s.k)>>))

ParseLval(s) ==
  LET r == Lval(Advance(s))
  IN CASE At(s, "^") -> Val(r, <<"Deref", r.v>>)
       [] In(s, Names) -> Ref(s)
       [] OTHER -> Val(Advance(Error(s)), <<"Error">>)

\* SIZEOF and the E-VO operators that take names
NameOperator(s) ==
  LET type == ExpectOf(Advance(s), Idents \cup Ecalls \cup {"LONG", "INT", "CHAR", "PTR"}
                                   \cup IF Evo THEN {"BYTE", "WORD"} ELSE {})
      object == ExpectOf(Advance(s), Names)
      member == ExpectOf(Expect(object, "."), Names)
      dim == Chain(Advance(s))
      array == ExpectOf(Advance(dim), Names)
  IN CASE In(s, {"SIZEOF", "PSIZEOF"}) -> Val(type, <<Tok(s.k), type.v>>)
       [] At(s, "OFFSETOF") -> Val(member, <<"OFFSETOF", object.v, member.v>>)
       [] At(s, "ARRAYSIZE") ->
            IF At(dim, ",") THEN Val(array, <<"ARRAYSIZE", dim.v, array.v>>)
            ELSE Val(dim, <<"ARRAYSIZE", <<"Lit", "1">>, dim.v[2]>>)

Paren(s) ==
  LET e == Exp(SkipNl(Advance(s)))
      rhs == Exp(Advance(e))
      inside == IF At(e, ":=") THEN Val(rhs, <<"AssignExp", e.v, rhs.v>>) ELSE e
  IN Postfix(Val(Expect(inside, ")"), <<"Paren", inside.v>>))

\* <a, b | tail>, where a bare ">" is the end
Cell(s) ==
  LET items == List("Exp", [Advance(s) EXCEPT !.cell = @ + 1])
      t == Exp(Advance(items))
      tail == IF At(items, "|") THEN Val(t, <<t.v>>) ELSE Val(items, << >>)
  IN Val([Expect(tail, ">") EXCEPT !.cell = @ - 1], <<"Cell", items.v, tail.v>>)

\* IF a THEN b ELSE c as an expression
IfExp(s) ==
  LET cond == Exp(Advance(s))
      then == Exp(SkipNl(Expect(cond, "THEN")))
      else == Exp(SkipNl(Expect(SkipNl(then), "ELSE")))
  IN Val(else, <<"Ternary", cond.v, then.v, else.v>>)

ParseItem(s) ==
  LET after == Advance(s)
      operand == Item(after)
      quoted == Exp(after)
      address == ExpectOf(after, Idents)
      pointed == Lval(after)
      ref == Ref(s)
      value == Exp(Advance(ref))
      list == ListLit(after)
  IN IF Evo /\ In(s, {"NOT", "~"}) THEN Val(operand, <<"Not", operand.v>>)
     ELSE
     CASE In(s, Literals) -> Val(after, <<"Lit", Tok(s.k)>>)
       [] At(s, "-") -> Val(operand, <<"Neg", operand.v>>)
       [] At(s, "!") -> Val(operand, <<"FloatPrefix", operand.v>>)
       [] At(s, "(") -> Paren(s)
       [] At(s, "[") -> Postfix(ListLit(s))
       [] At(s, "<") -> Cell(s)
       [] At(s, "{") -> Val(Expect(address, "}"), <<"AddrOf", address.v>>)
       [] At(s, "quote") -> Val(quoted, <<"Quote", quoted.v>>)
       [] At(s, "^") -> Val(pointed, <<"Deref", pointed.v>>)
       [] In(s, Names) -> IF At(ref, ":=") /\ ~(Evo /\ Pair(ref, ":=", ":"))
                          THEN Val(value, <<"AssignExp", ref.v, value.v>>) ELSE ref
       [] At(s, "IF") -> IfExp(s)
       [] In(s, {"SIZEOF"} \cup IF Evo THEN {"PSIZEOF", "OFFSETOF", "ARRAYSIZE"} ELSE {}) ->
            NameOperator(s)
       [] At(s, "NEW") -> IF At(after, "[") THEN Val(list, <<"New", list.v>>)
                          ELSE Val(pointed, <<"New", pointed.v>>)
       [] At(s, "NIL") -> Val(after, <<"Nil">>)
       [] At(s, "SUPER") -> Val(pointed, <<"Super", pointed.v>>)
       [] In(s, {"LONG", "INT", "CHAR", "STRING", "LIST", "ARRAY"}) ->
            Val(after, <<"TypeRef", Tok(s.k)>>)
       [] At(s, "~") -> Val(s, <<"undefined">>)       \* native: no error, no token read
       [] OTHER -> Val(Advance(Error(s)), <<"Error">>)

-----------------------------------------------------------------------------
(* Statements *)

\* parseStats: the statements up to one of the terminators.
ParseStats(terminators, s) ==
  LET start == SkipNl(s)
      r == Stat(start)
      kept == Val(r, s.v \o r.v)
  IN IF In(start, terminators \cup {"eof"}) THEN start
     ELSE IF r.k = start.k THEN Stats(terminators, Sync(Error(kept)))
     ELSE Stats(terminators, kept)

Body(terminators, s) == Stats(terminators, Val(s, << >>))

\* After the last token of a statement: tree is its only statement.
Ended(s, tree) == Val(ExpectNl(s), <<tree>>)

\* What follows RETURN, EXIT and CONT is looked for up to the end of the line,
\* also in front of an ELSE.
Optional(s, ends, expressions) ==
  IF In(s, ends) THEN Val(s, << >>)
  ELSE IF expressions THEN List("Exp", s) ELSE LET r == Exp(s) IN Val(r, <<r.v>>)

\* The one statement of a one-line form; ELSE ends it if soft is set.
OneStat(s, soft) ==
  LET r == Stat([s EXCEPT !.soft = @ + soft]) IN [r EXCEPT !.soft = @ - soft]

IfEnds == {"ELSEIF", "ELSEIFN", "ELSE", "ENDIF"}
Evos(T) == T \cap Keywords       \* the keywords of the mode

If(s) ==
  LET neg == At(s, "IFN")
      cond == Exp(Advance(s))
      then == OneStat(SkipNl(Advance(cond)), 1)
      \* a next-line ELSE always belongs to an enclosing IF
      sameLine == At(then, "ELSE") /\ toks[then.k - 1] # "nl"
      else == OneStat(Advance(then), 1)
      body == Body(Evos(IfEnds), ExpectNl(cond))
      elifs == Elifs(Val(body, << >>))
      last == Body({"ENDIF"}, ExpectNl(Advance(elifs)))
      if(r, thens, others, els) == <<"If", neg, cond.v, thens, others, els>>
  IN CASE At(cond, "THEN") /\ sameLine -> Val(else, <<if(else, then.v, << >>, <<else.v>>)>>)
       [] At(cond, "THEN") /\ ~sameLine -> Val(then, <<if(then, then.v, << >>, << >>)>>)
       [] ~At(cond, "THEN") /\ At(elifs, "ELSE") ->
            Ended(Expect(last, "ENDIF"), if(last, body.v, elifs.v, <<last.v>>))
       [] OTHER -> Ended(Expect(elifs, "ENDIF"), if(elifs, body.v, elifs.v, << >>))

ParseElifs(s) ==
  LET cond == Exp(Advance(s))
      body == Body(Evos(IfEnds), ExpectNl(cond))
  IN IF In(s, Evos({"ELSEIF", "ELSEIFN"}))
     THEN Elifs(Val(body, Append(s.v, <<At(s, "ELSEIFN"), cond.v, body.v>>)))
     ELSE s

For(s) ==
  LET var == ExpectOf(Advance(s), Idents)
      from == Exp(Expect(var, ":="))
      to == Exp(Expect(from, "TO"))
      step == IF At(to, "STEP") THEN Optional(Advance(to), {}, FALSE) ELSE Val(to, << >>)
      one == OneStat(Advance(step), 0)
      body == Body({"ENDFOR"}, ExpectNl(step))
      for(stats) == <<"For", var.v, from.v, to.v, step.v, stats>>
  IN IF At(step, "DO") THEN Val(one, <<for(one.v)>>)
     ELSE Ended(Expect(body, "ENDFOR"), for(body.v))

WhileEnds == {"ELSEWHILE", "ELSEWHILEN", "ALWAYS", "ENDWHILE"}

While(s) ==
  LET cond == Exp(Advance(s))
      neg == At(s, "WHILEN")
      one == OneStat(Advance(cond), 0)
      body == Body(Evos(WhileEnds), ExpectNl(cond))
      branches == Branches(Val(body, <<<<neg, cond.v, body.v>>>>))
      always == Body({"ENDWHILE"}, ExpectNl(Advance(branches)))
  IN CASE At(cond, "DO") -> Val(one, <<<<"While", <<<<neg, cond.v, one.v>>>>, << >>>>>>)
       [] At(branches, "ALWAYS") /\ ~At(cond, "DO") ->
            Ended(Expect(always, "ENDWHILE"), <<"While", branches.v, <<always.v>>>>)
       [] OTHER -> Ended(Expect(branches, "ENDWHILE"), <<"While", branches.v, << >>>>)

ParseBranches(s) ==
  LET cond == Exp(Advance(s))
      body == Body(Evos(WhileEnds), ExpectNl(cond))
  IN IF In(s, Evos({"ELSEWHILE", "ELSEWHILEN"}))
     THEN Branches(Val(body, Append(s.v, <<At(s, "ELSEWHILEN"), cond.v, body.v>>)))
     ELSE s

Repeat(s) ==
  LET body == Body(Evos({"UNTIL", "UNTILN"}), ExpectNl(Advance(s)))
      neg == Evo /\ At(body, "UNTILN")
      cond == Exp(IF neg THEN Advance(body) ELSE Expect(body, "UNTIL"))
  IN Ended(cond, <<"Repeat", body.v, neg, cond.v>>)

Loop(s) ==
  LET body == Body({"ENDLOOP"}, ExpectNl(Advance(s)))
  IN Ended(Expect(body, "ENDLOOP"), <<"Loop", body.v>>)

Try(s) ==
  LET body == Body({"CATCH", "ENDTRY"}, ExpectNl(Advance(s)))
      handler == Body({"ENDTRY"}, ExpectNl(Expect(body, "CATCH")))
  IN Ended(Expect(handler, "ENDTRY"), <<"Try", body.v, handler.v>>)

SelectEnds == {"CASE", "DEFAULT", "ENDSELECT"}

Select(s) ==
  LET subject == Exp(Advance(s))
      of == IF At(subject, "OF") THEN Optional(Advance(subject), {}, FALSE)
            ELSE Val(subject, << >>)
      before == Body(SelectEnds, SkipNl(ExpectNl(of)))
      cases == Cases(Val(before, << >>))
      default == Body({"ENDSELECT"}, ExpectNl(Advance(cases)))
      end == IF At(cases, "DEFAULT") THEN Val(default, <<default.v>>) ELSE Val(cases, << >>)
  IN Ended(Expect(end, "ENDSELECT"),
           <<"Select", subject.v, of.v, before.v, cases.v, end.v>>)

ParseCases(s) ==
  LET matches == List("Range", Advance(s))
      body == Body(SelectEnds, ExpectNl(matches))
  IN IF At(s, "CASE") THEN Cases(Val(body, Append(s.v, <<matches.v, body.v>>))) ELSE s

\* An uppercase word begins a line of assembler, which is taken as it is.
Asm(s) ==
  LET end == Sync(s)
  IN Ended(end, <<"Asm", SubSeq(toks, s.k, end.k - 1)>>)

\* a, b := exp
Targets(s) ==
  LET more[k \in Nat] == IF Tok(k) \in Idents /\ Tok(k + 1) = ","
                         THEN <<Tok(k)>> \o more[k + 2] ELSE <<Tok(k)>>
  IN more[s.k]

IsMultiAssign(s) ==
  LET names == Targets(s)
      end == s.k + 2 * Len(names) - 1
  IN Len(names) > 1 /\ names[Len(names)] \in Idents /\ Tok(end) = ":="

MultiAssign(s) ==
  LET names == Targets(s)
      exp == Exp([s EXCEPT !.k = @ + 2 * Len(names)])
  IN Ended(exp, <<"MultiAssign", names, exp.v>>)

\* An expression, an assignment to what the expression names, or an E-VO swap
\* or compound assignment, which becomes an assignment.
ExpStat(s) ==
  LET exp == Exp(s)
      rhs(n) == Exp(Over(exp, n))
      rhs1 == rhs(1)
      rhs2 == rhs(2)
  IN IF Evo /\ Pair(exp, ":=", ":") THEN Ended(rhs2, <<"Swap", exp.v, rhs2.v>>)
     ELSE
     CASE At(exp, ":=") -> Ended(rhs1, <<"Assign", exp.v, rhs1.v>>)
       [] Evo /\ Compound(exp) # "none" ->
            Ended(rhs2, <<"Assign", exp.v, <<"Bin", Compound(exp), exp.v, rhs2.v>>>>)
       [] OTHER ->
            Ended(exp, IF exp.v[1] = "AssignExp" THEN <<"Assign", exp.v[2], exp.v[3]>>
                       ELSE <<"ExprStat", exp.v>>)

\* The statements that are a keyword and what belongs to it, to the end of line.
Simple(s) ==
  LET after == Advance(s)
      kw == Tok(s.k)
      named(n) == Ended(n, <<kw, n.v>>)
  IN CASE At(s, "DEF") -> named(List("Var", after))
       [] At(s, "RETURN") -> named(Optional(after, Ends, TRUE))
       [] At(s, "JUMP") -> named(ExpectOf(after, Idents))
       [] In(s, {"INC", "DEC"}) -> named(Lval(after))
       [] In(s, {"EXIT", "EXITN", "CONT", "CONTN"}) -> named(Optional(after, {"nl"}, FALSE))
       [] At(s, "VOID") -> named(Exp(after))
       [] At(s, "NEW") -> named(List("Target", after))
       [] At(s, "END") -> named(List("Lval", after))
       [] At(s, "INCBIN") -> named(ExpectOf(after, {"'text'"}))
       [] In(s, {"LONG", "INT", "CHAR"}) -> named(List("Exp", after))
       [] OTHER -> LET e == Exp(s) IN Ended(e, <<"ExprStat", e.v>>)     \* SUPER

SimpleKeywords ==
  Evos({"DEF", "RETURN", "JUMP", "INC", "DEC", "EXIT", "EXITN", "CONT", "CONTN", "VOID",
        "NEW", "END", "INCBIN", "LONG", "INT", "CHAR", "SUPER"})

\* parseStat; s.v is a sequence of one statement, or of none after an error.
ParseStat(s) ==
  CASE In(s, Evos({"IF", "IFN"})) -> If(s)
    [] At(s, "FOR") -> For(s)
    [] In(s, Evos({"WHILE", "WHILEN"})) -> While(s)
    [] At(s, "REPEAT") -> Repeat(s)
    [] At(s, "LOOP") -> Loop(s)
    [] Evo /\ At(s, "TRY") -> Try(s)
    [] At(s, "SELECT") -> Select(s)
    [] In(s, SimpleKeywords) -> Simple(s)
    [] In(s, Keywords \ SimpleKeywords) /\ ~In(s, {"IF", "IFN", "FOR", "WHILE", "WHILEN",
          "REPEAT", "LOOP", "TRY", "SELECT"}) -> Val(Sync(Error(s)), << >>)
    [] In(s, Uppers) -> Asm(s)
    [] In(s, Idents) /\ Tok(s.k + 1) = ":" ->
         Val(Advance(Advance(s)), <<<<"Label", Tok(s.k)>>>>)
    [] In(s, Idents) /\ IsMultiAssign(s) -> MultiAssign(s)
    [] OTHER -> ExpStat(s)

-----------------------------------------------------------------------------
(* Declarations *)

\* do { skipNl; item } while (this.eat(',')); s.v is the sequence so far.
ParseLines(kind, s) ==
  LET start == SkipNl(s)
      name == ExpectOf(start, Uppers)
      value == Exp(Advance(name))
      id == Item(start)
      call == Chain(Expect(id, "IF"))
      constant == Exp(Expect(name, "="))
      module == ExpectOf(s, {"'text'"})
      r == CASE kind = "CONST" -> Val(constant, <<name.v, constant.v>>)
             [] kind = "ENUM" -> IF At(name, "=") THEN Val(value, <<name.v, <<value.v>>>>)
                                 ELSE Val(name, <<name.v, << >>>>)
             [] kind = "SET" -> name
             [] kind = "RAISE" -> Val(call, <<id.v, call.v>>)
             [] kind = "MODULE" -> module
      named == CASE kind = "RAISE" -> TRUE
                 [] kind = "MODULE" -> In(s, {"'text'"})
                 [] OTHER -> In(start, Uppers)
      items == Val(r, IF named THEN Append(s.v, r.v) ELSE s.v)
  IN IF At(items, ",") THEN Lines(kind, Advance(items)) ELSE items

Declaration(kind, s) ==
  LET r == Lines(kind, Val(Advance(s), << >>)) IN Val(ExpectNl(r), <<kind, r.v>>)

\* OPT: settings, each as its tokens
ParseSettings(s) ==
  LET end == First(s.k, Ends \cup {","})
      r == Val([s EXCEPT !.k = end], Append(s.v, SubSeq(toks, s.k, end - 1)))
  IN IF At(r, ",") THEN Settings(Advance(r)) ELSE r

Opt(s) == LET r == Settings(Val(Advance(s), << >>)) IN Val(ExpectNl(r), r.v)

\* LIBRARY header IS function(registers), ...
ParseRegisters(s) ==
  LET r == Val(Advance(s), Append(s.v, Tok(s.k)))
  IN IF At(r, ",") THEN Registers(Advance(r)) ELSE r

ParseFunctions(s) ==
  LET start == SkipNl(s)
      name == Advance(start)
      open == Val(Advance(name), << >>)
      regs == IF ~At(name, "(") THEN Val(name, << >>)
              ELSE Expect(IF At(open, ")") THEN open ELSE Registers(open), ")")
      r == Val(regs, Append(s.v, <<Tok(start.k), regs.v>>))
  IN IF ~In(start, Idents \cup Ecalls) THEN Error(start)
     ELSE IF At(r, ",") THEN Functions(Advance(r)) ELSE r

Library(s) ==
  LET header == [Advance(s) EXCEPT !.k = First(@, Ends \cup {"IS"})]
      functions == Functions(Val(Expect(header, "IS"), << >>))
  IN Val(ExpectNl(functions),
         <<"Library", SubSeq(toks, s.k + 1, header.k - 1), functions.v>>)

-----------------------------------------------------------------------------
(* OBJECT: members with their access and, in an E-VO UNION, their group *)

\* One line of members; s.v is the object so far.
ParseMemberLine(s) ==
  LET start == SkipNl(s)
      m == VarDecl(start)
      kept == Val(m, [s.v EXCEPT !.members = Append(@, <<m.v, s.v.access, << >>>>)])
  IN IF At(start, "ENDOBJECT") THEN start
     ELSE IF At(kept, ",") THEN MemberLine(Advance(kept)) ELSE kept

\* The members of a group up to its bracket.
ParseGroup(s) ==
  LET m == VarDecl(s)
      kept == Val(m, [s.v EXCEPT !.members =
                        Append(@, <<m.v, s.v.access, <<s.v.union, s.v.group>>>>)])
  IN IF In(s, {"]", "eof"}) THEN s ELSE Group(SkipNl(Eat(kept, ",")))

ParseGroups(s) ==
  LET r == Expect(Group(SkipNl(Advance(s))), "]")
  IN IF At(s, "[")
     THEN Groups(SkipNl(Eat(Val(r, [r.v EXCEPT !.group = @ + 1]), ",")))
     ELSE s

Union(s) ==
  LET start == SkipNl(Val(Advance(s), [s.v EXCEPT !.union = @ + 1, !.group = 0]))
      outer == At(start, "[") /\ At(SkipNl(Advance(start)), "[")
      groups == Groups(IF outer THEN SkipNl(Advance(start)) ELSE start)
      end == IF outer THEN SkipNl(Expect(groups, "]")) ELSE groups
  IN SkipNl(ExpectNl(Expect(end, "ENDUNION")))

\* PRIVATE and PUBLIC hold until the next of them, alone on a line or not.
ParseMembers(s) ==
  LET access == Val(Advance(s), [s.v EXCEPT !.access = Tok(s.k)])
      from == IF In(s, {"PRIVATE", "PUBLIC"}) THEN access ELSE s
  IN IF In(s, {"ENDOBJECT", "eof"}) THEN s
     ELSE IF In(s, {"PRIVATE", "PUBLIC"}) /\ At(from, "nl") THEN Members(SkipNl(from))
     ELSE IF Evo /\ At(from, "UNION") THEN Members(Union(from))
     ELSE Members(SkipNl(ExpectNl(MemberLine(from))))

Object(s) ==
  LET name == ExpectOf(Advance(s), Names)
      parent == ExpectOf(Advance(name), Names)
      of == IF At(name, "OF") THEN Val(parent, <<parent.v>>) ELSE Val(name, << >>)
      access == IF At(of, "PRIVATE") THEN "PRIVATE" ELSE "none"
      members == Members(SkipNl(ExpectNl(
                   Val(Eat(of, "PRIVATE"),
                       [access |-> access, union |-> 0, group |-> 0, members |-> << >>]))))
  IN Val(ExpectNl(Expect(members, "ENDOBJECT")),
         <<"Object", name.v, of.v, members.v.members>>)

-----------------------------------------------------------------------------
(* PROC *)

Proc(s) ==
  LET name == ExpectOf(Advance(s), Idents \cup Ecalls)
      open == Expect(name, "(")
      args == IF At(open, ")") THEN Val(open, << >>) ELSE List("Var", open)
      close == Expect(args, ")")
      class == ExpectOf(Advance(close), Names)
      of == IF At(close, "OF") THEN Val(class, <<class.v>>) ELSE Val(close, << >>)
      head == Eat(of, "HANDLE")
      oneLine == In(head, {"IS", "RETURN"})
      value == List("Exp", Advance(head))
      body == Body({"ENDPROC", "EXCEPT"}, ExpectNl(head))
      do == At(Advance(body), "DO")
      handler == Body({"ENDPROC"}, ExpectNl(Eat(Advance(body), "DO")))
      except == IF At(body, "EXCEPT") THEN Val(handler, <<<<do, handler.v>>>>) ELSE Val(body, << >>)
      end == Expect(except, "ENDPROC")
      returns == IF In(end, Ends) THEN Val(end, << >>) ELSE List("Exp", end)
      proc(stats, handling, values) ==
        <<"Proc", name.v, args.v, of.v, At(of, "HANDLE"), stats, handling, values>>
  IN IF oneLine THEN Val(ExpectNl(value), proc(<< >>, << >>, value.v))
     ELSE Val(ExpectNl(returns), proc(body.v, except.v, returns.v))

-----------------------------------------------------------------------------
(* The top level *)

\* A declaration, which may be exported, into the list where it belongs.
TopLevel(s) ==
  LET start == Eat(s, "EXPORT")
      exported == /\ At(s, "EXPORT")
                  /\ In(start, {"DEF", "CONST", "ENUM", "SET", "OBJECT", "PROC"})
      into(list, r, items) == Val(r, [s.v EXCEPT ![list] = @ \o items])
      declared(r) == into(2, r, <<<<exported, r.v>>>>)
      stat == Stat(start)
      opts == Opt(start)
      proc == Proc(start)
      label == Advance(Advance(start))
      asm == [start EXCEPT !.k = First(@, Ends)]
  IN CASE At(start, "OPT") -> into(1, opts, opts.v)
       [] In(start, {"CONST", "ENUM", "SET", "RAISE", "MODULE"}) ->
            declared(Declaration(Tok(start.k), start))
       [] At(start, "LIBRARY") -> declared(Library(start))
       [] At(start, "DEF") -> declared(LET r == Stat(start) IN Val(r, r.v[1]))
       [] At(start, "OBJECT") -> declared(Object(start))
       [] At(start, "PROC") -> into(3, proc, <<<<exported, proc.v>>>>)
       [] In(start, Idents) /\ Tok(start.k + 1) = ":" ->
            into(2, label, <<<<FALSE, <<"Label", Tok(start.k)>>>>>>)
       [] In(start, Uppers \ {"LIBRARY"}) ->
            into(2, asm, <<<<FALSE, <<"Asm", SubSeq(toks, start.k, asm.k - 1)>>>>>>)
       [] In(start, {"LONG", "INT", "CHAR", "INCBIN"} \cup Ecalls \cup Idents)
          /\ ~(In(start, Idents) /\ Tok(start.k + 1) = ":") ->
            into(2, stat, [i \in DOMAIN stat.v |-> <<FALSE, stat.v[i]>>])
       [] OTHER -> Val(Sync(Error(start)), s.v)

ParseProgram(s) == IF At(s, "eof") THEN s ELSE Program(SkipNl(TopLevel(s)))

-----------------------------------------------------------------------------
Method(name, of, s) ==
  CASE name = "Commas" -> ParseCommas(of, s)
    [] name = "Stats" -> ParseStats(of, s)
    [] name = "Exp" -> ParseExp(s)
    [] name = "Buts" -> ParseButs(s)
    [] name = "Chain" -> ParseChain(s)
    [] name = "Links" -> ParseLinks(s)
    [] name = "Item" -> ParseItem(s)
    [] name = "Postfix" -> ParsePostfix(s)
    [] name = "Lval" -> ParseLval(s)
    [] name = "Type" -> ParseType(s)
    [] name = "ListItems" -> ParseListItems(s)
    [] name = "Args" -> ParseArgs(s)
    [] name = "Dims" -> ParseDims(s)
    [] name = "DeclParts" -> ParseDeclParts(s)
    [] name = "Stat" -> ParseStat(s)
    [] name = "Elifs" -> ParseElifs(s)
    [] name = "Branches" -> ParseBranches(s)
    [] name = "Cases" -> ParseCases(s)
    [] name = "Lines" -> ParseLines(of, s)
    [] name = "Settings" -> ParseSettings(s)
    [] name = "Registers" -> ParseRegisters(s)
    [] name = "Functions" -> ParseFunctions(s)
    [] name = "MemberLine" -> ParseMemberLine(s)
    [] name = "Members" -> ParseMembers(s)
    [] name = "Group" -> ParseGroup(s)
    [] name = "Groups" -> ParseGroups(s)
    [] name = "Program" -> ParseProgram(s)

\* parse: the lists of options, of declarations and of procedures, and the
\* errors.
Parsed == Program(SkipNl(Val(Start, << << >>, << >>, << >> >>)))
=============================================================================
