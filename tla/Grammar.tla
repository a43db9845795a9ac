------------------------------- MODULE Grammar -------------------------------
(***************************************************************************)
(* What the parser is checked against: how a tree is written as E source.   *)
(* A program picks a tree and a layout, writes the tokens, and the parser   *)
(* (module Parser) reads them.                            *)
(*                                                                          *)
(* A layout says where newlines and comments go and which of the forms that *)
(* E has for one tree are used: one-line statements (oneLine), E-VO symbols *)
(* for operators and compound assignments (symbols).  In what Show makes,   *)
(* "nl?" is a place inside brackets where a newline means nothing.          *)
(***************************************************************************)
EXTENDS Parser

CONSTANTS
  Sources,     \* pairs of a tree (options, declarations and procedures) and a
               \* layout, a record [breaks, oneLine, symbols]
  Bodies,      \* sequences of statements, around the lines that are in error
  Junk,        \* tokens of the lines that are in error
  JunkLength   \* bound: tokens of such a line

VARIABLES input, result

vars == <<toks, glued, input, result>>

\* By halves: the sequences of a whole program are many.
Flat(seqs) ==
  LET f[from, to \in 1 .. Len(seqs)] ==
        LET middle == (from + to) \div 2
        IN IF from = to THEN seqs[from] ELSE f[from, middle] \o f[middle + 1, to]
  IN IF seqs = << >> THEN << >> ELSE f[1, Len(seqs)]

Joins(seqs, between) ==
  Flat([i \in DOMAIN seqs |-> IF i = 1 THEN seqs[1] ELSE between \o seqs[i]])

Option(opt, before, Show(_)) == IF opt = << >> THEN << >> ELSE before \o Show(opt[1])

-----------------------------------------------------------------------------
(* Expressions and types *)

\* Where an expression may stand: a closed item anywhere, a chain on the left
\* of an operator, an open one, which takes all that follows, only at the end.
RECURSIVE Level(_)
Level(e) ==
  CASE e[1] \in {"Quote", "AssignExp", "Ternary"} -> "open"
    [] e[1] \in {"Neg", "Not", "FloatPrefix"} -> Level(e[2])
    [] e[1] = "Bin" -> IF Level(e[4]) = "open" THEN "open" ELSE "chain"
    [] e[1] \in {"FloatConv", "QuickCompare"} -> "chain"
    [] e[1] = "But" -> IF Level(e[3]) = "open" THEN "open" ELSE "but"
    [] OTHER -> "item"

RECURSIVE ShowType(_), ShowExp(_, _), ShowStat(_, _)

ShowType(t) ==
  CASE t[1] = "PTR" -> <<"PTR", "TO">> \o ShowType(t[2])
    [] t[1] = "ARRAY" -> <<"ARRAY">> \o Option(t[2], <<"OF">>, ShowType)
    [] t[1] = "OBJECT" -> <<t[2]>>
    [] OTHER -> <<t[1]>>

ShowOp(op, sym) ==
  CASE sym /\ op = "SHL" -> <<"<", "_", "<">>
    [] sym /\ op = "SHR" -> <<">", "_", ">">>
    [] sym /\ op = "AND" -> <<"&">>
    [] sym /\ op = "OR" -> <<"|", "_", "|">>
    [] OTHER -> <<op>>

\* sym: write operators as symbols; not in a cell, where they would end it.
ShowExp(e, sym) ==
  LET Sub(x) == ShowExp(x, sym)
      InCell(x) == ShowExp(x, FALSE)
      Subs(es) == [i \in DOMAIN es |-> Sub(es[i])]
      Range(r) == Sub(r[1]) \o IF Len(r) = 2 THEN <<"TO">> \o Sub(r[2]) ELSE << >>
      prefix == [Neg |-> "-", Not |-> "NOT", FloatPrefix |-> "!", Deref |-> "^",
                 Quote |-> "quote", New |-> "NEW", Super |-> "SUPER"]
      postfix == [FloatConv |-> "!", PostInc |-> "++", PostDec |-> "--"]
      k == e[1]
  IN CASE k \in {"Lit", "Var"} -> <<e[2]>>
       [] k = "Nil" -> <<"NIL">>
       [] k \in DOMAIN prefix -> <<prefix[k]>> \o Sub(e[2])
       [] k \in DOMAIN postfix -> Sub(e[2]) \o <<postfix[k]>>
       [] k = "Bin" -> Sub(e[3]) \o ShowOp(e[2], sym) \o Sub(e[4])
       [] k = "QuickCompare" ->
            Sub(e[2]) \o <<"=", "_", "=", "[">>
            \o Joins([i \in DOMAIN e[3] |-> Range(e[3][i])], <<",">>) \o <<"]">>
       [] k = "But" -> Sub(e[2]) \o <<"BUT">> \o Sub(e[3])
       [] k = "AssignExp" -> Sub(e[2]) \o <<":=">> \o Sub(e[3])
       [] k = "Ternary" ->
            <<"IF">> \o Sub(e[2]) \o <<"THEN", "nl?">> \o Sub(e[3])
            \o <<"nl?", "ELSE", "nl?">> \o Sub(e[4])
       [] k = "Paren" -> <<"(", "nl?">> \o Sub(e[2]) \o <<")">>
       [] k = "List" -> <<"[", "nl?">> \o Joins(Subs(e[2]), <<"nl?", ",", "nl?">>)
                        \o <<"nl?", "]">> \o Option(e[3], <<":">>, ShowType)
       [] k = "Cell" -> <<"<">> \o Joins([i \in DOMAIN e[2] |-> InCell(e[2][i])], <<",">>)
                        \o Option(e[3], <<"|">>, InCell) \o <<">">>
       [] k = "AddrOf" -> <<"{", e[2], "}">>
       [] k = "Call" -> Sub(e[2]) \o <<"(", "nl?">>
                        \o Joins(Subs(e[3]), <<"nl?", ",", "nl?">>) \o <<"nl?", ")">>
       [] k = "Index" -> Sub(e[2]) \o <<"[">> \o Option(e[3], << >>, Sub) \o <<"]">>
       [] k = "Member" -> Sub(e[2]) \o <<".", e[3]>>
       [] k = "Cast" -> Sub(e[2]) \o <<"::">> \o ShowType(e[3])
       [] k \in {"SIZEOF", "PSIZEOF"} -> <<k, e[2]>>
       [] k = "OFFSETOF" -> <<k, e[2], ".", e[3]>>
       [] k = "ARRAYSIZE" -> <<k>> \o Sub(e[2]) \o <<",", e[3]>>

ShowVar(d, sym) ==
  LET Init_(x) == ShowExp(x, sym)
  IN <<d[1]>> \o Flat([i \in DOMAIN d[2] |-> <<"[">> \o Init_(d[2][i]) \o <<"]">>])
     \o Option(d[3], <<":">>, ShowType) \o Option(d[4], <<"=">>, Init_)

-----------------------------------------------------------------------------
(* Statements, without their last newline *)

ShowBody(ss, lay) == Flat([i \in DOMAIN ss |-> ShowStat(ss[i], lay) \o <<"nl">>])

\* A body that may be written on one line.
Single(ss, lay) == lay.oneLine /\ Len(ss) = 1

IsShort(s, lay) ==
  CASE s[1] = "For" -> Single(s[6], lay)
    [] s[1] = "While" -> Len(s[2]) = 1 /\ s[3] = << >> /\ Single(s[2][1][3], lay)
    [] s[1] = "If" -> Single(s[4], lay) /\ s[5] = << >> /\ s[6] = << >>
    [] OTHER -> FALSE

\* The statement that ends where s ends, when one-line forms are nested.
RECURSIVE Last(_, _)
Last(s, lay) ==
  CASE ~IsShort(s, lay) -> s
    [] s[1] = "For" -> Last(s[6][1], lay)
    [] s[1] = "While" -> Last(s[2][1][3][1], lay)
    [] s[1] = "If" -> s

\* What may not stand in front of an ELSE on the same line: an IF, whose ELSE
\* it would be; a line of assembler; and, in this parser, RETURN, EXIT and
\* CONT without an expression.  A label is not the end of a statement.
BeforeElse(s, lay) ==
  LET last == Last(s, lay)
  IN ~ \/ last[1] \in {"Asm", "Label"}
       \/ last[1] = "If"
       \/ last[1] \in {"RETURN", "EXIT", "CONT"} /\ last[2] = << >>

ShortIf(s, lay) ==
  /\ Single(s[4], lay) /\ s[5] = << >>
  /\ s[6] = << >> \/ (/\ Len(s[6][1]) = 1 /\ BeforeElse(s[4][1], lay)
                      /\ Last(s[6][1][1], lay)[1] # "If")

CompoundOp == [o \in {"+", "-", "*", "/", "AND", "OR"} |-> <<o, "_", "=">>]

IsCompound(s, sym) ==
  sym /\ s[3][1] = "Bin" /\ s[3][3] = s[2] /\ s[3][2] \in DOMAIN CompoundOp

ShowIf(s, lay) ==
  LET E(x) == ShowExp(x, lay.symbols)
      elif(c) == <<IF c[1] THEN "ELSEIFN" ELSE "ELSEIF">> \o E(c[2]) \o <<"nl">>
                 \o ShowBody(c[3], lay)
      Else(b) == <<"nl">> \o ShowBody(b, lay)
      OneElse(b) == ShowStat(b[1], lay)
      head == <<IF s[2] THEN "IFN" ELSE "IF">> \o E(s[3])
  IN IF ShortIf(s, lay)
     THEN head \o <<"THEN", "nl?">> \o ShowStat(s[4][1], lay) \o Option(s[6], <<"ELSE">>, OneElse)
     ELSE head \o <<"nl">> \o ShowBody(s[4], lay) \o Flat([i \in DOMAIN s[5] |-> elif(s[5][i])])
          \o Option(s[6], <<"ELSE">>, Else) \o <<"ENDIF">>

ShowWhile(s, lay) ==
  LET E(x) == ShowExp(x, lay.symbols)
      head(b) == <<IF b[1] THEN "WHILEN" ELSE "WHILE">> \o E(b[2])
      other(b) == <<IF b[1] THEN "ELSEWHILEN" ELSE "ELSEWHILE">> \o E(b[2])
      body(b) == <<"nl">> \o ShowBody(b[3], lay)
      Always(b) == <<"nl">> \o ShowBody(b, lay)
      first == s[2][1]
  IN IF IsShort(s, lay) THEN head(first) \o <<"DO">> \o ShowStat(first[3][1], lay)
     ELSE head(first) \o body(first)
          \o Flat([i \in 1 .. Len(s[2]) - 1 |-> other(s[2][i + 1]) \o body(s[2][i + 1])])
          \o Option(s[3], <<"ALWAYS">>, Always) \o <<"ENDWHILE">>

ShowSelect(s, lay) ==
  LET E(x) == ShowExp(x, lay.symbols)
      match(m) == E(m[1]) \o IF Len(m) = 2 THEN <<"TO">> \o E(m[2]) ELSE << >>
      case(c) == <<"CASE">> \o Joins([i \in DOMAIN c[1] |-> match(c[1][i])], <<",">>)
                 \o <<"nl">> \o ShowBody(c[2], lay)
      Default(b) == <<"nl">> \o ShowBody(b, lay)
  IN <<"SELECT">> \o E(s[2]) \o Option(s[3], <<"OF">>, E) \o <<"nl">> \o ShowBody(s[4], lay)
     \o Flat([i \in DOMAIN s[5] |-> case(s[5][i])])
     \o Option(s[6], <<"DEFAULT">>, Default) \o <<"ENDSELECT">>

ShowStat(s, lay) ==
  LET E(x) == ShowExp(x, lay.symbols)
      Es(xs) == Joins([i \in DOMAIN xs |-> E(xs[i])], <<",">>)
      k == s[1]
      block(open, body, close) == <<open, "nl">> \o ShowBody(body, lay) \o close
  IN CASE k = "If" -> ShowIf(s, lay)
       [] k = "While" -> ShowWhile(s, lay)
       [] k = "Select" -> ShowSelect(s, lay)
       [] k = "For" -> <<"FOR", s[2], ":=">> \o E(s[3]) \o <<"TO">> \o E(s[4])
                       \o Option(s[5], <<"STEP">>, E)
                       \o IF Single(s[6], lay) THEN <<"DO">> \o ShowStat(s[6][1], lay)
                          ELSE <<"nl">> \o ShowBody(s[6], lay) \o <<"ENDFOR">>
       [] k = "Repeat" -> block("REPEAT", s[2], <<IF s[3] THEN "UNTILN" ELSE "UNTIL">>) \o E(s[4])
       [] k = "Loop" -> block("LOOP", s[2], <<"ENDLOOP">>)
       [] k = "Try" -> block("TRY", s[2], << >>) \o block("CATCH", s[3], <<"ENDTRY">>)
       [] k = "Asm" -> s[2]
       [] k = "Label" -> <<s[2], ":">>
       [] k = "MultiAssign" ->
            Joins([i \in DOMAIN s[2] |-> <<s[2][i]>>], <<",">>) \o <<":=">> \o E(s[3])
       [] k = "Swap" -> E(s[2]) \o <<":=", "_", ":">> \o E(s[3])
       [] k = "Assign" ->
            IF IsCompound(s, lay.symbols)
            THEN E(s[2]) \o CompoundOp[s[3][2]] \o E(s[3][4])
            ELSE IF lay.symbols /\ s[3][1] = "Ternary" /\ Level(s[3][2]) # "open"
                    /\ s[3][3][1] \in {"Lit", "Var", "Call", "Index", "Paren"}
                    /\ Level(s[3][4]) \in {"item", "chain"}
            THEN E(s[2]) \o <<":=">> \o E(s[3][2]) \o <<"?">> \o E(s[3][3]) \o <<":">> \o E(s[3][4])
            ELSE E(s[2]) \o <<":=">> \o E(s[3])
       [] k = "ExprStat" -> E(s[2])
       [] k = "DEF" -> <<k>> \o Joins([i \in DOMAIN s[2] |-> ShowVar(s[2][i], lay.symbols)], <<",">>)
       [] k \in {"JUMP", "INCBIN"} -> <<k, s[2]>>
       [] k \in {"INC", "DEC", "VOID"} -> <<k>> \o E(s[2])
       [] OTHER -> <<k>> \o Es(s[2])

-----------------------------------------------------------------------------
(* Declarations and programs *)

ShowItem(kind, d, sym) ==
  LET E(x) == ShowExp(x, sym)
  IN CASE kind = "CONST" -> <<d[1], "=">> \o E(d[2])
       [] kind = "ENUM" -> <<d[1]>> \o Option(d[2], <<"=">>, E)
       [] kind = "RAISE" -> E(d[1]) \o <<"IF">> \o E(d[2])
       [] OTHER -> <<d>>

\* Members in lines of one; those of one group of a union in its brackets.
ShowMember(m, before, sym) ==
  LET inUnion == m[3] # << >>
      opens == inUnion /\ (before = << >> \/ before[1][3] # m[3])
      first == opens /\ (before = << >> \/ before[1][3] = << >>
                         \/ before[1][3][1] # m[3][1])
      wasIn == before # << >> /\ before[1][3] # << >>
      access == IF m[2] # "none" /\ ~wasIn /\ ~(inUnion /\ ~first)
                   /\ (before = << >> \/ before[1][2] # m[2]) THEN <<m[2]>> ELSE << >>
  IN (IF wasIn /\ (~inUnion \/ opens) THEN <<"]">> ELSE << >>)
     \o (IF wasIn /\ (~inUnion \/ first) THEN <<"ENDUNION", "nl">> ELSE << >>)
     \o access \o (IF first THEN <<"UNION", "nl">> ELSE << >>)
     \o (IF opens THEN <<"[">> ELSE IF inUnion THEN <<",">> ELSE << >>)
     \o ShowVar(m[1], sym) \o (IF inUnion THEN << >> ELSE <<"nl">>)

ShowObject(o, sym) ==
  LET ms == o[4]
      Name(x) == <<x>>
      before(i) == IF i = 1 THEN << >> ELSE <<ms[i - 1]>>
      ends == ms # << >> /\ ms[Len(ms)][3] # << >>
  IN <<"OBJECT", o[2]>> \o Option(o[3], <<"OF">>, Name) \o <<"nl">>
     \o Flat([i \in DOMAIN ms |-> ShowMember(ms[i], before(i), sym)])
     \o (IF ends THEN <<"]", "ENDUNION", "nl">> ELSE << >>) \o <<"ENDOBJECT">>

ShowDecl(d, lay) ==
  LET kind == d[2][1]
      function(f) == <<f[1]>> \o IF f[2] = << >> THEN << >>
                                 ELSE <<"(">> \o Joins([i \in DOMAIN f[2] |-> <<f[2][i]>>], <<",">>) \o <<")">>
  IN (IF d[1] THEN <<"EXPORT">> ELSE << >>)
     \o CASE kind \in {"CONST", "ENUM", "SET", "RAISE", "MODULE"} ->
               <<kind>> \o Joins([i \in DOMAIN d[2][2] |->
                                    ShowItem(kind, d[2][2][i], lay.symbols)], <<",">>)
          [] kind = "Library" -> <<"LIBRARY">> \o d[2][2] \o <<"IS">>
                                 \o Joins([i \in DOMAIN d[2][3] |-> function(d[2][3][i])], <<",">>)
          [] kind = "Object" -> ShowObject(d[2], lay.symbols)
          [] OTHER -> ShowStat(d[2], lay)

ShowProc(p, lay) ==
  LET E(x) == ShowExp(x, lay.symbols)
      values == Joins([i \in DOMAIN p[2][8] |-> E(p[2][8][i])], <<",">>)
      Name(x) == <<x>>
      Except(x) == (IF x[1] THEN <<"DO", "nl">> ELSE <<"nl">>) \o ShowBody(x[2], lay)
      head == (IF p[1] THEN <<"EXPORT">> ELSE << >>) \o <<"PROC", p[2][2], "(">>
              \o Joins([i \in DOMAIN p[2][3] |-> ShowVar(p[2][3][i], lay.symbols)], <<",">>)
              \o <<")">> \o Option(p[2][4], <<"OF">>, Name)
              \o IF p[2][5] THEN <<"HANDLE">> ELSE << >>
  IN IF lay.oneLine /\ p[2][6] = << >> /\ p[2][7] = << >> /\ p[2][8] # << >>
     THEN head \o <<"IS">> \o values
     ELSE head \o <<"nl">> \o ShowBody(p[2][6], lay)
          \o Option(p[2][7], <<"EXCEPT">>, Except) \o <<"ENDPROC">> \o values

ShowProgram(p, lay) ==
  Flat([i \in DOMAIN p[1] |-> <<"OPT">> \o p[1][i] \o <<"nl">>])
  \o Flat([i \in DOMAIN p[2] |-> ShowDecl(p[2][i], lay) \o <<"nl">>])
  \o Flat([i \in DOMAIN p[3] |-> ShowProc(p[3][i], lay) \o <<"nl">>])

-----------------------------------------------------------------------------
(* Layouts *)

\* Two tokens the lexer would take for another one if no blank were between.
Munched == {<<"-", "-">>, <<">", "=">>, <<">", ">=">>, <<":", ":">>, <<"+", "+">>}

LaidOut(raw, breaks) ==
  LET next(i) == IF i < Len(raw) THEN raw[i + 1] ELSE "nl"
      piece(i) ==
        CASE raw[i] = "nl?" -> IF breaks = "inside" THEN <<"nl">> ELSE << >>
          [] raw[i] = "nl" ->
               (CASE breaks = "comments" -> <<"comment", "nl", ";", "long comment">>
                  [] breaks = "semicolons" -> <<";">>
                  [] OTHER -> <<"nl">>)
          [] breaks = "broken" /\ raw[i] \in Continues /\ next(i) # "_" -> <<raw[i], "nl">>
          [] breaks = "tight" /\ raw[i] \notin {"_", "nl", "nl?"} /\ next(i) \notin {"_", "nl", "nl?"}
             /\ <<raw[i], next(i)>> \notin Munched -> <<raw[i], "_">>
          [] OTHER -> <<raw[i]>>
  IN Flat([i \in DOMAIN raw |-> piece(i)])

Lexed(raw) == Joined(Scanned(raw \o <<"nl", "eof">>))

Written(raw) ==
  /\ toks' = Lexed(raw).toks
  /\ glued' = Lexed(raw).glued
  /\ result' = << >>

Init ==
  /\ toks = <<"eof">> /\ glued = {}
  /\ input = << >> /\ result = << >>

WriteProgram(p, lay) ==
  /\ input = << >>
  /\ input' = <<"program", p, lay>>
  /\ Written(LaidOut(ShowProgram(p, lay), lay.breaks))

\* A procedure with a line in error somewhere in its middle.
WriteDamaged(before, junk, after) ==
  /\ input = << >>
  /\ input' = <<"damaged", before, junk, after>>
  /\ LET lay == [breaks |-> "plain", oneLine |-> TRUE, symbols |-> FALSE]
     IN Written(LaidOut(<<"PROC", "a", "(", ")", "nl">> \o ShowBody(before, lay)
                        \o junk \o <<"nl">> \o ShowBody(after, lay) \o <<"ENDPROC">>, "plain"))

Parse ==
  /\ input # << >> /\ result = << >>
  /\ result' = <<Parsed>>
  /\ UNCHANGED <<toks, glued, input>>

NextFile ==
  /\ result # << >>
  /\ toks' = <<"eof">> /\ glued' = {}
  /\ input' = << >> /\ result' = << >>

JunkLines == UNION {[1 .. n -> Junk] : n \in 1 .. JunkLength}

Next ==
  \/ \E p \in Sources : WriteProgram(p[1], p[2])
  \/ \E before, after \in Bodies, junk \in JunkLines : WriteDamaged(before, junk, after)
  \/ Parse
  \/ NextFile

Spec == Init /\ [][Next]_vars

-----------------------------------------------------------------------------
(* Properties *)

\* Every way to write a tree is parsed to that tree, without an error:
\* expressions are read from left to right, ELSE goes to the IF it was written
\* for, one-line and block forms mean the same, and newlines, comments, blanks
\* and symbols change nothing where the grammar says so.
RoundTrip ==
  result # << >> /\ input[1] = "program" =>
    /\ result[1].v = input[2]
    /\ result[1].e = 0

\* Whatever a line holds, the parser gets to the end of the program and keeps
\* the statements before the line; and if it reports no error, those after it
\* are all there, too: no newline is lost between two statements, and no
\* procedure or block is closed by something else.
NothingLostSilently ==
  result # << >> /\ input[1] = "damaged" =>
    LET procs == result[1].v[3]
        before == input[2]
        after == input[4]
        body == procs[1][2][6]
    IN /\ Tok(result[1].k) = "eof"
       /\ SubSeq(body, 1, Len(before)) = before
       /\ result[1].e = 0 =>
            /\ Len(procs) = 1
            /\ Len(body) >= Len(before) + Len(after)
            /\ SubSeq(body, Len(body) - Len(after) + 1, Len(body)) = after
=============================================================================
