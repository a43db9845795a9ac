------------------------------ MODULE EString ------------------------------
(***************************************************************************)
(* E-strings at run time (codegen.js, emitRuntime).  An e-string is a       *)
(* pointer to characters with a NUL behind them; in the two words before    *)
(* them are the maximum and the current length:                             *)
(*                                                                          *)
(*     -4 maximum.w   -2 length.w   0 characters ... NUL                    *)
(*                                                                          *)
(* Here the buffers lie one behind the other in memory, as DEF lays them    *)
(* out in a frame, so what runs over the end of one lands in the maximum of *)
(* the next.  A memory cell is a byte or a header word.  Strings are shared *)
(* by pointer: any routine may be given a source that lies in its own       *)
(* destination, and it copies byte by byte, front to back.  The copying     *)
(* loops take one step per character, with the registers they use.          *)
(*                                                                          *)
(* str is a history variable: what the program may take each string to hold *)
(* after the call, in terms of what the strings held when it made the call. *)
(***************************************************************************)
EXTENDS Integers, Sequences

CONSTANTS
  EStrings,    \* the strings of a program, a sequence of maximal lengths
  Chars,       \* the characters there are, as byte values
  SignLimit    \* words from here on are negative (32768)

NUL == 0
EOF == -1
Newline == 10
ALL == -1      \* the default for the number of characters

ASSUME EStringAssumption ==
  /\ SignLimit \in Nat
  /\ EStrings \in Seq(Nat) \ {<< >>}
  /\ Chars \subseteq 1 .. 255 \ {Newline}
  /\ \A e \in DOMAIN EStrings : EStrings[e] \in 1 .. SignLimit - 1

VARIABLES mem, pc, reg, answer, str

vars == <<mem, pc, reg, answer, str>>

Names == DOMAIN EStrings

\* The address of the characters of string e: two header cells before, and
\* room for the NUL behind each string that lies before it.
Data(e) ==
  LET at[i \in Names] == IF i = 1 THEN 2 ELSE at[i - 1] + EStrings[i - 1] + 3
  IN at[e]

MaxAt(a) == a - 2
LenAt(a) == a - 1
Cells == 0 .. Data(Len(EStrings)) + EStrings[Len(EStrings)]

\* ext.l: the word as a signed number; move.w: the low word of a register.
Ext(w) == IF w >= SignLimit THEN w - 2 * SignLimit ELSE w
Low(n) == n % (2 * SignLimit)

MaxLen(a) == Ext(mem[MaxAt(a)])
CurLen(a) == Ext(mem[LenAt(a)])

\* The C string at address a, as a sequence: up to the first NUL.
CString(a) ==
  LET end == CHOOSE z \in a .. a + SignLimit :
               mem[z] = NUL /\ \A i \in a .. z - 1 : mem[i] # NUL
  IN [i \in 1 .. end - a |-> mem[a + i - 1]]

Least(m, n) == IF m < n THEN m ELSE n

\* The first n characters of s, all of them for ALL, cut to a maximum.
Prefix(s, n, max) ==
  SubSeq(s, 1, Least(max, IF n = ALL THEN Len(s) ELSE Least(n, Len(s))))

Init ==
  /\ mem = [c \in Cells |->
              IF \E e \in Names : c = MaxAt(Data(e))
              THEN EStrings[CHOOSE e \in Names : c = MaxAt(Data(e))] ELSE 0]
  /\ pc = "idle"
  /\ reg = [d0 |-> 0]
  /\ answer = [of |-> "none"]
  /\ str = [e \in Names |-> << >>]

-----------------------------------------------------------------------------
(* __strcore and the routines that enter it *)

\* A source is a place in a string: its start, or further on (TrimStr, s+1).
Places == {s \in Names \X (0 .. SignLimit) : s[2] <= Len(str[s[1]])}
Place(s) == Data(s[1]) + s[2]
Suffix(s) == SubSeq(str[s[1]], s[2] + 1, Len(str[s[1]]))

Counts == {ALL} \cup 0 .. EStrings[1] + 1

StrCore(est, a0, a1, d2, d4) ==
  /\ pc' = "strcore"
  /\ reg' = [d0 |-> est, a0 |-> a0, a1 |-> a1, d2 |-> d2,
             d3 |-> MaxLen(est), d4 |-> d4]
  /\ UNCHANGED <<mem, answer>>

StrCopy(e, src, n) ==
  /\ pc = "idle"
  /\ StrCore(Data(e), Data(e), Place(src), n, 0)
  /\ str' = [str EXCEPT ![e] = Prefix(Suffix(src), n, EStrings[e])]

\* MidStr adds the position to the source; nothing looks at its length.
MidStr(e, f, pos, n) ==
  /\ pc = "idle"
  /\ StrCore(Data(e), Data(e), Data(f) + pos, n, 0)
  /\ str' = [str EXCEPT ![e] = Prefix(Suffix(<<f, pos>>), n, EStrings[e])]

\* RightStr goes by the length word of the source, not by its NUL.
RightStr(e, f, n) ==
  /\ pc = "idle"
  /\ LET start == IF CurLen(Data(f)) - n < 0 THEN 0 ELSE CurLen(Data(f)) - n
     IN /\ StrCore(Data(e), Data(e), Data(f) + start, ALL, 0)
        /\ str' = [str EXCEPT ![e] =
                     Prefix(SubSeq(str[f], Len(str[f]) - Least(n, Len(str[f])) + 1,
                                   Len(str[f])), ALL, EStrings[e])]

\* A string that is appended to itself loses its NUL to the first character:
\* the loop then goes on through what it has written, up to the maximum.
Appended(e, src, n) ==
  LET old == str[e]
      new == Suffix(src)
      own == src[1] = e /\ new # << >>
      room == EStrings[e] - Len(old)
      count == Least(room, IF n = ALL THEN (IF own THEN room ELSE Len(new))
                           ELSE IF own THEN n ELSE Least(n, Len(new)))
  IN old \o [i \in 1 .. count |-> new[((i - 1) % Len(new)) + 1]]

StrAdd(e, src, n) ==
  /\ pc = "idle"
  /\ LET est == Data(e)
     IN StrCore(est, est + CurLen(est), Place(src), n, CurLen(est))
  /\ str' = [str EXCEPT ![e] = Appended(e, src, n)]

\* Mutant: a character at the maximum, too.
CopyCharOver ==
  /\ pc = "strcore"
  /\ reg.d4 <= reg.d3 /\ reg.d2 # 0 /\ mem[reg.a1] # NUL
  /\ mem' = [mem EXCEPT ![reg.a0] = mem[reg.a1]]
  /\ reg' = [reg EXCEPT !.a0 = @ + 1, !.a1 = @ + 1, !.d4 = @ + 1, !.d2 = @ - 1]
  /\ UNCHANGED <<pc, answer, str>>

\* Mutant: the registers stay where they are.
CopyCharOnTheSpot ==
  /\ pc = "strcore"
  /\ reg.d4 < reg.d3 /\ reg.d2 # 0 /\ mem[reg.a1] # NUL
  /\ mem' = [mem EXCEPT ![reg.a0] = mem[reg.a1]]
  /\ UNCHANGED <<reg, pc, answer, str>>

\* One character more ...
CopyChar ==
  /\ pc = "strcore"
  /\ reg.d4 < reg.d3 /\ reg.d2 # 0 /\ mem[reg.a1] # NUL
  /\ mem' = [mem EXCEPT ![reg.a0] = mem[reg.a1]]
  /\ reg' = [reg EXCEPT !.a0 = @ + 1, !.a1 = @ + 1, !.d4 = @ + 1, !.d2 = @ - 1]
  /\ UNCHANGED <<pc, answer, str>>

\* Mutant: the string is not terminated.
CopyDoneOpen ==
  /\ pc = "strcore"
  /\ reg.d4 >= reg.d3 \/ reg.d2 = 0 \/ mem[reg.a1] = NUL
  /\ mem' = [mem EXCEPT ![LenAt(reg.d0)] = Low(reg.d4)]
  /\ pc' = "idle"
  /\ reg' = [d0 |-> reg.d0]
  /\ UNCHANGED <<answer, str>>

\* ... or, at the maximum, the count or the NUL: terminate, store the length.
CopyDone ==
  /\ pc = "strcore"
  /\ reg.d4 >= reg.d3 \/ reg.d2 = 0 \/ mem[reg.a1] = NUL
  /\ mem' = [mem EXCEPT ![reg.a0] = NUL, ![LenAt(reg.d0)] = Low(reg.d4)]
  /\ pc' = "idle"
  /\ reg' = [d0 |-> reg.d0]
  /\ UNCHANGED <<answer, str>>

-----------------------------------------------------------------------------
(* ReadStr, StringF, SetStr, UpperStr and LowerStr *)

ReadStr(e) ==
  /\ pc = "idle"
  /\ pc' = "readstr"
  /\ reg' = [a3 |-> Data(e), d5 |-> MaxLen(Data(e)), d6 |-> 0, e |-> e]
  /\ str' = [str EXCEPT ![e] = << >>]
  /\ UNCHANGED <<mem, answer>>

\* FGetC has given a character: beyond the maximum the line is swallowed.
\* str grows as the line is read, cut to the maximum.
ReadChar(c) ==
  /\ pc = "readstr"
  /\ IF reg.d6 >= reg.d5
     THEN UNCHANGED <<mem, reg>>
     ELSE /\ mem' = [mem EXCEPT ![reg.a3 + reg.d6] = c]
          /\ reg' = [reg EXCEPT !.d6 = @ + 1]
  /\ str' = [str EXCEPT ![reg.e] = Prefix(Append(@, c), ALL, EStrings[reg.e])]
  /\ UNCHANGED <<pc, answer>>

\* A newline or the end of the file, which the result tells.
ReadDone(c) ==
  /\ pc = "readstr"
  /\ mem' = [mem EXCEPT ![LenAt(reg.a3)] = Low(reg.d6), ![reg.a3 + reg.d6] = NUL]
  /\ pc' = "idle"
  /\ reg' = [d0 |-> IF c = EOF THEN -1 ELSE 0]
  /\ UNCHANGED <<answer, str>>

\* The format engine writes to the string without a look at its maximum; the
\* text is whatever the format makes, and the program has to see that it fits.
StringF(e, text) ==
  /\ pc = "idle"
  /\ LET a == Data(e)
         n == Len(text)
     IN mem' = [c \in Cells |->
                  IF c \in a .. a + n - 1 THEN text[c - a + 1]
                  ELSE IF c = a + n THEN NUL
                  ELSE IF c = LenAt(a) THEN Low(n) ELSE mem[c]]
  /\ str' = [str EXCEPT ![e] = text]
  /\ UNCHANGED <<pc, reg, answer>>

\* SetStr stores the length and terminates there.
SetStr(e, n) ==
  /\ pc = "idle"
  /\ mem' = [mem EXCEPT ![LenAt(Data(e))] = Low(n), ![Data(e) + n] = NUL]
  /\ str' = [str EXCEPT ![e] = SubSeq(@, 1, n)]
  /\ UNCHANGED <<pc, reg, answer>>

Upper == [c \in 1 .. 255 |-> IF c \in 97 .. 122 THEN c - 32 ELSE c]
Lower == [c \in 1 .. 255 |-> IF c \in 65 .. 90 THEN c + 32 ELSE c]

\* UpperStr and LowerStr change the characters in place up to the NUL.
ChangeCase(e, case) ==
  /\ pc = "idle"
  /\ LET a == Data(e)
     IN mem' = [c \in Cells |-> IF c \in a .. a + Len(CString(a)) - 1
                                THEN case[mem[c]] ELSE mem[c]]
  /\ str' = [str EXCEPT ![e] = [i \in DOMAIN @ |-> case[@[i]]]]
  /\ UNCHANGED <<pc, reg, answer>>

-----------------------------------------------------------------------------
(* The routines that only look *)

\* Mutant: the end of the second string is a match.
StrCmpPrefix(a0, a1, d2) ==
  LET cmp[i \in Nat] ==
        IF i = d2 \/ mem[a1 + i] = NUL THEN TRUE
        ELSE IF mem[a0 + i] # mem[a1 + i] THEN FALSE ELSE cmp[i + 1]
  IN cmp[0]

\* __strcmp: d2 counts down, ALL never gets to 0.
StrCmp(a0, a1, d2) ==
  LET cmp[i \in Nat] ==
        IF i = d2 THEN TRUE
        ELSE IF mem[a0 + i] # mem[a1 + i] THEN FALSE
        ELSE IF mem[a0 + i] = NUL THEN TRUE ELSE cmp[i + 1]
  IN cmp[0]

\* __ostrcmp: 1 when the first is the lesser.
OstrCmp(a0, a1, d2) ==
  LET cmp[i \in Nat] ==
        IF i = d2 THEN 0
        ELSE IF mem[a0 + i] < mem[a1 + i] THEN 1
        ELSE IF mem[a0 + i] > mem[a1 + i] THEN -1
        ELSE IF mem[a0 + i] = NUL THEN 0 ELSE cmp[i + 1]
  IN cmp[0]

\* __instr: at each place from start on, compare up to the needle's NUL.
Matches(hay, needle) ==
  LET same[j \in Nat] ==
        IF mem[needle + j] = NUL THEN TRUE
        ELSE IF mem[hay + j] # mem[needle + j] THEN FALSE ELSE same[j + 1]
  IN same[0]

InStr(hay, needle, start) ==
  LET from[i \in Nat] ==
        IF mem[hay + i] = NUL THEN -1
        ELSE IF Matches(hay + i, needle) THEN i ELSE from[i + 1]
  IN from[start]

Ask(query, value) ==
  /\ pc = "idle"
  /\ pc' = "answered"
  /\ answer' = [query EXCEPT !.value = value]
  /\ UNCHANGED <<mem, reg, str>>

Compare(e, src, n) ==
  Ask([of |-> "StrCmp", e |-> e, src |-> src, n |-> n, value |-> 0],
      StrCmp(Data(e), Place(src), n))

Order(e, src, n) ==
  Ask([of |-> "OstrCmp", e |-> e, src |-> src, n |-> n, value |-> 0],
      OstrCmp(Data(e), Place(src), n))

Find(e, src, start) ==
  Ask([of |-> "InStr", e |-> e, src |-> src, n |-> start, value |-> 0],
      InStr(Data(e), Place(src), start))

Answered ==
  /\ pc = "answered"
  /\ pc' = "idle"
  /\ answer' = [of |-> "none"]
  /\ UNCHANGED <<mem, reg, str>>

-----------------------------------------------------------------------------
Texts(n) == UNION {[1 .. k -> Chars] : k \in 0 .. n}

Step == CopyChar \/ CopyDone \/ (\E c \in Chars : ReadChar(c))
        \/ (\E c \in {EOF, Newline} : ReadDone(c))

Next ==
  \/ \E e \in Names, src \in Places, n \in Counts :
       \/ StrCopy(e, src, n) \/ StrAdd(e, src, n)
       \/ Compare(e, src, n) \/ Order(e, src, n)
  \/ \E e, f \in Names, pos \in 0 .. SignLimit, n \in Counts :
       pos <= Len(str[f]) /\ MidStr(e, f, pos, n)
  \/ \E e, f \in Names, n \in Counts \ {ALL} : RightStr(e, f, n)
  \/ \E e \in Names, src \in Places, start \in 0 .. SignLimit :
       start <= Len(str[e]) /\ Find(e, src, start)
  \/ \E e \in Names :
       \/ ReadStr(e)
       \/ \E text \in Texts(EStrings[e]) : StringF(e, text)
       \/ \E n \in 0 .. Len(str[e]) : SetStr(e, n)
       \/ ChangeCase(e, Upper) \/ ChangeCase(e, Lower)
  \/ Answered
  \/ Step

Spec == Init /\ [][Next]_vars

\* The copying loop is code of one program that nobody suspends for ever.
FairSpec == Spec /\ WF_vars(CopyChar \/ CopyDone)

-----------------------------------------------------------------------------
(* Properties *)

\* Between the calls each string's NUL, its length word and what the program
\* may expect agree: also when source and destination share memory, when the
\* text is cut at the maximum, and when lengths come out of other strings.
\* ReadStr, StrAdd and SetStr write NUL and length separately.
ContentsRight ==
  pc = "idle" => \A e \in Names :
    /\ CString(Data(e)) = str[e]
    /\ CurLen(Data(e)) = Len(str[e])

\* No routine writes into another string's header: the maxima stay what DEF
\* made them, and no length passes its maximum, not even within a routine.
HeadersIntact ==
  \A e \in Names : /\ MaxLen(Data(e)) = EStrings[e]
                   /\ CurLen(Data(e)) \in 0 .. EStrings[e]

\* A copying loop ends, also when it reads what it writes.
CopyEnds == pc = "strcore" ~> pc = "idle"

\* The order of texts, with the empty one first.
Precedes(s, t) ==
  \E k \in 0 .. Least(Len(s), Len(t)) :
    /\ \A i \in 1 .. k : s[i] = t[i]
    /\ k < Len(t)
    /\ k = Len(s) \/ (k < Len(s) /\ s[k + 1] < t[k + 1])

FoundAt(hay, needle, i) ==
  /\ i < Len(hay) /\ i + Len(needle) <= Len(hay)
  /\ SubSeq(hay, i + 1, i + Len(needle)) = needle

\* The comparisons and the search say of the first n characters what their
\* names promise, without looking beyond a NUL: OstrCmp is 1 for the lesser,
\* and InStr's is the first place, or -1; it finds nothing in an empty rest.
AnswersRight ==
  answer.of # "none" =>
    LET hay == str[answer.e]
        needle == Suffix(answer.src)
        n == IF answer.n = ALL THEN Len(hay) + Len(needle) ELSE answer.n
        s == Prefix(hay, n, n)
        t == Prefix(needle, n, n)
    IN CASE answer.of = "StrCmp" -> answer.value = (s = t)
         [] answer.of = "OstrCmp" ->
              answer.value = (IF s = t THEN 0 ELSE IF Precedes(s, t) THEN 1 ELSE -1)
         [] answer.of = "InStr" ->
              IF \E i \in answer.n .. Len(hay) : FoundAt(hay, needle, i)
              THEN /\ FoundAt(hay, needle, answer.value)
                   /\ \A i \in answer.n .. answer.value - 1 : ~FoundAt(hay, needle, i)
              ELSE answer.value = -1
=============================================================================
