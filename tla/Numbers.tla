------------------------------ MODULE Numbers ------------------------------
(***************************************************************************)
(* The run-time arithmetic and number conversion that ecomp adds to every   *)
(* program (codegen.js, emitRuntime): division and multiplication of whole  *)
(* registers on a processor that has only 16-bit instructions for them, the *)
(* fields \d, \u and \h of WriteF and StringF, and Val, which reads numbers *)
(* back.                                                                    *)
(*                                                                          *)
(* A word is its bits as a natural number; what is signed in the code is    *)
(* signed here.  Registers are Width bits wide, 32 in the code: all the     *)
(* loops run over the bits or the digits of a word, whatever its width.     *)
(* A text is a sequence of characters, here strings of one character.       *)
(*                                                                          *)
(* A program calls one routine after the other; call is the routine that is *)
(* running with its arguments, d0 and d1 the registers it returns, text     *)
(* what a formatting routine has written.                                   *)
(***************************************************************************)
EXTENDS Integers, Sequences

CONSTANTS
  Width,       \* bits of a register (32)
  FieldWidths  \* the widths n of the \d[n] that programs write, 0 for none

ASSUME NumbersAssumption ==
  /\ Width \in Nat \ {0, 1, 2, 3, 4}
  /\ FieldWidths \subseteq Nat

VARIABLES call, d0, d1, text

vars == <<call, d0, d1, text>>

\* 2^n, by doubling (the arithmetic that proofs know has no powers).
Power[n \in 0 .. Width] == IF n = 0 THEN 1 ELSE 2 * Power[n - 1]

Modulus == Power[Width]
Word == 0 .. Modulus - 1
Lowest == Power[Width - 1]               \* the most negative number's bits

IsNeg(x) == x >= Lowest
Neg(x) == (Modulus - x) % Modulus        \* neg.l
Signed(x) == IF IsNeg(x) THEN x - Modulus ELSE x

-----------------------------------------------------------------------------
(* Division and multiplication *)

\* Mutant: a remainder equal to the divisor is left.
UDivStepLate(s, divisor) ==
  LET shifted == [q |-> (2 * s.q) % Modulus,
                  r |-> (2 * s.r + s.q \div Lowest) % Modulus]
  IN IF shifted.r <= divisor
     THEN shifted
     ELSE [q |-> shifted.q + 1, r |-> shifted.r - divisor]

\* __udivmod: the dividend is shifted left out of d0 into the remainder d1,
\* the quotient's bits come in from the right.  Both registers wrap.
UDivStep(s, divisor) ==
  LET shifted == [q |-> (2 * s.q) % Modulus,
                  r |-> (2 * s.r + s.q \div Lowest) % Modulus]
  IN IF shifted.r < divisor
     THEN shifted
     ELSE [q |-> shifted.q + 1, r |-> shifted.r - divisor]

UDivMod(dividend, divisor) ==
  LET after[i \in 0 .. Width] ==
        IF i = 0 THEN [q |-> dividend, r |-> 0]
        ELSE UDivStep(after[i - 1], divisor)
  IN after[Width]

\* __sdivmod: divide the magnitudes; d4 and d5 hold the signs of the results.
SDivMod(dividend, divisor) ==
  LET abs(x) == IF IsNeg(x) THEN Neg(x) ELSE x
      s == UDivMod(abs(dividend), abs(divisor))
  IN [q |-> IF IsNeg(dividend) # IsNeg(divisor) THEN Neg(s.q) ELSE s.q,
      r |-> IF IsNeg(dividend) THEN Neg(s.r) ELSE s.r]

\* __mul32: add d2 for each bit of d1, until d1 has none left.
Mul32(x, y) ==
  LET m[s \in [d0 : Word, d1 : Word, d2 : Word]] ==
        IF s.d1 = 0 THEN s.d0
        ELSE m[[d1 |-> s.d1 \div 2,
                d0 |-> IF s.d1 % 2 = 1 THEN (s.d0 + s.d2) % Modulus ELSE s.d0,
                d2 |-> (2 * s.d2) % Modulus]]
  IN m[[d0 |-> 0, d1 |-> y, d2 |-> x]]

-----------------------------------------------------------------------------
(* Numbers to text *)

DigitChars == <<"0", "1", "2", "3", "4", "5", "6", "7",
                "8", "9", "A", "B", "C", "D", "E", "F">>
LowerChars == <<"a", "b", "c", "d", "e", "f">>

\* The digits of x as they are popped: none for 0.
DecDigits(x) ==
  LET ds[v \in Word] ==
        IF v = 0 THEN << >>
        ELSE LET s == UDivMod(v, 10)
             IN Append(ds[s.q], DigitChars[s.r + 1])
  IN ds[x]

HexDigits(x) ==
  LET ds[v \in Word] ==
        IF v = 0 THEN << >> ELSE Append(ds[v \div 16], DigitChars[(v % 16) + 1])
  IN ds[x]

\* __itoa and __htoa
Itoa(x) ==
  IF x = 0 THEN <<"0">>
  ELSE IF IsNeg(x) THEN <<"-">> \o DecDigits(Neg(x)) ELSE DecDigits(x)

Htoa(x) == IF x = 0 THEN <<"0">> ELSE HexDigits(x)

\* Mutant: 0 has no digit.
DigitsPopped(ds) == Len(ds)

\* __wf_decdigits and __wf_hexdigits count the digits beforehand ...
Digits(ds) == IF ds = << >> THEN 1 ELSE Len(ds)

\* ... for __wf_padto, which writes no pad character if count is the larger.
Pad(width, count, char) == [i \in 1 .. (width - count) |-> char]

\* Mutant: the number itself is printed behind the sign and the padding.
FormatDecTwice(x, width) ==
  LET magnitude == IF IsNeg(x) THEN Neg(x) ELSE x
  IN (IF IsNeg(x) THEN <<"-">> ELSE << >>)
     \o Pad(width, Digits(DecDigits(magnitude)), "0") \o Itoa(x)

\* __wf_dec: the sign, the padding, and then what __itoa makes of the rest.
FormatDec(x, width) ==
  LET magnitude == IF IsNeg(x) THEN Neg(x) ELSE x
  IN (IF IsNeg(x) THEN <<"-">> ELSE << >>)
     \o Pad(width, Digits(DecDigits(magnitude)), "0") \o Itoa(magnitude)

\* __wf_unsigned divides at least once, so 0 has a digit.
FormatUnsigned(x, width) ==
  LET ds == IF x = 0 THEN <<"0">> ELSE DecDigits(x)
  IN Pad(width, Len(ds), "0") \o ds

\* __wf_hex
FormatHex(x, width) == Pad(width, Digits(HexDigits(x)), "0") \o Htoa(x)

-----------------------------------------------------------------------------
(* Text to numbers: __val *)

At(s, i) == IF i <= Len(s) THEN s[i] ELSE "NUL"

\* The value of a digit of the base, -1 for any other character.
DigitOf(c, base) ==
  LET values == {i \in 0 .. base - 1 :
                   DigitChars[i + 1] = c \/ (i >= 10 /\ LowerChars[i - 9] = c)}
  IN IF values = {} THEN -1 ELSE CHOOSE i \in values : TRUE

\* The first position from i on that holds no blank or tab.
SkipBlanks(s, i) ==
  CHOOSE j \in i .. Len(s) + 1 :
    At(s, j) \notin {" ", "TAB"} /\ \A k \in i .. j - 1 : s[k] \in {" ", "TAB"}

\* value := value * base + digit while there are digits; value wraps.
Scan(s, first, base) ==
  LET scan[r \in [next : first .. Len(s) + 1, value : Word]] ==
        LET digit == DigitOf(At(s, r.next), base)
        IN IF digit < 0 THEN r
           ELSE scan[[next |-> r.next + 1,
                      value |-> (Mul32(r.value, base) + digit) % Modulus]]
  IN scan[[next |-> first, value |-> 0]]

Val(s) ==
  LET start == SkipBlanks(s, 1)
      negative == At(s, start) = "-"
      prefix == IF negative THEN start + 1 ELSE start
      base == CASE At(s, prefix) = "$" -> 16
                [] At(s, prefix) = "%" -> 2
                [] OTHER -> 10
      first == IF base = 10 THEN prefix ELSE prefix + 1
      end == Scan(s, first, base)
  IN [value |-> IF negative THEN Neg(end.value) ELSE end.value,
      consumed |-> end.next - 1]

-----------------------------------------------------------------------------
Init == /\ call = [name |-> "none"]
        /\ d0 = 0 /\ d1 = 0
        /\ text = << >>

Idle == call.name = "none"

Divide ==
  /\ Idle
  /\ \E x, y \in Word :
       /\ y # 0
       /\ call' = [name |-> "Div", x |-> x, y |-> y]
       /\ d0' = SDivMod(x, y).q /\ d1' = SDivMod(x, y).r
  /\ UNCHANGED text

\* Rnd(): half of the seed, which is any word, as the dividend; the result is
\* the remainder.
Random ==
  /\ Idle
  /\ \E seed, y \in Word :
       LET x == seed \div 2
           r == UDivMod(x, y).r
       IN /\ y # 0
          /\ call' = [name |-> "Rnd", x |-> x, y |-> y]
          /\ d0' = r /\ d1' = r
  /\ UNCHANGED text

Multiply ==
  /\ Idle
  /\ \E x, y \in Word :
       /\ call' = [name |-> "Mul", x |-> x, y |-> y]
       /\ d0' = Mul32(x, y)
  /\ UNCHANGED <<d1, text>>

\* One number as the format's code says, after a character constant of the
\* format that tells Val the base.
Text(code, x, width) ==
  CASE code = "d" -> FormatDec(x, width)
    [] code = "u" -> FormatUnsigned(x, width)
    [] code = "h" -> <<"$">> \o FormatHex(x, width)

Write(code, x, width) ==
  /\ call' = [name |-> "Write", x |-> x, code |-> code, width |-> width]
  /\ text' = Text(code, x, width)

Format ==
  /\ Idle
  /\ \E code \in {"d", "u", "h"}, x \in Word, width \in FieldWidths :
       Write(code, x, width)
  /\ UNCHANGED <<d0, d1>>

\* Read the text back, followed by what is not a number: the NUL or a blank.
ReadBack ==
  /\ call.name = "Write"
  /\ \E tail \in {<< >>, <<" ", "1">>}, lead \in {<< >>, <<"TAB">>} :
       LET v == Val(lead \o text \o tail)
       IN /\ d0' = v.value
          /\ d1' = v.consumed - Len(lead)
  /\ call' = [call EXCEPT !.name = "Val"]
  /\ UNCHANGED text

\* The caller has used the result.
Return ==
  /\ call.name \notin {"none", "Write"}
  /\ call' = [name |-> "none"]
  /\ d0' = 0 /\ d1' = 0 /\ text' = << >>

Next == Divide \/ Random \/ Multiply \/ Format \/ ReadBack \/ Return

Spec == Init /\ [][Next]_vars

-----------------------------------------------------------------------------
(* Properties *)

\* Division is right for every pair of words, the most negative number and
\* divisors beyond half the range included (the remainder is shifted in a
\* register of the same width): Div rounds towards zero and the remainder has
\* the dividend's sign, as sem's folding and the original run-time have it;
\* only Lowest / -1 wraps.  The product of whole registers, signed or not, is
\* the product modulo 2^32.
ArithmeticRight ==
  /\ call.name = "Mul" => d0 = (call.x * call.y) % Modulus
  /\ call.name = "Rnd" => d0 = call.x % call.y
  /\ call.name = "Div" =>
       LET x == Signed(call.x)
           y == Signed(call.y)
           r == Signed(d1)
           abs(n) == IF n < 0 THEN -n ELSE n
       IN /\ (Signed(d0) * y + r - x) % Modulus = 0
          /\ abs(r) < abs(y)
          /\ r # 0 => (r < 0 <=> x < 0)
          /\ ~(call.x = Lowest /\ y = -1) => Signed(d0) * y + r = x

\* A number that WriteF or StringF has written is read back by Val as the same
\* word, whatever the field's width, and Val stops where the number ends.
\* Except one: the sign of the most negative number is written twice.
ReadsBack ==
  call.name = "Val" /\ ~(call.code = "d" /\ call.x = Lowest) =>
    d0 = call.x /\ d1 = Len(text)

\* The field is at least as wide as asked for, and wider only when the number
\* needs it: padding goes by a count of digits made before the digits are.
FieldsExact ==
  call.name = "Write" /\ call.x # Lowest =>
    LET sign == IF call.code = "h" \/ (call.code = "d" /\ IsNeg(call.x)) THEN 1 ELSE 0
        digits == Len(text) - sign
    IN /\ digits >= call.width
       /\ (digits > call.width /\ digits > 1) => text[sign + 1] # "0"
=============================================================================
