------------------------------- MODULE Words -------------------------------
(***************************************************************************)
(* The 68000's arithmetic and memory, which E's integers and pointers are.  *)
(*                                                                          *)
(* Everything is scaled down: a byte has 2 bits, a word of two bytes 4, a   *)
(* long word 8.  What matters is that a word is half a long, and that       *)
(* loading the narrow ones means extending a sign or not.                   *)
(***************************************************************************)
EXTENDS Integers, Sequences, Bitwise

ByteValues == 4
WordValues == 16
LongValues == 256
Bits == 8

Wrapped(n, values) == LET m == n % values IN IF m < values \div 2 THEN m ELSE m - values
Long(n) == Wrapped(n, LongValues)
Word(n) == Wrapped(n, WordValues)
Unsigned(n) == n % LongValues

Abs(n) == IF n < 0 THEN -n ELSE n
Quotient(a, b) ==
  LET q == Abs(a) \div Abs(b) IN IF (a < 0) = (b < 0) THEN q ELSE -q

AndBits(a, b) == Long(Unsigned(a) & Unsigned(b))
OrBits(a, b) == Long(Unsigned(a) | Unsigned(b))
EorBits(a, b) == Long(Unsigned(a) ^^ Unsigned(b))

Lsl(a, n) == Long(a * 2^n)
Lsr(a, n) == Long(Unsigned(a) \div 2^n)
Asr(a, n) == a \div 2^n                        \* rounds down

-----------------------------------------------------------------------------
(* Memory: bytes by address, the high byte first. *)

Fetch(mem, at, size) ==
  CASE size = 1 -> mem[at]
    [] size = 2 -> ByteValues * mem[at] + mem[at + 1]
    [] size = 4 -> 64 * mem[at] + 16 * mem[at + 1] + 4 * mem[at + 2] + mem[at + 3]

ValuesOf(size) == CASE size = 1 -> ByteValues [] size = 2 -> WordValues [] size = 4 -> LongValues

Load(mem, at, size, signed) ==
  IF signed \/ size = 4 THEN Wrapped(Fetch(mem, at, size), ValuesOf(size))
  ELSE Fetch(mem, at, size)

Store(mem, at, size, value) ==
  [a \in DOMAIN mem |->
     IF a \in at .. at + size - 1
     THEN (Unsigned(value) \div ByteValues^(at + size - 1 - a)) % ByteValues
     ELSE mem[a]]
=============================================================================
