----------------------------- MODULE MCNumbers -----------------------------
(* Registers of 8 bits: decimal numbers of up to three digits, hexadecimal  *)
(* ones of two; every pair of words is divided and multiplied.              *)
EXTENDS Numbers

SomeWidths == {0, 1, 2, 5}
=============================================================================
