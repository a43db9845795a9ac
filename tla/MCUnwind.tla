------------------------------ MODULE MCUnwind ------------------------------
(* Exceptions on small nests of constructs, for TLC.                       *)
EXTENDS Unwind

NoEscapes  == {}
=============================================================================
