------------------------------- MODULE MCAdf -------------------------------
EXTENDS Adf, TLC

CONSTANTS Startup, Libs, Prefs, Devs

\* Three of the names share a slot, and are alike.
SomeNames == {Startup, Libs, Prefs, Devs}
SomeHash == [n \in SomeNames |-> IF n = Devs THEN 2 ELSE 1]
Symmetric == Permutations({Startup, Libs, Prefs})

\* Empty, a full header, one and two extension blocks, the second of them not
\* full.
SomeFiles == {<< >>, <<1, 2>>, <<1, 2, 3>>, <<1, 2, 3, 4, 5>>}
=============================================================================
