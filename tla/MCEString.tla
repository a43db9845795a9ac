----------------------------- MODULE MCEString -----------------------------
EXTENDS EString

TwoStrings == <<3, 2>>
BothCases == {90, 122}     \* Z and z
=============================================================================
