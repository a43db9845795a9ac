---------------------------- MODULE MCLifecycle ----------------------------
(* One automatic and two module libraries, for TLC.                        *)
EXTENDS Lifecycle

SomeAuto == {"intuition"}
SomeModule == {"asl", "rexx"}
SomeCodes == {0, 5, 20}
System == {"dos", "pool", "libs"}
=============================================================================
