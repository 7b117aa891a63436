------------------------------- MODULE Values -------------------------------
(* The value that every part of the daemon shares.                         *)
EXTENDS Integers

CONSTANT Null   \* JavaScript's null and undefined, and SQL's NULL

ASSUME NullAssumption == Null \notin Int
=============================================================================
