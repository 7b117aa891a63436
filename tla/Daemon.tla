------------------------------- MODULE Daemon --------------------------------
(***************************************************************************)
(* What the services of the daemon share: one process, which may die        *)
(* between any two awaits and takes the memory of every service with it,    *)
(* while SQLite stays.                                                      *)
(***************************************************************************)
EXTENDS Values

CONSTANT MaxCrashes    \* bound on crashes

ASSUME CrashAssumption == MaxCrashes \in Nat

VARIABLE crashes    \* crashes so far

Dies ==
    /\ crashes < MaxCrashes
    /\ crashes' = crashes + 1

\* Countdowns and ages, so that no clock grows without bound.
Sooner(due) == IF due = Null \/ due = 0 THEN due ELSE due - 1
Older(age, limit) == IF age = Null \/ age >= limit THEN age ELSE age + 1
=============================================================================
