---------------------------- MODULE MCEventLoop -----------------------------
(* Small instances of EventLoop for TLC. *)
EXTENDS EventLoop

CONSTANTS r1, r2, r3, d1, d2

\* Three rules for one descriptor: two read it, one writes it.
Rules3 == {r1, r2, r3}
FdOf3  == [r \in Rules3 |-> d1]
DirOf3 == [r \in Rules3 |-> IF r = r2 THEN "OUT" ELSE "IN"]

\* A rule for writing d1 and a rule for reading d2.
Rules2 == {r2, r3}
FdOf2  == [r \in Rules2 |-> IF r = r3 THEN d2 ELSE d1]
DirOf2 == [r \in Rules2 |-> IF r = r2 THEN "OUT" ELSE "IN"]
=============================================================================
