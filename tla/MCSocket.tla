------------------------------ MODULE MCSocket ------------------------------
(* A small instance of Socket for TLC. *)
EXTENDS Socket, TLC

\* Handles of one class are interchangeable, and so are wrappers and files.
Interchangeable ==
    Permutations(Plain) \cup Permutations(TCPSockets)
        \cup Permutations(Wrappers) \cup Permutations(Files)
=============================================================================
