-------------------------- MODULE MCFileDescriptor --------------------------
(* Small instances of FileDescriptor for TLC. *)
EXTENDS FileDescriptor, TLC

\* Handles, wrappers and files are interchangeable: no action or property
\* singles one out.  Descriptor numbers are not (the lowest free one is taken).
Interchangeable ==
    Permutations(Handles) \cup Permutations(Wrappers) \cup Permutations(Files)
=============================================================================
