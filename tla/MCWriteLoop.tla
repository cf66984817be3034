---------------------------- MODULE MCWriteLoop -----------------------------
(* A small instance of WriteLoop, and of the BufferList within it. *)
EXTENDS WriteLoop

CONSTANTS x, y, s1, s2

MCLists == {x, y}

MCStorages == {s1, s2}

\* Two strings whose bytes all differ; the first is long enough to be trimmed
\* twice and still show something.  Empty Buffers come from drained ones.
MCText == (s1 :> <<1, 2, 3>>) @@ (s2 :> <<4>>)
=============================================================================
