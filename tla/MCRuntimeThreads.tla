-------------------------- MODULE MCRuntimeThreads --------------------------
(* Instances of RuntimeThreads for TLC. *)
EXTENDS RuntimeThreads

CONSTANTS t1, t2, c1, c2

\* A client per thread, or two clients of one thread.
OwnThread    == (c1 :> t1) @@ (c2 :> t2)
SharedThread == (c1 :> t1) @@ (c2 :> t1)

Symmetry == Permutations(Turns) \cup Permutations(Engines)
=============================================================================
