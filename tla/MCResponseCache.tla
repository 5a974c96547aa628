--------------------------- MODULE MCResponseCache ---------------------------
(***************************************************************************)
(* Small instances of ResponseCache.                                       *)
(***************************************************************************)
EXTENDS ResponseCache, TLC

(* Threads are interchangeable, and so are the workers of the pool.        *)
Interchangeable == Permutations(Thread) \cup Permutations(Worker)
=============================================================================
