-------------------------- MODULE MCTranscriptCache --------------------------
(***************************************************************************)
(* A small instance of TranscriptCache for TLC: two first uploads fit, a   *)
(* second upload alone is larger than the cache.                           *)
(***************************************************************************)
EXTENDS TranscriptCache

MCLength == <<1, 3>>
MCSymmetry == Permutations(Thread)
=============================================================================
