----------------------------- MODULE MCLivePush -----------------------------
(***************************************************************************)
(* Small instances of LivePush.                                            *)
(***************************************************************************)
EXTENDS LivePush, TLC

Interchangeable == Permutations(Browser)
=============================================================================
