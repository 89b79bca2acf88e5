------------------------------- MODULE MCUpload -------------------------------
(* Values of the constants of Upload for TLC. *)
EXTENDS Upload, TLC

CONSTANTS r1, r2

ReqSymmetry == Permutations({r1, r2})
===============================================================================
