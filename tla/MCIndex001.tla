----------------------------- MODULE MCIndex001 -----------------------------
(***************************************************************************)
(* Two shells, and a system that gains a package.                          *)
(***************************************************************************)
EXTENDS Index001, TLC

CONSTANTS s1, s2, apt, vim, garbage

System == <<<<apt>>, <<apt, vim>>>>

EqualShells == Permutations(Shells)
=============================================================================
