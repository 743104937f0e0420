----------------------------- MODULE MCListPipe -----------------------------
(* A package list of four names, of which a pattern matches two. *)
EXTENDS ListPipe

FourNames == <<"apt", "base", "cron", "dash">>
TwoOfThem == {"base", "dash"}
=============================================================================
