------------------------------- MODULE MCHistory -------------------------------
(***************************************************************************)
(* Two shells and two lines, where the file keeps two and four can be      *)
(* saved: enough to truncate twice and to overlap in every way.  The first *)
(* of them is started with up to three arguments.                          *)
(***************************************************************************)
EXTENDS Startup, SequencesExt

Arg(option, text) == [option |-> option, text |-> text]

Arguments ==
  {Arg("c", "full"), Arg("c", "bare"), Arg("s", ""), Arg("v", ""), Arg("?", ""),
   Arg("x", "install"), Arg("x", "show"), Arg("word", "show"), Arg("word", "else")}

UpToThree == SeqOf(Arguments, 3)
=============================================================================
