---------------------------- MODULE MCAnswerFeed ----------------------------
(* Both ways of reading answers. *)
EXTENDS AnswerFeed

AllReaders == {"character", "line"}
=============================================================================
