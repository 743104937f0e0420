---------------------------- MODULE HistoryMeaning ----------------------------
(***************************************************************************)
(* What the history file can be relied on to remember.                     *)
(***************************************************************************)
EXTENDS HistoryFile

TypeOK ==
  /\ exists \in BOOLEAN /\ existed \in BOOLEAN /\ overlap \in BOOLEAN
  /\ file \in Seq(Typed) /\ (~exists => file = <<>>)
  /\ pc \in [Shells -> Labels]
  /\ list \in [Shells -> Seq(Typed)]
  /\ snapshot \in [Shells -> Seq(Typed)]
  /\ line \in [Shells -> Typed]
  /\ log \in Seq(Typed) /\ recent \in Seq(Typed)

(* trunk/HOWTO:253: one shell after another, the newest lines are there    *)
(* again after a restart, as many as the count says, wherever shells have  *)
(* been killed; but a kill in the middle of a truncation, between the      *)
(* emptying and the writing, costs what was saved before it.               *)
RestartRemembers ==
  ~overlap => \A s \in Shells :
    pc[s] = "prompt" => LastN(list[s], Count) = LastN(recent, Count)

(* Shells that run at the same time lose none of each other's lines as     *)
(* long as the file was there before them and need not be truncated.       *)
ShortFileLosesNothing == existed /\ Len(log) <= Count => file = log
=============================================================================
