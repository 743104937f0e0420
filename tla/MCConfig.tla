------------------------------ MODULE MCConfig ------------------------------
(* Files of a few characters for ConfigReleases. *)
EXTENDS ConfigReleases, TLC

(* "\x00" is the NUL character. *)
Pair(h, l) == IF h = "0" /\ l = "0" THEN "NUL" ELSE "byte " \o h \o l

Digits == {"0", "1"}
Names == {<<"a">>, <<"a", "a">>, <<"0">>}

(* All short files. *)
ShortFiles == SeqOf({"newline", "blank", "#", "=", "a"}, 6)

(* Values with escapes, and a line behind them. *)
EscapeFiles ==
  {<<"a", "=">> \o v \o w : v \in SeqOf({"newline", "\\", "x", "0", "1"}, 4),
     w \in {<<"newline">>, <<"newline", "0", "=", "x", "newline">>,
            <<"newline", "#">>, <<>>}}

ShortAndEscapeFiles == ShortFiles \cup EscapeFiles
=============================================================================
