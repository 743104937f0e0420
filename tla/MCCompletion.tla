----------------------------- MODULE MCCompletion -----------------------------
(***************************************************************************)
(* A table in the shape of main()'s: groups whose masters are a prefix of  *)
(* their slaves (help, dpkg, queue), roots that begin alike (dump, dpkg)   *)
(* or go on from each other (rl, r), and every kind of completion.         *)
(***************************************************************************)
EXTENDS Completion006

Command(name, master, slaves, completion) ==
  [name |-> name, master |-> master, has_slaves |-> slaves,
   completion |-> completion]

TheCommands ==
  << Command(<<"i">>, 0, FALSE, "cpl_pkg"),
     Command(<<"r">>, 0, FALSE, "cpl_pkg_i"),
     Command(<<"r", "l">>, 0, FALSE, "cpl_none"),
     Command(<<"h", "e">>, 0, TRUE, "cpl_main"),
     Command(<<"h", "e", "-", "h">>, 4, FALSE, "cpl_none"),
     Command(<<"d", "u">>, 0, FALSE, "cpl_none"),
     Command(<<"d", "p">>, 0, TRUE, "by option"),
     Command(<<"d", "p", "-", "r">>, 7, FALSE, "cpl_pkg_i"),
     Command(<<"q", "u">>, 0, TRUE, "cpl_none"),
     Command(<<"q", "u", "-", "r">>, 9, FALSE, "cpl_none"),
     Command(<<"q", "u", "-", "c">>, 9, FALSE, "cpl_none"),
     Command(<<"q", "i">>, 0, FALSE, "cpl_none") >>

TheOptions ==
  << [name_short |-> <<"-", "R">>, name_long |-> <<"-", "-", "r", "e">>,
      completion |-> "cpl_none"],
     [name_short |-> <<"-", "i">>, name_long |-> <<"-", "-", "i">>,
      completion |-> "cpl_fs_deb"],
     [name_short |-> <<>>, name_long |-> <<"-", "-", "c">>,
      completion |-> "cpl_pkg_i"],
     [name_short |-> <<"-", "r">>, name_long |-> <<"-", "-", "r">>,
      completion |-> "cpl_pkg_i"] >>

(* What release 0.0.6 makes of the same commands, and of options some of   *)
(* which it knows otherwise: --re takes files, --i is not important, -R is *)
(* unknown, -x is known to it alone.                                       *)
TheKinds006 ==
  << "AVAILABLE", "INSTALLED", "AVAILABLE", "NONE", "NONE", "NONE", "DPKG",
     "INSTALLED", "NONE", "NONE", "NONE", "FS" >>
Option006(name, kind) == [name |-> name, cpl_decide |-> kind]
TheOptions006 ==
  << Option006(<<"-", "i">>, "FS_DEB"), Option006(<<"-", "r">>, "INSTALLED"),
     Option006(<<"-", "x">>, "AVAILABLE"), Option006(<<"-", "-", "r", "e">>, "FS"),
     Option006(<<"-", "-", "i">>, "NOT_IMPORTANT"),
     Option006(<<"-", "-", "c">>, "INSTALLED"),
     Option006(<<"-", "-", "r">>, "INSTALLED") >>

Line(words, text) == [shell |-> FALSE, words |-> words, text |-> text]

Prefixes(word) == {SubSeq(word, 1, n) : n \in 0 .. Len(word)}
FirstTexts ==
  UNION {Prefixes(TheCommands[k].name) : k \in DOMAIN TheCommands}
    \cup {<<"x">>, <<"r", "x">>}
FirstLines == {Line(<<>>, text) : text \in FirstTexts}

Texts == {<<>>, <<"a">>, <<"a", "b">>, <<"c">>}
WordLines ==
  {Line(<<word>>, text) :
     word \in {<<"i">>, <<"r">>, <<"r", "l">>, <<"h", "e">>, <<"z">>},
     text \in Texts}

Dpkg == <<"d", "p">>
OptionTexts == {<<"-">>, <<"-", "-">>, <<"-", "-", "r">>, <<"-", "i">>}
DpkgWords ==
  {TheOptions[o].name_short : o \in {1, 2, 4}}
    \cup {TheOptions[o].name_long : o \in DOMAIN TheOptions}
    \cup {<<"a">>, <<"-", "x">>}
DpkgLines ==
  {Line(<<Dpkg>>, text) : text \in Texts \cup OptionTexts}
    \cup {Line(<<Dpkg, v>>, text) :
            v \in DpkgWords, text \in {<<"a">>, <<"-">>, <<"-", "-">>}}
    \cup {Line(<<Dpkg, v, w>>, <<"a">>) :
            v \in {<<"-", "i">>, <<"-", "-", "c">>}, w \in DpkgWords}

(* Lines for ls and rls. *)
ASSUME WildcardsAssumption ==
  \A text \in Text!SeqOf({"a", "*", "single", "double", "\\", "|"}, 5) : WildcardsAreKept(text)

AllLines == FirstLines \cup WordLines \cup DpkgLines \cup {NoLine}

Package(name, installed) == [name |-> name, installed |-> installed]
File(name, kind) == [name |-> name, kind |-> kind]
TheFiles ==
  << File(<<".", "a">>, "directory"), File(<<"a">>, "other"),
     File(<<"a", "d">>, "deb"), File(<<"c">>, "directory") >>
AllWorlds ==
  { [packages |-> <<Package(<<"a">>, FALSE), Package(<<"a", "b">>, TRUE),
                    Package(<<"c">>, TRUE)>>,
     files |-> TheFiles],
    [packages |-> <<Package(<<"a", "b">>, FALSE), Package(<<"a">>, TRUE)>>,
     files |-> <<>>] }
=============================================================================
