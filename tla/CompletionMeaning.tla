--------------------------- MODULE CompletionMeaning ---------------------------
(***************************************************************************)
(* What the user can rely on when Tab has listed its matches.              *)
(***************************************************************************)
EXTENDS Completion

Listed == pc = "typing" /\ HasGenerator(line)

TypeOK ==
  /\ world \in Worlds
  /\ line \in Lines \cup {NoLine}
  /\ generator \in Generators
  /\ pc \in {"typing", "first", "more"}
  /\ \A g \in Iterating : at[g] \in Nat \ {0}
  /\ display \in {"ALL", "ROOTS", "GROUP"}
  /\ group_master \in Table \cup {0}
  /\ tabs \in 0 .. MaxTabs

-----------------------------------------------------------------------------
(* Grouping hides no command: each one that fits is listed, or its master  *)
(* is, with the star that says that there is more.                         *)
NothingHidden ==
  Listed /\ generator = "cpl_main" =>
    \A k \in Table :
      Fits(line.text, Commands[k].name) =>
        \/ Commands[k].name \in matches
        \/ Append(Commands[k].name, "*") \in matches
        \/ /\ Commands[k].master # 0
           /\ Append(Commands[Commands[k].master].name, "*") \in matches

(* readline inserts what all matches begin with.  The star is never part   *)
(* of it, whatever was completed before.                                   *)
StarNeverInserted ==
  generator = "cpl_main" /\ Listed =>
    \A match \in matches :
      (\A other \in matches : Fits(match, other)) =>
        \E k \in Table : Commands[k].name = match

(* trunk/HOWTO:202: with the whole master command typed, the members of    *)
(* its group are listed, and nothing else is.                              *)
MasterTypedShowsGroup ==
  Listed /\ generator = "cpl_main" =>
    \A k \in Table :
      Commands[k].has_slaves /\ line.text = Commands[k].name =>
        matches = {Commands[j].name : j \in Slaves(k) \cup {k}}

(* An argument is completed with all that fits of what is there now, and   *)
(* with nothing else, though the generators remember where they were: the  *)
(* packages for install, the installed ones for remove, and for dpkg what  *)
(* the option before the argument takes.                                   *)
InstalledWanted ==
  /\ line.words # <<>> /\ ~StartsWith(line.text, <<"-">>)
  /\ \/ Commands[Locate(Head(line.words))].completion = "cpl_pkg_i"
     \/ /\ Commands[Locate(Head(line.words))].completion = "by option"
        /\ \E o \in DOMAIN Options :
             /\ Options[o].completion = "cpl_pkg_i"
             /\ line.words[Len(line.words)] = Options[o].name_long
ArgumentsAreCurrent ==
  Listed =>
    LET packages == {world.packages[k] : k \in DOMAIN world.packages}
        fitting(S) == {p.name : p \in {q \in S : Fits(line.text, q.name)}}
    IN  /\ generator = "cpl_pkg" => matches = fitting(packages)
        /\ InstalledWanted =>
             matches = fitting({p \in packages : p.installed})
        /\ generator = "cpl_fs_deb" =>
             matches \subseteq {world.files[k].name : k \in DOMAIN world.files}

=============================================================================
