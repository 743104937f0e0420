---------------------------- MODULE Completion006 ----------------------------
(***************************************************************************)
(* Completion in release 0.0.6, on the same lines and names of commands as *)
(* trunk's, with tables of its own of what a command and an option takes.  *)
(* Its generators keep nothing from one Tab to the next, so what they      *)
(* return until their NULL is a function of the line.                      *)
(***************************************************************************)
EXTENDS WordsMeaning

CONSTANTS
  Kinds006,     \* what each command takes (cmds[])
  Options006    \* the options of dpkg and what they take (dpkg_opts[])

Kinds == {"AVAILABLE", "INSTALLED", "DPKG", "FS", "NONE"}
Importances == {"NOT_IMPORTANT", "AVAILABLE", "INSTALLED", "FS", "FS_DEB"}
ASSUME Tables006Assumption ==
  /\ Kinds006 \in [Table -> Kinds]
  /\ Options006 \in Seq([name : Seq(STRING), cpl_decide : Importances])
  /\ \A o \in DOMAIN Options006 : StartsWith(Options006[o].name, <<"-">>)

(* No command is called like what separates commands. *)
Separator == <<";">>
ASSUME SeparatorAssumption == \A k \in Table : Commands[k].name # Separator

(* strstr(text, name) *)
Contains(text, name) == \E n \in 0 .. Len(text) : Fits(name, SubSeq(text, n + 1, Len(text)))

Master(k) == Commands[Commands[k].master]
FittingSlaves(text) == {k \in Table : Commands[k].master # 0 /\ Fits(text, Commands[k].name)}

(* A faulty variant: the only command that fits has its star too. *)
NeverAlone(text) == FALSE

Alone(text) == Cardinality(FittingRoots(text)) <= 1

(* cpl_main(), its first loop: roots, and the slaves of a master that is   *)
(* already typed; and its second: all slaves that fit, if one root did.    *)
FirstLoop(text) ==
  {IF Commands[k].has_slaves /\ ~Alone(text) THEN Append(Commands[k].name, "*")
   ELSE Commands[k].name : k \in FittingRoots(text)}
  \cup {Commands[k].name : k \in {j \in FittingSlaves(text) : Contains(text, Master(j).name)}}
SecondLoop(text) ==
  IF Cardinality(FittingRoots(text)) = 1
  THEN {Commands[k].name : k \in FittingSlaves(text)}
  ELSE {}
cpl_main(text) == FirstLoop(text) \cup SecondLoop(text)

-----------------------------------------------------------------------------
(* What is completed with a generator: not what takes a file, nor nothing. *)
Completes(kind) ==
  CASE kind = "AVAILABLE" -> "cpl_pkg"
    [] kind = "INSTALLED" -> "cpl_pkg_i"
    [] kind = "FS_DEB" -> "cpl_fs_deb"
    [] OTHER -> "cpl_none"

(* dpkg_complete: every word of the line that is an option with something  *)
(* to complete decides anew.                                               *)
Decides(word) ==
  {o \in DOMAIN Options006 :
     Options006[o].name = word /\ Options006[o].cpl_decide # "NOT_IMPORTANT"}
Decision(word) == Completes(Options006[Max(Decides(word))].cpl_decide)
DecidingWords(words) == {n \in DOMAIN words : Decides(words[n]) # {}}

(* A faulty variant: the first one decides. *)
first_decision(words) ==
  IF DecidingWords(words) = {} THEN "cpl_long_opts"
  ELSE Decision(words[Min(DecidingWords(words))])

last_decision(words) ==
  IF DecidingWords(words) = {} THEN "cpl_long_opts"
  ELSE Decision(words[Max(DecidingWords(words))])

dpkg_complete(words, text) ==
  IF StartsWith(text, <<"-", "-">>) THEN "cpl_long_opts"
  ELSE IF StartsWith(text, <<"-">>) THEN "cpl_short_opts"
  ELSE last_decision(words)

(* completion(): a command behind a semicolon is completed like one at the *)
(* beginning.  For an unknown command, check_command() reads what follows  *)
(* cmds[] in memory, and any generator may be the result.                  *)
ByKind(kind, l) ==
  IF kind = "DPKG" THEN dpkg_complete(l.words, l.text) ELSE Completes(kind)
Choosable(l) ==
  IF l.shell THEN {"cpl_none"}
  ELSE IF l.words \in {<<>>, <<Separator>>} THEN {"cpl_main"}
  ELSE {ByKind(kind, l) :
          kind \in IF Located(Head(l.words)) = {} THEN Kinds
                   ELSE {Kinds006[Locate(Head(l.words))]}}

-----------------------------------------------------------------------------
(* The releases find what they show for a command by different means - two *)
(* loops and a search for the master's name here, a kind of display there -*)
(* and show the same.  For an argument their tables may differ; where dpkg *)
(* takes it, and each word on the line means the same to both tables, the  *)
(* forward search for the last option that decides and the backward one    *)
(* for the last that is known choose the same generator.                   *)
TablesAgree ==
  \A n \in DOMAIN line.words :
    LET word == line.words[n]
    IN  /\ Spelled(word) = {} <=> Decides(word) = {}
        /\ Spelled(word) # {} =>
             Options[Min(Spelled(word))].completion = Decision(word)
ReleasesCompleteAlike ==
  Listed =>
    /\ line.words = <<>> => matches = cpl_main(line.text)
    /\ line.words # <<>> /\ TablesAgree =>
         LET k == Locate(Head(line.words))
         IN  Commands[k].completion = "by option" /\ Kinds006[k] = "DPKG" =>
               Choosable(line) = {generator}
=============================================================================
