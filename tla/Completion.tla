------------------------------ MODULE Completion ------------------------------
(***************************************************************************)
(* Completion when the user presses Tab: completion() of main.cc, the      *)
(* generators of completions.cc, and the options of dpkg with the          *)
(* generators of full_completion.cc.                                       *)
(*                                                                         *)
(* readline calls a generator again and again until it returns NULL.       *)
(* Between two calls, and between two uses of the same generator, all that *)
(* a generator knows is in its static variables: here "at" (an iterator    *)
(* per generator), "display" and "group_master".                           *)
(*                                                                         *)
(* A word is a sequence of letters.  The cursor is at the end of the line, *)
(* and a line is its complete words, the word to complete, and whether it  *)
(* is a shell line (one that starts with a dot).                           *)
(***************************************************************************)
EXTENDS Naturals, Sequences, FiniteSetsExt

CONSTANTS
  Commands,     \* the command table: name, master (or 0), has_slaves and
                \* completion
  Options,      \* the options of dpkg: short and long name and completion
  Lines,        \* the lines at which the user may press Tab
  Worlds,       \* what completion reads: packages and files of a directory
  MaxTabs       \* bound on how often Tab is pressed

VARIABLES
  world,         \* the package cache and the directory
  line,          \* the line that is completed
  generator,     \* the function readline calls
  pc,            \* "typing", "first" (state = 0) or "more" (state > 0)
  at,            \* static iterator of each generator
  display,       \* static of cpl_main: what it shows
  group_master,  \* static of cpl_main: the last root command that fitted
  matches,       \* what readline has been given since Tab
  tabs           \* how often Tab was pressed

vars ==
  <<world, line, generator, pc, at, display, group_master, matches, tabs>>

Iterating ==
  {"cpl_main", "cpl_pkg", "cpl_pkg_i", "cpl_fs_deb", "cpl_long_opts",
   "cpl_short_opts"}
Generators == Iterating \cup {"cpl_none"}
Table == DOMAIN Commands

Fits(text, name) ==
  /\ Len(text) <= Len(name)
  /\ \A n \in 1 .. Len(text) : name[n] = text[n]
StartsWith(word, letters) == Fits(letters, word)

(* How main() fills the table: names differ, a slave's name goes on from   *)
(* that of its master, which is a root, and no other root's name does.     *)
Entry ==
  [name : Seq(STRING), master : Nat, has_slaves : BOOLEAN,
   completion : Generators \cup {"by option"}]
Slaves(k) == {j \in Table : Commands[j].master = k}
NamesDiffer ==
  /\ \A j, k \in Table : Commands[j].name = Commands[k].name => j = k
  /\ \A k \in Table : \A n \in DOMAIN Commands[k].name :
       Commands[k].name[n] # "*"
SlavesHaveMasters ==
  \A k \in Table :
    /\ Commands[k].has_slaves <=> Slaves(k) # {}
    /\ Commands[k].master # 0 =>
         /\ Commands[k].master \in Table
         /\ Commands[Commands[k].master].master = 0
         /\ Fits(Commands[Commands[k].master].name, Commands[k].name)
MastersStandAlone ==
  \A j, k \in Table :
    /\ Commands[j].has_slaves /\ Commands[k].master = 0
    /\ Fits(Commands[j].name, Commands[k].name)
    => j = k

ASSUME TableAssumption ==
  /\ Commands \in Seq(Entry)
  /\ NamesDiffer /\ SlavesHaveMasters /\ MastersStandAlone

ASSUME LinesAssumption ==
  \A l \in Lines : l.text \in Seq(STRING) /\ l.words \in Seq(Seq(STRING))

(* How cmd_dpkg fills its list: long names start with two dashes, and no   *)
(* two options have a name in common.  Some have no short name.            *)
Option ==
  [name_short : Seq(STRING), name_long : Seq(STRING), completion : Generators]
ASSUME OptionsAssumption ==
  /\ Options \in Seq(Option)
  /\ \A o \in DOMAIN Options : StartsWith(Options[o].name_long, <<"-", "-">>)
  /\ \A o, p \in DOMAIN Options :
       \/ Options[o].name_long = Options[p].name_long
       \/ (Options[o].name_short = Options[p].name_short /\ Options[o].name_short # <<>>)
       => o = p

ASSUME WorldsAssumption ==
  \A w \in Worlds :
    /\ w.packages \in Seq([name : Seq(STRING), installed : BOOLEAN])
    /\ w.files \in Seq([name : Seq(STRING), kind : STRING])

-----------------------------------------------------------------------------
(* Which generator completes a line.                                       *)

Located(word) == {k \in Table : Commands[k].name = word}
Locate(word) == Min(Located(word))

(* The options a word spells, and which words of a line are options.       *)
Spelled(word) ==
  {o \in DOMAIN Options :
     IF StartsWith(word, <<"-", "-">>)
     THEN Options[o].name_long = word
     ELSE StartsWith(word, <<"-">>) /\ Options[o].name_short = word}
OptionWords(words) == {n \in DOMAIN words : Spelled(words[n]) # {}}

ByOption(words, text) ==
  LET before == OptionWords(words)
  IN  IF StartsWith(text, <<"-", "-">>) THEN "cpl_long_opts"
      ELSE IF StartsWith(text, <<"-">>) THEN "cpl_short_opts"
      ELSE IF before = {} THEN "cpl_long_opts"
      ELSE Options[Min(Spelled(words[Max(before)]))].completion

HasGenerator(l) == ~l.shell /\ (l.words = <<>> \/ Located(Head(l.words)) # {})

Chosen(l) ==
  IF l.words = <<>> THEN "cpl_main"
  ELSE LET completion == Commands[Locate(Head(l.words))].completion
       IN  IF completion = "by option" THEN ByOption(l.words, l.text)
           ELSE completion

-----------------------------------------------------------------------------
(* What a generator goes through, compares the text with, and returns.     *)

Source(g) ==
  CASE g = "cpl_main" -> Commands
    [] g \in {"cpl_pkg", "cpl_pkg_i"} -> world.packages
    [] g = "cpl_fs_deb" -> world.files
    [] g \in {"cpl_long_opts", "cpl_short_opts"} -> Options
    [] OTHER -> <<>>

Name(g, k) ==
  CASE g = "cpl_long_opts" -> Options[k].name_long
    [] g = "cpl_short_opts" -> Options[k].name_short
    [] OTHER -> Source(g)[k].name

(* The first part of cpl_main: how many root commands fit.                 *)
FittingRoots(text) ==
  {k \in Table : Fits(text, Commands[k].name) /\ Commands[k].master = 0}
MasterFor(text) ==
  LET roots == FittingRoots(text)
  IN  IF roots = {} THEN group_master ELSE Min(roots)

(* Only one root command fits, and it is a master.                         *)
OneMaster(roots) == \E k \in roots : roots = {k} /\ Commands[k].has_slaves

(* A faulty variant: some group always fits.                               *)
DisplayRoots(text) == IF OneMaster(FittingRoots(text)) THEN "GROUP" ELSE "ROOTS"
DisplayFor(text) ==
  IF FittingRoots(text) = {} THEN "ALL"
  ELSE IF OneMaster(FittingRoots(text)) THEN "GROUP"
  ELSE "ROOTS"

Shows(d, m, k) ==
  \/ d = "ROOTS" /\ Commands[k].master = 0
  \/ d = "GROUP" /\ (Commands[k].master = m \/ k = m)
  \/ d = "ALL"
Shown(d, k) ==
  IF d = "ROOTS" /\ Commands[k].has_slaves
  THEN Append(Commands[k].name, "*")
  ELSE Commands[k].name

(* Directories and Debian packages, if they are not hidden.                *)
ForDpkg(f) == f.kind \in {"deb", "directory"} /\ ~StartsWith(f.name, <<".">>)

Accepts(g, d, m, k) ==
  CASE g = "cpl_main" -> Shows(d, m, k)
    [] g = "cpl_pkg_i" -> world.packages[k].installed
    [] g = "cpl_fs_deb" -> ForDpkg(world.files[k])
    [] OTHER -> TRUE
Returned(g, d, k) == IF g = "cpl_main" THEN Shown(d, k) ELSE Name(g, k)

-----------------------------------------------------------------------------
NoLine == [shell |-> TRUE, words |-> <<>>, text |-> <<>>]

Init ==
  /\ world \in Worlds
  /\ line = NoLine
  /\ generator = "cpl_none"
  /\ pc = "typing"
  /\ at = [g \in Iterating |-> 1]
  /\ display = "ALL"
  /\ group_master = 0
  /\ matches = {}
  /\ tabs = 0

(* completion(): a shell line and an unknown command get no matches.       *)
Tab ==
  /\ pc = "typing" /\ tabs < MaxTabs
  /\ \E l \in Lines :
       /\ line' = l
       /\ IF HasGenerator(l)
          THEN generator' = Chosen(l) /\ pc' = "first"
          ELSE generator' = "cpl_none" /\ pc' = "typing"
  /\ matches' = {}
  /\ tabs' = tabs + 1
  /\ UNCHANGED <<world, at, display, group_master>>

(* Where a call starts to look: a generator starts over when state = 0.    *)
(* A faulty variant: it never does.                                        *)
BeginStatic(g) == at[g]
Begin(g) == IF pc = "first" THEN 1 ELSE at[g]

(* The commands, packages, files or options that a call may return.        *)
Rest(g, d, m) ==
  {k \in DOMAIN Source(g) :
     k >= Begin(g) /\ Fits(line.text, Name(g, k)) /\ Accepts(g, d, m, k)}

(* One call of the generator, with state = 0 or not.                       *)
Starts == pc = "first" /\ generator = "cpl_main"
Call ==
  LET d == IF Starts THEN DisplayFor(line.text) ELSE display
      m == IF Starts THEN MasterFor(line.text) ELSE group_master
      rest == Rest(generator, d, m)
  IN  /\ pc \in {"first", "more"} /\ generator \in Iterating
      /\ display' = d
      /\ group_master' = m
      /\ \/ /\ rest = {}
            /\ at' = [at EXCEPT ![generator] = Len(Source(generator)) + 1]
            /\ pc' = "typing"
            /\ UNCHANGED matches
         \/ \E k \in rest :
              /\ \A j \in rest : k <= j
              /\ at' = [at EXCEPT ![generator] = k + 1]
              /\ pc' = "more"
              /\ matches' = matches \cup {Returned(generator, d, k)}
      /\ UNCHANGED <<world, line, generator, tabs>>

(* cpl_none has nothing to go through.                                     *)
CallNone ==
  /\ pc = "first" /\ generator = "cpl_none"
  /\ pc' = "typing"
  /\ UNCHANGED <<world, line, generator, at, display, group_master, matches, tabs>>

(* Between two completions the line is run: packages are installed and the *)
(* cache is mapped anew, files come and go.                                *)
Run ==
  /\ pc = "typing"
  /\ world' \in Worlds
  /\ line' = NoLine
  /\ generator' = "cpl_none"
  /\ matches' = {}
  /\ UNCHANGED <<pc, at, display, group_master, tabs>>

Next == Tab \/ Call \/ CallNone \/ Run

Spec == Init /\ [][Next]_vars /\ WF_vars(Call \/ CallNone)
=============================================================================
