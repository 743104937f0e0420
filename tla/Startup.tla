------------------------------- MODULE Startup -------------------------------
(***************************************************************************)
(* main() before its loop: options are acted on in the order in which they *)
(* are given, then the words of the command line are looked at, and only   *)
(* a shell that is to be interactive goes on to the history.  A shell that *)
(* starts this way comes before the others of HistoryFile.                 *)
(*                                                                         *)
(* getopt_long() (external) hands out the options in their order and moves *)
(* the words behind them.                                                  *)
(***************************************************************************)
EXTENDS HistoryMeaning, FiniteSetsExt

CONSTANTS
  CommandLines,   \* what a user may start aptsh with
  Default,        \* CONFIG_FILE
  WithHistory,    \* the configuration files that set history_count
  Names           \* the names in the command table

ASSUME CommandLinesAssumption ==
  \A words \in CommandLines :
    words \in Seq([option : {"c", "s", "v", "x", "?", "word"}, text : STRING])

(* An argument: option c, s, v, x or ?, which stands for an unknown one    *)
(* too, with what follows it; or a word.                                   *)
VARIABLES
  argv,           \* the arguments
  at,             \* the last option handed out
  phase,          \* "options", "words", "interactive", "running" or "done"
  config,         \* the files cfg_parse() has read, on top of each other
  config_file,    \* whether config_file is set
  queue_mode,     \* command_queue_mode
  ran             \* the commands that have been executed

startup_vars == <<argv, at, phase, config, config_file, queue_mode, ran>>

StartupInit ==
  /\ Init
  /\ argv \in CommandLines
  /\ at = 0
  /\ phase = "options"
  /\ config = <<>>
  /\ config_file = FALSE
  /\ queue_mode = FALSE
  /\ ran = <<>>

OptionsLeft == {k \in DOMAIN argv : k > at /\ argv[k].option # "word"}

(* The next option is this one. *)
Given(option) ==
  /\ phase = "options"
  /\ OptionsLeft # {} /\ argv[Min(OptionsLeft)].option = option
  /\ at' = Min(OptionsLeft)

Argument == argv[at'].text

ConfigOption ==
  /\ Given("c")
  /\ config_file' = TRUE
  /\ config' = Append(config, Argument)
  /\ UNCHANGED <<argv, phase, queue_mode, ran>>

StoringOption ==
  /\ Given("s")
  /\ queue_mode' = TRUE
  /\ UNCHANGED <<argv, phase, config, config_file, ran>>

InfoOption ==
  /\ Given("v") \/ Given("?")
  /\ phase' = "done"
  /\ UNCHANGED <<argv, config, config_file, queue_mode, ran>>

(* libapt() finds apt's configuration or ends the process. *)
Libapt(next) == phase' \in {next, "failed"}

(* execute_line(): in queue mode the command is stored, and lost. *)
ExecuteOption ==
  /\ Given("x")
  /\ Libapt("done")
  /\ ran' = IF phase' = "done" /\ ~queue_mode THEN Append(ran, Argument) ELSE ran
  /\ UNCHANGED <<argv, config, config_file, queue_mode>>

(* A faulty variant: the default file is read in any case. *)
OptionsEndDefaulting ==
  /\ phase = "options" /\ OptionsLeft = {}
  /\ config' = Append(config, Default)
  /\ config_file' = TRUE
  /\ phase' = "words"
  /\ UNCHANGED <<argv, at, queue_mode, ran>>

OptionsEnd ==
  /\ phase = "options" /\ OptionsLeft = {}
  /\ config' = IF config_file THEN config ELSE Append(config, Default)
  /\ config_file' = TRUE
  /\ phase' = "words"
  /\ UNCHANGED <<argv, at, queue_mode, ran>>

(* Words count only if argv[1] is one: if there was no option. *)
DirectCommand ==
  /\ phase = "words" /\ at = 0 /\ argv # <<>>
  /\ Libapt("done")
  /\ ran' = IF phase' = "done" /\ argv[1].text \in Names THEN Append(ran, argv[1].text) ELSE ran
  /\ UNCHANGED <<argv, at, config, config_file, queue_mode>>

NoCommand ==
  /\ phase = "words" /\ (at # 0 \/ argv = <<>>)
  /\ Libapt("interactive")
  /\ UNCHANGED <<argv, at, config, config_file, queue_mode, ran>>

OptionStep ==
  \/ ConfigOption \/ StoringOption \/ InfoOption \/ ExecuteOption
  \/ OptionsEnd \/ DirectCommand \/ NoCommand

(* CFG_HISTORY_COUNT && CFG_USE_HISTORY; the arguments are of no use any   *)
(* more.                                                                   *)
Enter ==
  /\ phase = "interactive"
  /\ \E k \in DOMAIN config : config[k] \in WithHistory
  /\ \E s \in Shells : Start(s)
  /\ phase' = "running"
  /\ argv' = <<>> /\ at' = 0 /\ config' = <<>> /\ queue_mode' = FALSE
  /\ UNCHANGED <<config_file, ran>>

StartupNext ==
  \/ OptionStep /\ UNCHANGED vars
  \/ Enter
  \/ phase = "running" /\ Next /\ UNCHANGED startup_vars

StartupSpec == StartupInit /\ [][StartupNext]_<<vars, startup_vars>>

-----------------------------------------------------------------------------
(* What a command line means, taken as a whole. *)

Deciding == {k \in DOMAIN argv : argv[k].option \in {"v", "?", "x"}}
Decided == IF Deciding = {} THEN Len(argv) + 1 ELSE Min(Deciding)

(* The arguments -c among the first ones, the n-th of all, and their files *)
(* in order.                                                               *)
Naming(last) == {k \in 1 .. last : argv[k].option = "c"}
Nth(n) == CHOOSE k \in DOMAIN argv : argv[k].option = "c" /\ Cardinality(Naming(k)) = n
Named(last) == [n \in 1 .. Cardinality(Naming(last)) |-> argv[Nth(n)].text]

FilesNamed == Named(Decided - 1)
Storing == \E k \in 1 .. Decided - 1 : argv[k].option = "s"
OnlyWords == argv # <<>> /\ \A k \in DOMAIN argv : argv[k].option = "word"

(* -x behind -s, of which the usage and the code say different things.     *)
Disputed == Storing /\ Deciding # {} /\ argv[Decided].option = "x"

Executed ==
  IF Deciding # {} /\ argv[Decided].option = "x" THEN <<argv[Decided].text>>
  ELSE IF OnlyWords /\ argv[1].text \in Names THEN <<argv[1].text>>
  ELSE <<>>

(* The first of -v, -x and -? decides, and what is named behind it counts  *)
(* for nothing: -x executes its command, once, with the built-in settings  *)
(* and the files named before it, where the prompt and a command on the    *)
(* command line also have the default file if none is named.  What -x      *)
(* behind -s executes is left open: the usage (main.cc:338) says its       *)
(* command, the code stores the command and ends.                          *)
CommandLineMeans ==
  phase \in {"interactive", "done"} =>
    /\ ran = Executed \/ Disputed
    /\ config = IF Deciding = {} /\ FilesNamed = <<>> THEN <<Default>> ELSE FilesNamed
    /\ phase = "interactive" <=> Deciding = {} /\ ~OnlyWords
    /\ phase = "interactive" => queue_mode = Storing
=============================================================================
