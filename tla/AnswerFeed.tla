----------------------------- MODULE AnswerFeed -----------------------------
(***************************************************************************)
(* cmd_aptize::execute during queue-commit-say: the shell writes           *)
(* command_answer into a pipe, over and over, until the pipe breaks; the   *)
(* program at the other end asks when it pleases.  Then the package cache  *)
(* is refreshed, and only then is the program waited for.                  *)
(*                                                                         *)
(* The program is external (apt-get, a shell, what they start), so it is   *)
(* free to ask, to change packages, to close its input and to leave a      *)
(* process behind that keeps it open.  It reads its answers one character  *)
(* at a time or one line at a time.                                        *)
(***************************************************************************)
EXTENDS Naturals

CONSTANTS
  AnswerCapacity,  \* bound: how many answers the pipe holds
  Prompts,         \* bound: how often the program asks
  Readers          \* how programs read: a subset of {"character", "line"}

ASSUME FeedAssumption ==
  /\ AnswerCapacity \in Nat \ {0}
  /\ Prompts \in Nat
  /\ Readers \subseteq {"character", "line"}

VARIABLES
  feeder,    \* the shell: "feeding", "refreshing", "closing", "waiting",
             \* "returned"
  answers,   \* how many are in the pipe
  program,   \* "working", "asking" or "gone"
  reader,    \* how it reads
  keeps,     \* it keeps its input open until it ends
  asked,     \* how often it has asked
  answered,  \* how many of its prompts got their answer
  input,     \* who holds the reading end: "program", "left behind", "nobody"
  cache      \* the mapped cache against the packages: "current" or "stale"

feed_vars == <<feeder, answers, program, reader, keeps, asked, answered, input, cache>>

FeedInit ==
  /\ feeder = "feeding"
  /\ answers = 0
  /\ program = "working"
  /\ reader \in Readers
  /\ keeps \in BOOLEAN
  /\ asked = 0
  /\ answered = 0
  /\ input = "program"
  /\ cache = "current"

-----------------------------------------------------------------------------
(* fputs() until it fails.  A full pipe blocks it.  SIGPIPE is ignored. *)

Feed ==
  /\ feeder = "feeding" /\ input # "nobody" /\ answers < AnswerCapacity
  /\ answers' = answers + 1
  /\ UNCHANGED <<feeder, program, reader, keeps, asked, answered, input,
                 cache>>

(* Faulty variants: give up as soon as the pipe is full; or only when all  *)
(* has been read.                                                          *)
FeedFailsWhenFull ==
  /\ feeder = "feeding" /\ (input = "nobody" \/ answers = AnswerCapacity)
  /\ feeder' = "refreshing"
  /\ UNCHANGED <<answers, program, reader, keeps, asked, answered, input, cache>>

FeedFailsWhenRead ==
  /\ feeder = "feeding" /\ input = "nobody" /\ answers = 0
  /\ feeder' = "refreshing"
  /\ UNCHANGED <<answers, program, reader, keeps, asked, answered, input, cache>>

FeedFails ==
  /\ feeder = "feeding" /\ input = "nobody"
  /\ feeder' = "refreshing"
  /\ UNCHANGED <<answers, program, reader, keeps, asked, answered, input, cache>>

(* check_cache(), before pclose(). *)
Refresh ==
  /\ feeder = "refreshing"
  /\ cache' = "current"
  /\ feeder' = "closing"
  /\ UNCHANGED <<answers, program, reader, keeps, asked, answered, input>>

(* pclose() closes the writing end, then waits for the program. *)
CloseFeed ==
  /\ feeder = "closing"
  /\ feeder' = "waiting"
  /\ UNCHANGED <<answers, program, reader, keeps, asked, answered, input, cache>>

ReturnFed ==
  /\ feeder = "waiting" /\ program = "gone"
  /\ feeder' = "returned"
  /\ UNCHANGED <<answers, program, reader, keeps, asked, answered, input, cache>>

-----------------------------------------------------------------------------
(* The program. *)

(* It installs or removes something. *)
Change ==
  /\ program = "working"
  /\ cache' = "stale"
  /\ UNCHANGED <<feeder, answers, program, reader, keeps, asked, answered, input>>

Ask ==
  /\ program = "working" /\ asked < Prompts
  /\ program' = "asking"
  /\ asked' = asked + 1
  /\ UNCHANGED <<feeder, answers, reader, keeps, answered, input, cache>>

(* A program that reads characters takes the answer.  One that reads lines *)
(* takes it and goes on reading, as command_answer is typed on one line    *)
(* and is fed without a newline.                                           *)
Take ==
  /\ program = "asking" /\ input = "program" /\ answers > 0
  /\ answers' = answers - 1
  /\ IF reader = "character"
     THEN program' = "working" /\ answered' = answered + 1
     ELSE UNCHANGED <<program, answered>>
  /\ UNCHANGED <<feeder, reader, keeps, asked, input, cache>>

Leave(holder) ==
  /\ program' = "gone"
  /\ input' = holder
  /\ UNCHANGED <<feeder, answers, reader, keeps, asked, answered, cache>>

(* Having closed its input, a program that asks gives up. *)
GiveUp ==
  /\ program = "asking" /\ input # "program"
  /\ Leave("nobody")

FinishProgram ==
  /\ program = "working"
  /\ \/ Leave("nobody")
     \/ input = "program" /\ Leave("left behind")

CloseInput ==
  /\ ~keeps /\ program = "working" /\ input = "program"
  /\ input' = "nobody"
  /\ UNCHANGED <<feeder, answers, program, reader, keeps, asked, answered, cache>>

(* What was left behind ends too. *)
LetGo ==
  /\ input = "left behind"
  /\ input' = "nobody"
  /\ UNCHANGED <<feeder, answers, program, reader, keeps, asked, answered, cache>>

(* SIGINT reaches every process of the terminal; the shell ignores it. *)
InterruptProgram ==
  /\ program # "gone"
  /\ Leave("nobody")

-----------------------------------------------------------------------------
FeedOver == feeder = "returned" /\ UNCHANGED feed_vars

FeederStep == Feed \/ FeedFails \/ Refresh \/ CloseFeed \/ ReturnFed
ProgramStep == Ask \/ Take \/ GiveUp \/ FinishProgram \/ LetGo

FeedNext == FeederStep \/ ProgramStep \/ Change \/ CloseInput \/ InterruptProgram \/ FeedOver

FeedSpec == FeedInit /\ [][FeedNext]_feed_vars

(* The shell runs; a program that works ends or asks, one that asks reads  *)
(* what there is, and what it leaves behind ends.  Nobody has to press     *)
(* Control-C, to change packages or to close anything.                     *)
FairFeedSpec ==
  /\ FeedSpec
  /\ WF_feed_vars(FeederStep)
  /\ WF_feed_vars(Ask \/ FinishProgram)
  /\ WF_feed_vars(Take)
  /\ WF_feed_vars(GiveUp)
  /\ WF_feed_vars(LetGo)

-----------------------------------------------------------------------------
(* A program that keeps its input until it ends is over when the feeding   *)
(* ends, so the cache is refreshed after its last change, although         *)
(* check_cache() is called before pclose().                                *)
FreshWhenReturned == keeps /\ feeder = "returned" => cache = "current"

(* Whatever the pipe holds and whoever holds it, the command returns, if   *)
(* its program can make use of the answers.                                *)
FedCommandReturns == reader = "character" => <>(feeder = "returned")

-----------------------------------------------------------------------------
=============================================================================
