------------------------------- MODULE Shell -------------------------------
(***************************************************************************)
(* The interactive session of Aptsh: the main loop of main(),              *)
(* execute_line() with its two modes, the command queue and the commits    *)
(* that run it, the answer that feeds commands during queue-commit-say,    *)
(* SIGINT, and the life of the mapped package cache.                       *)
(*                                                                         *)
(* execute_line() and the two commit commands call each other, so the      *)
(* model keeps the commits in progress on a stack of frames; pc is where   *)
(* the innermost execute_line() stands.  A command that runs a program is  *)
(* split at the program's run, where SIGINT and the user have their say.   *)
(*                                                                         *)
(* Left out: what is printed, completion's choice of words, and the        *)
(* history, which nothing else in execute_line() reads.                    *)
(***************************************************************************)
EXTENDS CommandQueue, Sequences

CONSTANTS
  NormalLines,       \* lines the user types in normal mode
  QueuedLines,       \* lines the user types in queue mode
  MaxNode,           \* bound: how many lines a session stores
  StackLimit,        \* bound: how many nested commits the C stack holds
  RefreshIndexes,    \* CFG_REFRESH_INDEXES
  RefreshIndexesAll  \* CFG_REFRESH_INDEXES_ALL

(* The commands, one word for each way execute_line() treats one:          *)
(* "install" a cmd_aptize that validates package names, "update" one that  *)
(* does not, "purge" a cmd_systemize, "ls" a command that lists packages   *)
(* from the mapped cache, as "orphans" and "orphans-all" do, which look at *)
(* sections, "help" one that only prints, "." a shell command, "unknown"   *)
(* no command at all.                                                      *)
Aptized == {"install", "update"}
Lists == {"ls", "orphans", "orphans-all"}
External == Aptized \cup {"dpkg", "purge", "."}
CommitWords == {"queue-commit", "queue-commit-say"}
QueueWords == {"queue-remove", "queue-clear"} \cup CommitWords
Words == External \cup Lists \cup QueueWords \cup {"help", "unknown", "quit", "backtick"}

NoAnswer == ""
Answers == {NoAnswer, "y", "garbled"}

(* A typed line; lead: blanks precede the command's word. *)
Line == [word : Words, lead : BOOLEAN, args : Seq(Arg), answer : Answers]

ASSUME LinesAssumption ==
  /\ NormalLines \subseteq Line
  /\ QueuedLines \subseteq Line
  /\ MaxNode \in Nat
  /\ StackLimit \in Nat \ {0}
  /\ {RefreshIndexes, RefreshIndexesAll} \subseteq BOOLEAN

VARIABLES
  status,     \* the process: "running", "exited" or "crashed"
  pc,         \* where the innermost execute_line() stands
  mode,       \* command_queue_mode
  executing,  \* executing_now
  queue,      \* queue_base::queue
  tail,       \* the node the next push_back() makes
  cur,        \* the line execute_line() was given
  args,       \* words queue-remove has still to read
  stack,      \* the loops of the commits in progress, innermost last
  answer,     \* command::command_answer
  cache,      \* m, the mapped package cache, seen against the system
  wild        \* a commit has gone on from an erased node

vars == <<status, pc, mode, executing, queue, tail, cur, args, stack, answer,
          cache, wild>>

Frame == [at : Nat, says : BOOLEAN, text : Answers]
Top == stack[Len(stack)]
Popped == SubSeq(stack, 1, Len(stack) - 1)
Moved(n) ==
  [stack EXCEPT ![Len(stack)] = [at |-> n, says |-> Top.says, text |-> Top.text]]

(* "fed", "starved": the shell writes the answer to a program that takes   *)
(* it, or waits for more.  "waiting": in pclose() behind it.  "stuck":     *)
(* in a loop that never ends.                                              *)
PCs == {"prompt", "line", "dispatch", "child", "fed", "starved", "waiting",
        "stuck", "removing", "return"}

(* "none": never mapped, m is NULL.  "freed": deleted, and not mapped      *)
(* again.  "stale": mapped before the system's packages last changed, by   *)
(* a program the shell had waited for; "late": by one it had only fed.     *)
CacheStates == {"none", "current", "stale", "late", "freed"}

-----------------------------------------------------------------------------
(* libapt() maps the cache before the first prompt, and nobody looks at    *)
(* whether it could.                                                       *)
Init ==
  /\ status = "running"
  /\ pc = "prompt"
  /\ mode \in BOOLEAN               \* option -s
  /\ executing = FALSE
  /\ queue = EmptyQueue
  /\ tail = 1
  /\ cur \in NormalLines            \* not read before a line is typed
  /\ args = <<>>
  /\ stack = <<>>
  /\ answer = NoAnswer
  /\ cache \in {"none", "current"}
  /\ wild = FALSE

Goto(label) == pc' = label /\ UNCHANGED status
Crash == status' = "crashed" /\ UNCHANGED pc

(* The next step reads the package list through m: a null m is fatal, a    *)
(* freed one may or may not be.                                            *)
ReadCache(label) ==
  \/ cache # "none" /\ Goto(label)
  \/ cache \in {"none", "freed"} /\ Crash

(* A faulty variant: both options have to ask for it. *)
CheckCacheIfBoth(seen, label) ==
  IF ~RefreshIndexes \/ ~RefreshIndexesAll
  THEN cache' = seen /\ Goto(label)
  ELSE \/ cache' = "current" /\ Goto(label)
       \/ cache' = (IF seen = "none" THEN "none" ELSE "freed") /\ Goto(label)
       \/ seen = "freed" /\ cache' = "freed" /\ Crash

(* check_cache(): delete the mapping, then map a regenerated cache.  When  *)
(* the cache cannot be made, m keeps the deleted pointer.  Deleting it a   *)
(* second time may or may not be survived.  seen is the cache as the       *)
(* program that was run has left it so far.                                *)
CheckCache(seen, label) ==
  IF ~RefreshIndexes /\ ~RefreshIndexesAll
  THEN cache' = seen /\ Goto(label)
  ELSE \/ cache' = "current" /\ Goto(label)
       \/ cache' = (IF seen = "none" THEN "none" ELSE "freed") /\ Goto(label)
       \/ seen = "freed" /\ cache' = "freed" /\ Crash

(* The cache after a program has changed the system's packages, or not. *)
LeftBehind == {cache, IF cache \in {"current", "late"} THEN "stale" ELSE cache}

-----------------------------------------------------------------------------
(* The user at the prompt. *)

TypeLine ==
  /\ pc = "prompt"
  /\ \E l \in (IF mode THEN QueuedLines ELSE NormalLines) :
       /\ mode /\ l.word # "backtick" => tail <= MaxNode
       /\ cur' = l
  /\ Goto("line")
  /\ UNCHANGED <<mode, executing, queue, tail, args, stack, answer, cache, wild>>

(* readline() returns NULL: user_abort(0) ends the process, unless         *)
(* executing_now is set; then the loop goes on to read the null line.      *)
EndOfFile ==
  /\ pc = "prompt"
  /\ status' = IF executing THEN "crashed" ELSE "exited"
  /\ UNCHANGED <<pc, mode, executing, queue, tail, cur, args, stack, answer,
                 cache, wild>>

(* Tab after a command's word: cpl_pkg and cpl_pkg_i walk the package list. *)
PressTab ==
  /\ pc = "prompt"
  /\ ReadCache("prompt")
  /\ UNCHANGED <<mode, executing, queue, tail, cur, args, stack, answer, cache, wild>>

(* SIGINT; while a command runs, the handler does nothing, *)
Interrupt ==
  /\ ~executing
  /\ status' = "exited"
  /\ UNCHANGED <<pc, mode, executing, queue, tail, cur, args, stack, answer,
                 cache, wild>>

(* and the program ends that the shell would feed for ever. *)
InterruptProgram ==
  /\ pc = "starved"
  /\ Goto("fed")
  /\ UNCHANGED <<mode, executing, queue, tail, cur, args, stack, answer, cache, wild>>

-----------------------------------------------------------------------------
(* The main loop around execute_line(). *)

(* A faulty variant: executing_now is never set. *)
StartLineUnmarked ==
  /\ pc = "line"
  /\ Goto("dispatch")
  /\ UNCHANGED <<mode, executing, queue, tail, cur, args, stack, answer, cache, wild>>

StartLine ==
  /\ pc = "line"
  /\ executing' = TRUE
  /\ Goto("dispatch")
  /\ UNCHANGED <<mode, queue, tail, cur, args, stack, answer, cache, wild>>

(* A faulty variant: executing_now is never reset. *)
FinishLineMarked ==
  /\ pc = "return"
  /\ stack = <<>>
  /\ Goto("prompt")
  /\ UNCHANGED <<mode, executing, queue, tail, cur, args, stack, answer, cache, wild>>

FinishLine ==
  /\ pc = "return"
  /\ stack = <<>>
  /\ executing' = FALSE
  /\ Goto("prompt")
  /\ UNCHANGED <<mode, queue, tail, cur, args, stack, answer, cache, wild>>

-----------------------------------------------------------------------------
(* execute_line(), one action for each of its ways through. *)

Toggle ==
  /\ pc = "dispatch"
  /\ cur.word = "backtick"
  /\ mode' = ~mode
  /\ Goto("return")
  /\ UNCHANGED <<executing, queue, tail, cur, args, stack, answer, cache, wild>>

(* Queue mode: validate the package names, then store the trimmed line,    *)
(* whatever the validation says.                                           *)
Store ==
  /\ pc = "dispatch"
  /\ cur.word # "backtick"
  /\ mode
  /\ IF cur.word = "install" THEN ReadCache("return") ELSE Goto("return")
  /\ IF status' = "crashed"
     THEN UNCHANGED <<queue, tail>>
     ELSE /\ queue' = PushBack(queue, tail, [cur EXCEPT !.lead = FALSE])
          /\ tail' = tail + 1
  /\ UNCHANGED <<mode, executing, cur, args, stack, answer, cache, wild>>

(* A faulty variant: a line of queue mode may be executed as well. *)
DispatchInAnyMode(words) ==
  /\ pc = "dispatch"
  /\ (IF cur.lead /\ cur.word = "." THEN "unknown" ELSE cur.word) \in words

(* Normal mode.  The dot is looked for before blanks are skipped.  *)
Dispatch(words) ==
  /\ pc = "dispatch"
  /\ ~mode
  /\ (IF cur.lead /\ cur.word = "." THEN "unknown" ELSE cur.word) \in words

(* The arguments start strlen(word) characters into the untrimmed line:    *)
(* leading blanks leave the end of the command's word in front of them,    *)
(* with its dash if they are many.                                         *)
GivenArgs ==
  IF cur.lead
  THEN {<<[range |-> dash, from |-> 0, to |-> 0]>> \o cur.args : dash \in BOOLEAN}
  ELSE {cur.args}

GivenAnswer == IF cur.lead THEN "garbled" ELSE cur.answer

(* "quit", "exit", "bye": only the main loop looks at the returned 1. *)
Quit ==
  /\ Dispatch({"quit"})
  /\ IF stack = <<>> THEN status' = "exited" /\ UNCHANGED pc ELSE Goto("return")
  /\ UNCHANGED <<mode, executing, queue, tail, cur, args, stack, answer, cache, wild>>

(* help and the like, and "No such command". *)
Report ==
  /\ Dispatch({"help", "unknown"})
  /\ Goto("return")
  /\ UNCHANGED <<mode, executing, queue, tail, cur, args, stack, answer, cache, wild>>

Fed == cur.word \in Aptized /\ answer # NoAnswer

(* The answer has no newline: a program that reads lines is fed for ever. *)
RunProgram ==
  /\ Dispatch(External \cup Lists)
  /\ \/ cur.word \in Lists /\ ReadCache("child")
     \/ cur.word \in External /\ ~Fed /\ Goto("child")
     \/ Fed /\ (Goto("fed") \/ Goto("starved"))
  /\ UNCHANGED <<mode, executing, queue, tail, cur, args, stack, answer, cache, wild>>

(* The walk comes to its end, unless an installed package has no section:  *)
(* orphans stays at it, orphans-all makes a string of the null pointer.    *)
ListEnds ==
  /\ pc = "child"
  /\ cur.word \in Lists
  /\ \/ Goto("return")
     \/ cur.word = "orphans" /\ Goto("stuck")
     \/ cur.word = "orphans-all" /\ Crash
  /\ UNCHANGED <<mode, executing, queue, tail, cur, args, stack, answer, cache, wild>>

(* The program ends: by itself, or because SIGINT reached it too.  *)
ProgramEnds ==
  /\ pc = "child"
  /\ cur.word \in External
  /\ \E seen \in LeftBehind :
       IF cur.word \in Aptized \cup {"dpkg"}
       THEN CheckCache(seen, "return")
       ELSE cache' = seen /\ Goto("return")
  /\ UNCHANGED <<mode, executing, queue, tail, cur, args, stack, answer, wild>>

(* fputs() fails: the program has ended, or only closed its input. *)
FeedEnds ==
  /\ pc = "fed"
  /\ \E seen \in LeftBehind : CheckCache(seen, "waiting")
  /\ UNCHANGED <<mode, executing, queue, tail, cur, args, stack, answer, wild>>

(* pclose() returns.  What the program did in between, nobody looks at. *)
FedProgramEnds ==
  /\ pc = "waiting"
  /\ cache' \in {cache, IF cache = "current" THEN "late" ELSE cache}
  /\ Goto("return")
  /\ UNCHANGED <<mode, executing, queue, tail, cur, args, stack, answer, wild>>

Clear ==
  /\ Dispatch({"queue-clear"})
  /\ queue' = EmptyQueue
  /\ Goto("return")
  /\ UNCHANGED <<mode, executing, tail, cur, args, stack, answer, cache, wild>>

StartRemove ==
  /\ Dispatch({"queue-remove"})
  /\ args' \in GivenArgs
  /\ Goto("removing")
  /\ UNCHANGED <<mode, executing, queue, tail, cur, stack, answer, cache, wild>>

(* One turn of the loop over the words.  Every word is numbered against    *)
(* what the words before it have left.                                     *)
RemoveWord ==
  /\ pc = "removing"
  /\ args # <<>>
  /\ ~NamesZero(queue, Head(args))
  /\ IF Misses(queue, Head(args))
     THEN Crash /\ UNCHANGED <<queue, args>>
     ELSE /\ queue' = Erase(queue, Named(queue, Head(args)))
          /\ args' = Tail(args)
          /\ UNCHANGED <<status, pc>>
  /\ UNCHANGED <<mode, executing, tail, cur, stack, answer, cache, wild>>

(* The words are used up, or one of them names item 0: return 1. *)
EndRemove ==
  /\ pc = "removing"
  /\ args # <<>> => NamesZero(queue, Head(args))
  /\ args' = <<>>
  /\ Goto("return")
  /\ UNCHANGED <<mode, executing, queue, tail, cur, stack, answer, cache, wild>>

-----------------------------------------------------------------------------
(* queue-commit and queue-commit-say: a loop of execute_line() calls. *)

RunItem(n) ==
  /\ cur' = queue[n]
  /\ Goto("dispatch")

NewFrame(n) ==
  LET says == cur.word = "queue-commit-say"
  IN  [at |-> n, says |-> says, text |-> IF says THEN GivenAnswer ELSE NoAnswer]

(* Faulty variants: nesting is given up silently; any commit sets the      *)
(* answer.                                                                 *)
StartAtOrGiveUp(n) ==
  IF Len(stack) < StackLimit
  THEN /\ RunItem(n)
       /\ stack' = Append(stack, NewFrame(n))
       /\ answer' = IF cur.word = "queue-commit-say" THEN GivenAnswer ELSE answer
  ELSE Goto("return") /\ UNCHANGED <<cur, stack, answer>>
StartAtSetting(n) ==
  IF Len(stack) < StackLimit
  THEN /\ RunItem(n)
       /\ stack' = Append(stack, NewFrame(n))
       /\ answer' = IF cur.word = "queue-commit-say" THEN GivenAnswer ELSE NoAnswer
  ELSE Crash /\ UNCHANGED <<cur, stack, answer>>

(* The commit finds something to run; one call too many exhausts the stack. *)
StartAt(n) ==
  IF Len(stack) < StackLimit
  THEN /\ RunItem(n)
       /\ stack' = Append(stack, NewFrame(n))
       /\ answer' = IF cur.word = "queue-commit-say" THEN GivenAnswer ELSE answer
  ELSE Crash /\ UNCHANGED <<cur, stack, answer>>

StartCommit ==
  /\ Dispatch(CommitWords)
  /\ \E n \in DOMAIN queue : IsNext(queue, 0, n) /\ StartAt(n)
  /\ UNCHANGED <<mode, executing, queue, tail, args, cache, wild>>

(* Nothing to run; queue-commit-say sets the answer and clears it. *)
CommitNothing ==
  /\ Dispatch(CommitWords)
  /\ AtEnd(queue, 0)
  /\ answer' = IF cur.word = "queue-commit-say" THEN NoAnswer ELSE answer
  /\ Goto("return")
  /\ UNCHANGED <<mode, executing, queue, tail, cur, args, stack, cache, wild>>

InCommit == pc = "return" /\ stack # <<>>

(* A faulty variant: a line is dropped once it has run. *)
NextItemDropping ==
  /\ InCommit
  /\ Top.at \in DOMAIN queue
  /\ \E n \in DOMAIN queue :
       /\ IsNext(queue, Top.at, n)
       /\ RunItem(n)
       /\ stack' = Moved(n)
  /\ queue' = Erase(queue, {Top.at})
  /\ UNCHANGED <<mode, executing, tail, args, answer, cache, wild>>

NextItem ==
  /\ InCommit
  /\ Top.at \in DOMAIN queue
  /\ \E n \in DOMAIN queue :
       /\ IsNext(queue, Top.at, n)
       /\ RunItem(n)
       /\ stack' = Moved(n)
  /\ UNCHANGED <<mode, executing, queue, tail, args, answer, cache, wild>>

LeaveCommit ==
  /\ stack' = Popped
  /\ answer' = IF Top.says THEN NoAnswer ELSE answer
  /\ Goto("return")
  /\ UNCHANGED <<mode, executing, queue, tail, cur, args, cache>>

EndCommit ==
  /\ InCommit
  /\ Top.at \in DOMAIN queue
  /\ AtEnd(queue, Top.at)
  /\ LeaveCommit
  /\ UNCHANGED wild

(* The command just run has erased the node the loop stands on: i++ reads  *)
(* freed memory.  It may be fatal, or lead to some node, or to the end.    *)
Stray ==
  /\ InCommit
  /\ Top.at \notin DOMAIN queue
  /\ wild' = TRUE
  /\ \/ /\ Crash
        /\ UNCHANGED <<mode, executing, queue, tail, cur, args, stack, answer, cache>>
     \/ LeaveCommit
     \/ \E n \in DOMAIN queue :
          /\ RunItem(n)
          /\ stack' = Moved(n)
          /\ UNCHANGED <<mode, executing, queue, tail, args, answer, cache>>

-----------------------------------------------------------------------------
User == TypeLine \/ EndOfFile \/ PressTab \/ Interrupt \/ InterruptProgram

Program ==
  \/ StartLine \/ FinishLine
  \/ Toggle \/ Store \/ Quit \/ Report
  \/ RunProgram \/ ListEnds \/ ProgramEnds \/ FeedEnds \/ FedProgramEnds
  \/ Clear \/ StartRemove \/ RemoveWord \/ EndRemove
  \/ StartCommit \/ CommitNothing \/ NextItem \/ EndCommit \/ Stray

Over == (status # "running" \/ pc = "stuck") /\ UNCHANGED vars

Next == (status = "running" /\ (User \/ Program)) \/ Over

Spec == Init /\ [][Next]_vars

(* The program does not stop by itself, and programs it runs end, but for  *)
(* those that wait for more of an answer.  The user need not do anything.  *)
FairSpec == Spec /\ WF_vars(status = "running" /\ Program)

-----------------------------------------------------------------------------
(* Properties. *)

(* Every variable keeps to its type; nodes of the queue are older than tail. *)
TypeOK ==
  /\ status \in {"running", "exited", "crashed"}
  /\ pc \in PCs
  /\ mode \in BOOLEAN
  /\ executing \in BOOLEAN
  /\ wild \in BOOLEAN
  /\ tail \in Nat \ {0}
  /\ DOMAIN queue \subseteq 1 .. (tail - 1)
  /\ \A n \in DOMAIN queue : queue[n] \in Line
  /\ cur \in Line
  /\ args \in Seq(Arg)
  /\ stack \in Seq(Frame)
  /\ Len(stack) <= StackLimit
  /\ answer \in Answers
  /\ cache \in CacheStates

(* While a commit runs, the shell is in normal mode: no line of the queue  *)
(* can switch it, since a line that starts with a backtick switches the    *)
(* mode when it is typed and is never stored.  A commit that ran in queue  *)
(* mode would store its lines again instead of running them.               *)
CommitRunsInNormalMode == stack # <<>> => ~mode

(* A commit in progress, nested ones included, never adds a line to the    *)
(* queue it is walking, and never changes one.                             *)
QueueOnlyShrinks ==
  /\ DOMAIN queue' \subseteq DOMAIN queue
  /\ \A n \in DOMAIN queue' : queue'[n] = queue[n]
CommitNeverGrowsQueue == [][stack # <<>> => QueueOnlyShrinks]_vars

(* A commit command stored in the queue never returns to the loop that ran *)
(* it while its own line is still in the queue: the commit it starts walks *)
(* the queue from the beginning and meets the same line again.  Whatever   *)
(* stands behind it in the queue is thus never reached.                    *)
NestedCommitNeverReturns ==
  ~wild /\ InCommit /\ Top.at \in DOMAIN queue
    => queue[Top.at].word \notin CommitWords

SayFrames == {k \in DOMAIN stack : stack[k].says}

(* What the innermost queue-commit-say in progress was told to answer. *)
InForce ==
  \/ SayFrames = {} /\ answer = NoAnswer
  \/ \E k \in SayFrames : /\ \A j \in SayFrames : j <= k
                          /\ answer = stack[k].text

(* A program run during commits is fed the answer of the innermost         *)
(* queue-commit-say, although that command ends by clearing the answer     *)
(* rather than restoring the one it found.                                 *)
AnswerInForce == ~wild /\ pc \in {"child", "fed", "starved"} => InForce

(* Once the last queue-commit-say is over, nothing is answered for the     *)
(* user any more, even when a commit went astray on an erased line.        *)
AnswerEndsWithCommit == SayFrames = {} => answer = NoAnswer

(* Neither SIGINT, nor the end of the input, nor a quit stored in the      *)
(* queue ends the process in the middle of a commit.                       *)
NeverExitsDuringCommit == status = "exited" => stack = <<>>

(* When the queue stores no queue command, nothing but a package cache     *)
(* that is gone, queue-remove with a range outside the queue, or           *)
(* orphans-all at a package without section can crash the session: neither *)
(* a commit, however long, nor quit or ^C at any moment of it.             *)
NoQueueWordStored == \A l \in QueuedLines : l.word \notin QueueWords
CrashNeedsCause ==
  status = "crashed" /\ NoQueueWordStored
    => \/ cache \in {"none", "freed"}
       \/ pc = "removing"
       \/ pc = "child" /\ cur.word = "orphans-all"

(* Nobody reads a cache older than the last command (trunk/debian/         *)
(* changelog:6), if refreshing is on and no line changes packages without  *)
(* calling check_cache(), as purge and shell commands do.  One case is not *)
(* claimed, since there the code does miss changes: those of a program     *)
(* that was fed an answer and went on behind a closed input ("late").      *)
Refreshing ==
  /\ RefreshIndexes \/ RefreshIndexesAll
  /\ \A l \in NormalLines \cup QueuedLines : l.word \notin {"purge", "."}
NeverStale ==
  Refreshing /\ pc \in {"prompt", "line", "dispatch"} => cache # "stale"

(* orphans stays at a package without section; a line reader is fed. *)
Hangs == pc \in {"stuck", "starved"}

(* A line the user entered is dealt with: the prompt comes back, or the    *)
(* process is gone, unless a command hangs in one of these two ways; from  *)
(* the second, ^C leads back too.  In particular every commit ends.        *)
ReturnsToPrompt ==
  pc # "prompt" ~> (pc = "prompt" \/ status # "running" \/ Hangs)

=============================================================================
