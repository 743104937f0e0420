------------------------------ MODULE Shell006 ------------------------------
(***************************************************************************)
(* The session of release 0.0.6, written in C style before trunk's command *)
(* classes: main()'s loop, execute(), the command queue as an array of     *)
(* strings, the answer of queue-commit-say as a pointer, and the mapped    *)
(* package cache.  It differs from trunk's Shell where it matters most:    *)
(* loops over the queue hold an index, queue-remove settles all numbers    *)
(* before it removes the first line, SIGINT is never held back, and the    *)
(* answer is not copied.                                                   *)
(*                                                                         *)
(* execute() and the commit commands call each other; stack holds the      *)
(* loops in progress and pc is where the innermost execute() stands.       *)
(*                                                                         *)
(* Left out: what is printed, and the history, which nothing else reads.   *)
(***************************************************************************)
EXTENDS CommandQueue, Sequences

CONSTANTS
  NormalLines,   \* lines the user types in normal mode
  QueuedLines,   \* lines the user types in queue mode
  Options,       \* the configurations and systems a session may start with
  MaxNode,       \* bound: how many lines a session stores
  StackLimit     \* bound: how many nested commits the C stack holds

(* Commands, one word for each way they are treated: "install" changes     *)
(* packages, has its package names validated and calls check_a(), "clean"  *)
(* does all but the validation, "autoclean" has neither; "show" only asks; *)
(* "print" stands for queue, dump-cfg and what is no command at all.       *)
AptGet == {"install", "clean", "update", "autoclean"}
Validated == {"install", "show"}
Checked == {"install", "clean"}
Programs == AptGet \cup {"show", "dpkg", "."}
Lists == {"ls", "orphans", "orphans-all"}
CommitWords == {"queue-commit", "queue-commit-say"}
QueueWords == {"queue-remove", "queue-clear"} \cup CommitWords
Words == Programs \cup Lists \cup QueueWords \cup {"print", "help", "quit", "backtick"}

Line == [word : Words, lead : BOOLEAN, args : Seq(Arg)]

(* A string in memory: an item of the queue by its number, a typed line 0. *)
Item == [node : Nat, line : Line]

(* CFG_REFRESH_INDEXES, CFG_REFRESH_INDEXES_ALL, CFG_QUEUE_SIMULATE, and   *)
(* whether some installed package has no section.                          *)
Option == [refresh : BOOLEAN, all : BOOLEAN, simulate : BOOLEAN, bare : BOOLEAN]

ASSUME Assumption006 ==
  /\ NormalLines \subseteq Line
  /\ QueuedLines \subseteq Line
  /\ Options \subseteq Option
  /\ MaxNode \in Nat
  /\ StackLimit \in Nat \ {0}

VARIABLES
  status,        \* the process: "running", "exited", "killed" or "crashed"
  pc,            \* where the innermost execute() stands
  opts,          \* the session's Option
  mode,          \* command_queue_mode
  items,         \* command_queue_items, as long as command_queue_count
  born,          \* the node strdup() makes for the next item
  cur,           \* actual_command: the string execute() was given
  remove,        \* arr of queue-remove: the numbers still to remove
  listed,        \* the queue when the queue-remove under way began
  stack,         \* the loops of the commits in progress, innermost last
  use_realcmd,   \* programs are fed with the answer
  yes,           \* the node of the string that yes points into
  set,           \* i_setsig(): SIGPIPE is ignored
  torn,          \* a commit under way has erased a line
  cache          \* m, the mapped package cache, seen against the system

vars == <<status, pc, opts, mode, items, born, cur, remove, listed, stack,
          use_realcmd, yes, set, torn, cache>>

(* A loop: i + 1, the item it has run last, and the string it came from.    *)
Frame == [at : Nat \ {0}, ran : Nat, says : BOOLEAN, from : Nat]
Top == stack[Len(stack)]
Popped == SubSeq(stack, 1, Len(stack) - 1)

(* "system": a program run by system(); "fed": one run by popen(); "list": *)
(* names are written to a helper.                                          *)
PCs == {"prompt", "execute", "simulate", "system", "fed", "list", "remove", "return"}

(* "none": never mapped, m is NULL.  "freed": deleted, and not mapped      *)
(* again.  "stale": mapped before the system's packages last changed;      *)
(* "kept": stale, since no new one could be made.                          *)
CacheStates == {"none", "current", "stale", "kept", "freed"}

Typed(l) == [node |-> 0, line |-> l]
NoItem == Typed([word |-> "print", lead |-> FALSE, args |-> <<>>])

-----------------------------------------------------------------------------
(* main() up to the loop: libapt() maps the cache, and nobody looks at     *)
(* whether it could.                                                       *)
Init ==
  /\ status = "running"
  /\ pc = "prompt"
  /\ opts \in Options
  /\ mode \in BOOLEAN               \* option -s
  /\ items = <<>>
  /\ born = 1
  /\ cur = NoItem
  /\ remove = {}
  /\ listed = <<>>
  /\ stack = <<>>
  /\ use_realcmd = FALSE
  /\ yes = 0
  /\ set = FALSE
  /\ torn = FALSE
  /\ cache \in {"none", "current"}

Goto(label) == pc' = label /\ UNCHANGED status
Crash == status' = "crashed" /\ UNCHANGED pc
Exit == status' = "exited" /\ UNCHANGED pc

(* The package list is read through m. *)
ReadCache(label) ==
  \/ cache # "none" /\ Goto(label)
  \/ cache \in {"none", "freed"} /\ Crash

(* gen_indexes() or read_indexes() on top of what m held: if no cache can  *)
(* be made, m stays what it was.                                           *)
Regenerate(held) == cache' \in {"current", held} /\ Goto("return")

(* free_indexes() and a new cache.  Deleting m a second time may or may    *)
(* not be survived.                                                        *)
check_a(seen) ==
  IF ~opts.refresh /\ ~opts.all
  THEN cache' = seen /\ Goto("return")
  ELSE \/ Regenerate(IF seen = "none" THEN "none" ELSE "freed")
       \/ seen = "freed" /\ cache' = "freed" /\ Crash

-----------------------------------------------------------------------------
(* The user, at the prompt and with ^C. *)

TypeLine ==
  /\ pc = "prompt"
  /\ \E l \in (IF mode THEN QueuedLines ELSE NormalLines) :
       /\ mode /\ l.word # "backtick" => born <= MaxNode
       /\ cur' = Typed(l)
  /\ Goto("execute")
  /\ UNCHANGED <<opts, mode, items, born, remove, listed, stack, use_realcmd, yes, set, torn, cache>>

EndOfFile ==
  /\ pc = "prompt"
  /\ Exit
  /\ UNCHANGED <<opts, mode, items, born, cur, remove, listed, stack, use_realcmd, yes, set, torn, cache>>

(* Tab behind a command: cpl_pkg() or cpl_pkg_i(). *)
PressTab ==
  /\ pc = "prompt"
  /\ ReadCache("prompt")
  /\ UNCHANGED <<opts, mode, items, born, cur, remove, listed, stack, use_realcmd, yes, set, torn, cache>>

(* SIGINT calls user_abort(), wherever the program stands; only system()   *)
(* ignores it while it waits.                                              *)
Interrupt ==
  /\ pc \notin {"system", "simulate"}
  /\ Exit
  /\ UNCHANGED <<opts, mode, items, born, cur, remove, listed, stack, use_realcmd, yes, set, torn, cache>>

-----------------------------------------------------------------------------
(* execute(), one action for each of its ways through. *)

Toggle ==
  /\ pc = "execute"
  /\ cur.line.word = "backtick"
  /\ mode' = ~mode
  /\ Goto("return")
  /\ UNCHANGED <<opts, items, born, cur, remove, listed, stack, use_realcmd, yes, set, torn, cache>>

Queueing == pc = "execute" /\ mode /\ cur.line.word # "backtick"

(* CFG_QUEUE_SIMULATE: apt-get --simulate, run by system(). *)
Simulate ==
  /\ Queueing
  /\ opts.simulate
  /\ cur.line.word \in AptGet
  /\ use_realcmd' = FALSE
  /\ Goto("simulate")
  /\ UNCHANGED <<opts, mode, items, born, cur, remove, listed, stack, yes, set, torn, cache>>

(* Queue mode: one item more, for which validate() has only warnings. *)
Store ==
  /\ Queueing \/ pc = "simulate"
  /\ Queueing /\ opts.simulate => cur.line.word \notin AptGet
  /\ IF cur.line.word \in Validated THEN ReadCache("return") ELSE Goto("return")
  /\ IF status' = "crashed"
     THEN UNCHANGED <<items, born>>
     ELSE /\ items' = Append(items, [node |-> born, line |-> [cur.line EXCEPT !.lead = FALSE]])
          /\ born' = born + 1
  /\ use_realcmd' = (use_realcmd /\ ~opts.simulate)
  /\ UNCHANGED <<opts, mode, cur, remove, listed, stack, yes, set, torn, cache>>

(* Normal mode.  The dot is looked for before blanks are skipped. *)
Dispatch(words) ==
  /\ pc = "execute"
  /\ ~mode
  /\ (IF cur.line.lead /\ cur.line.word = "." THEN "print" ELSE cur.line.word) \in words

(* quit, exit, bye: a commit does not look at what execute() returns. *)
Quit ==
  /\ Dispatch({"quit"})
  /\ IF stack = <<>> THEN Exit ELSE Goto("return")
  /\ UNCHANGED <<opts, mode, items, born, cur, remove, listed, stack, use_realcmd, yes, set, torn, cache>>

Report ==
  /\ Dispatch({"print"})
  /\ Goto("return")
  /\ UNCHANGED <<opts, mode, items, born, cur, remove, listed, stack, use_realcmd, yes, set, torn, cache>>

(* realizecmd(): popen() and the answer, or system(). *)
RunProgram ==
  /\ Dispatch(Programs)
  /\ Goto(IF use_realcmd THEN "fed" ELSE "system")
  /\ set' = (set \/ use_realcmd)
  /\ UNCHANGED <<opts, mode, items, born, cur, remove, listed, stack, use_realcmd, yes, torn, cache>>

Help ==
  /\ Dispatch({"help"})
  /\ Goto("system")
  /\ UNCHANGED <<opts, mode, items, born, cur, remove, listed, stack, use_realcmd, yes, set, torn, cache>>

(* The program ends; any but help and those that only ask may have changed *)
(* the system's packages.                                                  *)
ProgramEnds ==
  /\ pc \in {"system", "fed"}
  /\ \E seen \in {cache} \cup
       (IF cur.line.word \notin {"show", "autoclean", "help"} /\ cache = "current" THEN {"stale"} ELSE {}) :
       IF cur.line.word \in Checked THEN check_a(seen)
       ELSE IF cur.line.word = "update" /\ opts.all
            THEN Regenerate(IF seen = "stale" THEN "kept" ELSE seen)
       ELSE cache' = seen /\ Goto("return")
  /\ UNCHANGED <<opts, mode, items, born, cur, remove, listed, stack, use_realcmd, yes, set, torn>>

(* A faulty variant: i_setsig() is left out. *)
ListUnguarded ==
  /\ Dispatch(Lists)
  /\ ReadCache("list")
  /\ UNCHANGED <<opts, mode, items, born, cur, remove, listed, stack, use_realcmd, yes, set, torn, cache>>

(* apt_ls(), apt_regex(), apt_orphans(), apt_orphans_all(): the list is    *)
(* written to a helper; only the first two look after SIGPIPE.             *)
List ==
  /\ Dispatch(Lists)
  /\ ReadCache("list")
  /\ set' = (set \/ (cur.line.word = "ls" /\ status' = "running"))
  /\ UNCHANGED <<opts, mode, items, born, cur, remove, listed, stack, use_realcmd, yes, torn, cache>>

(* apt_orphans() does not get past an installed package without a section. *)
Hangs == pc = "list" /\ cur.line.word = "orphans" /\ opts.bare

ListEnds ==
  /\ pc = "list"
  /\ ~Hangs
  /\ IF cur.line.word = "orphans-all" /\ opts.bare THEN Crash ELSE Goto("return")
  /\ UNCHANGED <<opts, mode, items, born, cur, remove, listed, stack, use_realcmd, yes, set, torn, cache>>

(* The user leaves the pager the list is piped to. *)
PagerLeft ==
  /\ pc = "list"
  /\ ~set
  /\ status' = "killed"
  /\ UNCHANGED <<pc, opts, mode, items, born, cur, remove, listed, stack, use_realcmd, yes, set, torn, cache>>

-----------------------------------------------------------------------------
(* The commands of the queue. *)

Clear ==
  /\ Dispatch({"queue-clear"})
  /\ items' = <<>>
  /\ torn' = (stack # <<>>)
  /\ Goto("return")
  /\ UNCHANGED <<opts, mode, born, cur, remove, listed, stack, use_realcmd, yes, set, cache>>

(* What the words name, by the numbers the listing shows: add_item() drops *)
(* numbers that are no item's and numbers it has already.                  *)
Numbers(words) ==
  UNION {LET a == words[k] IN
         {n \in DOMAIN items :
            IF a.range THEN n \in Lo(items, a) .. Hi(items, a)
                       ELSE n = Resolve(items, a.from)} : k \in DOMAIN words}

StartRemove ==
  /\ Dispatch({"queue-remove"})
  /\ remove' = Numbers(cur.line.args)
  /\ listed' = items
  /\ Goto("remove")
  /\ UNCHANGED <<opts, mode, items, born, cur, stack, use_realcmd, yes, set, torn, cache>>

(* real_remove() of number n: what follows moves up. *)
Removed(n) ==
  [k \in 1 .. (Len(items) - 1) |-> IF k < n THEN items[k] ELSE items[k + 1]]

(* A faulty variant: the first of the numbers is removed first. *)
IsTurnAscending(n) == n \in remove /\ \A k \in remove : n <= k

(* The sorted numbers are removed from the last to the first. *)
IsTurn(n) == n \in remove /\ \A k \in remove : k <= n

RemoveItem ==
  /\ pc = "remove"
  /\ \E n \in DOMAIN items :
       /\ IsTurn(n)
       /\ items' = Removed(n)
       /\ remove' = remove \ {n}
  /\ torn' = (stack # <<>>)
  /\ UNCHANGED <<status, pc, opts, mode, born, cur, listed, stack, use_realcmd, yes, set, cache>>

EndRemove ==
  /\ pc = "remove"
  /\ remove = {}
  /\ listed' = <<>>
  /\ Goto("return")
  /\ UNCHANGED <<opts, mode, items, born, cur, remove, stack, use_realcmd, yes, set, torn, cache>>

(* Both commits, before their loop. *)
Says == cur.line.word = "queue-commit-say"

(* A faulty variant: a plain commit leaves the answer on. *)
BeginCommitAnswering ==
  /\ yes' = IF Says THEN cur.node ELSE yes
  /\ use_realcmd' = (Says \/ use_realcmd)
  /\ set' = (set \/ Says)

BeginCommit ==
  /\ yes' = IF Says THEN cur.node ELSE yes
  /\ use_realcmd' = Says
  /\ set' = (set \/ Says)

StartCommit ==
  /\ Dispatch(CommitWords)
  /\ items # <<>>
  /\ BeginCommit
  /\ IF Len(stack) < StackLimit
     THEN /\ stack' = Append(stack, [at |-> 1, ran |-> items[1].node, says |-> Says, from |-> cur.node])
          /\ cur' = items[1]
          /\ Goto("execute")
     ELSE Crash /\ UNCHANGED <<stack, cur>>
  /\ UNCHANGED <<opts, mode, items, born, remove, listed, torn, cache>>

CommitNothing ==
  /\ Dispatch(CommitWords)
  /\ items = <<>>
  /\ yes' = IF Says THEN cur.node ELSE yes
  /\ set' = (set \/ Says)
  /\ use_realcmd' = FALSE
  /\ Goto("return")
  /\ UNCHANGED <<opts, mode, items, born, cur, remove, listed, stack, torn, cache>>

InCommit == pc = "return" /\ stack # <<>>

(* Faulty variants: i++ twice; i++ is missing. *)
NextItemSkipping ==
  /\ InCommit
  /\ Top.at + 1 < Len(items)
  /\ stack' = [stack EXCEPT ![Len(stack)] = [Top EXCEPT !.at = Top.at + 2, !.ran = items[Top.at + 2].node]]
  /\ cur' = items[Top.at + 2]
  /\ Goto("execute")
  /\ UNCHANGED <<opts, mode, items, born, remove, listed, use_realcmd, yes, set, torn, cache>>
NextItemStuck ==
  /\ InCommit
  /\ Top.at < Len(items)
  /\ stack' = stack
  /\ cur' = items[Top.at]
  /\ Goto("execute")
  /\ UNCHANGED <<opts, mode, items, born, remove, listed, use_realcmd, yes, set, torn, cache>>

(* i++: the loop counts places, whatever the command has done to them. *)
NextItem ==
  /\ InCommit
  /\ Top.at < Len(items)
  /\ stack' = [stack EXCEPT ![Len(stack)] = [Top EXCEPT !.at = Top.at + 1, !.ran = items[Top.at + 1].node]]
  /\ cur' = items[Top.at + 1]
  /\ Goto("execute")
  /\ UNCHANGED <<opts, mode, items, born, remove, listed, use_realcmd, yes, set, torn, cache>>

(* A faulty variant: the answer stays on. *)
EndCommitAnswering ==
  /\ InCommit
  /\ Top.at >= Len(items)
  /\ stack' = Popped
  /\ Goto("return")
  /\ UNCHANGED <<opts, mode, items, born, cur, remove, listed, use_realcmd, yes, set, torn, cache>>

EndCommit ==
  /\ InCommit
  /\ Top.at >= Len(items)
  /\ stack' = Popped
  /\ use_realcmd' = (use_realcmd /\ ~Top.says)
  /\ Goto("return")
  /\ UNCHANGED <<opts, mode, items, born, cur, remove, listed, yes, set, torn, cache>>

(* execute() returns to the main loop, which frees the line. *)
Finish ==
  /\ pc = "return"
  /\ stack = <<>>
  /\ torn' = FALSE
  /\ cur' = NoItem
  /\ Goto("prompt")
  /\ UNCHANGED <<opts, mode, items, born, remove, listed, stack, use_realcmd, yes, set, cache>>

-----------------------------------------------------------------------------
User == TypeLine \/ EndOfFile \/ PressTab \/ Interrupt \/ PagerLeft

Program ==
  \/ Toggle \/ Simulate \/ Store \/ Quit \/ Report \/ RunProgram \/ Help
  \/ ProgramEnds \/ List \/ ListEnds \/ Clear \/ StartRemove \/ RemoveItem
  \/ EndRemove \/ StartCommit \/ CommitNothing \/ NextItem \/ EndCommit \/ Finish

Over == status # "running" /\ UNCHANGED vars

Next == (status = "running" /\ (User \/ Program)) \/ Over

Spec == Init /\ [][Next]_vars

(* The program does not stop by itself, and programs it runs end. *)
FairSpec == Spec /\ WF_vars(status = "running" /\ Program)
=============================================================================
