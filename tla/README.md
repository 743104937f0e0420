# Aptsh in TLA+

Aptsh is an interactive shell around apt-get, apt-cache and dpkg. This directory
models the program in `src/trunk/src`, checks the model with TLC and proves its
main safety properties with TLAPS. `src/versions/` holds the releases trunk was
made from. 0.0.6, the last one before trunk's command classes, and 0.0.1, the
first, are modelled where they do something in another way, and compared with
trunk where they are meant to do the same. `src/trunk/HOWTO`, `src/trunk/src/aptsh.1`
and the changelog are quoted where the program and its documents disagree.

## The system

One process, one thread. It reads a line with readline, hands it to
`execute_line()`, and waits for whatever program that starts. The difficulty is
in what calls what: `execute_line()` runs commands, two commands run
`execute_line()` for each stored line, the stored lines may change the list that
is being walked, SIGINT may come at any time, and a static answer and a static
mapping of the package cache are shared by everything.

| Component | State | Operations | Hard behaviour |
|---|---|---|---|
| Main loop, `execute_line()` (`main.cc`) | `command_queue_mode`, `executing_now` | read a line, toggle the mode, store, dispatch, quit; SIGINT, end of input | SIGINT between any two steps; re-entry from commits |
| Command queue (`command_queue.cc`) | `queue_base::queue`, a `list<string>` | add, list, remove, clear, commit, commit-say | iterators over a list that the loop body changes; nested commits; numbering that shifts |
| Commands (`command.cc`, `command.h`) | `command_answer`, the command table | run a program, feed it an answer, validate package names, list packages | the answer is global; some commands refresh the cache and some do not; pipes to children |
| Package cache (`read_index.cc`) | `m`, a deleted or mapped cache | map, free, check, look up, upgradable list | `m` is deleted before its replacement is known to exist |
| Completion (`completions.cc`, `full_completion.cc`, `completion()`) | iterators and the group shown, in statics | generators called once per match | state kept across calls and completions; grouping hides commands |
| Configuration (`config_parse.c`) | options, two buffers | parse, set, dump | stages, limits, end of file |
| String utilities (`string_utils.cc`) | iterators over words | first word, trimming, forward and backward words, escaping | ends of strings |
| Listing helpers (`ls.c`, `rls.c`, `printer.c`) | the line just read | filter names until the line `-` | a parent that dies before it sends `-` |
| Startup (`main()`) | options in the order given | `-c`, `-s`, `-x`, direct commands | `-x` acts before later options |
| History (`execute_line()`, `main()`) | readline's list, a shared file | add, write, append, truncate, read | two shells on one file |
| Session of 0.0.6 (`apt_cmds.cc`, `main.cc`) | an array of lines, two globals for the answer, `m` | the same commands as trunk | loops that count places while lines move; an answer that is a pointer; SIGINT at any time |
| Index files of 0.0.1 (`genindex.c`, `readindex.c`, `apt_cmds.c`) | two files in /tmp that all shells share, an array of names | make, count, read, walk | a list and its length written one after the other; times in whole seconds |
| Parser of 0.0.1 (`config_parse.c`) | a line buffer that is never emptied | parse, set | what an earlier line left behind |

What makes each correct: the queue keeps lines in order and a commit runs each
once; an answer is given to the commands it is meant for and to no others; the
shell survives what it runs and exits only when it should; nobody reads a cache
that is stale or gone; parsers and pipes come to an end within their buffers.

## Modules

### CommandQueue

The queue as data, no variables. A `list<string>` is a function from nodes to
lines, and an iterator is a node. Nodes ascend with age, and the list only grows
at its end, so `IsNext(q, i, n)` ("`i++` gives `n`") is the least node above `i`.
Erasing a node leaves iterators at other nodes alone, as `std::list` does; a
sequence with indices would get this wrong. `Resolve`, `Lo`, `Hi`, `NamesZero`,
`Misses` and `Named` are `cmd_queue_remove::execute` for one word of its
arguments. A word is a record: a number or `last`, or two of them around `-`;
what `atoi()` makes of other text is 0. `Misses` is the case in which the search
loop leaves an iterator default-constructed; `erase()` then dereferences a null
node, which the model treats as a crash (libstdc++ constructs them null).

### Shell

The session. `pc` is the place of the innermost `execute_line()`: at the
*prompt*, holding a *line*, about to *dispatch* it, waiting for a *child*
program or walking the cache, writing an answer to a program that takes it
(*fed*) or waits for more than it will get (*starved*), *waiting* in `pclose()`
behind such a program, *stuck* in a loop that does not end, *removing* words of
queue-remove, or about to *return* from it. `stack`
holds one frame per commit in progress: the node its loop stands on, and what it
was told to answer. The correspondence to the code:

| Action | Code |
|---|---|
| `TypeLine`, `EndOfFile`, `PressTab` | `readline()` returning, NULL, a completion |
| `Interrupt`, `InterruptProgram` | SIGINT: `user_abort()`, and the program that is fed for ever ended by it |
| `StartLine`, `FinishLine` | `executing_now` set and reset around `execute_line()` |
| `Toggle`, `Store`, `Quit`, `Report` | the branches of `execute_line()` in their order |
| `RunProgram` | `execute()` of cmd_aptize, cmd_systemize, cmd_dpkg, `.` and the lists, up to `system()`, `popen()` or the walk |
| `ProgramEnds` | after `system()`: with `check_cache()` in cmd_aptize and cmd_dpkg, without in the others |
| `FeedEnds`, `FedProgramEnds` | cmd_aptize with an answer: `fputs()` fails and `check_cache()` is called; only then `pclose()` |
| `ListEnds` | ls, orphans and orphans-all: the end of the walk, or the package without a section |
| `Clear`, `StartRemove`, `RemoveWord`, `EndRemove` | queue-clear and queue-remove |
| `StartCommit`, `CommitNothing`, `NextItem`, `EndCommit` | the loop of queue-commit and queue-commit-say, `set_answer()` included |
| `Stray` | `i++` on a node that has been erased |

Commands are abstracted to one word per way of being treated: `install` stands
for cmd_aptize commands that validate names, `update` for those that do not,
`purge` for cmd_systemize, `ls` for those that walk the mapped cache, `help` for
those that print. Two that walk it have words of their own: at an installed
package without a section `orphans` never advances and `orphans-all` makes a
string of a null pointer, and which packages there are is left open. `lead` marks
blanks before the command; the code passes the line from `strlen(word)`
characters on, so with blanks in front the arguments begin with the end of the
word, and with its dash if the blanks are many (`GivenArgs`, `GivenAnswer`).

A program that is fed an answer may read characters, or lines: the answer has no
newline, so the shell feeds the latter until SIGINT ends it. `LeftBehind` is the
cache as the program has left it when the shell looks: at its end behind
`system()`, but already when `fputs()` fails where it was fed. A program that goes
on after it has closed its input may then change packages unseen.

Undefined behaviour is nondeterministic: `Stray` may crash, end the loop or land
on any node of the queue (`wild` records that it happened); reading a deleted
cache may crash or succeed. `cache` compares the mapping with the system:
*current*, *stale* (packages changed since), *late* (changed since, by a program
that went on behind a closed input), *freed* (deleted and not mapped again),
*none* (never mapped). When `check_cache()` cannot regenerate, `m` keeps
the deleted pointer: the model takes this branch freely.

Left out of Shell: what is printed, which words completion offers (Completion),
the history (HistoryFile; nothing else in `execute_line()` reads it), how an
answer gets to a program (AnswerFeed) and names to a helper (ListPipe), and the
path without `APT::Cache::Generate`.

### QueuePromise and ShellRefinement

`QueuePromise` is what the queue promises: a sequence of lines, switched, kept,
discarded, and committed by walking it once from first to last, untouched, to
the end. `ShellRefinement` maps Shell to it (`Listed(queue)` are the lines in
order of nodes, `next` is the number of the line the outermost commit stands
on). The mapping is a refinement only while no queue command is stored in the
queue; that is the sense of the run `quiet`. `Steps` is the promise without its
liveness: what is kept step by step, and is proved. The promise that a commit ends
is kept unless one of its commands hangs for good (`Hangs`: an orphans that is
stuck, or a program that reads lines and is never interrupted).

`CrashNeedsCause` lists what can crash such a session: a cache that is gone, a range
outside the queue, orphans-all at a package without a section. `ReturnsToPrompt`
says that the prompt comes back, or the process is gone, or a command `Hangs`.

`NeverStale` says of a session that nobody reads a package list older than the
last command. It is conditional on `Refreshing`: the refresh options are on and
every line is one that refreshes or changes nothing (`purge`, a cmd_systemize
command, does neither). It does not say so of a *late* cache: there the code
refreshes before the program has ended, and misses what comes after. AnswerFeed
shows that programs which keep their input open are not concerned.

### QueueRemove

`cmd_queue_remove::execute` alone, for all queues and words up to a bound,
against a reference (`Means`) in which every number is the one of the listing
the user saw before the command. It shares the operators of CommandQueue with
Shell, but not its reference. Its proofs, and those of AnswerFeed and ListPipe,
are in CommandProofs.

### ShellInvariant and ShellProofs

The inductive invariants and the proofs; see below.

### AnswerFeed

`cmd_aptize::execute` while an answer is set. The shell writes the answer into a
pipe until `fputs()` fails, calls `check_cache()`, and only then waits in
`pclose()`. The program at the other end is external and therefore free: it asks
(`Ask`), reads (`Take`), gives up when its input ends, changes packages, closes
its input while it goes on (`CloseInput`), ends with or without leaving a process
behind that holds the pipe, and is interrupted. It reads by characters or by
lines. `keeps` tells the programs that hold their input until they end from
those that do not: it is the condition under which the order of `check_cache()`
and `pclose()` does no harm. The answer is one token, `AnswerCapacity` of which fill
the pipe.

### ListPipe

ls, rls and orphans writing names into a pipe, and `ls.c`, `rls.c` and
`printer.c` reading them. ls and rls end with the word `-` and their helpers stop
there, or at the end of the file; orphans only closes the pipe and its helper
copies to the end. The shell may be interactive (SIGPIPE is ignored, and so is
SIGINT while a command runs) or not. Whoever reads the helper's output (the
"pager") may leave; rls may refuse an expression and never read; the shell may
crash on its way through a package list that is no longer mapped. The words the
program writes are single steps, although stdio writes them in blocks: the
helper only ever sees words, and each property holds of every prefix.

### ConfigParse, ConfigMeaning

`cfg_parse()` character by character: `stage` and the two buffers with their
shared index, the escapes, both limit checks, and `cfg_set()` for string options.
`Ahead` and `Read` are `fgetc()`, which returns EOF again and again at the end.
ConfigMeaning says what a file means in a different way: lines are intervals of
positions and are taken whole, a comment is one whose first non-blank is `#`, the
name is what is left of the first `=` behind a name, the value is what the text
behind it reads as (`Meaning`, a recursive function from the end backwards).
`ReadsLineByLine` compares the two at the end of every line of a file without broken
escapes and without a backslash as its last character. Integer options and the
defaults are left out.

### PackageLists, ListMeaning

orphans, orphans-all and toupgrade walking the package list, a record of packages
(versions from new to old, the installed one, a section that may be missing) and
of dependencies. `Held` and `HeldCritically` are the loops over reverse
dependencies, `Inst` and `Avail` the two walks of `get_to_upgrade()`, which keep
the last version that differs from the one kept before. `OrphansContinues` is the
`continue` that does not advance the iterator, `OrphansAllThrows` the string made
of a null section. ListMeaning states what can be relied on.

### Completion, CompletionMeaning

`completion()` chooses a generator for the line; readline then calls it until it
returns NULL. `at` is each generator's static iterator, `display` and
`group_master` are the statics of `cpl_main`, and one `Call` is one call, with
`state` 0 or not. Words are sequences of letters, since prefixes are the point.
dpkg's `refresh_completion()` is `ByOption`: by the text itself if it is an
option, else by the nearest option before it. `Run` is whatever happens between
two completions: packages and files change and the cache is mapped anew.
`matches` is a set because readline sorts what it is given and drops duplicates.
The cursor is at the end of the line, and the directory part of a path is left
out of `cpl_fs_deb`. `TableAssumption` says how `main()` fills the table: names
differ, a slave's name goes on from its master's, and no other root's does; `OptionsAssumption`
how `cmd_dpkg` fills its list: long names begin with `--`, and no two options share
a name.

### HistoryFile, HistoryMeaning

The history file that all shells of a user share. A starting shell calls
`history_truncate_file()`, which reads the file, empties it and writes its end
back, and `read_history_range()`, which reads its first lines; `execute_line()`
adds a line to the shell's list unless it is the newest there, asks `access()`, and
appends to the file or writes it anew. Another shell's steps, and kills, come in
between. `log` is every line in the order of saving, `overlap` whether two shells
ever ran at once. A kill between emptying and writing loses the older lines:
`recent` are the lines saved since that last happened, and what `RestartRemembers`
speaks of. Writing the end back, and writing or appending lines, are one step each:
readline (external) does it with one `write()`.

### Startup

`main()` before its loop, on top of HistoryFile: `getopt_long()` hands out the
options in their order and `Given(o)` is the `switch`; `-c` reads a file on top of
what was read before, `-s` sets the mode, `-v` and `-?` end the process, `-x`
executes at once and ends it. `OptionsEnd` reads the default file if no `-c` was
met. Words are a command only if `argv[1]` is one (`DirectCommand`); else the
shell becomes interactive, and if the files read so far set a history, the shell
enters HistoryFile's `Start`. `Libapt` may end the process. `CommandLineMeans`
compares this with what a command line means read as a whole. It leaves open what
`-x` behind `-s` executes (`Disputed`), since the usage and the code disagree on it.

### Words and WordsMeaning

`string_utils.cc` as operators on sequences of characters. `Down` and `Up` are its
`while` loops with the bound each has; `strchr(" \t", c)` finds the NUL as well,
so `Separates` holds of it. The iterators are given as the sequence of all they
return. `escape_params` is one `EscapeTurn` for each character.
`LineIsRead`, in WordsMeaning, spells the line of Completion out with one or two
blanks between its words, and says which words are found from the front, from any
position of the cursor backwards, and at the cursor. `PartsAssumption` says what a
part of a line is: nothing in it separates words, and only the last, which may have
been just begun, is empty. `WildcardsAreKept` compares
`escape_params` with a shell (external) that reads the result; it is an assumption
that TLC evaluates for every text of up to five characters (module MCCompletion).

### Shell006, Shell006Meaning, Shell006Invariant, Shell006Proofs

The session of 0.0.6. It does what Shell does by other means, and the model keeps
to those means: the queue is a sequence and the loops hold an index (`Frame.at`),
queue-remove settles all numbers first (`StartRemove`, `Numbers`) and removes from
the last to the first (`IsTurn`, `RemoveItem`), `yes` is a pointer into the line
that gave the answer (`yes` holds that line's node, `from` in the frame that set
it), `use_realcmd` and `yes` are global to all commits, and `user_abort()` exits
wherever it comes, except while `system()` ignores SIGINT. `execute()` is split
into one action per way through it; `check_a`, `Regenerate`, `ReadCache` are
`free_indexes()`, `gen_indexes()` and whoever reads `m`. `opts` are the settings of
a session and whether a package without section is installed. `torn` records that
a commit under way has erased a line; `ran` in a frame is the node it has run last.
Both are only looked at by properties. Words: `install` stands for the commands
that are validated and refresh the cache, `clean` for those that only refresh,
`autoclean` for neither, `show` for apt-cache.

Not modelled of 0.0.6: its options (trunk's without direct commands), its history,
the helpers (trunk's), and completion of files.

### Index001, Index001Invariant, Index001Proofs

Release 0.0.1 has no mapped cache: shells make a list of names and a file with
its length by a pipeline in `system()`, and read both into an array. `Truncate`,
`Fill`, `Wc`, `Put` are the moments at which the pipeline touches the files,
`ReadCount` and `ReadList` those of `read_index1()`, in the order of the code;
`Check` is the decision in `main()` and in `check_a()`, by existence and `st_mtime`.
`why` tells the three callers apart: a starting shell reads in any case, a
running one only what it has made itself, and `generate-index` makes without
reading. `InterruptMaking` is ^C in the pipeline, which the shell does not notice.
A list longer than the count is written behind the array (`crashed`); one that is
shorter leaves elements that were never written (`Garbage`), which `WalkNames` and
completion dereference. `updated` is the time of apt's own cache and `noted` the
state of the system it was written for. apt (external) writes it when it changes
packages, and may when it only looks (`AptLooks`); dpkg and shell commands change
packages behind its back (`Dpkg`). `FreshAfterCheck` is therefore about what apt's
cache knew, and says nothing of the second in which it was written. The second pair of files, for installed packages, has the
same code and is not repeated.

### Config001 and ConfigReleases

`cfg_parse()` of 0.0.1 as a recursive function over the file's characters, with the
buffer it does not empty: without a `=`, the value of a line is what lies behind its
NUL.
`trim()` forgets the NUL of its result, so what memory holds there may become part
of the name: `dirty` are the lines it happens to. ConfigReleases is ConfigMeaning
with both parsers on one file. `Simple` are the lines on which the two agree, and
`MeantWithout` what is left of a file when some of its names are spoilt.

### Completion006

The generators and the choice of one in 0.0.6, as functions of the line, next to
Completion on the same commands. What each command takes (`Kinds006`, the last
column of `cmds[]`) and what each option of dpkg takes (`Options006`, `dpkg_opts[]`)
are tables of its own, and only four kinds are completed at all (`Completes`). They do
differ from trunk's: 0.0.6 completes packages behind update and nothing behind help,
files behind `--unpack` and nothing decided behind `-s`, and has no purge,
toupgrade, changelog or news. `ReleasesCompleteAlike` says what is left: both list
the same commands for the same text, by different means, and behind dpkg they choose
the same generator, one searching forwards and one backwards, on a line whose words
mean the same to both tables of options (`TablesAgree`). The table in MCCompletion
has options of both kinds.

### The MC modules

`MCShell`, `MCQueueRemove`, `MCAnswerFeed`, `MCListPipe`, `MCConfig`, `MCLists`,
`MCCompletion`, `MCHistory`, `MCShell006` and `MCIndex001` hold only values for
constants.

## Runs

| Run | Shows |
|---|---|
| session | with queue commands stored in the queue: commits run in normal mode and never grow the queue, nested commits never return to a living line, answers are those of the innermost commit-say, nothing exits inside a commit, the prompt comes back or the process is gone or a command hangs in one of two ways; also the inductive invariant |
| quiet | without queue commands in the queue: refinement of QueuePromise, its liveness included unless a command hangs, the only causes of a crash, and no stale cache among refreshing commands, fed programs behind a closed input apart |
| drift | queue-remove does what the listing says for numbers in descending order |
| feed | the answer's pipe: the command returns from every program that reads what it is given, and with a current cache if the program keeps its input |
| list | the listing commands: what is printed is a prefix of the listing, and all of it if nobody interferes; command and helper end |
| config | the parser agrees with the meaning of lines and, on simple files, with 0.0.1's; it stays in its buffers, and ends unless the file ends within a comment |
| lists | orphans, orphans-all, toupgrade over every small package list |
| completion | Tab at every prefix of every command, at arguments and dpkg options, twice, with packages changed in between; the words of the line wherever the cursor is; and where 0.0.6 lists the same |
| history | every command line of up to three arguments; then two shells, with every overlap and a kill at every step, truncation included |
| index001 | two shells of 0.0.1 over the index files, interrupted and overlapping: the names fit their count, and are no older after a check than what apt's cache knew |
| release006 | 0.0.6 with queue commands stored: whom an answer reaches, that it still exists, what queue-remove removes, that no line runs twice, the reasons for which the process can die, the same promise as trunk's for plain queues, and that the prompt comes back |
| remove_listed | violation: the documented ascending numbers remove other lines |

**Bounds.** `MaxNode` (lines stored in a session) is 3 in the runs that store
queue commands: one to re-enter, one to erase, one to be missed. `StackLimit`
stands for the C stack; nothing in the program bounds the nesting, so any limit
shows both the nesting below it and what happens at it; 4 lets a nested commit
nest again and return. queue-remove is checked with 3 words on up to 3 lines and
numbers from -1 to 3, which covers before, inside, past, zero, equal and swapped
ends, and a third word after two drifts. A pipe of 3 answers and 3 prompts, and
4 names through a pipe of 2, make both ends block and leave something unread.
Files of 6 characters hold two assignments or one between comments; `Limit`, 1022
in the code, is 2, so that short files reach both checks. Two packages are enough
for every relation of a package to another and to itself; three versions for one
between newest and oldest. `MaxTabs` is 2: the statics only know the completion
before. The history keeps 2 lines and sees 4, enough to truncate twice; three arguments
put any option before and behind `-x`. In release006 `MaxNode` is 4, a line more
than in session, since a loop that counts places must be able to skip one and run
the next; `StackLimit` 3 holds a commit in a commit and the third one that
crashes. index001 has two seconds (`MaxClock`): before and after a change, and
"in the same second". `BufSize` of 0.0.1 is 5: a line that fills it has a name, a
`=` and a value. Deadlock is checked in every run but history and index001, where
all shells may have left; in the others, steps named `Over` or `Ended` are the only
ones of a process that has ended.

**Fairness.** Weak fairness of the program's own steps while it runs: one thread
that never blocks except on its children and pipes. In Shell the programs it
starts are assumed to end, and to close their input, but for the ones that wait for
the rest of a line (*starved*), which only the user ends; an orphans that is *stuck*
nobody ends. In AnswerFeed a program that works either ends or
asks, one that asks reads what there is, and a process left behind ends. In
ListPipe helpers and shell run. In Completion readline goes on until NULL. In Shell006
the program's own steps are fair as in Shell. The user need not do anything, and
SIGINT, crashes and kills have no fairness; Index001 and Startup state none.

## Proofs

All for every value of the constants; TLC evaluates every assumption named here.

`ShellProofs` (from `LastAssumption`, `LinesAssumption`):

- `TypeCorrect`: `Spec => []TypeOK`;
- `Invariance`: `Spec => []IInv`, from which follow `NormalModeInCommits`,
  `NoReturnFromNestedCommits`, `AnswersAreInForce`, `AnswersEnd`
  (no answer is left when no commit is under way), `NoExitInCommits` and, as an action property, `NoGrowthInCommits`;
- `QuietSessionsSurvive`: `Spec => []CrashNeedsCause`, by the second invariant
  `QuietInv`: without stored queue commands there is one frame at most, it stands on
  a living line, and no line in the queue can start a commit or remove another; what
  is left to crash is a cache that is gone, queue-remove itself and orphans-all;
- `PromiseIsKept`: `Spec => Promise!Steps` when no queue command is stored: the
  session implements QueuePromise step by step. While commands in the queue do
  not touch it, an outer loop moves on by one number each time; that a node's
  number is its place in `Listed(queue)` follows from a few lemmas on counting:
  the numbers are those from 1 to the size, they ascend with the nodes, and erasing
  moves exactly what is behind;
- `CacheIsFresh`: `Spec => []NeverStale`, by `FreshInv`: when all lines refresh
  or change nothing, neither the queue nor the current line holds a purge or a
  shell command, and the cache is stale in no state: `ProgramEnds` and `FeedEnds`
  see what the program has changed so far and refresh. Behind `FeedEnds` a program
  may still change packages, and the cache is then *late*, not stale, which is the
  part the theorem does not claim.

Why an inductive invariant is needed: that an answer is never lost although
queue-commit-say clears it rather than restoring it depends on nested commits
never returning; that depends on where they stand. `InnerBehindOuter` says that a
commit which runs another stands on a commit command and that the inner one has
not got past that line. An inner commit that reaches the end of the queue would
thus stand on that very line, which would have had to return: so its line has
been erased, and the outer commit goes astray rather than on (`Left`). `RunsItsItem`
ties the line being executed to the node of the innermost frame, and
`StoredPlain` keeps the mode from changing during a commit.

`ConfigProofs` (from `FilesAssumption`): `ParserTyped`, and `BuffersNeverOverflow`:
neither buffer of `Limit + 2` bytes is written past its end. A name and the
plain characters of a value stop at `Limit`; an escape may put two characters
under a check made for one, so a value reaches `Limit + 1`, and the
terminating NUL takes the last byte. The invariant therefore bounds the text by
stage.

`ConfigProofs` also has `FilesMeanTheirLines`, `Spec => []ReadsLineByLine`: for any
file with no broken escape in it and no backslash at its end, what the loop has set
is what the lines say that lie behind it.
`LineInv` says so at every character, and what the two buffers stand for: nothing of
a line yet, part of a name, the blanks behind it, a comment, or part of a value. Of
a value it says that what has been read, followed by the meaning of the rest of the
line, is the meaning of the whole; so a step needs one turn of `Meaning` and no
induction. That `Meaning` is defined at all needs one, down from the end of
the line.

Its last theorem compares the releases: `ReleasesReadAlike`, `Spec => []ReleasesAgree`
(also from `ReleasesAssumption`), for any file of simple lines, any size of 0.0.1's
buffer and any set of lines whose name `trim()` spoils. `OldInv` is the invariant of
the older machine and holds after each character (`OldReads`, by induction along the
file): its options are what the lines so far assign, but for the spoilt ones; what
the buffer holds in front of its index is the line from its first character that is
no blank; and it has only failed when no complete line is left, because a simple line
fits. What lies behind the index is from lines before and may be anything. A simple
line has a `=`, so its value never is that text; and a name with a garbage
character behind it is no option. Trunk's side of the comparison is `LineInv`. The
assumption says that the names of options are words, as those that `cfg_parse()` is
given are, and that the garbage, which stands for whatever bytes are in the memory,
is no character of a name. A garbage byte that happened to complete the name of
another option is thereby excluded.

`CommandProofs` is about single commands; the actions and variables of the three
modules have names of their own, so that it can extend them all:

- `DescendingWordsAreExact` (from `BoundsAssumption`): `Spec => []DescendingIsExact`
  of QueueRemove. By `WordsInv` all items in front of the words to come are still
  there, so that they have the numbers of the listing the user saw;
- `FedProgramsLeaveFresh`: `FeedSpec => []FreshWhenReturned`. The shell stops
  writing only when a program that keeps its input is gone (`FeedInv`), so what
  `check_cache()` maps is what the program left;
- `ListingsAreExact` (from `ListAssumption`, by which no name is the dash):
  `ListSpec => []PrintsListing`. `PipeInv` says where the words in the pipe stand in
  what was sent, and that the helper has printed the listing of what came before,
  the word that `scanf()` holds back included.

`ListsProofs` (from `CachesAssumption`): `ListsTyped`, `RequiredIsNeverListed`,
`UnmentionedIsListed`: what orphans leaves out and lists, and `UpgradesAreListed`
and `ColumnsAreTrue`: what toupgrade lists and shows, for any package list. The walk adds a package only
when no reverse dependency holds it, and passes the others for good: the
invariant speaks of the packages before the iterator. get_to_upgrade() keeps the
last other version it meets; that such a walk ends at a version that differs, if
there is one, is `LastIsLargest`, by the well-foundedness of strict inclusion on
the subsets of a finite set.

`CompletionProofs` (from `TableAssumption`, `LinesAssumption`): `NoCommandHidden`,
`GroupShown`, `StarStaysOut`. `MainInv` says that the statics are those of the
current text as soon as `cpl_main` was called once, whatever they were before, and
that the matches are what is shown of the commands before the iterator. The rest
is about prefixes: two prefixes of one name are prefixes of each other
(`FitsLinear`), so a text that fits a slave fits its master or no other root
(`SlaveFits`). `ArgumentsAreFresh`, `Spec => []ArgumentsAreCurrent` (also from
`OptionsAssumption` and `WorldsAssumption`): by `ArgInv` a generator's matches are
those of the packages, files or options before its iterator; packages change only
when no completion is under way, so all of them are of one moment.
`ReleasesShowTheSame`, `Spec => []ReleasesCompleteAlike` (with `SeparatorAssumption`, that no
command is called `;`, and `Tables006Assumption`, that the options of 0.0.6 begin with
a dash), for any two tables of kinds and any two of options, goes from what trunk has
at its NULL, by both invariants, to what the loops of 0.0.6 return; for an argument of
dpkg the words known to trunk are those that decide in 0.0.6 (`TablesAgree`), so the
last of them is the same.

`LinesAreRead`, `Spec => []LineIsRead` (from `LinesAssumption` and
`PartsAssumption`), is about the operators of Words, for lines of any number of
words of any length; the state only says that the line is one of `Lines` or none
(`LineParts`). What is typed from the k-th word on is a text that begins with that
word, goes on with blanks and ends with what is typed from the next one on
(`TypedLine`). Each turn of `word_iterator` so takes one part, and by induction from
the last part to the first it returns them all (`WordsInOrder`). For
`backward_word_iterator` the words are the `Runs` of the text. From a character
that ends a run it returns that run, goes on at the end of the run before, and
stops at the first character, which is why a first word of one letter is missing
(`LastWord`); by induction over the ends of runs the n-th word it returns is the one
with n runs from it to where it began (`FoundOneMore`, `FoundAll`). `StartIs` says
that it begins behind the word of the cursor.

`WildcardsStay` is `WildcardsAreKept` for any text, without an assumption: after
each character the shell that has read what `escape_params` has written so far is in
the state `escape_params` is in, the quote, the backslash and the pipe, and has seen
no wildcard, unless a backslash stood between single quotes (`Follows`). A turn that
writes a backslash and a wildcard is two turns of the shell, which end where they
began (`FollowsOn`).

`HistoryProofs` (from `CountAssumption`): `HistoryTyped`, and `ShortFileIsExact`:
any number of overlapping shells lose nothing and keep the order of saving while
the file exists and is short enough. `AtStep` and `ShortInv` say that nobody is
on the way to create the file or to rewrite it. `NewestAreKept`,
`Spec => []RestartRemembers`: shells one after another remember the newest lines,
wherever they are killed: of the lines saved since a kill last left the file
emptied (`recent`). `SerialInv` follows the end of these lines from the file through
what was read of it into the shell's list and back; between emptying and writing they
are only in the snapshot, and a kill there starts `recent` anew. That it survives a new
line is `EndOfAppend`, the last `Count` lines of a longer text depend on the last
`Count` of the shorter only.
`OptionsMeanWhatTheySay` (with `CommandLinesAssumption`),
`StartupSpec => []CommandLineMeans`: after each option `config` is what the options
so far name (`LineInv`), whatever their number and order; of `-x` behind `-s` it
claims nothing about what is executed. `ShellsStartLikeAny`,
`StartupSpec => Spec`: a shell with its command line is one of HistoryFile's, so
what is proved of these holds of it (`StartedShellsRemember`).

`Shell006Proofs` (from `LastAssumption`, `Assumption006`): `TypeCorrect006` and
`Invariance006`, `Spec => []Inv006`, from which follow `InnermostAnswers`,
`AnswersAreAlive`, `ListedIsRemoved`, `DeathsHaveReasons` and, as an action
property, `NothingRunsTwice`. Globals that any commit may set are safe for a
reason that is not local: an inner commit ends before the outer one goes on, and
it ends by clearing `use_realcmd`. So whenever it is set, the innermost frame set
it, and so did nobody later (`AnswerIsTops`). `Places` ties the line being executed
to the frame's place in the array, and `Ahead` says that every line behind that
place is younger than the line it ran last; removing lines only moves younger ones
forward, so an index that stays where it is can skip lines but not meet one again.
`Living` carries the nodes of the frames while nothing is erased. For queue-remove,
`Removing` says that all numbers still to remove lie before the ones removed, where
the array is still the listing.

`PromiseKept`, in the same module: `Spec => KeepsPromise`. A step is one of `QueuePromise` only if the mode changes,
lines are stored and lines are discarded between commits; `Keeping` says so: queue
mode is never on while a loop is in progress (a backtick cannot be stored, so no
loop can switch it on), and a queue-remove within a commit is itself a stored
line, which the condition of the property excludes. Removing line n from the array
is shown to be the promise's `Without({n})` by counting the places before it. Inner
loops are stutters; only the outermost index is the promise's `next`.

`Index001Proofs` (from `Assumption001`): `Invariance001`, `Spec => []Inv001`, and
from it `NamesFit` and, as an action property, `CheckedIsFresh`, for any number of
shells, any package lists and any clock. While nothing has disturbed, at most one
shell is at the files (`Alone`), so the two files agree unless it is between
writing one and the other (`Files`), and whoever reads them finds as many names as
the count says (`Reads`). `Dated` ties their content to a state of the system: it is
no older than the one apt's cache was written for (`noted`) whenever the list is
newer than that cache, because whoever writes the cache moves its time forward, and
never older than the state a reader has been promised (`due`). Changes by dpkg move
neither.

Recursive functions are reasoned about by an induction that is stated of sets:
a set of naturals that has 0 and with n also n + 1 has them all (`Induction`), which
is proved from the well-foundedness of `<` in the library. From it follows that a
recursive function obeys its equation (`Recursion`), and so does one that goes from
each argument to some other of smaller rank, as the word iterators do (`ChainExists`).
Folds and `SelectSeq` of the libraries stay opaque; the listing (`Kept`), the parser
of 0.0.1 (`After`) and `escape_params` are therefore recursive functions.

Only model-checked: liveness, that is `CommitsEnd` in the refinement of
QueuePromise, the prompts, commands and helpers that come back or end, and
`EndsUnlessInComment`. Of the type invariants, those are stated that are proved.

## Where documents and program part

Shown by a violation run, and quoted in PROJECT.json: queue-remove renumbers as it
goes, so the documented arguments remove other lines. Release 0.0.6 removes the
documented ones (`RemovesWhatIsListed` of release006).

Seen while modelling, in the models but without a run of their own:

- a stored queue-commit runs the queue from its beginning, and so itself, until
  the stack is full, where HOWTO:444 says "It just iterates through all commands
  in the queue" (`CrashNeedsCause` speaks of queues without it, and
  `DiesForAReason` of 0.0.6 names it as a reason).
- the answer is fed without a newline (command.cc:118), so a program that reads a
  line gets none and the shell feeds it for ever, where aptsh.1:61 says "then
  Aptsh answers 'y' to all prompts" (`FedCommandReturns` of feed is about programs
  that read characters; 0.0.6 sends a newline).
- `-s -x COMMAND` stores the command in a queue that is lost, where the usage
  (main.cc:338) says "Execute COMMAND and exit" (`CommandLineMeans` leaves this
  case open); `-x` before any `-c` runs with
  the built-in settings and not those of the default file; and words behind any
  option are ignored.
- `backward_word_iterator` does not return a first word of one letter.
- `escape_params` takes a backslash between single quotes for an escape, which a
  shell does not, and does not escape `[`.
- `purge` (cmd_systemize) is neither answered by queue-commit-say nor followed by
  a refresh of the cache, unlike remove.
- queue-commit-say without arguments is queue-commit: an empty answer is none.
- a range of queue-remove that is not in the queue erases through null nodes.
- orphans stays for ever at an installed package without a section, and
  orphans-all makes a string of its null section (`EndsWithSections` excludes it;
  in Shell the one is `Hangs` and the other a cause in `CrashNeedsCause`).
- orphans counts a Suggests as a reason to keep a package, and does not look at
  what a package provides.
- toupgrade lists a package with its newest version installed if an older one is
  known too (`ColumnsAreRight` excludes it).
- a broken `\x` escape swallows the characters behind it, a newline included; and
  the longest plain value has 1022 characters where the message says 1023.
- with an answer set, `check_cache()` comes before `pclose()`, so changes made
  after the program has closed its input are missed (the *late* cache of Shell; not
  claimed by `NeverStale` and `FreshWhenReturned`).
- `cmd_dpkg::execute` runs its arguments without `dpkg` in front of them.
- `command::aliases` is filled by nobody and `locate_by_name()` does not look at
  it.
- two shells that create the history file at the same time overwrite each other,
  and a line saved while another shell truncates the file is lost; a shell that is
  killed while it truncates loses the lines before (`RestartRemembers` then speaks of
  those saved since).

In the older releases only:

- 0.0.6: SIGPIPE ends the shell in orphans and orphans-all until some other
  command has called `i_setsig()`; `update` maps a new cache without freeing the
  old one; an unknown command reads behind `cmds[]` when it is completed
  (main.cc:224); a stored queue-clear frees the line that `yes` points into.
- 0.0.1: `trim()` forgets the NUL (string.c:58); a line of exactly 1023 characters
  writes one byte behind `buf`; a line without `=` takes what an earlier line left
  as its value; two shells, or ^C, leave a list that does not fit its count; dpkg changes packages
  and no time shows it.

## Plan

Done in this order: Shell with its queue, QueueRemove, AnswerFeed, ListPipe,
ConfigParse, PackageLists, Completion, HistoryFile; Startup, Words, Shell006,
Index001, Config001, Completion006. What is left:

1. AnswerFeed under Shell: RunProgram of a commit-say shown to implement one
   command of AnswerFeed.
2. Startup options and history of 0.0.6, which are nearly trunk's.

## Not modelled

Text and layout of output (the columns included), memory that is never freed,
libapt and readline beyond how they are called (external), the commands
changelog and news, `trim()` and `update_date()` of trunk, which nobody calls,
mapping without `APT::Cache::Generate` in trunk, integer options and the default
settings, packaging, and of the older releases what is said above.
