------------------------------ MODULE ListPipe ------------------------------
(***************************************************************************)
(* The commands that write package names to a helper: ls and rls, whose    *)
(* helpers (ls.c, rls.c) filter names until the line "-", and orphans,     *)
(* whose helper (printer.c) copies its input to the end.  The user may     *)
(* pipe the helper's output into a pager and leave it early, press         *)
(* Control-C, or give rls an expression that does not compile; the shell   *)
(* may die on its way through a package list that is no longer there.      *)
(*                                                                         *)
(* Interactively the shell ignores SIGPIPE, and so do the programs it      *)
(* starts, and SIGINT while it executes a command; `aptsh ls' on a command *)
(* line does neither.                                                      *)
(***************************************************************************)
EXTENDS Naturals, Sequences

CONSTANTS
  Names,       \* the package names, in the order of the cache
  Matching,    \* those the helper's pattern matches
  Capacity     \* bound: names the pipe holds

Dash == "-"

ASSUME ListAssumption ==
  /\ Names \in Seq(STRING \ {Dash})
  /\ Matching \subseteq {Names[i] : i \in DOMAIN Names}
  /\ Capacity \in Nat \ {0, 1}

VARIABLES
  interactive,  \* the command was typed at the prompt
  command,      \* "ls", "rls" or "orphans"
  shell,        \* "writing", "closing", "waiting", "returned", "killed" by
                \* a signal or "crashed"
  written,      \* names, and then the dash, that have been written
  pipe,         \* what is in the pipe
  helper,       \* "reading", "ended" or "killed"
  in,           \* the word scanf() last stored
  out,          \* what the helper has printed
  pager         \* whether somebody reads what the helper prints

list_vars == <<interactive, command, shell, written, pipe, helper, in, out, pager>>

Unread == ""          \* in[] before the first scanf()

ListInit ==
  /\ interactive \in BOOLEAN
  /\ command \in {"ls", "rls", "orphans"}
  /\ shell = "writing"
  /\ written = 0
  /\ pipe = <<>>
  /\ helper = "reading"
  /\ in = Unread
  /\ out = <<>>
  /\ pager = TRUE

-----------------------------------------------------------------------------
(* The shell: e walks the package list, and "-" comes last. *)

(* Faulty variants: the dash for every helper, or for none. *)
SentWithDash == Append(Names, Dash)
SentBare == Names
Sent == IF command = "orphans" THEN Names ELSE Append(Names, Dash)
WriterGone == shell \in {"waiting", "returned", "killed", "crashed"}

Write ==
  /\ shell = "writing" /\ written < Len(Sent)
  /\ helper = "reading" /\ Len(pipe) < Capacity
  /\ pipe' = Append(pipe, Sent[written + 1])
  /\ written' = written + 1
  /\ UNCHANGED <<interactive, command, shell, helper, in, out, pager>>

(* A faulty variant: SIGPIPE is not ignored. *)
WriteBrokenFatal ==
  /\ shell = "writing" /\ written < Len(Sent) /\ helper # "reading"
  /\ shell' = "killed"
  /\ UNCHANGED <<interactive, command, written, pipe, helper, in, out, pager>>

(* Nobody reads: the name is lost, or SIGPIPE ends the shell. *)
WriteBroken ==
  /\ shell = "writing" /\ written < Len(Sent) /\ helper # "reading"
  /\ IF interactive
     THEN written' = written + 1 /\ UNCHANGED shell
     ELSE shell' = "killed" /\ UNCHANGED written
  /\ UNCHANGED <<interactive, command, pipe, helper, in, out, pager>>

AllWritten ==
  /\ shell = "writing" /\ written = Len(Sent)
  /\ shell' = "closing"
  /\ UNCHANGED <<interactive, command, written, pipe, helper, in, out, pager>>

(* pclose() *)
Close ==
  /\ shell = "closing"
  /\ shell' = "waiting"
  /\ UNCHANGED <<interactive, command, written, pipe, helper, in, out, pager>>

Return ==
  /\ shell = "waiting" /\ helper # "reading"
  /\ shell' = "returned"
  /\ UNCHANGED <<interactive, command, written, pipe, helper, in, out, pager>>

(* Reading a package list that is gone. *)
Crash ==
  /\ shell = "writing" /\ written < Len(Names)
  /\ shell' = "crashed"
  /\ UNCHANGED <<interactive, command, written, pipe, helper, in, out, pager>>

-----------------------------------------------------------------------------
(* The helper. *)

(* What it does with a word: stop at the dash, print what matches; the     *)
(* printer prints whatever comes.  With nobody to read it, a program that  *)
(* SIGPIPE can end does not get further.                                   *)
Filters == command # "orphans"
Handle(word) ==
  IF Filters /\ word = Dash THEN helper' = "ended" /\ UNCHANGED out
  ELSE IF Filters /\ word \notin Matching
  THEN UNCHANGED <<helper, out>>
  ELSE IF pager THEN out' = Append(out, word) /\ UNCHANGED helper
  ELSE /\ helper' = IF interactive THEN "reading" ELSE "killed"
       /\ UNCHANGED out

(* scanf("%s\n") stores a word and then skips white space: it returns when *)
(* it sees the next word, or the end of the file.                          *)
Ready ==
  /\ pipe # <<>>
  /\ Len(pipe) > 1 \/ WriterGone \/ ~Filters

Scan ==
  /\ helper = "reading" /\ Ready
  /\ in' = Head(pipe)
  /\ pipe' = Tail(pipe)
  /\ Handle(Head(pipe))
  /\ UNCHANGED <<interactive, command, shell, written, pager>>

InputEnds == pipe = <<>> /\ WriterGone

(* printer.c ends with its input. *)
PrinterEnds ==
  /\ helper = "reading" /\ InputEnds /\ ~Filters
  /\ helper' = "ended"
  /\ UNCHANGED <<interactive, command, shell, written, pipe, in, out, pager>>

(* scanf() fails and leaves in[] as it was, and nobody looks at its        *)
(* result: the word is dealt with again, for ever.  (That out then grows   *)
(* is left out.)  in[] that was never written may hold anything, a dash    *)
(* included.                                                               *)
ScanFails ==
  /\ helper = "reading" /\ InputEnds /\ Filters
  /\ helper' \in (IF pager \/ interactive \/ in \notin Matching
                  THEN {"reading"} ELSE {"killed"})
               \cup (IF in = Unread THEN {"ended"} ELSE {})
  /\ UNCHANGED <<interactive, command, shell, written, pipe, in, out, pager>>

(* regcomp() refuses the expression of rls. *)
Refuse ==
  /\ command = "rls" /\ helper = "reading" /\ in = Unread
  /\ helper' = "ended"
  /\ UNCHANGED <<interactive, command, shell, written, pipe, in, out, pager>>

-----------------------------------------------------------------------------
(* The user. *)

LeavePager ==
  /\ pager
  /\ pager' = FALSE
  /\ UNCHANGED <<interactive, command, shell, written, pipe, helper, in, out>>

(* SIGINT goes to both. *)
Interrupt ==
  /\ shell \in {"writing", "closing", "waiting"}
  /\ helper' = IF helper = "reading" THEN "killed" ELSE helper
  /\ shell' = IF interactive THEN shell ELSE "killed"
  /\ UNCHANGED <<interactive, command, written, pipe, in, out, pager>>

Over ==
  /\ shell \in {"returned", "killed", "crashed"} /\ helper # "reading"
  /\ UNCHANGED list_vars

ShellStep == Write \/ WriteBroken \/ AllWritten \/ Close \/ Return
HelperStep == Scan \/ PrinterEnds \/ ScanFails

ListNext == ShellStep \/ HelperStep \/ Crash \/ Refuse \/ LeavePager \/ Interrupt \/ Over

ListSpec == ListInit /\ [][ListNext]_list_vars

(* Both programs run.  The user need do nothing. *)
FairListSpec == ListSpec /\ WF_list_vars(ShellStep) /\ WF_list_vars(HelperStep)

-----------------------------------------------------------------------------
(* Those of the first i names that match, in their order. *)
Kept[i \in 0 .. Len(Names)] ==
  IF i = 0 THEN <<>>
  ELSE IF Names[i] \in Matching THEN Append(Kept[i - 1], Names[i])
  ELSE Kept[i - 1]

(* The names the helper has to print. *)
Listing == IF command = "orphans" THEN Names ELSE Kept[Len(Names)]

(* What has been printed is a beginning of the listing, in its order and   *)
(* without repetition; and all of it when the helper has seen the end, the *)
(* pager stayed and the shell lived: scanf's reading ahead of itself loses *)
(* no name, and the dash is not taken for one.                             *)
PrintsListing ==
  /\ Len(out) <= Len(Listing) /\ out = SubSeq(Listing, 1, Len(out))
  /\ helper = "ended" /\ in # Unread /\ pager /\ shell # "crashed" =>
       out = Listing

(* trunk/src/main.cc:66 and :400: at the prompt, Control-C, a pager that   *)
(* is left early and a helper that gives up at once cost the rest of the   *)
(* listing and never the shell, which always comes back.                   *)
CommandReturns == interactive => <>(shell \in {"returned", "crashed"})

(* A helper that goes on for ever is one of ls and rls whose shell crashed *)
(* before it could send the dash.                                          *)
HelperEnds ==
  \/ <>(helper # "reading")
  \/ command # "orphans" /\ <>(shell = "crashed")
=============================================================================
