----------------------------- MODULE HistoryFile -----------------------------
(***************************************************************************)
(* The history of lines, which every shell of a user keeps in one file:    *)
(* main() truncates the file and reads it when a shell starts, and         *)
(* execute_line() adds each new line to the shell's list and to the file.  *)
(*                                                                         *)
(* Another shell's steps may come between these steps, and a kill:         *)
(* readline's history_truncate_file() reads the file whole, empties it and *)
(* writes its end back, and execute_line() first asks with access()        *)
(* whether there is a file and then calls write_history() or               *)
(* append_history().  Each of these two is one step, as a line is far      *)
(* shorter than what one write takes.                                      *)
(*                                                                         *)
(* CFG_USE_HISTORY and CFG_HISTORY_COUNT are set; otherwise there is no    *)
(* file.                                                                   *)
(***************************************************************************)
EXTENDS Naturals, Sequences

CONSTANTS
  Shells,      \* the shells that may run
  Typed,       \* the lines the user may type, without leading blanks
  Count,       \* CFG_HISTORY_COUNT
  MaxTyped     \* bound on how many lines are saved in all

ASSUME CountAssumption == Count \in Nat \ {0} /\ Typed # {} /\ MaxTyped \in Nat

VARIABLES
  exists,     \* whether there is a history file
  file,       \* its lines
  pc,         \* where each shell is; "off" when it does not run
  list,       \* each shell's own list, the_history of readline
  snapshot,   \* what history_truncate_file() has read
  line,       \* the line each shell is about to save
  log,        \* every line saved so far, oldest first
  recent,     \* those saved since a kill last left an emptied file behind
  overlap,    \* whether two shells ever ran at the same time
  existed     \* whether there was a file at first

vars == <<exists, file, pc, list, snapshot, line, log, recent, overlap, existed>>

Labels ==
  {"off", "truncating", "rewriting", "refilling", "reading", "prompt",
   "saving", "appending", "creating"}

LastN(s, n) == IF Len(s) <= n THEN s ELSE SubSeq(s, Len(s) - n + 1, Len(s))
FirstN(s, n) == IF Len(s) <= n THEN s ELSE SubSeq(s, 1, n)
Newest(s) == s[Len(s)]

Init ==
  /\ exists \in BOOLEAN /\ existed = exists
  /\ file = <<>>
  /\ pc = [s \in Shells |-> "off"]
  /\ list = [s \in Shells |-> <<>>]
  /\ snapshot = [s \in Shells |-> <<>>]
  /\ line = [s \in Shells |-> CHOOSE t \in Typed : TRUE]
  /\ log = <<>> /\ recent = <<>>
  /\ overlap = FALSE

From(s, label, next) == pc[s] = label /\ pc' = [pc EXCEPT ![s] = next]

-----------------------------------------------------------------------------
(* A shell starts.                                                         *)
Start(s) ==
  /\ From(s, "off", "truncating")
  /\ overlap' = (overlap \/ \E r \in Shells \ {s} : pc[r] # "off")
  /\ UNCHANGED <<exists, file, list, snapshot, line, log, recent, existed>>

(* A faulty variant: the file is never too long.                           *)
NeverTooLong(s) == FALSE
TooLong(s) == Len(file) > Count

(* history_truncate_file() reads the file ...                              *)
TruncateReads(s) ==
  /\ From(s, "truncating", IF exists /\ TooLong(s) THEN "rewriting" ELSE "reading")
  /\ snapshot' = [snapshot EXCEPT ![s] = file]
  /\ UNCHANGED <<exists, file, list, line, log, recent, overlap, existed>>

(* ... opens it with O_TRUNC, ...                                          *)
TruncateEmpties(s) ==
  /\ From(s, "rewriting", "refilling")
  /\ file' = <<>>
  /\ UNCHANGED <<exists, list, snapshot, line, log, recent, overlap, existed>>

(* ... and writes its last lines back.                                     *)
TruncateWrites(s) ==
  /\ From(s, "refilling", "reading")
  /\ file' = LastN(snapshot[s], Count)
  /\ UNCHANGED <<exists, list, snapshot, line, log, recent, overlap, existed>>

(* read_history_range() reads the first lines.                             *)
ReadHistory(s) ==
  /\ From(s, "reading", "prompt")
  /\ list' = [list EXCEPT ![s] = FirstN(file, Count)]
  /\ UNCHANGED <<exists, file, snapshot, line, log, recent, overlap, existed>>

-----------------------------------------------------------------------------
(* execute_line() adds a line to the history unless it is the newest there *)
(* already.                                                                *)

New(s, t) == list[s] # <<>> => Newest(list[s]) # t

Type(s) ==
  /\ Len(log) < MaxTyped
  /\ From(s, "prompt", "saving")
  /\ \E t \in Typed :
       /\ New(s, t)
       /\ line' = [line EXCEPT ![s] = t]
       /\ list' = [list EXCEPT ![s] = Append(list[s], t)]
  /\ UNCHANGED <<exists, file, snapshot, log, recent, overlap, existed>>

(* access() *)
Check(s) ==
  /\ From(s, "saving", IF exists THEN "appending" ELSE "creating")
  /\ UNCHANGED <<exists, file, list, snapshot, line, log, recent, overlap, existed>>

(* append_history(1).  A faulty variant appends the whole list.            *)
WholeList(s) == list[s]
NewEntries(s) == <<Newest(list[s])>>

AppendHistory(s) ==
  /\ From(s, "appending", "prompt")
  /\ file' = file \o NewEntries(s)
  /\ log' = Append(log, line[s]) /\ recent' = Append(recent, line[s])
  /\ UNCHANGED <<exists, list, snapshot, line, overlap, existed>>

(* write_history() creates the file, or empties the one that another shell *)
(* has created in the meantime, and writes the whole list.                 *)
WriteHistory(s) ==
  /\ From(s, "creating", "prompt")
  /\ exists' = TRUE
  /\ file' = list[s]
  /\ log' = Append(log, line[s]) /\ recent' = Append(recent, line[s])
  /\ UNCHANGED <<list, snapshot, line, overlap, existed>>

-----------------------------------------------------------------------------
(* quit, the end of input and SIGINT end a shell at its prompt, and SIGINT *)
(* also before its handler is installed; a kill ends it anywhere, and the  *)
(* file may have been emptied.                                             *)
Leave(s) ==
  /\ pc[s] # "off"
  /\ pc' = [pc EXCEPT ![s] = "off"]
  /\ recent' = IF pc[s] = "refilling" THEN <<>> ELSE recent
  /\ UNCHANGED <<exists, file, list, snapshot, line, log, overlap, existed>>

Step(s) ==
  \/ Start(s) \/ TruncateReads(s) \/ TruncateEmpties(s) \/ TruncateWrites(s)
  \/ ReadHistory(s)
  \/ Type(s) \/ Check(s) \/ AppendHistory(s) \/ WriteHistory(s) \/ Leave(s)

Next == \E s \in Shells : Step(s)

Spec == Init /\ [][Next]_vars
=============================================================================
