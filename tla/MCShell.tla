------------------------------ MODULE MCShell ------------------------------
(***************************************************************************)
(* Lines for the model checking of Shell.                                  *)
(***************************************************************************)
EXTENDS ShellRefinement, ShellInvariant

Plain(word) ==
  [word |-> word, lead |-> FALSE, args |-> <<>>, answer |-> NoAnswer]
Led(line) == [line EXCEPT !.lead = TRUE]
Say(text) == [Plain("queue-commit-say") EXCEPT !.answer = text]
One(v) == [range |-> FALSE, from |-> v, to |-> v]
Span(v, w) == [range |-> TRUE, from |-> v, to |-> w]
Remove(words) == [Plain("queue-remove") EXCEPT !.args = words]
Tick == Plain("backtick")

(* Everything a session may hold, queue commands in the queue included. *)
SessionNormal ==
  {Tick, Plain("queue-commit"), Say("y"), Plain("quit"),
   Plain("queue-clear"), Plain("help"), Plain("install"), Led(Plain(".")), Plain("ls"),
   Plain("orphans"), Plain("orphans-all"),
   Remove(<<One(Last)>>), Remove(<<Span(1, 2)>>), Remove(<<Span(0, 1)>>), Led(Remove(<<One(2)>>))}
SessionQueued ==
  {Tick, Plain("install"), Plain("queue-commit"), Say("y"), Led(Say("y")), Plain("quit"),
   Plain("queue-clear"), Remove(<<One(1)>>), Remove(<<Span(Last, 2)>>)}

(* No queue command in the queue, and no command that changes packages but *)
(* does not refresh the cache.                                             *)
QuietNormal ==
  {Tick, Plain("queue-commit"), Say("y"), Plain("queue-clear"), Plain("install"), Plain("orphans-all"),
   Remove(<<One(2), One(1)>>), Remove(<<Span(2, Last)>>)}
QuietQueued ==
  {Tick, Plain("install"), Plain("dpkg"), Plain("orphans"), Plain("quit"), Plain("unknown")}

=============================================================================
