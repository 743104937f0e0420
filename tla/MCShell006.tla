----------------------------- MODULE MCShell006 -----------------------------
(***************************************************************************)
(* Lines and options for the model checking of Shell006.                   *)
(***************************************************************************)
EXTENDS Shell006Invariant

Plain(word) == [word |-> word, lead |-> FALSE, args |-> <<>>]
One(v) == [range |-> FALSE, from |-> v, to |-> v]
Span(v, w) == [range |-> TRUE, from |-> v, to |-> w]
Remove(words) == [Plain("queue-remove") EXCEPT !.args = words]

Normal ==
  {Plain("backtick"), Plain("queue-commit"), Plain("queue-commit-say"), Plain("queue-clear"),
   Plain("update"), Plain("ls"), Plain("orphans"), Plain("orphans-all"), Plain("help"),
   [Plain(".") EXCEPT !.lead = TRUE], Plain("quit"), Remove(<<One(1), One(2)>>),
   Remove(<<Span(Last, 2), One(3), One(0)>>)}
Queued ==
  {Plain("backtick"), Plain("install"), Plain("queue-commit-say"),
   Plain("queue-commit"), Remove(<<One(Last)>>)}

Sessions ==
  {[refresh |-> TRUE, all |-> FALSE, simulate |-> FALSE, bare |-> TRUE],
   [refresh |-> FALSE, all |-> TRUE, simulate |-> TRUE, bare |-> FALSE]}
=============================================================================
