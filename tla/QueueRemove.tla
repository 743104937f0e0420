---------------------------- MODULE QueueRemove ----------------------------
(***************************************************************************)
(* cmd_queue_remove::execute on its own: a queue, the words given to the   *)
(* command, and the loop that takes them one by one, against the removal   *)
(* the documents describe, where all numbers are those the user saw in the *)
(* listing of 'queue' before the command.                                  *)
(***************************************************************************)
EXTENDS CommandQueue, Sequences

CONSTANTS
  MaxSize,       \* bound: the longest queue
  MaxWords,      \* bound: the most words given
  Numbers        \* the numbers that occur in words

ASSUME BoundsAssumption ==
  MaxSize \in Nat /\ MaxWords \in Nat /\ Numbers \subseteq Int

VARIABLES
  before,    \* the queue the command finds
  given,     \* its words
  done,      \* how many of them are dealt with
  queue,     \* the queue now
  fate       \* "loop", "zero": it returned 1, "over": it returned 0, or "crash"

vars == <<before, given, done, queue, fate>>

Values == Numbers \cup {Last}
Given == [range : BOOLEAN, from : Values, to : Values]
WordLists == UNION {[1 .. k -> {a \in Given : a.range \/ a.to = a.from}] : k \in 0 .. MaxWords}

(* What a line says plays no part: each is named by its node. *)
Init ==
  /\ \E k \in 0 .. MaxSize : before = [n \in 1 .. k |-> n]
  /\ given \in WordLists
  /\ done = 0
  /\ queue = before
  /\ fate = "loop"

Word == given[done + 1]

(* One turn of the loop. *)
RemoveWord ==
  /\ fate = "loop"
  /\ done < Len(given)
  /\ ~NamesZero(queue, Word)
  /\ ~Misses(queue, Word)
  /\ queue' = Erase(queue, Named(queue, Word))
  /\ done' = done + 1
  /\ UNCHANGED <<before, given, fate>>

(* erase() is given a null iterator. *)
RemoveOutside ==
  /\ fate = "loop"
  /\ done < Len(given)
  /\ Misses(queue, Word)
  /\ fate' = "crash"
  /\ UNCHANGED <<before, given, done, queue>>

(* "There's no item numbered 0." *)
RefuseZero ==
  /\ fate = "loop"
  /\ done < Len(given)
  /\ NamesZero(queue, Word)
  /\ fate' = "zero"
  /\ UNCHANGED <<before, given, done, queue>>

Finish ==
  /\ fate = "loop"
  /\ done = Len(given)
  /\ fate' = "over"
  /\ UNCHANGED <<before, given, done, queue>>

Ended == fate # "loop" /\ UNCHANGED vars

Next == RemoveWord \/ RemoveOutside \/ RefuseZero \/ Finish \/ Ended

Spec == Init /\ [][Next]_vars

-----------------------------------------------------------------------------
(* The reference: a word names items by their place in the listing, which  *)
(* is their node here, as the queue starts with nodes 1, 2, 3...           *)
Means(k) ==
  LET w == given[k]
  IN  IF w.range THEN {n \in DOMAIN before : n \in w.from .. w.to \/ n \in w.to .. w.from}
                 ELSE DOMAIN before \cap {w.from}
Meant == UNION {Means(k) : k \in 1 .. done}

(* No word uses "last", which means a different item after each removal. *)
OnlyNumbers == \A k \in DOMAIN given : Last \notin {given[k].from, given[k].to}

(* No word names an item at or above one a word before it has named. *)
Descending ==
  /\ OnlyNumbers
  /\ \A j, k \in DOMAIN given :
       j < k => \A m \in Means(j), n \in Means(k) : n < m

(* Numbers given in descending order are dealt with as documented: what    *)
(* is gone after each word is what the words so far named in the listing.  *)
DescendingIsExact ==
  Descending => DOMAIN queue = DOMAIN before \ Meant

-----------------------------------------------------------------------------
(* The words are numbers in ascending order, as in the documents. *)
Ascending ==
  /\ OnlyNumbers
  /\ \A j, k \in DOMAIN given :
       j < k => \A m \in Means(j), n \in Means(k) : m < n

(* trunk/src/aptsh.1:67: "commit-remove 1 3 10-15 21" removes the items    *)
(* numbered 1, 3, 10 to 15 and 21.                                         *)
RemovesWhatIsListed ==
  Ascending /\ fate = "over" => DOMAIN queue = DOMAIN before \ Meant
=============================================================================
