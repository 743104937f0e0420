---------------------------- MODULE QueuePromise ----------------------------
(***************************************************************************)
(* What the command queue promises its user: lines are kept in the order   *)
(* they were typed, and a commit runs each of them once, first to last,    *)
(* leaving the queue as it was.  How commands run, what a commit answers,  *)
(* and the nested calls of the program are not to be seen here.            *)
(***************************************************************************)
EXTENDS Integers, Sequences, FiniteSets

CONSTANT Stored        \* the lines that can be kept

VARIABLES
  alive,     \* the session goes on
  storing,   \* queue mode
  lines,     \* what is kept, in order
  next       \* the place of the line a commit is running, or 0

pvars == <<alive, storing, lines, next>>

Init ==
  /\ alive = TRUE
  /\ storing \in BOOLEAN
  /\ lines = <<>>
  /\ next = 0

Idle == alive /\ next = 0

Switch ==
  /\ Idle
  /\ storing' = ~storing
  /\ UNCHANGED <<alive, lines, next>>

Keep ==
  /\ Idle
  /\ storing
  /\ \E l \in Stored : lines' = Append(lines, l)
  /\ UNCHANGED <<alive, storing, next>>

(* The kept lines but those at some places. *)
Without(places) ==
  LET Left(k) == Cardinality({j \in 1 .. k : j \notin places})
      left == DOMAIN lines \ places
  IN  [m \in 1 .. Cardinality(left) |->
         lines[CHOOSE k \in left : Left(k) = m]]

Discard ==
  /\ Idle
  /\ ~storing
  /\ \E places \in SUBSET DOMAIN lines : lines' = Without(places)
  /\ UNCHANGED <<alive, storing, next>>

Commit ==
  /\ Idle
  /\ ~storing
  /\ lines # <<>>
  /\ next' = 1
  /\ UNCHANGED <<alive, storing, lines>>

Advance ==
  /\ alive
  /\ next # 0
  /\ next' = IF next = Len(lines) THEN 0 ELSE next + 1
  /\ UNCHANGED <<alive, storing, lines>>

(* The user leaves, or the program dies. *)
End ==
  /\ alive
  /\ alive' = FALSE
  /\ UNCHANGED <<storing, lines, next>>

Next == Switch \/ Keep \/ Discard \/ Commit \/ Advance \/ End

(* A commit under way gets to its end. *)
CommitsEnd == next # 0 ~> (next = 0 \/ ~alive)

(* What is kept step by step. *)
Steps == Init /\ [][Next]_pvars

Spec == Steps /\ CommitsEnd
=============================================================================
