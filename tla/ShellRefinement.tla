-------------------------- MODULE ShellRefinement --------------------------
(***************************************************************************)
(* The shell implements QueuePromise as long as no queue command is stored *)
(* in the queue (HOWTO 2.5.3 never stores one).                            *)
(***************************************************************************)
EXTENDS Shell

(* The queue's lines in order. *)
Listed(q) ==
  [k \in 1 .. Size(q) |-> q[CHOOSE n \in DOMAIN q : Number(q, n) = k]]

Promise == INSTANCE QueuePromise WITH
  Stored  <- {[l EXCEPT !.lead = FALSE] : l \in QueuedLines},
  alive   <- status = "running",
  storing <- mode,
  lines   <- Listed(queue),
  next    <- IF stack = <<>> THEN 0 ELSE Number(queue, stack[1].at)

(* Every line is kept in order, and a commit runs each line of the queue   *)
(* once, first to last, changing nothing, and ends, unless one of its      *)
(* commands hangs and nobody helps.                                        *)
KeepsPromise == Promise!Steps /\ (Promise!CommitsEnd \/ <>[]Hangs)
=============================================================================
