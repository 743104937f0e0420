--------------------------- MODULE MCQueueRemove ---------------------------
(***************************************************************************)
(* Bounds for the model checking of QueueRemove.                           *)
(***************************************************************************)
EXTENDS QueueRemove

(* In front of the queue, 0, every item of the longest, past the end of    *)
(* the shorter ones.                                                       *)
Around == -1 .. 3
Inside == 1 .. 4
=============================================================================
