---------------------------- MODULE CommandQueue ----------------------------
(***************************************************************************)
(* The command queue of Aptsh as data: queue_base::queue, a list<string>,  *)
(* and what the commands of the 'queue' group do to it.                    *)
(*                                                                         *)
(* A list is a function from its nodes to their lines.  Nodes are handed   *)
(* out in ascending order and a list only grows at its end, so the order   *)
(* of the nodes is the order of the list.  An iterator is a node: it stays *)
(* valid while other nodes are erased and dangles once its own node is,    *)
(* as std::list promises.  (An iterator into a Seq would be an index, and  *)
(* erasing an earlier element would silently move it.)                     *)
(***************************************************************************)
EXTENDS Integers, FiniteSets

CONSTANT Last          \* the word "last" given to queue-remove

ASSUME LastAssumption == Last \notin Int

(* A word given to queue-remove: a number, or two of them around a '-'.    *)
(* atoi() makes 0 of any word that is no number.                           *)
Value == Int \cup {Last}
Arg == [range : BOOLEAN, from : Value, to : Value]

-----------------------------------------------------------------------------
EmptyQueue == [n \in {} |-> n]

PushBack(q, node, line) ==
  [n \in DOMAIN q \cup {node} |-> IF n = node THEN line ELSE q[n]]

Erase(q, nodes) == [n \in DOMAIN q \ nodes |-> q[n]]

Size(q) == Cardinality(DOMAIN q)

(* The number 'queue' prints before a node's line, counted from 1. *)
Number(q, n) == Cardinality({k \in DOMAIN q : k <= n})

(* A faulty variant: the iterator does not move. *)
IsNextOrSame(q, i, n) ==
  /\ n \in DOMAIN q
  /\ n >= i
  /\ \A k \in DOMAIN q : k >= i => n <= k

(* The node an iterator at node i moves to with i++, and begin() for i = 0. *)
IsNext(q, i, n) ==
  /\ n \in DOMAIN q
  /\ n > i
  /\ \A k \in DOMAIN q : k > i => n <= k

(* i++ arrives at end(); for i = 0, begin() is end(). *)
AtEnd(q, i) == \A k \in DOMAIN q : k <= i

-----------------------------------------------------------------------------
(* cmd_queue_remove::execute, one word of its arguments at a time. *)

Resolve(q, v) == IF v = Last THEN Size(q) ELSE v

Lo(q, a) == LET f == Resolve(q, a.from)  t == Resolve(q, a.to)
            IN  IF t < f THEN t ELSE f
Hi(q, a) == LET f == Resolve(q, a.from)  t == Resolve(q, a.to)
            IN  IF t < f THEN f ELSE t

(* "There's no item numbered 0." *)
NamesZero(q, a) ==
  a.range /\ (Resolve(q, a.from) = 0 \/ Resolve(q, a.to) = 0)

(* The search ends with from_i or to_i still default-constructed: the      *)
(* erase() that follows works on null nodes.                               *)
Misses(q, a) ==
  a.range /\ ~NamesZero(q, a) /\ (Lo(q, a) < 1 \/ Hi(q, a) > Size(q))

(* A faulty variant: the half-open erase() alone.                          *)
NamedHalfOpen(q, a) ==
  IF a.range THEN {n \in DOMAIN q : Number(q, n) \in Lo(q, a) .. (Hi(q, a) - 1)}
             ELSE {n \in DOMAIN q : Number(q, n) = Resolve(q, a.from)}
(* The nodes one word erases when it is neither of those two.  A number    *)
(* past the end, or not positive, erases nothing.                          *)
Named(q, a) ==
  IF a.range THEN {n \in DOMAIN q : Number(q, n) \in Lo(q, a) .. Hi(q, a)}
             ELSE {n \in DOMAIN q : Number(q, n) = Resolve(q, a.from)}
=============================================================================
