-------------------------- MODULE Shell006Invariant --------------------------
(***************************************************************************)
(* The inductive invariant behind the safety properties of Shell006.       *)
(***************************************************************************)
EXTENDS Shell006Meaning

Ascending(q) == \A j, k \in DOMAIN q : j < k => q[j].node < q[k].node

(* Where execute() stands, and what it was called for.                     *)
Places ==
  /\ pc = "prompt" => stack = <<>>
  /\ pc # "remove" => remove = {}
  /\ pc = "list" => /\ cur.line.word \in Lists
                    /\ cur.line.word = "ls" => set
  /\ pc \in {"execute", "remove"} /\ stack = <<>> => cur.node = 0
  /\ pc = "execute" /\ stack # <<>> => \E k \in DOMAIN items : items[k] = cur

(* The answer is on only in a loop of queue-commit-say, and is its own,    *)
(* unless the loop it was set for no longer fits on the stack.             *)
TopAnswers == stack # <<>> /\ Top.says /\ yes = Top.from
AnswerIsTops ==
  /\ use_realcmd /\ status # "crashed" => TopAnswers
  /\ pc = "fed" => use_realcmd /\ TopAnswers

(* What lies before a loop was stored after the item it ran last.          *)
Ahead ==
  \A f \in DOMAIN stack :
    /\ stack[f].ran < born
    /\ \A k \in DOMAIN items : k > stack[f].at => items[k].node > stack[f].ran

(* Nothing that is still in use has been erased.                           *)
Living ==
  ~torn => /\ cur.node \in {0} \cup Nodes
           /\ \A f \in DOMAIN stack : stack[f].from \in {0} \cup Nodes

(* The numbers the words of the queue-remove under way name.               *)
ToRemove ==
  {n \in DOMAIN listed : \E w \in DOMAIN cur.line.args : Names(cur.line.args[w], Len(listed), n)}

(* Up to the highest number that is still to be removed nothing has moved. *)
Removing ==
  pc = "remove" =>
    /\ Ascending(listed)
    /\ remove \subseteq ToRemove
    /\ \A n \in remove : \A k \in 1 .. n : k \in DOMAIN items /\ items[k] = listed[k]
    /\ {items[k] : k \in DOMAIN items} = {listed[n] : n \in DOMAIN listed \ (ToRemove \ remove)}

(* Modes change, and lines are stored, only between commits, and what a    *)
(* loop has reached or is removing from is there until a line is erased.   *)
Keeping ==
  /\ mode => stack = <<>>
  /\ \A k \in DOMAIN items : items[k].line.word # "backtick"
  /\ mode /\ pc = "execute" => cur.line \in QueuedLines
  /\ pc = "simulate" => mode /\ cur.line \in QueuedLines /\ cur.line.word # "backtick"
  /\ pc = "remove" => ~mode /\ cur.line.word = "queue-remove"
  /\ ~torn => \A f \in DOMAIN stack : stack[f].at <= Len(items)
  /\ ~torn /\ pc = "remove" /\ stack # <<>> => \E k \in DOMAIN items : items[k] = cur

Inv006 ==
  /\ TypeOK
  /\ Ascending(items)
  /\ Places
  /\ AnswerIsTops
  /\ Ahead
  /\ Living
  /\ Removing
  /\ DiesForAReason
=============================================================================
