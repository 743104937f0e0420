-------------------------- MODULE Shell006Meaning ---------------------------
(***************************************************************************)
(* What release 0.0.6 can be relied on to do, and its refinement of the    *)
(* same promise as trunk's shell.                                          *)
(***************************************************************************)
EXTENDS Shell006

Nodes == {items[k].node : k \in DOMAIN items}

(* Every variable keeps to its type, and the array is in order of age.     *)
TypeOK ==
  /\ status \in {"running", "exited", "killed", "crashed"}
  /\ pc \in PCs
  /\ opts \in Option
  /\ mode \in BOOLEAN
  /\ items \in Seq(Item)
  /\ born \in Nat \ {0}
  /\ \A k \in DOMAIN items : items[k].node \in 1 .. (born - 1)
  /\ cur \in Item
  /\ remove \subseteq DOMAIN items
  /\ listed \in Seq(Item)
  /\ stack \in Seq(Frame)
  /\ Len(stack) <= StackLimit
  /\ use_realcmd \in BOOLEAN
  /\ yes \in Nat
  /\ set \in BOOLEAN
  /\ torn \in BOOLEAN
  /\ cache \in CacheStates

(* A program is fed only with the answer of the innermost commit that is   *)
(* under way: never after a plain commit began inside it, never when it is *)
(* over, and never with what another queue-commit-say left in yes.         *)
FeedsTheInnermost ==
  pc = "fed" => stack # <<>> /\ Top.says /\ yes = Top.from

(* The answer is read through a pointer into the line that gave it.  As    *)
(* long as no line is erased by a stored one while a commit is under way,  *)
(* that line is still there.                                               *)
FeedsALivingLine ==
  pc = "fed" /\ ~torn => yes \in {0} \cup Nodes

(* A number or a range among queue-remove's words names line n of a        *)
(* listing of size lines.                                                  *)
Names(word, size, n) ==
  LET Is(v) == IF v = Last THEN size ELSE v
  IN  IF word.range THEN \/ Is(word.from) <= n /\ n <= Is(word.to)
                         \/ Is(word.to) <= n /\ n <= Is(word.from)
                    ELSE n = Is(word.from)

(* Whatever the order and the overlaps of its words, queue-remove removes  *)
(* the lines that had these numbers when the user saw the listing, and     *)
(* leaves the others in their order (aptsh.1, queue-remove; trunk no       *)
(* longer does).                                                           *)
RemovesWhatIsListed ==
  pc = "remove" /\ remove = {} =>
    /\ {items[k] : k \in DOMAIN items} =
       {listed[n] : n \in {n \in DOMAIN listed :
          \A w \in DOMAIN cur.line.args : ~Names(cur.line.args[w], Len(listed), n)}}
    /\ \A j, k \in DOMAIN items : j < k => items[j].node < items[k].node

(* A commit's loop goes on by an index while lines are erased and the rest *)
(* moves up: it may leave lines out, but it never runs one twice.          *)
NeverRunsTwice ==
  [][InCommit /\ pc' = "execute" => stack'[Len(stack)].ran > Top.ran]_vars

PlainQueue == \A k \in DOMAIN items : items[k].line.word \notin QueueWords

Promise == INSTANCE QueuePromise WITH
  Stored  <- {[l EXCEPT !.lead = FALSE] : l \in QueuedLines},
  alive   <- status = "running",
  storing <- mode,
  lines   <- [k \in DOMAIN items |-> items[k].line],
  next    <- IF stack = <<>> THEN 0 ELSE stack[1].at

(* While no queue command is in the queue, nor has erased itself in the    *)
(* commit under way, every line is kept in order, and a commit runs each   *)
(* of them once, first to last, changing nothing.                          *)
KeepsPromise ==
  /\ Promise!Init
  /\ [][PlainQueue /\ PlainQueue' /\ ~torn => Promise!Next \/ UNCHANGED Promise!pvars]_vars

(* A session that does not end by the user's will has one of four reasons: *)
(* the package cache is gone, a package has no section, a commit is stored *)
(* in the queue and exhausts the stack, or the user leaves the pager of    *)
(* orphans or orphans-all.                                                 *)
DiesForAReason ==
  /\ status = "crashed" =>
       \/ cache \in {"none", "freed"}
       \/ cur.line.word = "orphans-all" /\ opts.bare
       \/ \E k \in DOMAIN items : items[k].line.word \in CommitWords
  /\ status = "killed" => cur.line.word \in {"orphans", "orphans-all"}

(* Every line the user enters, every commit and every commit within one    *)
(* comes to its end, unless orphans meets a package without a section.     *)
ReturnsToPrompt == pc # "prompt" ~> (pc = "prompt" \/ status # "running" \/ Hangs)
=============================================================================
