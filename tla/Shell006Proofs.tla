--------------------------- MODULE Shell006Proofs ---------------------------
(***************************************************************************)
(* The safety of Shell006 for all lines, bounds, options and systems, and  *)
(* that it implements QueuePromise.                                        *)
(***************************************************************************)
EXTENDS Shell006Invariant, FiniteSetTheorems, TLAPS

-----------------------------------------------------------------------------
(* Steps that leave the queue and the loops over it alone. *)

Kept == UNCHANGED <<opts, items, born, cur, remove, listed, stack, yes, torn>>

Quiet ==
  \/ EndOfFile \/ PressTab \/ Interrupt \/ PagerLeft \/ Toggle \/ Simulate \/ Quit
  \/ Report \/ RunProgram \/ Help \/ ProgramEnds \/ List \/ ListEnds \/ UNCHANGED vars

(* Where they can lead. *)
Onward ==
  \/ pc' = pc
  \/ pc = "execute" /\ pc' \in {"simulate", "system", "fed", "list", "return"}
  \/ pc \in {"system", "fed", "list"} /\ pc' = "return"

LEMMA CacheTypes ==
  ASSUME TypeOK, ProgramEnds
  PROVE  cache' \in CacheStates /\ pc' \in {pc, "return"} /\ status' \in {status, "crashed"}
<1> USE DEF CacheStates, TypeOK
<1>1. PICK seen \in {cache, "stale"} :
        \/ check_a(seen)
        \/ Regenerate(IF seen = "stale" THEN "kept" ELSE seen)
        \/ cache' = seen /\ Goto("return")
  BY DEF ProgramEnds
<1>2. CASE check_a(seen)
  BY <1>1, <1>2 DEF check_a, Regenerate, Goto, Crash
<1>3. CASE Regenerate(IF seen = "stale" THEN "kept" ELSE seen)
  BY <1>1, <1>3 DEF Regenerate, Goto
<1>4. CASE cache' = seen /\ Goto("return")
  BY <1>1, <1>4 DEF Goto
<1> QED
  BY <1>1, <1>2, <1>3, <1>4

LEMMA QuietKeeps == Quiet => Kept
  BY DEF Quiet, Kept, vars, EndOfFile, PressTab, Interrupt, PagerLeft, Toggle, Simulate, Quit,
         Report, RunProgram, Help, ProgramEnds, List, ListEnds

LEMMA QuietTypes ==
  ASSUME TypeOK, Quiet
  PROVE  /\ status' \in {"running", "exited", "killed", "crashed"}
         /\ pc' \in PCs
         /\ Onward
         /\ mode' \in BOOLEAN
         /\ cache' \in CacheStates
<1> USE DEF TypeOK, PCs, Onward, Goto, Crash, Exit
<1>1. CASE EndOfFile \/ PressTab \/ Interrupt \/ PagerLeft
  BY <1>1 DEF EndOfFile, PressTab, Interrupt, PagerLeft, ReadCache
<1>2. CASE Toggle
  BY <1>2 DEF Toggle
<1>3. CASE Simulate
  BY <1>3 DEF Simulate, Queueing
<1>4. CASE Quit \/ Report \/ Help
  BY <1>4 DEF Quit, Report, Help, Dispatch
<1>5. CASE RunProgram
  BY <1>5 DEF RunProgram, Dispatch
<1>6. CASE ProgramEnds
  <2>1. UNCHANGED mode /\ pc \in {"system", "fed"}
    BY <1>6 DEF ProgramEnds
  <2> QED
    BY <1>6, <2>1, CacheTypes
<1>7. CASE List
  BY <1>7 DEF List, Dispatch, ReadCache
<1>8. CASE ListEnds
  BY <1>8 DEF ListEnds
<1>9. CASE UNCHANGED vars
  BY <1>9 DEF vars
<1> QED
  BY <1>1, <1>2, <1>3, <1>4, <1>5, <1>6, <1>7, <1>8, <1>9 DEF Quiet

(* They only turn the answer off and SIGPIPE's handler on, and feed only   *)
(* while the answer is on.                                                 *)
LEMMA QuietAnswers ==
  ASSUME TypeOK, Quiet
  PROVE  /\ use_realcmd' \in BOOLEAN /\ set' \in BOOLEAN
         /\ use_realcmd' => use_realcmd
         /\ set => set'
         /\ pc' = "fed" /\ pc # "fed" => use_realcmd'
         /\ use_realcmd' = use_realcmd \/ pc' = "simulate"
<1> USE DEF TypeOK, Goto, Crash, Exit
<1>1. CASE EndOfFile \/ PressTab \/ Interrupt \/ PagerLeft
  BY <1>1 DEF EndOfFile, PressTab, Interrupt, PagerLeft, ReadCache
<1>2. CASE Toggle \/ Quit \/ Report \/ Help \/ ListEnds
  BY <1>2 DEF Toggle, Quit, Report, Help, Dispatch, ListEnds
<1>3. CASE Simulate
  BY <1>3 DEF Simulate, Queueing
<1>5. CASE RunProgram
  <2>1. /\ set' = (set \/ use_realcmd) /\ use_realcmd' = use_realcmd
        /\ pc' = IF use_realcmd THEN "fed" ELSE "system"
    BY <1>5 DEF RunProgram
  <2>2. set' \in BOOLEAN /\ (set => set')
    BY <2>1, Zenon
  <2> QED
    BY <2>1, <2>2
<1>6. CASE ProgramEnds
  BY <1>6, CacheTypes DEF ProgramEnds
<1>7. CASE List
  <2>1. /\ set' = (set \/ (cur.line.word = "ls" /\ status' = "running")) /\ use_realcmd' = use_realcmd
        /\ pc' \in {pc, "list"}
    BY <1>7 DEF List, ReadCache
  <2>2. set' \in BOOLEAN /\ (set => set')
    BY <2>1, Zenon
  <2> QED
    BY <2>1, <2>2
<1>9. CASE UNCHANGED vars
  BY <1>9 DEF vars
<1> QED
  BY <1>1, <1>2, <1>3, <1>5, <1>6, <1>7, <1>9 DEF Quiet

(* They reach the list, and a crash, only for the reasons there are.       *)
LEMMA QuietReasons ==
  ASSUME TypeOK, Places, DiesForAReason, Quiet, status = "running"
  PROVE  /\ pc' = "list" => cur.line.word \in Lists /\ (cur.line.word = "ls" => set')
         /\ DiesForAReason'
<1> USE QuietKeeps DEF TypeOK, Goto, Crash, Exit, Kept
<1>0. pc = "list" => cur.line.word \in Lists /\ (cur.line.word = "ls" => set)
  BY DEF Places
<1> HIDE DEF TypeOK
<1>1. CASE EndOfFile \/ Interrupt \/ Toggle \/ Simulate \/ Quit \/ Report \/ RunProgram \/ Help
  <2>1. /\ status' \in {status, "exited"} /\ UNCHANGED cache
        /\ pc' = "list" => pc = "list" /\ UNCHANGED set
    BY <1>1 DEF EndOfFile, Interrupt, Toggle, Simulate, Quit, Report, RunProgram, Help, Queueing, Dispatch
  <2> QED
    BY <1>0, <2>1 DEF DiesForAReason
<1>2. CASE PressTab
  BY <1>0, <1>2 DEF PressTab, ReadCache, DiesForAReason
<1>3. CASE PagerLeft
  BY <1>0, <1>3 DEF PagerLeft, Lists, DiesForAReason
<1>4. CASE ProgramEnds
  <2>1. status' = "running" \/ (status' = "crashed" /\ cache' = "freed")
    <3>1. PICK seen \in {cache, "stale"} :
            \/ check_a(seen)
            \/ Regenerate(IF seen = "stale" THEN "kept" ELSE seen)
            \/ cache' = seen /\ Goto("return")
      BY <1>4 DEF ProgramEnds
    <3> QED
      BY <3>1 DEF check_a, Regenerate
  <2>2. pc' = "list" => pc = "list" /\ UNCHANGED set
    BY <1>4, CacheTypes DEF ProgramEnds
  <2> QED
    BY <1>0, <2>1, <2>2 DEF DiesForAReason
<1>5. CASE List
  <2>1. /\ pc = "execute" /\ cur.line.word \in Lists
        /\ set' = (set \/ (cur.line.word = "ls" /\ status' = "running"))
        /\ \/ UNCHANGED status
           \/ cache \in {"none", "freed"} /\ status' = "crashed" /\ pc' = pc
        /\ UNCHANGED cache
    BY <1>5 DEF List, Dispatch, ReadCache, Lists
  <2>2. set' = (set \/ (cur.line.word = "ls" /\ status' = "running")) /\ status' = "running" =>
          (cur.line.word = "ls" => set')
    BY Zenon
  <2>3. pc' = "list" => cur.line.word \in Lists /\ (cur.line.word = "ls" => set')
    BY <2>1, <2>2
  <2>4. DiesForAReason'
    BY <2>1 DEF DiesForAReason
  <2> QED
    BY <2>3, <2>4
<1>6. CASE ListEnds
  BY <1>6, <1>0 DEF ListEnds, DiesForAReason
<1>7. CASE UNCHANGED vars
  BY <1>7, <1>0 DEF vars, DiesForAReason
<1> QED
  BY <1>1, <1>2, <1>3, <1>4, <1>5, <1>6, <1>7 DEF Quiet

LEMMA QuietInv ==
  ASSUME Inv006, Quiet, status = "running" \/ UNCHANGED vars
  PROVE  Inv006'
<1> USE QuietKeeps DEF Inv006, Kept
<1>1. CASE UNCHANGED vars
  <2> USE <1>1 DEF vars
  <2>1. TypeOK' /\ Places' /\ DiesForAReason'
    BY DEF TypeOK, Places, DiesForAReason
  <2>2. Ascending(items)' /\ Ahead' /\ Living'
    BY DEF Ascending, Ahead, Living, Nodes
  <2>3. AnswerIsTops'
    BY DEF AnswerIsTops, TopAnswers, Top
  <2>4. Removing'
    <3>1. ToRemove' = ToRemove /\ Ascending(listed)' = Ascending(listed)
      BY DEF ToRemove, Ascending
    <3> QED
      BY <3>1 DEF Removing
  <2> QED
    BY <2>1, <2>2, <2>3, <2>4
<1>2. CASE status = "running"
  <2>1. TypeOK'
    BY QuietTypes, QuietAnswers DEF TypeOK
  <2>2. Ascending(items)' /\ Ahead' /\ Living'
    BY DEF Ascending, Ahead, Living, Nodes
  <2>3. Places'
    BY <1>2, QuietTypes, QuietAnswers, QuietReasons DEF Places, Onward
  <2>4. AnswerIsTops'
    <3>1. use_realcmd' => use_realcmd
      BY QuietAnswers
    <3>2. TopAnswers' <=> TopAnswers
      BY DEF TopAnswers, Top
    <3>3. pc' = "fed" => use_realcmd'
      BY QuietAnswers, QuietTypes DEF AnswerIsTops, Onward
    <3> QED
      BY <1>2, <3>1, <3>2, <3>3 DEF AnswerIsTops
  <2>5. Removing'
    BY QuietTypes DEF Removing, ToRemove, Ascending, Onward
  <2>6. DiesForAReason'
    BY <1>2, QuietReasons
  <2> QED
    BY <2>1, <2>2, <2>3, <2>4, <2>5, <2>6
<1> QED
  BY <1>1, <1>2

-----------------------------------------------------------------------------
(* Lines that come in: typed, and stored. *)

(* An array by its length. *)
LEMMA Arrays ==
  ASSUME TypeOK
  PROVE  /\ Len(items) \in Nat /\ DOMAIN items = 1 .. Len(items)
         /\ Len(stack) \in Nat /\ DOMAIN stack = 1 .. Len(stack)
         /\ stack # <<>> => Len(stack) \in 1 .. Len(stack) /\ Top \in Frame
         /\ \A k \in DOMAIN items : items[k] \in Item
         /\ \A f \in DOMAIN stack : stack[f] \in Frame
  BY DEF TypeOK, Top

LEMMA InitInv == Init => Inv006
<1> SUFFICES ASSUME Init PROVE Inv006
  OBVIOUS
<1> USE DEF Init
<1>1. cur \in Item
  BY DEF NoItem, Typed, Item, Line, Words
<1>2. TypeOK
  <2>1. opts \in Option /\ StackLimit \in Nat
    BY Assumption006
  <2>2. items \in Seq(Item) /\ stack \in Seq(Frame) /\ listed \in Seq(Item) /\ Len(stack) = 0
    OBVIOUS
  <2>3. /\ DOMAIN items = {} /\ Len(stack) <= StackLimit
        /\ born \in Nat \ {0} /\ yes \in Nat /\ remove \subseteq DOMAIN items
    BY <2>1, <2>2
  <2>4. mode \in BOOLEAN /\ use_realcmd \in BOOLEAN /\ set \in BOOLEAN /\ torn \in BOOLEAN
    OBVIOUS
  <2>5. status \in {"running", "exited", "killed", "crashed"} /\ pc \in PCs /\ cache \in CacheStates
    BY DEF PCs, CacheStates
  <2> HIDE DEF Init
  <2> QED
    BY <1>1, <2>1, <2>2, <2>3, <2>4, <2>5 DEF TypeOK
<1>3. Ascending(items) /\ Ahead
  BY DEF Ascending, Ahead
<1>4. Places /\ AnswerIsTops /\ DiesForAReason /\ Removing
  BY DEF Places, AnswerIsTops, DiesForAReason, Removing
<1>5. Living
  BY DEF Living, NoItem, Typed
<1> QED
  BY <1>2, <1>3, <1>4, <1>5 DEF Inv006

LEMMA TypeLineInv ==
  ASSUME Inv006, TypeLine, status = "running"
  PROVE  Inv006'
<1> USE DEF Inv006
<1>1. PICK l \in Line : cur' = [node |-> 0, line |-> l]
  BY Assumption006 DEF TypeLine, Typed
<1>2. /\ pc = "prompt" /\ pc' = "execute" /\ status' = "running" /\ stack = <<>>
      /\ UNCHANGED <<opts, mode, items, born, remove, listed, stack, use_realcmd, yes, set, torn, cache>>
  BY DEF TypeLine, Goto, Places
<1>3. cur' \in Item /\ cur'.node = 0
  BY <1>1 DEF Item
<1>4. TypeOK'
  BY <1>2, <1>3 DEF TypeOK, PCs
<1>5. Ascending(items)' /\ Ahead' /\ Living'
  BY <1>2, <1>3 DEF Ascending, Ahead, Living
<1>6. Places' /\ AnswerIsTops' /\ DiesForAReason' /\ Removing'
  BY <1>2, <1>3 DEF Places, AnswerIsTops, TopAnswers, DiesForAReason, Removing
<1> QED
  BY <1>4, <1>5, <1>6

LEMMA StoreInv ==
  ASSUME Inv006, Store, status = "running"
  PROVE  Inv006'
<1> USE DEF Inv006
<1>1. /\ UNCHANGED <<opts, mode, cur, remove, listed, stack, yes, set, torn, cache>>
      /\ use_realcmd' = (use_realcmd /\ ~opts.simulate)
      /\ pc \in {"execute", "simulate"}
  BY DEF Store, Queueing
<1>2. use_realcmd' \in BOOLEAN /\ (use_realcmd' => use_realcmd)
  BY <1>1, Zenon
<1>3. \/ pc' = "return" /\ status' = "running"
      \/ cache \in {"none", "freed"} /\ status' = "crashed" /\ pc' = pc
  BY DEF Store, ReadCache, Goto, Crash
<1>4. AnswerIsTops'
  BY <1>1, <1>2, <1>3 DEF AnswerIsTops, TopAnswers, Top
<1>5. DiesForAReason'
  BY <1>1, <1>3 DEF DiesForAReason
<1>6. Removing'
  BY <1>1, <1>3 DEF Removing
<1>7. CASE status' = "crashed"
  <2>1. UNCHANGED <<items, born>> /\ pc' = pc
    BY <1>3, <1>7 DEF Store
  <2>2. TypeOK'
    BY <1>1, <1>2, <1>7, <2>1 DEF TypeOK
  <2>3. Ascending(items)' /\ Ahead' /\ Living' /\ Places'
    BY <1>1, <2>1 DEF Ascending, Ahead, Living, Nodes, Places
  <2> QED
    BY <1>4, <1>5, <1>6, <2>2, <2>3
<1>8. CASE status' = "running"
  <2> DEFINE it == [node |-> born, line |-> [cur.line EXCEPT !.lead = FALSE]]
  <2>1. it \in Item
    BY DEF TypeOK, Item, Line
  <2>2. items' = Append(items, it) /\ born' = born + 1
    BY <1>8 DEF Store
  <2>3. it.node = born
    OBVIOUS
  <2> HIDE DEF it
  <2>4. /\ items' \in Seq(Item)
        /\ DOMAIN items' = 1 .. (Len(items) + 1)
        /\ \A k \in DOMAIN items : items'[k] = items[k]
        /\ items'[Len(items) + 1].node = born
        /\ DOMAIN items = 1 .. Len(items) /\ Len(items) \in Nat
    BY <2>1, <2>2, <2>3 DEF TypeOK
  <2>5. \A k \in DOMAIN items' : items'[k].node \in 1 .. born
    BY <2>4 DEF TypeOK
  <2>6. TypeOK'
    <3>1. remove' \subseteq DOMAIN items'
      BY <1>1, <2>4 DEF TypeOK
    <3>2. born' \in Nat \ {0} /\ \A k \in DOMAIN items' : items'[k].node \in 1 .. (born' - 1)
      BY <2>2, <2>5 DEF TypeOK
    <3> QED
      BY <1>1, <1>2, <1>3, <1>8, <2>4, <3>1, <3>2 DEF TypeOK, PCs
  <2>7. Ascending(items)'
    BY <2>4 DEF Ascending, TypeOK
  <2>8. Ahead'
    <3> SUFFICES ASSUME NEW f \in DOMAIN stack
                 PROVE  /\ stack[f].ran < born'
                        /\ \A k \in DOMAIN items' : k > stack[f].at => items'[k].node > stack[f].ran
      BY <1>1 DEF Ahead
    <3>1. stack[f].ran < born /\ stack[f].ran \in Nat /\ born \in Nat
      BY Arrays DEF Ahead, TypeOK, Frame
    <3> QED
      BY <2>2, <2>4, <3>1 DEF Ahead
  <2>9. Living'
    BY <1>1, <2>4 DEF Living, Nodes
  <2>10. Places'
    BY <1>1, <1>3, <1>8 DEF Places
  <2> QED
    BY <1>4, <1>5, <1>6, <2>6, <2>7, <2>8, <2>9, <2>10
<1> QED
  BY <1>3, <1>7, <1>8

-----------------------------------------------------------------------------
(* Lines that leave: queue-clear and queue-remove. *)

LEMMA ClearInv ==
  ASSUME Inv006, Clear, status = "running"
  PROVE  Inv006'
<1> USE DEF Inv006
<1>1. /\ items' = <<>> /\ torn' = (stack # <<>>) /\ pc = "execute" /\ pc' = "return" /\ status' = "running"
      /\ UNCHANGED <<opts, mode, born, cur, remove, listed, stack, use_realcmd, yes, set, cache>>
  BY DEF Clear, Dispatch, Goto
<1>2. items' \in Seq(Item) /\ DOMAIN items' = {} /\ remove' = {}
  BY <1>1 DEF Places
<1>3. torn' \in BOOLEAN
  BY <1>1
<1>4. TypeOK'
  BY <1>1, <1>2, <1>3 DEF TypeOK, PCs
<1>5. Ascending(items)' /\ Ahead'
  BY <1>1, <1>2 DEF Ascending, Ahead
<1>6. Living'
  <2> SUFFICES ASSUME ~torn' PROVE Living'
    BY DEF Living
  <2>1. stack = <<>> /\ cur.node = 0
    BY <1>1 DEF Places
  <2> QED
    BY <1>1, <2>1 DEF Living
<1>7. Places' /\ DiesForAReason' /\ Removing'
  BY <1>1, <1>2 DEF Places, DiesForAReason, Removing
<1>8. AnswerIsTops'
  BY <1>1 DEF AnswerIsTops, TopAnswers, Top
<1> QED
  BY <1>4, <1>5, <1>6, <1>7, <1>8

(* queue-remove finds the numbers that its words name in the listing. *)
LEMMA NumbersAreNamed ==
  ASSUME TypeOK
  PROVE  Numbers(cur.line.args) =
           {n \in DOMAIN items : \E w \in DOMAIN cur.line.args : Names(cur.line.args[w], Len(items), n)}
<1> DEFINE words == cur.line.args
<1>1. words \in Seq(Arg)
  BY DEF TypeOK, Item, Line
<1>2. DOMAIN items = 1 .. Len(items) /\ Len(items) \in Nat
  BY Arrays
<1>3. Size(items) = Len(items)
  <2>1. Cardinality(1 .. Len(items)) = IF 1 > Len(items) THEN 0 ELSE Len(items) - 1 + 1
    BY <1>2, FS_Interval
  <2> QED
    BY <1>2, <2>1 DEF Size
<1> DEFINE IsNamed(a, n) == IF a.range THEN n \in Lo(items, a) .. Hi(items, a) ELSE n = Resolve(items, a.from)
<1>4. ASSUME NEW w \in DOMAIN words, NEW n \in DOMAIN items
      PROVE  IsNamed(words[w], n) <=> Names(words[w], Len(items), n)
  <2> DEFINE a == words[w]
  <2>1. a \in Arg
    BY <1>1
  <2>2. /\ a.from \in Int \cup {Last} /\ a.to \in Int \cup {Last}
        /\ Resolve(items, a.from) \in Int /\ Resolve(items, a.to) \in Int
    BY <1>2, <1>3, <2>1 DEF Arg, Value, Resolve
  <2>3. n \in Int
    BY <1>2
  <2> HIDE DEF a
  <2>4. ASSUME a.range PROVE IsNamed(a, n) <=> Names(a, Len(items), n)
    BY <1>3, <2>2, <2>3, <2>4 DEF Names, Lo, Hi, Resolve
  <2>5. ASSUME ~a.range PROVE IsNamed(a, n) <=> Names(a, Len(items), n)
    BY <1>3, <2>2, <2>3, <2>5 DEF Names, Resolve
  <2>6. IsNamed(a, n) <=> Names(a, Len(items), n)
    BY <2>4, <2>5
  <2> QED
    BY <2>6 DEF a
<1>5. Numbers(words) = {n \in DOMAIN items : \E w \in DOMAIN words : IsNamed(words[w], n)}
  BY DEF Numbers
<1> QED
  BY <1>4, <1>5

LEMMA StartRemoveInv ==
  ASSUME Inv006, StartRemove, status = "running"
  PROVE  Inv006'
<1> USE DEF Inv006
<1>1. /\ remove' = Numbers(cur.line.args) /\ listed' = items
      /\ pc = "execute" /\ pc' = "remove" /\ status' = "running"
      /\ UNCHANGED <<opts, mode, items, born, cur, stack, use_realcmd, yes, set, torn, cache>>
  BY DEF StartRemove, Dispatch, Goto
<1>2. remove' = ToRemove' /\ remove' \subseteq DOMAIN items
  BY <1>1, NumbersAreNamed DEF ToRemove
<1>3. TypeOK'
  BY <1>1, <1>2 DEF TypeOK, PCs
<1>4. Ascending(items)' /\ Ahead' /\ Living'
  BY <1>1 DEF Ascending, Ahead, Living, Nodes
<1>5. Places' /\ DiesForAReason'
  BY <1>1 DEF Places, DiesForAReason
<1>6. AnswerIsTops'
  BY <1>1 DEF AnswerIsTops, TopAnswers, Top
<1>7. Removing'
  <2>1. Ascending(listed)'
    BY <1>1 DEF Ascending
  <2>2. \A n \in remove' : \A k \in 1 .. n : k \in DOMAIN items' /\ items'[k] = listed'[k]
    BY <1>1, <1>2, Arrays
  <2>3. DOMAIN listed' \ (ToRemove' \ remove') = DOMAIN items'
    BY <1>1, <1>2
  <2>4. {items'[k] : k \in DOMAIN items'} = {listed'[n] : n \in DOMAIN listed' \ (ToRemove' \ remove')}
    BY <1>1, <2>3
  <2> QED
    BY <1>2, <2>1, <2>2, <2>4 DEF Removing
<1> QED
  BY <1>3, <1>4, <1>5, <1>6, <1>7

(* The array without number n. *)
LEMMA RemovedItems ==
  ASSUME TypeOK, Ascending(items), NEW n \in DOMAIN items
  PROVE  /\ Removed(n) \in Seq(Item)
         /\ Len(Removed(n)) = Len(items) - 1 /\ DOMAIN Removed(n) = 1 .. (Len(items) - 1)
         /\ \A k \in DOMAIN Removed(n) :
              /\ k < n => Removed(n)[k] = items[k]
              /\ k >= n => Removed(n)[k] = items[k + 1]
         /\ Ascending(Removed(n))
         /\ {Removed(n)[k] : k \in DOMAIN Removed(n)} = {items[k] : k \in DOMAIN items} \ {items[n]}
<1>1. /\ Len(items) \in Nat /\ DOMAIN items = 1 .. Len(items) /\ n \in 1 .. Len(items)
      /\ \A k \in DOMAIN items : items[k] \in Item /\ items[k].node \in Nat
  BY Arrays DEF Item
<1> DEFINE r == Removed(n)
<1>2. /\ DOMAIN r = 1 .. (Len(items) - 1)
      /\ \A k \in 1 .. (Len(items) - 1) : r[k] = IF k < n THEN items[k] ELSE items[k + 1]
  BY DEF Removed
<1>3. \A k \in 1 .. (Len(items) - 1) : k \in DOMAIN items /\ k + 1 \in DOMAIN items
  BY <1>1
<1>4. r \in Seq(Item) /\ Len(r) = Len(items) - 1
  <2>1. r = [k \in 1 .. (Len(items) - 1) |-> IF k < n THEN items[k] ELSE items[k + 1]]
    BY DEF Removed
  <2>2. \A k \in 1 .. (Len(items) - 1) : (IF k < n THEN items[k] ELSE items[k + 1]) \in Item
    BY <1>1, <1>3
  <2> QED
    BY <1>1, <2>1, <2>2
<1> HIDE DEF r
<1> DEFINE From(k) == IF k < n THEN k ELSE k + 1
<1>a. /\ \A k \in DOMAIN r : From(k) \in DOMAIN items /\ From(k) # n /\ r[k] = items[From(k)]
      /\ \A j, k \in DOMAIN r : j < k => From(j) < From(k)
  BY <1>1, <1>2
<1> HIDE DEF From
<1>5. Ascending(r)
  BY <1>a DEF Ascending
<1>6. {r[k] : k \in DOMAIN r} = {items[k] : k \in DOMAIN items} \ {items[n]}
  <2>1. ASSUME NEW k \in DOMAIN r
        PROVE  \E j \in DOMAIN items : j # n /\ r[k] = items[j]
    BY <1>a
  <2>2. ASSUME NEW j \in DOMAIN items, j # n
        PROVE  \E k \in DOMAIN r : r[k] = items[j]
    <3>1. CASE j < n
      BY <1>1, <1>2, <2>2, <3>1
    <3>2. CASE j > n
      <4>1. j - 1 \in DOMAIN r /\ ~(j - 1 < n) /\ (j - 1) + 1 = j
        BY <1>1, <1>2, <3>2
      <4> QED
        BY <1>2, <4>1
    <3> QED
      BY <1>1, <2>2, <3>1, <3>2
  <2>3. \A j \in DOMAIN items : j # n => items[j] # items[n]
    <3> SUFFICES ASSUME NEW j \in DOMAIN items, j # n PROVE items[j].node # items[n].node
      OBVIOUS
    <3>1. j < n => items[j].node < items[n].node
      BY DEF Ascending
    <3>2. n < j => items[n].node < items[j].node
      BY DEF Ascending
    <3> QED
      BY <1>1, <3>1, <3>2
  <2> QED
    BY <2>1, <2>2, <2>3
<1>7. \A k \in DOMAIN r : (k < n => r[k] = items[k]) /\ (k >= n => r[k] = items[k + 1])
  BY <1>1, <1>2
<1> QED
  BY <1>2, <1>4, <1>5, <1>6, <1>7 DEF r

LEMMA RemoveItemInv ==
  ASSUME Inv006, RemoveItem, status = "running"
  PROVE  Inv006'
<1> USE DEF Inv006
<1>1. PICK n \in DOMAIN items :
        /\ n \in remove /\ \A k \in remove : k <= n
        /\ items' = Removed(n) /\ remove' = remove \ {n}
  BY DEF RemoveItem, IsTurn
<1>2. /\ pc = "remove" /\ torn' = (stack # <<>>)
      /\ UNCHANGED <<status, pc, opts, mode, born, cur, listed, stack, use_realcmd, yes, set, cache>>
  BY DEF RemoveItem
<1> DEFINE size == Len(items)
<1>3. /\ size \in Nat /\ DOMAIN items = 1 .. size /\ n \in 1 .. size
      /\ \A k \in DOMAIN items : items[k] \in Item /\ items[k].node \in 1 .. (born - 1)
      /\ remove \subseteq 1 .. size /\ born \in Nat
  BY Arrays DEF TypeOK
<1>4. /\ items' \in Seq(Item) /\ DOMAIN items' = 1 .. (size - 1)
      /\ \A k \in DOMAIN items' : /\ k < n => items'[k] = items[k]
                                  /\ k >= n => items'[k] = items[k + 1]
      /\ Ascending(items')
      /\ {items'[k] : k \in DOMAIN items'} = {items[k] : k \in DOMAIN items} \ {items[n]}
  <2>1. /\ Removed(n) \in Seq(Item) /\ DOMAIN Removed(n) = 1 .. (size - 1)
        /\ \A k \in DOMAIN Removed(n) :
             /\ k < n => Removed(n)[k] = items[k]
             /\ k >= n => Removed(n)[k] = items[k + 1]
        /\ Ascending(Removed(n))
        /\ {Removed(n)[k] : k \in DOMAIN Removed(n)} = {items[k] : k \in DOMAIN items} \ {items[n]}
    BY RemovedItems
  <2>2. items' = Removed(n)
    BY <1>1
  <2>3. items' \in Seq(Item) /\ DOMAIN items' = 1 .. (size - 1)
    BY <2>1, <2>2
  <2>4. \A k \in DOMAIN items' : /\ k < n => items'[k] = items[k]
                                 /\ k >= n => items'[k] = items[k + 1]
    BY <2>1, <2>2
  <2>5. Ascending(items')
    BY <2>1, <2>2
  <2>6. {items'[k] : k \in DOMAIN items'} = {items[k] : k \in DOMAIN items} \ {items[n]}
    BY <2>1, <2>2
  <2> QED
    BY <2>3, <2>4, <2>5, <2>6
<1> HIDE DEF size
<1>5. \A k \in DOMAIN items' : \E j \in DOMAIN items : j >= k /\ items'[k] = items[j]
  BY <1>3, <1>4, SMTT(30)
<1>6. \A k \in remove' : k \in remove /\ k < n
  BY <1>1, <1>3
<1>7. \A m \in remove' : m \in 1 .. (size - 1) /\ m \in DOMAIN items'
  <2> SUFFICES ASSUME NEW m \in remove' PROVE m \in 1 .. (size - 1)
    BY <1>4
  <2>1. m \in 1 .. size /\ m < n
    BY <1>3, <1>6
  <2> QED
    BY <1>3, <2>1
<1>14. TypeOK'
  <2>1. \A k \in DOMAIN items' : items'[k].node \in 1 .. (born - 1)
    BY <1>3, <1>5
  <2>2. remove' \subseteq DOMAIN items'
    BY <1>7
  <2>3. torn' \in BOOLEAN
    BY <1>2
  <2> QED
    BY <1>2, <1>4, <2>1, <2>2, <2>3 DEF TypeOK
<1>8. Ascending(items)'
  BY <1>4 DEF Ascending
<1>9. Ahead'
  <2> SUFFICES ASSUME NEW f \in DOMAIN stack, NEW k \in DOMAIN items', k > stack[f].at
               PROVE  items'[k].node > stack[f].ran
    BY <1>2 DEF Ahead
  <2>1. PICK j \in DOMAIN items : j >= k /\ items'[k] = items[j]
    BY <1>5
  <2>2. stack[f].at \in Nat /\ k \in Nat /\ j \in Nat
    BY <1>3, <1>4, Arrays DEF Frame
  <2>3. j > stack[f].at
    BY <2>1, <2>2
  <2> QED
    BY <2>1, <2>3 DEF Ahead
<1>10. Living'
  <2> SUFFICES ASSUME ~torn' PROVE Living'
    BY DEF Living
  <2>1. stack = <<>> /\ cur.node = 0
    BY <1>2 DEF Places
  <2> QED
    BY <1>2, <2>1 DEF Living
<1>11. Places' /\ DiesForAReason'
  BY <1>2 DEF Places, DiesForAReason
<1>12. AnswerIsTops'
  BY <1>2 DEF AnswerIsTops, TopAnswers, Top
<1>13. Removing'
  <2>1. /\ Ascending(listed) /\ remove \subseteq ToRemove /\ ToRemove' = ToRemove
        /\ \A m \in remove : \A k \in 1 .. m : k \in DOMAIN items /\ items[k] = listed[k]
        /\ {items[k] : k \in DOMAIN items} = {listed[m] : m \in DOMAIN listed \ (ToRemove \ remove)}
    BY <1>2 DEF Removing, ToRemove
  <2>2. Ascending(listed)' /\ remove' \subseteq ToRemove'
    BY <1>1, <1>2, <2>1 DEF Ascending
  <2>3. \A m \in remove' : \A k \in 1 .. m : k \in DOMAIN items' /\ items'[k] = listed'[k]
    <3> SUFFICES ASSUME NEW m \in remove', NEW k \in 1 .. m
                 PROVE  k \in DOMAIN items' /\ items'[k] = listed[k]
      BY <1>2
    <3>1. m \in 1 .. (size - 1) /\ m < n /\ m \in remove
      BY <1>6, <1>7
    <3>2. k \in 1 .. (size - 1) /\ k < n /\ items[k] = listed[k]
      BY <1>3, <2>1, <3>1
    <3> QED
      BY <1>4, <3>2
  <2>4. n \in DOMAIN listed /\ n \in ToRemove /\ items[n] = listed[n]
    BY <1>1, <1>3, <2>1 DEF ToRemove
  <2>5. \A m \in DOMAIN listed : m # n => listed[m] # listed[n]
    <3> SUFFICES ASSUME NEW m \in DOMAIN listed, m # n PROVE listed[m].node # listed[n].node
      OBVIOUS
    <3>1. /\ m \in Nat /\ n \in Nat
          /\ listed[m] \in Item /\ listed[n] \in Item
      BY <2>4 DEF TypeOK
    <3>2. listed[m].node \in Nat /\ listed[n].node \in Nat
      BY <3>1 DEF Item
    <3>3. m < n => listed[m].node < listed[n].node
      BY <2>1, <2>4 DEF Ascending
    <3>4. n < m => listed[n].node < listed[m].node
      BY <2>1, <2>4 DEF Ascending
    <3> QED
      BY <3>1, <3>2, <3>3, <3>4
  <2>6. DOMAIN listed \ (ToRemove \ remove') = (DOMAIN listed \ (ToRemove \ remove)) \ {n}
    BY <1>1, <2>4
  <2>7. {listed[m] : m \in DOMAIN listed \ (ToRemove \ remove')} =
        {listed[m] : m \in DOMAIN listed \ (ToRemove \ remove)} \ {listed[n]}
    BY <2>5, <2>6
  <2>8. {items'[k] : k \in DOMAIN items'} = {listed'[m] : m \in DOMAIN listed' \ (ToRemove' \ remove')}
    <3>1. {listed'[m] : m \in DOMAIN listed' \ (ToRemove' \ remove')} =
          {listed[m] : m \in DOMAIN listed \ (ToRemove \ remove')}
      BY <1>2, <2>1, Zenon
    <3>2. {items'[k] : k \in DOMAIN items'} = {items[k] : k \in DOMAIN items} \ {listed[n]}
      BY <1>4, <2>4, Zenon
    <3> QED
      BY <2>1, <2>7, <3>1, <3>2, Zenon
  <2> QED
    BY <2>2, <2>3, <2>8 DEF Removing
<1> QED
  BY <1>8, <1>9, <1>10, <1>11, <1>12, <1>13, <1>14

LEMMA EndRemoveInv ==
  ASSUME Inv006, EndRemove, status = "running"
  PROVE  Inv006'
<1> USE DEF Inv006
<1>1. /\ pc = "remove" /\ pc' = "return" /\ remove = {} /\ listed' = <<>> /\ status' = "running"
      /\ UNCHANGED <<opts, mode, items, born, cur, remove, stack, use_realcmd, yes, set, torn, cache>>
  BY DEF EndRemove, Goto
<1>2. TypeOK'
  BY <1>1 DEF TypeOK, PCs
<1>3. Ascending(items)' /\ Ahead' /\ Living'
  BY <1>1 DEF Ascending, Ahead, Living, Nodes
<1>4. Places' /\ DiesForAReason' /\ Removing'
  BY <1>1 DEF Places, DiesForAReason, Removing
<1>5. AnswerIsTops'
  BY <1>1 DEF AnswerIsTops, TopAnswers, Top
<1> QED
  BY <1>2, <1>3, <1>4, <1>5

-----------------------------------------------------------------------------
(* The loops of the commits. *)

LEMMA StartCommitInv ==
  ASSUME Inv006, StartCommit, status = "running"
  PROVE  Inv006'
<1> USE DEF Inv006
<1>1. /\ pc = "execute" /\ items # <<>> /\ cur.line.word \in CommitWords
      /\ yes' = (IF Says THEN cur.node ELSE yes) /\ use_realcmd' = Says /\ set' = (set \/ Says)
      /\ UNCHANGED <<opts, mode, items, born, remove, listed, torn, cache>>
  BY DEF StartCommit, BeginCommit, Dispatch, CommitWords
<1>2. /\ Says \in BOOLEAN /\ set' \in BOOLEAN /\ cur.node \in Nat
      /\ yes' \in Nat /\ (Says => yes' = cur.node)
  <2>1. Says \in BOOLEAN
    BY DEF Says
  <2>2. set' \in BOOLEAN
    BY <1>1, Zenon
  <2>3. cur.node \in Nat /\ yes \in Nat
    BY DEF TypeOK, Item
  <2> QED
    BY <1>1, <2>1, <2>2, <2>3
<1> HIDE DEF Says
<1>3. /\ Len(items) \in Nat \ {0} /\ 1 \in DOMAIN items /\ DOMAIN items = 1 .. Len(items)
      /\ items[1] \in Item /\ items[1].node \in 1 .. (born - 1) /\ born \in Nat
  <2>1. Len(items) # 0
    BY <1>1 DEF TypeOK
  <2> QED
    BY <2>1, Arrays DEF TypeOK
<1>4. CASE Len(stack) < StackLimit
  <2> DEFINE f == [at |-> 1, ran |-> items[1].node, says |-> Says, from |-> cur.node]
  <2>1. f \in Frame
    <3>1. 1 \in Nat \ {0} /\ items[1].node \in Nat /\ cur.node \in Nat /\ Says \in BOOLEAN
      BY <1>2, <1>3
    <3> QED
      BY <3>1, Zenon DEF Frame
  <2>2. stack' = Append(stack, f) /\ cur' = items[1] /\ pc' = "execute" /\ status' = "running"
    BY <1>4 DEF StartCommit, Goto
  <2>3. f.at = 1 /\ f.ran = items[1].node /\ f.says = Says /\ f.from = cur.node
    OBVIOUS
  <2> HIDE DEF f
  <2>4. /\ stack' \in Seq(Frame) /\ Len(stack') = Len(stack) + 1 /\ stack' # <<>>
        /\ stack'[Len(stack')] = f
        /\ \A k \in DOMAIN stack' : (k \in DOMAIN stack /\ stack'[k] = stack[k]) \/ stack'[k] = f
    <3>1. stack \in Seq(Frame)
      BY DEF TypeOK
    <3> HIDE DEF Inv006
    <3>2. stack' \in Seq(Frame) /\ Len(stack') = Len(stack) + 1 /\ Len(stack) \in Nat
      BY <2>1, <2>2, <3>1
    <3>3. stack' # <<>> /\ stack'[Len(stack')] = f
      BY <2>1, <2>2, <3>1, <3>2
    <3>4. \A k \in DOMAIN stack' : (k \in DOMAIN stack /\ stack'[k] = stack[k]) \/ stack'[k] = f
      BY <2>1, <2>2, <3>1, <3>2
    <3> QED
      BY <3>2, <3>3, <3>4
  <2>5. TypeOK'
    <3>1. Len(stack') <= StackLimit
      BY <1>4, <2>4, Arrays, Assumption006
    <3>2. items' \in Seq(Item) /\ cur' \in Item /\ use_realcmd' \in BOOLEAN
      BY <1>1, <1>2, <1>3, <2>2 DEF TypeOK
    <3> QED
      BY <1>1, <1>2, <2>2, <2>4, <3>1, <3>2 DEF TypeOK, PCs
  <2>6. Ascending(items)'
    BY <1>1 DEF Ascending
  <2>7. Ahead'
    <3>1. f.ran < born /\ \A k \in DOMAIN items : k > f.at => items[k].node > f.ran
      BY <1>3, <2>3, SMTT(30) DEF Ascending, TypeOK
    <3> QED
      BY <1>1, <2>4, <3>1 DEF Ahead
  <2>8. Living'
    <3> SUFFICES ASSUME ~torn PROVE Living'
      BY <1>1 DEF Living
    <3>1. cur'.node \in Nodes /\ Nodes' = Nodes
      BY <1>1, <1>3, <2>2 DEF Nodes
    <3>2. f.from \in {0} \cup Nodes /\ \A k \in DOMAIN stack : stack[k].from \in {0} \cup Nodes
      BY <2>3 DEF Living
    <3> QED
      BY <2>4, <3>1, <3>2 DEF Living
  <2>9. Places'
    BY <1>1, <1>3, <2>2, <2>4 DEF Places
  <2>10. AnswerIsTops'
    BY <1>1, <1>2, <2>2, <2>3, <2>4 DEF AnswerIsTops, TopAnswers, Top
  <2>11. DiesForAReason' /\ Removing'
    BY <2>2 DEF DiesForAReason, Removing
  <2> QED
    BY <2>5, <2>6, <2>7, <2>8, <2>9, <2>10, <2>11
<1>5. CASE ~(Len(stack) < StackLimit)
  <2>1. UNCHANGED <<stack, cur, pc>> /\ status' = "crashed"
    BY <1>5 DEF StartCommit, Crash
  <2>2. stack # <<>>
    BY <1>5, Assumption006 DEF TypeOK
  <2>3. PICK k \in DOMAIN items : items[k] = cur
    BY <1>1, <2>2 DEF Places
  <2>4. TypeOK'
    BY <1>1, <1>2, <2>1 DEF TypeOK
  <2>5. Ascending(items)' /\ Ahead' /\ Living'
    BY <1>1, <2>1 DEF Ascending, Ahead, Living, Nodes
  <2>6. Places' /\ AnswerIsTops' /\ Removing'
    BY <1>1, <2>1, <2>2 DEF Places, AnswerIsTops, Removing
  <2>7. DiesForAReason'
    BY <1>1, <2>1, <2>3 DEF DiesForAReason
  <2> QED
    BY <2>4, <2>5, <2>6, <2>7
<1> QED
  BY <1>4, <1>5

LEMMA CommitNothingInv ==
  ASSUME Inv006, CommitNothing, status = "running"
  PROVE  Inv006'
<1> USE DEF Inv006
<1>1. /\ pc = "execute" /\ pc' = "return" /\ status' = "running" /\ use_realcmd' = FALSE
      /\ yes' = (IF Says THEN cur.node ELSE yes) /\ set' = (set \/ Says)
      /\ UNCHANGED <<opts, mode, items, born, cur, remove, listed, stack, torn, cache>>
  BY DEF CommitNothing, Dispatch, Goto
<1>2. set' \in BOOLEAN
  BY <1>1, Zenon
<1>3. yes' \in Nat
  BY <1>1 DEF TypeOK, Item
<1>4. TypeOK'
  BY <1>1, <1>2, <1>3 DEF TypeOK, PCs
<1>5. Ascending(items)' /\ Ahead' /\ Living'
  BY <1>1 DEF Ascending, Ahead, Living, Nodes
<1>6. Places' /\ AnswerIsTops' /\ DiesForAReason' /\ Removing'
  BY <1>1 DEF Places, AnswerIsTops, DiesForAReason, Removing
<1> QED
  BY <1>4, <1>5, <1>6

LEMMA NextItemInv ==
  ASSUME Inv006, NextItem, status = "running"
  PROVE  Inv006' /\ stack'[Len(stack)].ran > Top.ran
<1> USE DEF Inv006
<1> DEFINE n == Top.at + 1
<1>1. /\ pc = "return" /\ stack # <<>> /\ Top.at < Len(items) /\ cur' = items[n]
      /\ pc' = "execute" /\ status' = "running"
      /\ UNCHANGED <<opts, mode, items, born, remove, listed, use_realcmd, yes, set, torn, cache>>
  BY DEF NextItem, InCommit, Goto
<1>2. Top \in Frame /\ Len(stack) \in DOMAIN stack /\ DOMAIN stack = 1 .. Len(stack)
  BY <1>1, Arrays
<1>3. /\ Top.at \in Nat \ {0} /\ n \in DOMAIN items /\ n > Top.at
      /\ items[n] \in Item /\ items[n].node \in 1 .. (born - 1) /\ born \in Nat
  BY <1>1, <1>2, Arrays DEF Frame, TypeOK
<1> DEFINE f == [Top EXCEPT !.at = n, !.ran = items[n].node]
<1>4. /\ f \in Frame
      /\ f.at = n /\ f.ran = items[n].node /\ f.says = Top.says /\ f.from = Top.from
  <2>1. n \in Nat \ {0} /\ items[n].node \in Nat
    BY <1>3
  <2> HIDE DEF n
  <2>2. f \in Frame
    BY <1>2, <2>1 DEF Frame
  <2>3. f.at = n /\ f.ran = items[n].node /\ f.says = Top.says /\ f.from = Top.from
    BY <1>2 DEF Frame
  <2> QED
    BY <2>2, <2>3
<1>5. stack' = [stack EXCEPT ![Len(stack)] = f]
  BY DEF NextItem
<1> HIDE DEF n, f
<1>6. /\ stack' \in Seq(Frame) /\ Len(stack') = Len(stack) /\ stack' # <<>>
      /\ stack'[Len(stack')] = f
      /\ \A k \in DOMAIN stack' : (k \in DOMAIN stack /\ stack'[k] = stack[k]) \/ stack'[k] = f
  BY <1>1, <1>2, <1>4, <1>5 DEF TypeOK
<1>7. TypeOK'
  BY <1>1, <1>3, <1>6 DEF TypeOK, PCs
<1>8. Ascending(items)'
  BY <1>1 DEF Ascending
<1>9. Ahead'
  <2>1. f.ran < born
    BY <1>3, <1>4
  <2>2. \A k \in DOMAIN items : k > f.at => items[k].node > f.ran
    BY <1>3, <1>4, Arrays DEF Ascending, TypeOK
  <2> QED
    BY <1>1, <1>6, <2>1, <2>2 DEF Ahead
<1>10. Living'
  <2> SUFFICES ASSUME ~torn PROVE Living'
    BY <1>1 DEF Living
  <2>1. cur'.node \in Nodes /\ Nodes' = Nodes
    BY <1>1, <1>3 DEF Nodes
  <2>2. f.from \in {0} \cup Nodes /\ \A k \in DOMAIN stack : stack[k].from \in {0} \cup Nodes
    BY <1>2, <1>4 DEF Living, Top
  <2> QED
    BY <1>6, <2>1, <2>2 DEF Living
<1>11. Places'
  BY <1>1, <1>3, <1>6 DEF Places
<1>12. AnswerIsTops'
  BY <1>1, <1>4, <1>6 DEF AnswerIsTops, TopAnswers, Top
<1>13. DiesForAReason' /\ Removing'
  BY <1>1 DEF DiesForAReason, Removing
<1>14. stack'[Len(stack)].ran > Top.ran
  BY <1>2, <1>3, <1>4, <1>6 DEF Ahead, Top
<1> QED
  BY <1>7, <1>8, <1>9, <1>10, <1>11, <1>12, <1>13, <1>14

LEMMA EndCommitInv ==
  ASSUME Inv006, EndCommit, status = "running"
  PROVE  Inv006'
<1> USE DEF Inv006
<1>1. /\ pc = "return" /\ stack # <<>> /\ stack' = Popped
      /\ use_realcmd' = (use_realcmd /\ ~Top.says) /\ pc' = "return" /\ status' = "running"
      /\ UNCHANGED <<opts, mode, items, born, cur, remove, listed, yes, set, torn, cache>>
  BY DEF EndCommit, InCommit, Goto
<1>2. ~use_realcmd'
  BY <1>1 DEF AnswerIsTops, TopAnswers
<1>3. use_realcmd' \in BOOLEAN
  BY <1>1, Zenon
<1>4. /\ stack' \in Seq(Frame) /\ Len(stack') <= StackLimit
      /\ \A k \in DOMAIN stack' : k \in DOMAIN stack /\ stack'[k] = stack[k]
  BY <1>1, Assumption006 DEF TypeOK, Popped
<1>5. TypeOK'
  BY <1>1, <1>3, <1>4 DEF TypeOK, PCs
<1>6. Ascending(items)' /\ Ahead' /\ Living'
  BY <1>1, <1>4 DEF Ascending, Ahead, Living, Nodes
<1>7. Places' /\ AnswerIsTops' /\ DiesForAReason' /\ Removing'
  BY <1>1, <1>2 DEF Places, AnswerIsTops, DiesForAReason, Removing
<1> QED
  BY <1>5, <1>6, <1>7

LEMMA FinishInv ==
  ASSUME Inv006, Finish, status = "running"
  PROVE  Inv006'
<1> USE DEF Inv006
<1>1. /\ pc = "return" /\ stack = <<>> /\ torn' = FALSE /\ cur' = NoItem
      /\ pc' = "prompt" /\ status' = "running"
      /\ UNCHANGED <<opts, mode, items, born, remove, listed, stack, use_realcmd, yes, set, cache>>
  BY DEF Finish, Goto
<1>2. cur' \in Item /\ cur'.node = 0
  BY <1>1 DEF NoItem, Typed, Item, Line, Words
<1>3. TypeOK'
  BY <1>1, <1>2 DEF TypeOK, PCs
<1>4. Ascending(items)' /\ Ahead' /\ Living'
  BY <1>1, <1>2 DEF Ascending, Ahead, Living
<1>5. Places' /\ DiesForAReason' /\ Removing'
  BY <1>1 DEF Places, DiesForAReason, Removing
<1>6. AnswerIsTops'
  BY <1>1 DEF AnswerIsTops, TopAnswers
<1> QED
  BY <1>3, <1>4, <1>5, <1>6

-----------------------------------------------------------------------------
LEMMA NextInv == Inv006 /\ [Next]_vars => Inv006'
<1> SUFFICES ASSUME Inv006, [Next]_vars PROVE Inv006'
  OBVIOUS
<1>1. CASE UNCHANGED vars
  BY <1>1, QuietInv DEF Quiet
<1>2. CASE status = "running" /\ User
  BY <1>2, QuietInv, TypeLineInv DEF User, Quiet
<1>3. CASE status = "running" /\ Program
  BY <1>3, QuietInv, StoreInv, ClearInv, StartRemoveInv, RemoveItemInv, EndRemoveInv,
     StartCommitInv, CommitNothingInv, NextItemInv, EndCommitInv, FinishInv DEF Program, Quiet
<1> QED
  BY <1>1, <1>2, <1>3 DEF Next, Over

(* The inductive invariant holds. *)
THEOREM Invariance006 == Spec => []Inv006
  BY InitInv, NextInv, PTL DEF Spec

(* Every variable keeps its type, and the array its order. *)
THEOREM TypeCorrect006 == Spec => []TypeOK
<1>1. Inv006 => TypeOK
  BY DEF Inv006
<1> QED
  BY <1>1, Invariance006, PTL

(* Programs are fed with the answer of the innermost queue-commit-say. *)
THEOREM InnermostAnswers == Spec => []FeedsTheInnermost
<1>1. Inv006 => FeedsTheInnermost
  BY DEF Inv006, AnswerIsTops, TopAnswers, FeedsTheInnermost
<1> QED
  BY <1>1, Invariance006, PTL

(* The answer is not freed under a program that is fed with it. *)
THEOREM AnswersAreAlive == Spec => []FeedsALivingLine
<1>1. Inv006 => FeedsALivingLine
  <2> SUFFICES ASSUME Inv006, pc = "fed", ~torn PROVE yes \in {0} \cup Nodes
    BY DEF FeedsALivingLine
  <2>1. stack # <<>> /\ yes = Top.from
    BY DEF Inv006, AnswerIsTops, TopAnswers
  <2>2. Len(stack) \in DOMAIN stack
    BY <2>1, Arrays DEF Inv006
  <2> QED
    BY <2>1, <2>2 DEF Inv006, Living, Top
<1> QED
  BY <1>1, Invariance006, PTL

(* queue-remove removes the lines that the listing gave these numbers. *)
THEOREM ListedIsRemoved == Spec => []RemovesWhatIsListed
<1>1. Inv006 => RemovesWhatIsListed
  <2> SUFFICES ASSUME Inv006, pc = "remove", remove = {} PROVE RemovesWhatIsListed
    BY DEF RemovesWhatIsListed
  <2>1. DOMAIN listed \ (ToRemove \ remove) =
        {n \in DOMAIN listed : \A w \in DOMAIN cur.line.args : ~Names(cur.line.args[w], Len(listed), n)}
    BY DEF ToRemove
  <2> QED
    BY <2>1 DEF Inv006, Removing, Ascending, RemovesWhatIsListed
<1> QED
  BY <1>1, Invariance006, PTL

(* A session ends by the user's will or for one of four reasons. *)
THEOREM DeathsHaveReasons == Spec => []DiesForAReason
<1>1. Inv006 => DiesForAReason
  BY DEF Inv006
<1> QED
  BY <1>1, Invariance006, PTL

(* Of the steps between two commands of a loop only i++ stays in it. *)
LEMMA OnlyNextItem ==
  ASSUME Inv006, Next, InCommit, pc' = "execute"
  PROVE  NextItem /\ status = "running"
<1>1. pc = "return" /\ stack # <<>>
  BY DEF InCommit
<1>2. ~Quiet
  <2> SUFFICES ASSUME Quiet PROVE FALSE
    OBVIOUS
  <2> QED
    BY <1>1, QuietTypes DEF Inv006, Onward
<1> QED
  BY <1>1, <1>2 DEF Next, Over, Quiet, User, Program, TypeLine, Store, Queueing, Clear, StartRemove,
       RemoveItem, EndRemove, StartCommit, CommitNothing, EndCommit, Finish, Dispatch, Goto

(* Whatever the lines erase, a loop comes to each item once at most. *)
THEOREM NothingRunsTwice == Spec => NeverRunsTwice
<1>1. Inv006 /\ [Next]_vars => [InCommit /\ pc' = "execute" => stack'[Len(stack)].ran > Top.ran]_vars
  BY OnlyNextItem, NextItemInv DEF vars
<1> QED
  BY <1>1, Invariance006, PTL DEF Spec, NeverRunsTwice

-----------------------------------------------------------------------------
(* Release 0.0.6 implements QueuePromise as long as no queue command is    *)
(* stored and none has erased a line under a commit: Keeping is an         *)
(* invariant, and by it every step of the session is a step of the promise *)
(* or a stutter.                                                           *)

(* What the steps do to the queue and the loops over it. *)

LEMMA QuietModes ==
  ASSUME TypeOK, Quiet
  PROVE  /\ mode' = mode \/ (Toggle /\ mode' = ~mode)
         /\ pc' = "simulate" => pc = "simulate" \/ Simulate
<1> USE DEF Goto, Crash, Exit
<1>1. CASE EndOfFile \/ PressTab \/ Interrupt \/ PagerLeft
  BY <1>1 DEF EndOfFile, PressTab, Interrupt, PagerLeft, ReadCache
<1>2. CASE Toggle
  BY <1>2 DEF Toggle
<1>3. CASE Simulate
  BY <1>3 DEF Simulate
<1>4. CASE Quit \/ Report \/ Help
  BY <1>4 DEF Quit, Report, Help
<1>5. CASE RunProgram
  BY <1>5 DEF RunProgram
<1>6. CASE ProgramEnds
  BY <1>6, CacheTypes DEF ProgramEnds
<1>7. CASE List \/ ListEnds
  BY <1>7 DEF List, ListEnds, ReadCache
<1>8. CASE UNCHANGED vars
  BY <1>8 DEF vars
<1> QED
  BY <1>1, <1>2, <1>3, <1>4, <1>5, <1>6, <1>7, <1>8 DEF Quiet

(* A line under execute() within a commit is an item of the queue.         *)
LEMMA CommittedLine ==
  ASSUME Inv006, stack # <<>>, pc = "execute"
  PROVE  \E k \in DOMAIN items : items[k] = cur
  BY DEF Inv006, Places

LEMMA InitKeeps == Init => Keeping
  BY DEF Init, Keeping

LEMMA QuietKeeping ==
  ASSUME Inv006, Keeping, Quiet
  PROVE  Keeping'
<1>1. UNCHANGED <<items, cur, stack, torn>>
  BY QuietKeeps DEF Kept
<1>2. Onward /\ (mode' = mode \/ (Toggle /\ mode' = ~mode))
      /\ (pc' = "simulate" => pc = "simulate" \/ Simulate)
  BY QuietTypes, QuietModes DEF Inv006
<1>3. Toggle => stack = <<>> /\ pc = "execute" /\ pc' = "return"
  BY CommittedLine DEF Toggle, Goto, Keeping
<1>4. mode' => stack' = <<>>
  BY <1>1, <1>2, <1>3 DEF Keeping
<1>5. mode' /\ pc' = "execute" => cur'.line \in QueuedLines
  BY <1>1, <1>2, <1>3 DEF Keeping, Onward
<1>6. pc' = "simulate" => mode' /\ cur'.line \in QueuedLines /\ cur'.line.word # "backtick"
  BY <1>1, <1>2, <1>3 DEF Keeping, Simulate, Queueing
<1>7. pc' = "remove" => pc = "remove" /\ mode' = mode
  BY <1>2, <1>3 DEF Onward
<1> QED
  BY <1>1, <1>4, <1>5, <1>6, <1>7 DEF Keeping

LEMMA StoreKeeping ==
  ASSUME Inv006, Keeping, Store, status = "running"
  PROVE  /\ Keeping'
         /\ mode /\ stack = <<>> /\ UNCHANGED <<mode, stack, torn>>
         /\ \/ status' = "crashed" /\ UNCHANGED items
            \/ /\ status' = status
               /\ \E l \in QueuedLines :
                    items' = Append(items, [node |-> born, line |-> [l EXCEPT !.lead = FALSE]])
<1>1. UNCHANGED <<mode, cur, stack, torn>>
  BY DEF Store
<1>2. /\ mode /\ cur.line \in QueuedLines /\ cur.line.word # "backtick"
      /\ pc \in {"execute", "simulate"}
  <2>1. CASE Queueing
    BY <2>1 DEF Queueing, Keeping
  <2>2. CASE pc = "simulate"
    BY <2>2 DEF Keeping
  <2> QED
    BY <2>1, <2>2 DEF Store
<1>3. stack = <<>>
  BY <1>2 DEF Keeping
<1>4. \/ pc' = "return" /\ status' = status
      \/ status' = "crashed" /\ pc' = pc
  BY DEF Store, ReadCache, Goto, Crash
<1>5. \/ status' = "crashed" /\ UNCHANGED items /\ pc' = pc
      \/ /\ status' = status /\ pc' \in {"return", "execute", "simulate"}
         /\ items' = Append(items, [node |-> born, line |-> [cur.line EXCEPT !.lead = FALSE]])
  BY <1>2, <1>4 DEF Store
<1>6. \A k \in DOMAIN items' : items'[k].line.word # "backtick"
  <2> DEFINE it == [node |-> born, line |-> [cur.line EXCEPT !.lead = FALSE]]
  <2>1. it \in Item /\ it.line.word # "backtick"
    BY <1>2 DEF Inv006, TypeOK, Item, Line
  <2>2. items \in Seq(Item)
    BY DEF Inv006, TypeOK
  <2>3. UNCHANGED items \/ items' = Append(items, it)
    BY <1>5
  <2> HIDE DEF it
  <2>4. ASSUME NEW k \in DOMAIN items' PROVE items'[k].line.word # "backtick"
    BY <2>1, <2>2, <2>3 DEF Keeping
  <2> QED
    BY <2>4
<1>7. Keeping'
  BY <1>1, <1>2, <1>3, <1>5, <1>6 DEF Keeping
<1> QED
  BY <1>1, <1>2, <1>3, <1>5, <1>7

LEMMA TypeLineKeeping ==
  ASSUME Inv006, Keeping, TypeLine
  PROVE  Keeping' /\ UNCHANGED <<status, mode, items, stack, torn>>
<1>1. /\ pc = "prompt" /\ pc' = "execute" /\ stack = <<>>
      /\ UNCHANGED <<status, mode, items, stack, torn>>
      /\ mode => cur'.line \in QueuedLines
  BY DEF TypeLine, Goto, Typed, Inv006, Places
<1> QED
  BY <1>1 DEF Keeping

(* A line that is executed within a commit is no queue command. *)
LEMMA PlainLine ==
  ASSUME Inv006, Keeping, PlainQueue, ~torn, stack # <<>>, pc \in {"execute", "remove"}
  PROVE  cur.line.word \notin QueueWords
<1>1. PICK k \in DOMAIN items : items[k] = cur
  BY DEF Inv006, Places, Keeping
<1> QED
  BY <1>1 DEF PlainQueue

LEMMA ClearKeeping ==
  ASSUME Inv006, Keeping, Clear
  PROVE  /\ Keeping'
         /\ pc = "execute" /\ ~mode /\ cur.line.word \in QueueWords
         /\ items' = <<>> /\ UNCHANGED <<status, mode, stack>>
<1>1. /\ pc = "execute" /\ ~mode /\ cur.line.word \in QueueWords
      /\ items' = <<>> /\ UNCHANGED <<status, mode, stack>>
      /\ pc' = "return"
  BY DEF Clear, Dispatch, Goto, QueueWords
<1>2. torn' \/ stack = <<>>
  BY Zenon DEF Clear
<1>3. \A k \in DOMAIN items' : items'[k].line.word # "backtick"
  BY <1>1
<1>4. ~torn' => \A f \in DOMAIN stack' : stack'[f].at <= Len(items')
  BY <1>1, <1>2
<1>5. Keeping'
  BY <1>1, <1>3, <1>4 DEF Keeping
<1> QED
  BY <1>1, <1>5

LEMMA StartRemoveKeeping ==
  ASSUME Inv006, Keeping, StartRemove
  PROVE  Keeping' /\ UNCHANGED <<status, mode, items, stack, torn>>
<1>1. /\ pc = "execute" /\ ~mode /\ pc' = "remove" /\ cur.line.word = "queue-remove"
      /\ UNCHANGED <<status, mode, items, cur, stack, torn>>
  BY DEF StartRemove, Dispatch, Goto
<1>2. stack # <<>> => \E k \in DOMAIN items : items[k] = cur
  BY <1>1, CommittedLine
<1> QED
  BY <1>1, <1>2 DEF Keeping

LEMMA RemoveItemKeeping ==
  ASSUME Inv006, Keeping, RemoveItem
  PROVE  /\ Keeping'
         /\ pc = "remove" /\ ~mode /\ cur.line.word \in QueueWords
         /\ \E n \in DOMAIN items : items' = Removed(n)
         /\ UNCHANGED <<status, mode, stack>>
<1>1. pc = "remove" /\ UNCHANGED <<status, pc, mode, cur, stack>>
  BY DEF RemoveItem
<1>2. PICK n \in DOMAIN items : items' = Removed(n)
  BY DEF RemoveItem
<1>3. ~mode /\ cur.line.word = "queue-remove"
  BY <1>1 DEF Keeping
<1>4. \A k \in DOMAIN items' : items'[k].line.word # "backtick"
  BY <1>2, Arrays DEF Removed, Keeping, Inv006
<1>5. torn' \/ stack = <<>>
  BY Zenon DEF RemoveItem
<1>6. ~torn' => \A f \in DOMAIN stack' : stack'[f].at <= Len(items')
  BY <1>1, <1>5
<1>7. Keeping'
  BY <1>1, <1>3, <1>4, <1>5, <1>6 DEF Keeping
<1> QED
  BY <1>1, <1>2, <1>3, <1>7 DEF QueueWords

LEMMA EndRemoveKeeping ==
  ASSUME Inv006, Keeping, EndRemove
  PROVE  Keeping' /\ UNCHANGED <<status, mode, items, stack, torn>>
<1>1. /\ pc' = "return" /\ UNCHANGED <<status, mode, items, stack, torn>>
  BY DEF EndRemove, Goto
<1> QED
  BY <1>1 DEF Keeping

LEMMA CommitNothingKeeping ==
  ASSUME Inv006, Keeping, CommitNothing
  PROVE  Keeping' /\ UNCHANGED <<status, mode, items, stack, torn>>
<1>1. /\ pc' = "return" /\ UNCHANGED <<status, mode, items, stack, torn>>
  BY DEF CommitNothing, Goto
<1> QED
  BY <1>1 DEF Keeping

LEMMA FinishKeeping ==
  ASSUME Inv006, Keeping, Finish
  PROVE  Keeping' /\ UNCHANGED <<status, mode, items, stack>>
<1>1. /\ pc' = "prompt" /\ stack = <<>> /\ UNCHANGED <<status, mode, items, stack>>
  BY DEF Finish, Goto
<1> QED
  BY <1>1 DEF Keeping

LEMMA StartCommitKeeping ==
  ASSUME Inv006, Keeping, StartCommit
  PROVE  /\ Keeping'
         /\ pc = "execute" /\ ~mode /\ items # <<>> /\ cur.line.word \in QueueWords
         /\ UNCHANGED <<mode, items>>
         /\ stack = <<>> => UNCHANGED status /\ stack' # <<>> /\ stack'[1].at = 1
<1>1. /\ pc = "execute" /\ ~mode /\ items # <<>> /\ cur.line.word \in QueueWords
      /\ UNCHANGED <<mode, items, torn>>
  BY DEF StartCommit, Dispatch, QueueWords, CommitWords
<1>2. Len(items) \in Nat \ {0} /\ stack \in Seq(Frame) /\ Len(stack) \in Nat
  BY <1>1 DEF Inv006, TypeOK
<1>3. CASE Len(stack) < StackLimit
  <2> DEFINE f == [at |-> 1, ran |-> items[1].node, says |-> Says, from |-> cur.node]
  <2>1. stack' = Append(stack, f) /\ pc' = "execute" /\ UNCHANGED status
    BY <1>3 DEF StartCommit, Goto
  <2>2. f.at = 1
    OBVIOUS
  <2> HIDE DEF f
  <2>3. /\ DOMAIN stack' = 1 .. (Len(stack) + 1) /\ DOMAIN stack = 1 .. Len(stack)
        /\ \A k \in DOMAIN stack : stack'[k] = stack[k]
        /\ stack'[Len(stack) + 1].at = 1
    BY <1>2, <2>1, <2>2
  <2>4. \A k \in DOMAIN stack' : ~torn' => stack'[k].at <= Len(items')
    <3> SUFFICES ASSUME NEW k \in DOMAIN stack', ~torn PROVE stack'[k].at <= Len(items)
      BY <1>1
    <3>1. CASE k \in DOMAIN stack
      BY <2>3, <3>1 DEF Keeping
    <3>2. CASE k = Len(stack) + 1
      BY <1>2, <2>3, <3>2
    <3> QED
      BY <1>2, <2>3, <3>1, <3>2
  <2>5. Keeping'
    BY <1>1, <2>1, <2>4 DEF Keeping
  <2>6. stack = <<>> => stack' # <<>> /\ stack'[1].at = 1
    BY <1>2, <2>3
  <2> QED
    BY <1>1, <2>1, <2>5, <2>6
<1>4. CASE ~(Len(stack) < StackLimit)
  <2>1. UNCHANGED <<stack, cur, pc>> /\ stack # <<>>
    BY <1>2, <1>4, Assumption006 DEF StartCommit, Crash
  <2> QED
    BY <1>1, <2>1 DEF Keeping
<1> QED
  BY <1>3, <1>4

LEMMA NextItemKeeping ==
  ASSUME Inv006, Keeping, NextItem
  PROVE  /\ Keeping'
         /\ stack # <<>> /\ Len(stack') = Len(stack)
         /\ UNCHANGED <<status, mode, items, torn>>
         /\ Len(stack) = 1 => stack[1].at < Len(items) /\ stack'[1].at = stack[1].at + 1
         /\ Len(stack) # 1 => stack'[1] = stack[1]
<1>1. /\ stack # <<>> /\ pc' = "execute" /\ Top.at < Len(items)
      /\ UNCHANGED <<status, mode, items, torn>>
  BY DEF NextItem, InCommit, Goto
<1>2. ~mode
  BY <1>1 DEF Keeping
<1>3. /\ Len(stack) \in Nat /\ DOMAIN stack = 1 .. Len(stack) /\ Len(stack) \in DOMAIN stack
      /\ stack \in Seq(Frame) /\ Top \in Frame /\ Len(items) \in Nat
  BY <1>1, Arrays DEF Inv006, TypeOK
<1> DEFINE f == [Top EXCEPT !.at = Top.at + 1, !.ran = items[Top.at + 1].node]
<1>4. stack' = [stack EXCEPT ![Len(stack)] = f]
  BY DEF NextItem
<1>5. f.at = Top.at + 1 /\ Top.at \in Nat
  BY <1>3 DEF Frame
<1> HIDE DEF f
<1>6. /\ Len(stack') = Len(stack) /\ DOMAIN stack' = 1 .. Len(stack)
      /\ stack'[Len(stack)] = f
      /\ \A k \in DOMAIN stack : k # Len(stack) => stack'[k] = stack[k]
  BY <1>3, <1>4
<1>7. ~torn' => \A k \in DOMAIN stack' : stack'[k].at <= Len(items')
  BY <1>1, <1>3, <1>5, <1>6 DEF Keeping
<1>8. Keeping'
  BY <1>1, <1>2, <1>7 DEF Keeping
<1>9. /\ Len(stack) = 1 => stack[1].at < Len(items) /\ stack'[1].at = stack[1].at + 1
      /\ Len(stack) # 1 => stack'[1] = stack[1]
  BY <1>1, <1>3, <1>5, <1>6 DEF Top
<1> QED
  BY <1>1, <1>6, <1>8, <1>9

LEMMA Prefix ==
  ASSUME NEW T, NEW s \in Seq(T), NEW n \in Nat, n <= Len(s)
  PROVE  /\ Len(SubSeq(s, 1, n)) = n /\ SubSeq(s, 1, n) \in Seq(T)
         /\ \A k \in DOMAIN SubSeq(s, 1, n) : k \in DOMAIN s /\ SubSeq(s, 1, n)[k] = s[k]
  OBVIOUS

LEMMA EndCommitKeeping ==
  ASSUME Inv006, Keeping, EndCommit
  PROVE  /\ Keeping'
         /\ stack # <<>>
         /\ UNCHANGED <<status, mode, items, torn>>
         /\ Len(stack) = 1 => stack[1].at >= Len(items) /\ stack' = <<>>
         /\ Len(stack) # 1 => stack' # <<>> /\ stack'[1] = stack[1]
<1>1. /\ stack # <<>> /\ pc' = "return" /\ Top.at >= Len(items) /\ stack' = Popped
      /\ UNCHANGED <<status, mode, items, torn>>
  BY DEF EndCommit, InCommit, Goto
<1>2. ~mode
  BY <1>1 DEF Keeping
<1>3. Len(stack) \in Nat \ {0} /\ stack \in Seq(Frame)
  BY <1>1 DEF Inv006, TypeOK
<1>4. /\ Len(stack') = Len(stack) - 1 /\ stack' \in Seq(Frame)
      /\ \A k \in DOMAIN stack' : k \in DOMAIN stack /\ stack'[k] = stack[k]
  <2> HIDE DEF Inv006
  <2>1. stack' = SubSeq(stack, 1, Len(stack) - 1) /\ Len(stack) - 1 \in Nat
        /\ Len(stack) - 1 <= Len(stack)
    BY <1>1, <1>3 DEF Popped
  <2> DEFINE n == Len(stack) - 1
  <2> HIDE DEF n
  <2>2. n \in Nat /\ n <= Len(stack) /\ stack' = SubSeq(stack, 1, n)
    BY <2>1 DEF n
  <2>3. /\ Len(stack') = n /\ stack' \in Seq(Frame)
        /\ \A k \in DOMAIN stack' : k \in DOMAIN stack /\ stack'[k] = stack[k]
    BY <1>3, <2>2, Prefix
  <2> QED
    BY <2>3 DEF n
<1>5. Keeping'
  BY <1>1, <1>2, <1>4 DEF Keeping
<1>6. /\ Len(stack) = 1 => stack[1].at >= Len(items) /\ stack' = <<>>
      /\ Len(stack) # 1 => stack' # <<>> /\ stack'[1] = stack[1]
  BY <1>1, <1>3, <1>4 DEF Top
<1> QED
  BY <1>1, <1>5, <1>6

LEMMA NextKeeping == Inv006 /\ Keeping /\ [Next]_vars => Keeping'
<1> SUFFICES ASSUME Inv006, Keeping, [Next]_vars PROVE Keeping'
  OBVIOUS
<1>1. CASE UNCHANGED vars
  BY <1>1, QuietKeeping DEF Quiet
<1>2. CASE status = "running" /\ User
  BY <1>2, QuietKeeping, TypeLineKeeping DEF User, Quiet
<1>3. CASE status = "running" /\ Program
  BY <1>3, QuietKeeping, StoreKeeping, ClearKeeping, StartRemoveKeeping, RemoveItemKeeping,
     EndRemoveKeeping, StartCommitKeeping, CommitNothingKeeping, NextItemKeeping,
     EndCommitKeeping, FinishKeeping DEF Program, Quiet
<1> QED
  BY <1>1, <1>2, <1>3 DEF Next, Over

-----------------------------------------------------------------------------
(* The step of the promise each of them makes. *)

LEMMA SameCardinality == \A S : Promise!Cardinality(S) = Cardinality(S)
  BY DEF Cardinality, Promise!Cardinality

(* Counting the places left by one that is gone. *)
LEMMA CountWithout ==
  ASSUME NEW n \in Nat \ {0}, NEW k \in Nat
  PROVE  Promise!Cardinality({j \in 1 .. k : j \notin {n}}) = IF n <= k THEN k - 1 ELSE k
<1>1. IsFiniteSet(1 .. k) /\ Cardinality(1 .. k) = k
  BY FS_Interval
<1>2. {j \in 1 .. k : j \notin {n}} = (1 .. k) \ {n}
  OBVIOUS
<1>3. Cardinality((1 .. k) \ {n}) = IF n \in 1 .. k THEN k - 1 ELSE k
  BY <1>1, FS_RemoveElement
<1> QED
  BY <1>2, <1>3, SameCardinality

LEMMA RemovedIsWithout ==
  ASSUME TypeOK, NEW n \in DOMAIN items
  PROVE  [k \in DOMAIN Removed(n) |-> Removed(n)[k].line] = Promise!Without({n})
<1> DEFINE lines == [k \in DOMAIN items |-> items[k].line]
           Left(k) == Promise!Cardinality({j \in 1 .. k : j \notin {n}})
           left == DOMAIN lines \ {n}
<1>1. Len(items) \in Nat /\ DOMAIN items = 1 .. Len(items) /\ n \in 1 .. Len(items)
  BY Arrays
<1>2. left = {j \in 1 .. Len(items) : j \notin {n}}
  BY <1>1
<1>3. Promise!Cardinality(left) = Len(items) - 1
  BY <1>1, <1>2, CountWithout
<1>4. \A k \in left : Left(k) = IF n <= k THEN k - 1 ELSE k
  BY <1>1, CountWithout
<1>5. ASSUME NEW m \in 1 .. (Len(items) - 1)
      PROVE  (CHOOSE k \in left : Left(k) = m) = IF m < n THEN m ELSE m + 1
  <2> HIDE DEF Left
  <2> DEFINE c == IF m < n THEN m ELSE m + 1
  <2>1. c \in left /\ \A k \in left : Left(k) = m <=> k = c
    BY <1>1, <1>4
  <2> QED
    BY <2>1
<1>6. Promise!Without({n}) =
        [m \in 1 .. Promise!Cardinality(left) |-> lines[CHOOSE k \in left : Left(k) = m]]
  BY DEF Promise!Without
<1> HIDE DEF Left, left
<1>7. Promise!Without({n}) =
        [m \in 1 .. (Len(items) - 1) |-> lines[IF m < n THEN m ELSE m + 1]]
  BY <1>3, <1>5, <1>6
<1>8. \A m \in 1 .. (Len(items) - 1) :
        lines[IF m < n THEN m ELSE m + 1] = Removed(n)[m].line
  BY <1>1 DEF Removed
<1> QED
  BY <1>7, <1>8 DEF Removed

(* The lines as the promise sees them. *)
TheLines == [k \in DOMAIN items |-> items[k].line]

LEMMA LinesLength ==
  ASSUME TypeOK
  PROVE  Len(TheLines) = Len(items) /\ DOMAIN TheLines = 1 .. Len(items)
  BY DEF TypeOK, TheLines

LEMMA Stutters ==
  ASSUME UNCHANGED <<status, mode, items>>,
         (stack' = <<>>) = (stack = <<>>), stack # <<>> => stack'[1].at = stack[1].at
  PROVE  UNCHANGED Promise!pvars
  BY DEF Promise!pvars

LEMMA Ends ==
  ASSUME status = "running", status' # "running", UNCHANGED <<mode, items, stack>>
  PROVE  Promise!End
  BY DEF Promise!End

LEMMA QuietPromise ==
  ASSUME Inv006, Keeping, Quiet, status = "running"
  PROVE  Promise!Next \/ UNCHANGED Promise!pvars
<1>1. UNCHANGED <<items, stack>>
  BY QuietKeeps DEF Kept
<1>2. CASE Toggle
  <2>1. pc = "execute" /\ mode' = ~mode /\ UNCHANGED status
    BY <1>2 DEF Toggle, Goto
  <2>2. stack = <<>>
    BY <1>2, CommittedLine DEF Toggle, Keeping
  <2>3. Promise!Switch
    BY <1>1, <2>1, <2>2 DEF Promise!Switch, Promise!Idle
  <2> QED
    BY <2>3 DEF Promise!Next
<1>3. CASE mode' = mode
  <2>1. CASE status' = status
    BY <1>1, <1>3, <2>1, Stutters
  <2>2. CASE status' # status
    BY <1>1, <1>3, <2>2, Ends DEF Promise!Next
  <2> QED
    BY <2>1, <2>2
<1> QED
  BY <1>2, <1>3, QuietModes DEF Inv006

LEMMA StorePromise ==
  ASSUME Inv006, Keeping, Store, status = "running"
  PROVE  Promise!Next
<1>1. mode /\ stack = <<>> /\ UNCHANGED <<mode, stack>>
  BY StoreKeeping
<1>2. CASE status' = "crashed" /\ UNCHANGED items
  BY <1>1, <1>2, Ends DEF Promise!Next
<1>3. ASSUME status' = status,
             NEW l \in QueuedLines,
             items' = Append(items, [node |-> born, line |-> [l EXCEPT !.lead = FALSE]])
      PROVE  Promise!Next
  <2> DEFINE kept == [l EXCEPT !.lead = FALSE]
             it == [node |-> born, line |-> kept]
  <2>1. it.line = kept /\ items' = Append(items, it) /\ items \in Seq(Item)
    BY <1>3 DEF Inv006, TypeOK
  <2>2. it \in Item
    BY Assumption006 DEF Inv006, TypeOK, Item, Line
  <2> HIDE DEF kept, it
  <2>3. TheLines' = Append(TheLines, kept)
    BY <2>1, <2>2 DEF TheLines
  <2>4. Promise!Keep
    BY <1>1, <1>3, <2>3 DEF Promise!Keep, Promise!Idle, TheLines, kept
  <2> QED
    BY <2>4 DEF Promise!Next
<1> QED
  BY <1>2, <1>3, StoreKeeping

LEMMA ClearPromise ==
  ASSUME Inv006, Keeping, PlainQueue, ~torn, Clear, status = "running"
  PROVE  Promise!Next
<1>1. stack = <<>>
  BY ClearKeeping, PlainLine
<1>2. [k \in DOMAIN items' |-> items'[k].line] = Promise!Without(DOMAIN TheLines)
  <2> DEFINE left == DOMAIN TheLines \ DOMAIN TheLines
             line(m) == TheLines[CHOOSE k \in left :
                          Promise!Cardinality({j \in 1 .. k : j \notin DOMAIN TheLines}) = m]
  <2>1. Promise!Cardinality(left) = 0
    <3>1. left = {}
      OBVIOUS
    <3> QED
      BY <3>1, FS_EmptySet, SameCardinality
  <2>3. Promise!Without(DOMAIN TheLines) = [m \in 1 .. Promise!Cardinality(left) |-> line(m)]
    BY DEF Promise!Without, TheLines
  <2> HIDE DEF left, line
  <2>4. Promise!Without(DOMAIN TheLines) = [m \in {} |-> line(m)]
    BY <2>1, <2>3
  <2> QED
    BY <2>4, ClearKeeping
<1>3. Promise!Discard
  BY <1>1, <1>2, ClearKeeping DEF Promise!Discard, Promise!Idle, TheLines
<1> QED
  BY <1>3 DEF Promise!Next

LEMMA RemoveItemPromise ==
  ASSUME Inv006, Keeping, PlainQueue, ~torn, RemoveItem, status = "running"
  PROVE  Promise!Next
<1>1. stack = <<>>
  BY RemoveItemKeeping, PlainLine
<1>2. PICK n \in DOMAIN items : items' = Removed(n)
  BY RemoveItemKeeping
<1>3. [k \in DOMAIN items' |-> items'[k].line] = Promise!Without({n})
  BY <1>2, RemovedIsWithout DEF Inv006
<1>4. {n} \in SUBSET DOMAIN TheLines
  BY DEF TheLines
<1>5. Promise!Discard
  BY <1>1, <1>3, <1>4, RemoveItemKeeping DEF Promise!Discard, Promise!Idle, TheLines
<1> QED
  BY <1>5 DEF Promise!Next

LEMMA StartCommitPromise ==
  ASSUME Inv006, Keeping, PlainQueue, ~torn, StartCommit, status = "running"
  PROVE  Promise!Next
<1>1. stack = <<>>
  BY StartCommitKeeping, PlainLine
<1>2. TheLines # <<>>
  BY StartCommitKeeping, LinesLength DEF Inv006, TypeOK
<1>3. Promise!Commit
  BY <1>1, <1>2, StartCommitKeeping DEF Promise!Commit, Promise!Idle, TheLines
<1> QED
  BY <1>3 DEF Promise!Next

LEMMA LoopPlace ==
  ASSUME Inv006, Keeping, ~torn, stack # <<>>
  PROVE  stack[1].at \in 1 .. Len(items) /\ Len(items) \in Nat
<1>1. 1 \in DOMAIN stack /\ Len(items) \in Nat
  BY DEF Inv006, TypeOK
<1>2. stack[1].at \in Nat \ {0}
  BY <1>1, Arrays DEF Inv006, Frame
<1> QED
  BY <1>1, <1>2 DEF Keeping

LEMMA NextItemPromise ==
  ASSUME Inv006, Keeping, ~torn, NextItem, status = "running"
  PROVE  Promise!Next \/ UNCHANGED Promise!pvars
<1>1. stack # <<>> /\ UNCHANGED <<status, mode, items>>
  BY NextItemKeeping
<1>2. Len(stack) \in Nat \ {0} /\ stack' # <<>>
  BY <1>1, NextItemKeeping DEF Inv006, TypeOK
<1>3. CASE Len(stack) = 1
  <2>1. stack[1].at < Len(items) /\ stack'[1].at = stack[1].at + 1 /\ stack[1].at \in 1 .. Len(items)
    BY <1>1, <1>3, NextItemKeeping, LoopPlace
  <2>2. stack[1].at # 0 /\ stack[1].at # Len(TheLines)
    BY <2>1, LinesLength, LoopPlace DEF Inv006
  <2>3. Promise!Advance
    BY <1>1, <1>2, <2>1, <2>2 DEF Promise!Advance, TheLines
  <2> QED
    BY <2>3 DEF Promise!Next
<1>4. CASE Len(stack) # 1
  BY <1>1, <1>2, <1>4, NextItemKeeping, Stutters
<1> QED
  BY <1>3, <1>4

LEMMA EndCommitPromise ==
  ASSUME Inv006, Keeping, ~torn, EndCommit, status = "running"
  PROVE  Promise!Next \/ UNCHANGED Promise!pvars
<1>1. stack # <<>> /\ UNCHANGED <<status, mode, items>>
  BY EndCommitKeeping
<1>2. CASE Len(stack) = 1
  <2>1. stack' = <<>> /\ stack[1].at = Len(items) /\ stack[1].at # 0
    BY <1>1, <1>2, EndCommitKeeping, LoopPlace
  <2>2. stack[1].at = Len(TheLines)
    BY <2>1, LinesLength DEF Inv006
  <2>3. Promise!Advance
    BY <1>1, <2>1, <2>2 DEF Promise!Advance, TheLines
  <2> QED
    BY <2>3 DEF Promise!Next
<1>3. CASE Len(stack) # 1
  BY <1>1, <1>3, EndCommitKeeping, Stutters
<1> QED
  BY <1>2, <1>3

LEMMA NextPromise ==
  ASSUME Inv006, Keeping, PlainQueue, ~torn, [Next]_vars
  PROVE  Promise!Next \/ UNCHANGED Promise!pvars
<1>1. CASE UNCHANGED vars
  BY <1>1, Stutters DEF vars
<1>2. CASE status = "running" /\ User
  BY <1>2, QuietPromise, TypeLineKeeping, Stutters DEF User, Quiet
<1>3. CASE status = "running" /\ (StartRemove \/ EndRemove \/ CommitNothing \/ Finish)
  BY <1>3, StartRemoveKeeping, EndRemoveKeeping, CommitNothingKeeping, FinishKeeping, Stutters
<1>4. CASE status = "running" /\ Program /\ ~(StartRemove \/ EndRemove \/ CommitNothing \/ Finish)
  BY <1>4, QuietPromise, StorePromise, ClearPromise, RemoveItemPromise, StartCommitPromise,
     NextItemPromise, EndCommitPromise DEF Program, Quiet
<1> QED
  BY <1>1, <1>2, <1>3, <1>4 DEF Next, Over

LEMMA InitPromise == Init => Promise!Init
  BY DEF Init, Promise!Init

(* While no queue command is stored, nor has erased anything under a       *)
(* commit, every line is kept in order and a commit runs each of them      *)
(* once, first to last, leaving the queue as it was.                       *)
THEOREM PromiseKept == Spec => KeepsPromise
<1>1. Inv006 /\ Keeping /\ [Next]_vars =>
        [PlainQueue /\ PlainQueue' /\ ~torn => Promise!Next \/ UNCHANGED Promise!pvars]_vars
  BY NextPromise
<1> QED
  BY <1>1, InitPromise, InitKeeps, NextKeeping, Invariance006, PTL DEF Spec, KeepsPromise
=============================================================================
