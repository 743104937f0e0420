---------------------------- MODULE ShellProofs ----------------------------
(***************************************************************************)
(* The safety of Shell for all lines, bounds and options, and that it      *)
(* implements QueuePromise, for which the lines of a list are numbered.    *)
(***************************************************************************)
EXTENDS ShellInvariant, ShellRefinement, FiniteSetTheorems, TLAPS

(* The stack without its last frame. *)
LEMMA PoppedFrames ==
  ASSUME stack \in Seq(Frame), stack # <<>>
  PROVE  /\ Popped \in Seq(Frame)
         /\ Len(Popped) = Len(stack) - 1
         /\ \A k \in 1 .. (Len(stack) - 1) : Popped[k] = stack[k]
  BY DEF Popped

(* The stack after its last frame has moved on to node n. *)
LEMMA MovedFrames ==
  ASSUME stack \in Seq(Frame), stack # <<>>, NEW n \in Nat
  PROVE  /\ Moved(n) \in Seq(Frame)
         /\ Len(Moved(n)) = Len(stack)
         /\ Moved(n)[Len(stack)] = [at |-> n, says |-> Top.says, text |-> Top.text]
         /\ \A k \in 1 .. (Len(stack) - 1) : Moved(n)[k] = stack[k]
<1>1. Len(stack) \in 1 .. Len(stack) /\ Top \in Frame
  BY DEF Top
<1> DEFINE f == [at |-> n, says |-> Top.says, text |-> Top.text]
<1>2. f \in Frame
  BY <1>1 DEF Frame
<1>3. Moved(n) = [stack EXCEPT ![Len(stack)] = f]
  BY DEF Moved
<1> HIDE DEF f
<1>4. /\ Moved(n) \in Seq(Frame)
      /\ Len(Moved(n)) = Len(stack)
      /\ Moved(n)[Len(stack)] = f
      /\ \A k \in 1 .. (Len(stack) - 1) : Moved(n)[k] = stack[k]
  BY <1>1, <1>2, <1>3
<1> QED
  BY <1>4 DEF f

LEMMA MovedAt ==
  ASSUME stack \in Seq(Frame), Len(stack) = 1, NEW n \in Nat
  PROVE  Len(Moved(n)) = 1 /\ Moved(n)[1].at = n
<1>1. stack # <<>>
  OBVIOUS
<1>2. Len(Moved(n)) = 1 /\ Moved(n)[1] = [at |-> n, says |-> Top.says, text |-> Top.text]
  BY <1>1, MovedFrames
<1> QED
  BY <1>2

(* The stack with one frame more. *)
LEMMA PushedFrames ==
  ASSUME stack \in Seq(Frame), NEW f \in Frame
  PROVE  /\ Append(stack, f) \in Seq(Frame)
         /\ Len(Append(stack, f)) = Len(stack) + 1
         /\ Append(stack, f)[Len(stack) + 1] = f
         /\ \A k \in 1 .. Len(stack) : Append(stack, f)[k] = stack[k]
  OBVIOUS

-----------------------------------------------------------------------------
(* Types. *)

LEMMA InitType == Init => TypeOK
<1> SUFFICES ASSUME Init PROVE TypeOK
  OBVIOUS
<1>1. cur \in Line /\ MaxNode \in Nat /\ StackLimit \in Nat
  BY LinesAssumption DEF Init
<1>2. stack \in Seq(Frame) /\ Len(stack) = 0 /\ args \in Seq(Arg)
  BY DEF Init
<1>3. DOMAIN queue = {}
  BY DEF Init, EmptyQueue
<1>4. answer \in Answers /\ cache \in CacheStates /\ pc \in PCs
  BY DEF Init, Answers, NoAnswer, CacheStates, PCs
<1>5. mode \in BOOLEAN /\ executing \in BOOLEAN /\ wild \in BOOLEAN
  BY DEF Init
<1> QED
  BY <1>1, <1>2, <1>3, <1>4, <1>5 DEF Init, TypeOK

LEMMA GivenAnswerType == TypeOK => GivenAnswer \in Answers
  BY DEF TypeOK, GivenAnswer, Line, Answers

LEMMA NewFrameType ==
  ASSUME TypeOK, NEW n \in DOMAIN queue
  PROVE  NewFrame(n) \in Frame
<1>1. (cur.word = "queue-commit-say") \in BOOLEAN /\ n \in Nat
  BY DEF TypeOK
<1>2. (IF cur.word = "queue-commit-say" THEN GivenAnswer ELSE NoAnswer) \in Answers
  BY GivenAnswerType DEF Answers, NoAnswer
<1> QED
  BY <1>1, <1>2, Zenon DEF NewFrame, Frame

(* A commit that moves on, and one that is left. *)
LEMMA MoveTypes ==
  ASSUME TypeOK, stack # <<>>, NEW n \in DOMAIN queue
  PROVE  /\ Moved(n) \in Seq(Frame)
         /\ Len(Moved(n)) <= StackLimit
         /\ queue[n] \in Line
<1>1. n \in Nat
  BY DEF TypeOK
<1> QED
  BY <1>1, MovedFrames DEF TypeOK

LEMMA LeaveTypes ==
  ASSUME TypeOK, stack # <<>>, LeaveCommit, wild' \in BOOLEAN
  PROVE  TypeOK'
<1>1. /\ stack' \in Seq(Frame)
      /\ Len(stack') <= StackLimit
  BY PoppedFrames, LinesAssumption DEF LeaveCommit, TypeOK
<1>2. answer' \in Answers
  BY DEF LeaveCommit, TypeOK, Answers, NoAnswer
<1> QED
  BY <1>1, <1>2 DEF LeaveCommit, TypeOK, Goto, PCs

LEMMA NextType == TypeOK /\ [Next]_vars => TypeOK'
<1> SUFFICES ASSUME TypeOK, [Next]_vars PROVE TypeOK'
  OBVIOUS
<1> USE DEF TypeOK
<1>1. CASE TypeLine
  BY <1>1, LinesAssumption DEF TypeLine, Goto, PCs
<1>2. CASE EndOfFile
  BY <1>2 DEF EndOfFile
<1>3. CASE PressTab
  BY <1>3 DEF PressTab, ReadCache, Goto, Crash, PCs
<1>4. CASE Interrupt \/ InterruptProgram
  BY <1>4 DEF Interrupt, InterruptProgram, Goto, PCs
<1>5. CASE StartLine
  BY <1>5 DEF StartLine, Goto, PCs
<1>6. CASE FinishLine
  BY <1>6 DEF FinishLine, Goto, PCs
<1>7. CASE Toggle
  BY <1>7 DEF Toggle, Goto, PCs
<1>8. CASE Store
  <2>1. CASE status' = "crashed"
    BY <1>8, <2>1 DEF Store, Goto, PCs, ReadCache, Crash
  <2>2. CASE status' # "crashed"
    <3> DEFINE l == [cur EXCEPT !.lead = FALSE]
    <3>1. l \in Line
      BY DEF Line
    <3> HIDE DEF l
    <3>2. /\ queue' = [n \in DOMAIN queue \cup {tail} |-> IF n = tail THEN l ELSE queue[n]]
          /\ tail' = tail + 1
      BY <1>8, <2>2 DEF Store, PushBack, l
    <3>3. pc' \in PCs /\ UNCHANGED <<status, mode, executing, cur, args, stack, answer, cache, wild>>
      BY <1>8, <2>2 DEF Store, Goto, ReadCache, Crash, PCs
    <3> QED
      BY <3>1, <3>2, <3>3
  <2> QED
    BY <2>1, <2>2
<1>9. CASE Quit
  BY <1>9 DEF Quit, Goto, PCs
<1>10. CASE Report
  BY <1>10 DEF Report, Goto, PCs
<1>11. CASE RunProgram
  BY <1>11 DEF RunProgram, Goto, PCs, ReadCache, Crash
<1>12. CASE ListEnds \/ ProgramEnds \/ FeedEnds \/ FedProgramEnds
  <2>1. CASE ListEnds
    BY <2>1 DEF ListEnds, Goto, PCs, Crash
  <2>2. CASE ProgramEnds
    BY <2>2 DEF ProgramEnds, LeftBehind, Goto, PCs, CheckCache, Crash, CacheStates
  <2>3. CASE FeedEnds
    BY <2>3 DEF FeedEnds, LeftBehind, Goto, PCs, CheckCache, Crash, CacheStates
  <2>4. CASE FedProgramEnds
    BY <2>4 DEF FedProgramEnds, Goto, PCs, CacheStates
  <2> QED
    BY <1>12, <2>1, <2>2, <2>3, <2>4
<1>13. CASE Clear
  BY <1>13 DEF Clear, Goto, PCs, EmptyQueue
<1>14. CASE StartRemove
  <2>1. args' \in Seq(Arg)
    <3>1. cur.args \in Seq(Arg)
          /\ \A dash \in BOOLEAN : [range |-> dash, from |-> 0, to |-> 0] \in Arg
      BY DEF Line, Arg, Value
    <3>2. \A w \in Arg : <<w>> \o cur.args \in Seq(Arg)
      BY <3>1
    <3> QED
      BY <1>14, <3>1, <3>2 DEF StartRemove, GivenArgs
  <2> QED
    BY <1>14, <2>1 DEF StartRemove, Goto, PCs
<1>15. CASE RemoveWord
  <2>1. CASE Misses(queue, Head(args))
    BY <1>15, <2>1 DEF RemoveWord, Crash
  <2>2. CASE ~Misses(queue, Head(args))
    <3>1. /\ DOMAIN queue' \subseteq DOMAIN queue
          /\ \A n \in DOMAIN queue' : queue'[n] = queue[n]
      BY <1>15, <2>2 DEF RemoveWord, Erase
    <3>2. args' \in Seq(Arg)
      BY <1>15, <2>2 DEF RemoveWord
    <3> QED
      BY <1>15, <2>2, <3>1, <3>2 DEF RemoveWord
  <2> QED
    BY <2>1, <2>2
<1>16. CASE EndRemove
  BY <1>16 DEF EndRemove, Goto, PCs
<1>17. CASE StartCommit
  <2>1. PICK n \in DOMAIN queue : StartAt(n)
    BY <1>17 DEF StartCommit
  <2>2. CASE Len(stack) < StackLimit
    <3>1. NewFrame(n) \in Frame
      BY NewFrameType
    <3>2. stack' = Append(stack, NewFrame(n)) /\ answer' \in Answers
      BY <2>1, <2>2, GivenAnswerType DEF StartAt
    <3>3. stack' \in Seq(Frame) /\ Len(stack') <= StackLimit
      BY <2>2, <3>1, <3>2, PushedFrames, LinesAssumption
    <3> QED
      BY <1>17, <2>1, <2>2, <3>2, <3>3 DEF StartCommit, StartAt, RunItem, Goto, PCs
  <2>3. CASE ~(Len(stack) < StackLimit)
    BY <1>17, <2>1, <2>3 DEF StartCommit, StartAt, Crash
  <2> QED
    BY <2>2, <2>3
<1>18. CASE CommitNothing
  BY <1>18 DEF CommitNothing, Goto, PCs, Answers, NoAnswer
<1>19. CASE NextItem
  <2>1. PICK n \in DOMAIN queue : RunItem(n) /\ stack' = Moved(n)
    BY <1>19 DEF NextItem
  <2> QED
    BY <1>19, <2>1, MoveTypes DEF NextItem, InCommit, RunItem, Goto, PCs
<1>20. CASE EndCommit
  BY <1>20, LeaveTypes DEF EndCommit, InCommit
<1>21. CASE Stray
  <2>1. CASE Crash /\ UNCHANGED <<mode, executing, queue, tail, cur, args, stack, answer, cache>>
    BY <1>21, <2>1 DEF Stray, Crash
  <2>2. CASE LeaveCommit
    BY <1>21, <2>2, LeaveTypes DEF Stray, InCommit
  <2>3. CASE \E n \in DOMAIN queue :
               /\ RunItem(n)
               /\ stack' = Moved(n)
               /\ UNCHANGED <<mode, executing, queue, tail, args, answer, cache>>
    BY <1>21, <2>3, MoveTypes DEF Stray, InCommit, RunItem, Goto, PCs
  <2> QED
    BY <1>21, <2>1, <2>2, <2>3 DEF Stray
<1>22. CASE UNCHANGED vars
  BY <1>22 DEF vars
<1> QED
  BY <1>1, <1>2, <1>3, <1>4, <1>5, <1>6, <1>7, <1>8, <1>9, <1>10, <1>11, <1>12,
     <1>13, <1>14, <1>15, <1>16, <1>17, <1>18, <1>19, <1>20, <1>21, <1>22
  DEF Next, User, Program, Over

-----------------------------------------------------------------------------
(* The inductive invariant. *)

LEMMA InitIInv == Init => IInv
<1> SUFFICES ASSUME Init PROVE IInv
  OBVIOUS
<1>1. TypeOK
  BY InitType
<1>2. stack = <<>> /\ Len(stack) = 0 /\ SayFrames = {} /\ DOMAIN queue = {}
  BY DEF Init, SayFrames, EmptyQueue
<1> QED
  BY <1>1, <1>2
  DEF Init, IInv, ExecutingTells, Busy, Running, CommitRunsInNormalMode, NeverExitsDuringCommit,
      StoredPlain, RunsItsItem, InnerBehindOuter, NestedCommitNeverReturns, InCommit,
      AnswerTells, InForce, AnswerEndsWithCommit

(* A command other than a commit comes back to the commit that ran it, if  *)
(* any, having erased some lines at most.                                  *)
LEMMA Returned ==
  ASSUME IInv, TypeOK', pc \in Running \cup {"dispatch", "removing"}, pc' = "return",
         cur.word \notin CommitWords,
         DOMAIN queue' \subseteq DOMAIN queue,
         \A n \in DOMAIN queue' : queue'[n] = queue[n],
         UNCHANGED <<status, mode, executing, cur, stack, answer, wild>>
  PROVE  IInv'
<1> USE DEF IInv, Live, Top
<1>1. ExecutingTells' /\ CommitRunsInNormalMode' /\ NeverExitsDuringCommit'
  BY DEF ExecutingTells, Busy, Running, CommitRunsInNormalMode, NeverExitsDuringCommit
<1>2. StoredPlain' /\ RunsItsItem'
  BY DEF StoredPlain, RunsItsItem, Running
<1>3. InnerBehindOuter'
  BY DEF InnerBehindOuter, Commits, TypeOK
<1>4. NestedCommitNeverReturns'
  BY DEF NestedCommitNeverReturns, RunsItsItem, Running, InCommit
<1>5. AnswerTells' /\ AnswerEndsWithCommit'
  BY DEF AnswerTells, Running, InForce, AnswerEndsWithCommit, SayFrames
<1> QED
  BY <1>1, <1>2, <1>3, <1>4, <1>5

(* A command runs on, or ends the shell: nothing else has changed. *)
LEMMA RunsOn ==
  ASSUME IInv, TypeOK', pc \in Running, pc' \in Running, status' # "exited",
         UNCHANGED <<mode, executing, queue, cur, stack, answer, wild>>
  PROVE  IInv'
<1> USE DEF IInv, Live, Top
<1>1. ExecutingTells' /\ CommitRunsInNormalMode' /\ NeverExitsDuringCommit'
  BY DEF ExecutingTells, Busy, CommitRunsInNormalMode, NeverExitsDuringCommit
<1>2. pc # "return" /\ pc' # "return" /\ pc' # "dispatch" /\ pc' # "removing"
  BY DEF Running
<1>3. StoredPlain' /\ RunsItsItem' /\ InnerBehindOuter' /\ NestedCommitNeverReturns'
  BY <1>2 DEF StoredPlain, RunsItsItem, InnerBehindOuter, Commits, NestedCommitNeverReturns,
              InCommit
<1>4. AnswerTells' /\ AnswerEndsWithCommit'
  BY <1>2 DEF AnswerTells, InForce, AnswerEndsWithCommit, SayFrames
<1> QED
  BY <1>1, <1>3, <1>4

(* A commit starts: it stands on the first line of the queue, so not past  *)
(* the line that started it.                                               *)
LEMMA Entered ==
  ASSUME IInv, TypeOK', status = "running", StartCommit
  PROVE  IInv'
<1> USE DEF IInv, Live, Top
<1>1. PICK n \in DOMAIN queue : IsNext(queue, 0, n) /\ StartAt(n)
  BY DEF StartCommit
<1>2. CASE ~(Len(stack) < StackLimit)
  <2>1. status' = "crashed"
        /\ UNCHANGED <<pc, mode, executing, queue, cur, stack, answer, wild>>
    BY <1>1, <1>2 DEF StartCommit, StartAt, Crash
  <2> QED
    BY <2>1
    DEF ExecutingTells, CommitRunsInNormalMode, NeverExitsDuringCommit, StoredPlain,
        RunsItsItem, InnerBehindOuter, Commits, NestedCommitNeverReturns, InCommit,
        AnswerTells, InForce, AnswerEndsWithCommit, SayFrames
<1>3. CASE Len(stack) < StackLimit
  <2> DEFINE f == NewFrame(n)
  <2>1. /\ stack' = Append(stack, f)
        /\ cur' = queue[n]
        /\ pc' = "dispatch"
        /\ UNCHANGED <<status, mode, executing, queue, wild>>
        /\ answer' = IF f.says THEN f.text ELSE answer
    BY <1>1, <1>3 DEF StartCommit, StartAt, RunItem, Goto, NewFrame
  <2>2. f.at = n /\ f \in Frame
    BY <1>1, NewFrameType DEF NewFrame
  <2> HIDE DEF f
  <2>3. /\ Len(stack') = Len(stack) + 1
        /\ stack'[Len(stack) + 1] = f
        /\ \A k \in 1 .. Len(stack) : stack'[k] = stack[k]
        /\ Len(stack) \in Nat
    BY <2>1, <2>2, PushedFrames DEF TypeOK
  <2>4. ~mode /\ pc = "dispatch" /\ cur.word \in CommitWords /\ executing
    BY DEF StartCommit, Dispatch, CommitWords, ExecutingTells, Busy
  <2>5. ExecutingTells' /\ CommitRunsInNormalMode' /\ NeverExitsDuringCommit'
    BY <2>1, <2>4 DEF ExecutingTells, Busy, CommitRunsInNormalMode, NeverExitsDuringCommit,
                      StartCommit, TypeOK
  <2>6. StoredPlain' /\ RunsItsItem' /\ NestedCommitNeverReturns'
    BY <1>1, <2>1, <2>2, <2>3
    DEF StoredPlain, RunsItsItem, Running, NestedCommitNeverReturns, InCommit
  <2>7. InnerBehindOuter'
    <3> SUFFICES ASSUME ~wild', NEW k \in 1 .. Len(stack), stack'[k].at \in DOMAIN queue
                 PROVE  queue[stack'[k].at].word \in CommitWords
                        /\ stack'[k + 1].at <= stack'[k].at
      BY <2>1, <2>3 DEF InnerBehindOuter, Commits
    <3>1. CASE k < Len(stack)
      BY <2>1, <2>3, <3>1 DEF InnerBehindOuter, Commits, TypeOK
    <3>2. CASE k = Len(stack)
      <4>1. cur = queue[stack[k].at] /\ n <= stack[k].at
        BY <1>1, <2>3, <2>4, <3>2 DEF RunsItsItem, IsNext, TypeOK
      <4> QED
        BY <2>2, <2>3, <2>4, <3>2, <4>1
    <3> QED
      BY <2>3, <3>1, <3>2
  <2>8. AnswerTells' /\ AnswerEndsWithCommit'
    <3>1. SayFrames' = SayFrames \cup (IF f.says THEN {Len(stack) + 1} ELSE {})
      BY <2>1, <2>2, <2>3 DEF SayFrames
    <3>2. \A k \in SayFrames : k \in 1 .. Len(stack) /\ stack'[k].text = stack[k].text
      BY <2>3 DEF SayFrames, TypeOK
    <3>3. ~wild => InForce
      BY <2>4 DEF AnswerTells
    <3>4. CASE f.says
      <4>1. answer' = stack'[Len(stack) + 1].text
        BY <2>1, <2>3, <3>4
      <4>2. Len(stack) + 1 \in SayFrames' /\ \A j \in SayFrames' : j <= Len(stack) + 1
        BY <2>3, <3>1, <3>2, <3>4
      <4> QED
        BY <4>1, <4>2 DEF AnswerTells, InForce, AnswerEndsWithCommit
    <3>5. CASE ~f.says
      BY <2>1, <2>2, <2>3, <3>1, <3>2, <3>3, <3>5
      DEF AnswerTells, InForce, AnswerEndsWithCommit
    <3> QED
      BY <3>4, <3>5
  <2> QED
    BY <2>5, <2>6, <2>7, <2>8
<1> QED
  BY <1>2, <1>3

(* A commit moves to some line of the queue. *)
LEMMA Moves ==
  ASSUME IInv, TypeOK', InCommit, NEW n \in DOMAIN queue, RunItem(n), stack' = Moved(n),
         UNCHANGED <<mode, executing, queue, answer>>,
         ~wild' => ~wild /\ Top.at \in DOMAIN queue
  PROVE  /\ Len(stack') = Len(stack)
         /\ stack'[Len(stack)].at = n
         /\ \A k \in 1 .. (Len(stack) - 1) : stack'[k] = stack[k]
         /\ ExecutingTells' /\ CommitRunsInNormalMode' /\ NeverExitsDuringCommit'
         /\ StoredPlain' /\ RunsItsItem' /\ NestedCommitNeverReturns'
         /\ AnswerTells' /\ AnswerEndsWithCommit'
<1> USE DEF IInv, Live, Top, InCommit
<1>1. /\ Len(stack') = Len(stack)
      /\ stack'[Len(stack)] = [at |-> n, says |-> Top.says, text |-> Top.text]
      /\ \A k \in 1 .. (Len(stack) - 1) : stack'[k] = stack[k]
      /\ stack # <<>> /\ Len(stack) \in Nat \ {0} /\ stack' # <<>>
  BY MovedFrames DEF TypeOK
<1>2. pc = "return" /\ pc' = "dispatch" /\ cur' = queue[n] /\ UNCHANGED status
  BY DEF RunItem, Goto
<1>3. ExecutingTells' /\ CommitRunsInNormalMode' /\ NeverExitsDuringCommit'
  BY <1>1, <1>2 DEF ExecutingTells, Busy, CommitRunsInNormalMode, NeverExitsDuringCommit
<1>4. StoredPlain' /\ RunsItsItem' /\ NestedCommitNeverReturns'
  BY <1>1, <1>2 DEF StoredPlain, RunsItsItem, Running, NestedCommitNeverReturns
<1>5. /\ SayFrames' = SayFrames
      /\ \A k \in SayFrames : stack'[k].text = stack[k].text
  <2>1. DOMAIN stack = 1 .. Len(stack) /\ DOMAIN stack' = 1 .. Len(stack)
    BY <1>1 DEF TypeOK
  <2>2. \A k \in 1 .. Len(stack) : stack'[k].says = stack[k].says /\ stack'[k].text = stack[k].text
    BY <1>1
  <2> QED
    BY <2>1, <2>2 DEF SayFrames
<1>6. AnswerTells' /\ AnswerEndsWithCommit'
  BY <1>1, <1>2, <1>5 DEF AnswerTells, InForce, AnswerEndsWithCommit
<1> QED
  BY <1>1, <1>3, <1>4, <1>6

(* A commit moves on to the next line.  It has not been past the line of   *)
(* the commit around it, nor was it on that line, so it gets there at most. *)
LEMMA MovedOn ==
  ASSUME IInv, TypeOK', NextItem
  PROVE  IInv'
<1> USE DEF IInv, Live, Top
<1>1. PICK n \in DOMAIN queue : IsNext(queue, Top.at, n) /\ RunItem(n) /\ stack' = Moved(n)
  BY DEF NextItem
<1>2. /\ Len(stack') = Len(stack)
      /\ stack'[Len(stack)].at = n
      /\ \A k \in 1 .. (Len(stack) - 1) : stack'[k] = stack[k]
      /\ ExecutingTells' /\ CommitRunsInNormalMode' /\ NeverExitsDuringCommit'
      /\ StoredPlain' /\ RunsItsItem' /\ NestedCommitNeverReturns'
      /\ AnswerTells' /\ AnswerEndsWithCommit'
  BY <1>1, Moves DEF NextItem
<1>3. InnerBehindOuter'
  <2> SUFFICES ASSUME ~wild, NEW k \in 1 .. (Len(stack) - 1), stack'[k].at \in DOMAIN queue
               PROVE  queue[stack'[k].at].word \in CommitWords
                      /\ stack'[k + 1].at <= stack'[k].at
    BY <1>2 DEF InnerBehindOuter, Commits, NextItem
  <2>1. stack[k].at \in DOMAIN queue /\ stack'[k].at = stack[k].at /\ Len(stack) \in Nat
    BY <1>2 DEF TypeOK
  <2>2. queue[stack[k].at].word \in CommitWords /\ stack[k + 1].at <= stack[k].at
    BY <2>1 DEF InnerBehindOuter, Commits
  <2>3. CASE k < Len(stack) - 1
    BY <1>2, <2>1, <2>2, <2>3
  <2>4. CASE k = Len(stack) - 1
    <3>1. queue[stack[Len(stack)].at].word \notin CommitWords
      BY DEF NextItem, NestedCommitNeverReturns
    <3>2. stack[Len(stack)].at # stack[k].at
      BY <2>2, <3>1
    <3>3. stack[Len(stack)].at < stack[k].at
      BY <2>1, <2>2, <2>4, <3>2 DEF TypeOK, NextItem
    <3>4. n <= stack[k].at
      BY <1>1, <2>1, <3>3 DEF IsNext
    <3> QED
      BY <1>2, <2>1, <2>2, <2>4, <3>4
  <2> QED
    BY <2>1, <2>3, <2>4
<1> QED
  BY <1>2, <1>3

(* begin() is end() for the empty queue only. *)
LEMMA EmptyAtEnd == TypeOK /\ AtEnd(queue, 0) => DOMAIN queue = {}
<1> SUFFICES ASSUME TypeOK, AtEnd(queue, 0), NEW k \in DOMAIN queue PROVE FALSE
  OBVIOUS
<1>1. k \in 1 .. (tail - 1) /\ tail \in Nat
  BY DEF TypeOK
<1>2. k <= 0
  BY DEF AtEnd
<1> QED
  BY <1>1, <1>2

(* A commit is left, at its end or astray. *)
LEMMA Leaves ==
  ASSUME IInv, TypeOK', InCommit, LeaveCommit, ~wild' => ~wild
  PROVE  /\ Len(stack') = Len(stack) - 1
         /\ \A k \in 1 .. (Len(stack) - 1) : stack'[k] = stack[k]
         /\ pc' = "return" /\ UNCHANGED queue
         /\ ExecutingTells' /\ CommitRunsInNormalMode' /\ NeverExitsDuringCommit'
         /\ StoredPlain' /\ RunsItsItem' /\ InnerBehindOuter'
         /\ AnswerEndsWithCommit'
<1> USE DEF IInv, Live, Top, InCommit
<1>1. /\ Len(stack') = Len(stack) - 1
      /\ \A k \in 1 .. (Len(stack) - 1) : stack'[k] = stack[k]
      /\ Len(stack) \in Nat \ {0}
  BY PoppedFrames DEF TypeOK, LeaveCommit
<1>2. /\ pc = "return" /\ pc' = "return"
      /\ UNCHANGED <<status, mode, executing, queue, cur>>
  BY DEF LeaveCommit, Goto
<1>3. ExecutingTells' /\ CommitRunsInNormalMode' /\ NeverExitsDuringCommit'
  BY <1>1, <1>2 DEF ExecutingTells, Busy, CommitRunsInNormalMode, NeverExitsDuringCommit
<1>4. StoredPlain' /\ RunsItsItem'
  BY <1>1, <1>2 DEF StoredPlain, RunsItsItem
<1>5. InnerBehindOuter'
  BY <1>1, <1>2 DEF InnerBehindOuter, Commits
<1>6. AnswerEndsWithCommit'
  <2>1. CASE Top.says
    BY <2>1 DEF LeaveCommit, AnswerEndsWithCommit
  <2>2. CASE ~Top.says
    <3>1. SayFrames' = SayFrames /\ UNCHANGED answer
      BY <1>1, <2>2 DEF SayFrames, LeaveCommit, TypeOK
    <3> QED
      BY <3>1 DEF AnswerEndsWithCommit
  <2> QED
    BY <2>1, <2>2
<1> QED
  BY <1>1, <1>2, <1>3, <1>4, <1>5, <1>6

(* A commit has come to the end of the queue.  A commit around it stood on *)
(* a commit command no earlier than the last line: that very line, which   *)
(* never returns.  So its line is gone, or there is none.                  *)
LEMMA Left ==
  ASSUME IInv, TypeOK', EndCommit
  PROVE  IInv'
<1> USE DEF IInv, Live, Top
<1>1. /\ Len(stack') = Len(stack) - 1
      /\ \A k \in 1 .. (Len(stack) - 1) : stack'[k] = stack[k]
      /\ pc' = "return" /\ UNCHANGED queue
      /\ ExecutingTells' /\ CommitRunsInNormalMode' /\ NeverExitsDuringCommit'
      /\ StoredPlain' /\ RunsItsItem' /\ InnerBehindOuter'
      /\ AnswerEndsWithCommit'
  BY Leaves DEF EndCommit
<1>2. Len(stack) \in Nat \ {0} /\ stack \in Seq(Frame)
  BY DEF TypeOK, EndCommit, InCommit
<1>3. ASSUME ~wild, stack' # <<>> PROVE stack'[Len(stack')].at \notin DOMAIN queue
  <2>1. Len(stack) - 1 \in 1 .. (Len(stack) - 1)
    BY <1>1, <1>2, <1>3 DEF TypeOK
  <2> SUFFICES ASSUME stack[Len(stack) - 1].at \in DOMAIN queue PROVE FALSE
    BY <1>1, <2>1
  <2>2. stack[Len(stack)].at <= stack[Len(stack) - 1].at
        /\ queue[stack[Len(stack) - 1].at].word \in CommitWords
    BY <1>2, <1>3, <2>1 DEF InnerBehindOuter, Commits
  <2>3. stack[Len(stack) - 1].at <= stack[Len(stack)].at
    BY DEF EndCommit, AtEnd
  <2>4. stack[Len(stack)].at = stack[Len(stack) - 1].at
    <3>1. stack[Len(stack)] \in Frame /\ stack[Len(stack) - 1] \in Frame
      BY <1>2, <2>1
    <3>2. stack[Len(stack)].at \in Nat /\ stack[Len(stack) - 1].at \in Nat
      BY <3>1 DEF Frame
    <3> QED
      BY <2>2, <2>3, <3>2
  <2> QED
    BY <1>3, <2>2, <2>4 DEF EndCommit, NestedCommitNeverReturns
<1>4. NestedCommitNeverReturns'
  BY <1>1, <1>3 DEF NestedCommitNeverReturns, InCommit, EndCommit
<1>5. AnswerTells'
  <2> SUFFICES ASSUME ~wild, stack' = <<>> PROVE InForce'
    BY <1>1, <1>3 DEF AnswerTells, EndCommit
  <2>1. SayFrames' = {}
    BY DEF SayFrames
  <2> QED
    BY <1>1, <2>1 DEF InForce, AnswerEndsWithCommit
<1> QED
  BY <1>1, <1>4, <1>5

LEMMA WentAstray ==
  ASSUME IInv, TypeOK', Stray
  PROVE  IInv'
<1> USE DEF IInv
<1>1. wild' = TRUE /\ InCommit
  BY DEF Stray
<1>2. InnerBehindOuter' /\ NestedCommitNeverReturns' /\ AnswerTells'
  BY <1>1 DEF InnerBehindOuter, NestedCommitNeverReturns, AnswerTells
<1>3. CASE Crash /\ UNCHANGED <<mode, executing, queue, tail, cur, args, stack, answer, cache>>
  BY <1>1, <1>2, <1>3
  DEF Crash, ExecutingTells, CommitRunsInNormalMode, NeverExitsDuringCommit, StoredPlain,
      RunsItsItem, Live, Top, AnswerEndsWithCommit, SayFrames
<1>4. CASE LeaveCommit
  BY <1>1, <1>2, <1>4, Leaves
<1>5. CASE \E n \in DOMAIN queue :
             /\ RunItem(n)
             /\ stack' = Moved(n)
             /\ UNCHANGED <<mode, executing, queue, tail, args, answer, cache>>
  BY <1>1, <1>2, <1>5, Moves
<1> QED
  BY <1>3, <1>4, <1>5 DEF Stray

LEMMA NextIInv == IInv /\ [Next]_vars => IInv'
<1> SUFFICES ASSUME IInv, [Next]_vars PROVE IInv'
  OBVIOUS
<1>0. TypeOK /\ TypeOK'
  BY NextType DEF IInv
<1>4. CASE status = "running" /\ (Interrupt \/ InterruptProgram)
  <2>1. CASE Interrupt
    BY <1>0, <2>1
    DEF Interrupt, IInv, ExecutingTells, CommitRunsInNormalMode, NeverExitsDuringCommit,
        StoredPlain, RunsItsItem, InnerBehindOuter, NestedCommitNeverReturns, InCommit,
        AnswerTells, InForce, AnswerEndsWithCommit, SayFrames, Live, Commits, Top
  <2>2. CASE InterruptProgram
    BY <1>0, <1>4, <2>2, RunsOn DEF InterruptProgram, Goto, Running
  <2> QED
    BY <1>4, <2>1, <2>2
<1>12. CASE status = "running" /\ (ListEnds \/ ProgramEnds \/ FeedEnds \/ FedProgramEnds)
  <2>1. /\ pc \in Running
        /\ \/ pc' = "return" /\ UNCHANGED status
           \/ pc' \in Running /\ status' # "exited"
        /\ UNCHANGED <<mode, executing, queue, tail, cur, args, stack, answer, wild>>
    BY <1>12 DEF ListEnds, ProgramEnds, FeedEnds, FedProgramEnds, CheckCache, Goto, Crash, Running
  <2>2. cur.word \notin CommitWords
    BY <1>0, <2>1 DEF IInv, RunsItsItem, External, Aptized, Lists, CommitWords
  <2>3. \A n \in DOMAIN queue' : queue'[n] = queue[n]
    BY <2>1
  <2>4. CASE pc' = "return" /\ UNCHANGED status
    BY <1>0, <2>1, <2>2, <2>3, <2>4, Returned
  <2>5. CASE pc' \in Running /\ status' # "exited"
    BY <1>0, <2>1, <2>5, RunsOn
  <2> QED
    BY <2>1, <2>4, <2>5
<1> USE <1>0 DEF IInv, ExecutingTells, Busy, Running, CommitRunsInNormalMode,
      NeverExitsDuringCommit, StoredPlain, RunsItsItem, InnerBehindOuter, NestedCommitNeverReturns, InCommit,
      AnswerTells, InForce, AnswerEndsWithCommit, SayFrames, Live, Commits, Top
<1>1. CASE TypeLine
  BY <1>1 DEF TypeLine, Goto
<1>2. CASE EndOfFile
  BY <1>2 DEF EndOfFile
<1>3. CASE PressTab
  BY <1>3 DEF PressTab, ReadCache, Goto, Crash
<1>5. CASE StartLine
  BY <1>5 DEF StartLine, Goto
<1>6. CASE FinishLine
  BY <1>6 DEF FinishLine, Goto
<1>7. CASE Toggle
  <2>1. stack = <<>>
    BY <1>7 DEF Toggle
  <2> QED
    BY <1>7, <2>1 DEF Toggle, Goto
<1>8. CASE Store
  <2>1. stack = <<>>
    BY <1>8 DEF Store
  <2>2. StoredPlain'
    <3> DEFINE l == [cur EXCEPT !.lead = FALSE]
    <3>1. l.word = cur.word
      BY DEF Line
    <3> HIDE DEF l
    <3>2. queue' = queue \/ queue' = PushBack(queue, tail, l)
      BY <1>8 DEF Store, l
    <3> QED
      BY <1>8, <3>1, <3>2 DEF Store, PushBack
  <2> QED
    BY <1>8, <2>1, <2>2 DEF Store, Goto, ReadCache, Crash
<1>9. CASE Quit
  <2>1. CASE stack = <<>>
    BY <1>9, <2>1 DEF Quit, Dispatch
  <2>2. CASE stack # <<>>
    BY <1>9, <2>2, Returned DEF Quit, Goto, Dispatch, CommitWords, Running
  <2> QED
    BY <2>1, <2>2
<1>10. CASE Report
  BY <1>10, Returned DEF Report, Goto, Dispatch, CommitWords, Running
<1>11. CASE RunProgram
  BY <1>11 DEF RunProgram, Fed, Goto, Dispatch, ReadCache, Crash, External, Aptized, Lists
<1>13. CASE Clear
  BY <1>13, Returned DEF Clear, Goto, Dispatch, CommitWords, EmptyQueue, Running
<1>14. CASE StartRemove
  BY <1>14 DEF StartRemove, Goto, Dispatch
<1>15. CASE RemoveWord
  <2>1. /\ DOMAIN queue' \subseteq DOMAIN queue
        /\ \A n \in DOMAIN queue' : queue'[n] = queue[n]
    BY <1>15 DEF RemoveWord, Erase
  <2> QED
    BY <1>15, <2>1 DEF RemoveWord, Crash
<1>16. CASE EndRemove
  BY <1>16, Returned DEF EndRemove, Goto, CommitWords, Running
<1>17. CASE status = "running" /\ StartCommit
  BY <1>17, Entered
<1>18. CASE CommitNothing
  <2>1. DOMAIN queue = {}
    BY <1>18, EmptyAtEnd DEF CommitNothing
  <2>2. stack = <<>>
    BY <1>18, <2>1 DEF CommitNothing, Dispatch
  <2> QED
    BY <1>18, <2>1, <2>2 DEF CommitNothing, Goto, Dispatch
<1>19. CASE NextItem
  BY <1>19, MovedOn
<1>20. CASE EndCommit
  BY <1>20, Left
<1>21. CASE Stray
  BY <1>21, WentAstray
<1>22. CASE UNCHANGED vars
  BY <1>22 DEF vars
<1> QED
  BY <1>1, <1>2, <1>3, <1>4, <1>5, <1>6, <1>7, <1>8, <1>9, <1>10, <1>11, <1>12,
     <1>13, <1>14, <1>15, <1>16, <1>17, <1>18, <1>19, <1>20, <1>21, <1>22
  DEF Next, User, Program, Over
-----------------------------------------------------------------------------
(* The theorems. *)

(* Every variable of the session keeps to its type. *)
THEOREM TypeCorrect == Spec => []TypeOK
  BY InitType, NextType, PTL DEF Spec

(* The inductive invariant holds. *)
THEOREM Invariance == Spec => []IInv
  BY InitIInv, NextIInv, PTL DEF Spec

(* No commit ever runs in queue mode. *)
THEOREM NormalModeInCommits == Spec => []CommitRunsInNormalMode
<1>1. IInv => CommitRunsInNormalMode
  BY DEF IInv
<1> QED
  BY <1>1, Invariance, PTL

(* While a commit runs, lines leave the queue at most. *)
THEOREM NoGrowthInCommits == Spec => CommitNeverGrowsQueue
<1>1. IInv /\ [Next]_vars => [stack # <<>> => QueueOnlyShrinks]_vars
  <2> SUFFICES ASSUME IInv, Next, stack # <<>> PROVE QueueOnlyShrinks
    BY DEF vars
  <2>1. CASE UNCHANGED queue
    BY <2>1 DEF QueueOnlyShrinks
  <2>2. CASE Store
    BY <2>2 DEF Store, IInv, CommitRunsInNormalMode
  <2>3. CASE Clear
    BY <2>3 DEF Clear, EmptyQueue, QueueOnlyShrinks
  <2>4. CASE RemoveWord
    BY <2>4 DEF RemoveWord, Erase, QueueOnlyShrinks
  <2>5. CASE User
    BY <2>1, <2>5 DEF User, TypeLine, EndOfFile, PressTab, Interrupt, InterruptProgram
  <2>6. CASE StartLine \/ FinishLine \/ Toggle \/ Quit \/ Report \/ RunProgram \/ ListEnds
             \/ ProgramEnds \/ FeedEnds \/ FedProgramEnds \/ StartRemove \/ EndRemove
    BY <2>1, <2>6 DEF StartLine, FinishLine, Toggle, Quit, Report, RunProgram, ListEnds,
                      ProgramEnds, FeedEnds, FedProgramEnds, StartRemove, EndRemove
  <2>7. CASE StartCommit \/ CommitNothing \/ NextItem \/ EndCommit \/ Stray
    BY <2>1, <2>7 DEF StartCommit, CommitNothing, NextItem, EndCommit, Stray, LeaveCommit
  <2>8. CASE Over
    BY <2>1, <2>8 DEF Over, vars
  <2> QED
    BY <2>2, <2>3, <2>4, <2>5, <2>6, <2>7, <2>8 DEF Next, Program
<1> QED
  BY <1>1, Invariance, PTL DEF Spec, CommitNeverGrowsQueue

(* A commit stored in the queue comes back only when its line is gone. *)
THEOREM NoReturnFromNestedCommits == Spec => []NestedCommitNeverReturns
<1>1. IInv => NestedCommitNeverReturns
  BY DEF IInv
<1> QED
  BY <1>1, Invariance, PTL

(* Every program is fed the answer of the innermost queue-commit-say. *)
THEOREM AnswersAreInForce == Spec => []AnswerInForce
<1>1. IInv => AnswerInForce
  BY DEF IInv, AnswerTells, AnswerInForce
<1> QED
  BY <1>1, Invariance, PTL

(* No answer outlives the last queue-commit-say. *)
THEOREM AnswersEnd == Spec => []AnswerEndsWithCommit
<1>1. IInv => AnswerEndsWithCommit
  BY DEF IInv
<1> QED
  BY <1>1, Invariance, PTL

(* The process never exits in the middle of a commit. *)
THEOREM NoExitInCommits == Spec => []NeverExitsDuringCommit
<1>1. IInv => NeverExitsDuringCommit
  BY DEF IInv
<1> QED
  BY <1>1, Invariance, PTL

-----------------------------------------------------------------------------
(* Sessions that store no queue command. *)

LEMMA InitQuiet == Init => QuietInv
<1> SUFFICES ASSUME Init PROVE QuietInv
  OBVIOUS
<1>1. stack = <<>> /\ Len(stack) = 0 /\ DOMAIN queue = {}
  BY DEF Init, EmptyQueue
<1> QED
  BY <1>1 DEF Init, QuietInv, CrashNeedsCause

LEMMA NextQuiet == IInv /\ IInv' /\ QuietInv /\ [Next]_vars => QuietInv'
<1> SUFFICES ASSUME IInv, IInv', QuietInv, [Next]_vars, NoQueueWordStored PROVE QuietInv'
  BY DEF QuietInv, NoQueueWordStored
<1>0. /\ stack \in Seq(Frame) /\ stack' \in Seq(Frame)
      /\ mode => stack = <<>>
      /\ executing <=> pc \in Busy
  BY DEF IInv, TypeOK, CommitRunsInNormalMode, ExecutingTells
<1>a. Len(stack) \in Nat /\ Len(<<>>) = 0 /\ (stack # <<>> => Len(stack) = 1)
  <2>1. Len(stack) <= 1
    BY DEF QuietInv
  <2>2. Len(stack) \in Nat
    BY <1>0
  <2>3. Len(stack) = 0 => stack = <<>>
    BY <1>0
  <2>4. Len(<<>>) = 0
    OBVIOUS
  <2> QED
    BY <2>1, <2>2, <2>3, <2>4
<1> USE <1>0, <1>a DEF QuietInv, CrashNeedsCause, Live
<1>1. CASE TypeLine
  BY <1>1 DEF TypeLine, Goto, Busy, Running, IInv, ExecutingTells
<1>2. CASE EndOfFile
  BY <1>2 DEF EndOfFile, Busy, Running
<1>3. CASE PressTab
  BY <1>3 DEF PressTab, ReadCache, Goto, Crash
<1>4. CASE Interrupt \/ InterruptProgram
  BY <1>4 DEF Interrupt, InterruptProgram, Goto
<1>5. CASE StartLine
  BY <1>5 DEF StartLine, Goto, IInv, ExecutingTells, Busy, Running
<1>6. CASE FinishLine
  BY <1>6 DEF FinishLine, Goto
<1>7. CASE Toggle
  BY <1>7 DEF Toggle, Goto
<1>9. CASE Quit
  BY <1>9 DEF Quit, Goto, Dispatch
<1>10. CASE Report
  BY <1>10 DEF Report, Goto, Dispatch
<1>11. CASE RunProgram
  BY <1>11 DEF RunProgram, Fed, Goto, Dispatch, ReadCache, Crash
<1>12. CASE status = "running" /\ (ListEnds \/ ProgramEnds \/ FeedEnds \/ FedProgramEnds)
  <2>1. \/ status' = "running"
        \/ status' = "crashed" /\ cache' = "freed"
        \/ status' = "crashed" /\ pc' = "child" /\ cur'.word = "orphans-all"
    BY <1>12 DEF ListEnds, ProgramEnds, FeedEnds, FedProgramEnds, Goto, CheckCache, Crash
  <2>2. /\ pc \in Running /\ pc' \in Running \cup {"return"}
        /\ UNCHANGED <<mode, queue, cur, stack, wild>>
    BY <1>12 DEF ListEnds, ProgramEnds, FeedEnds, FedProgramEnds, Goto, CheckCache, Crash, Running
  <2>3. pc # "return" /\ pc' \notin {"line", "dispatch", "removing"}
    BY <2>2 DEF Running
  <2> QED
    BY <2>1, <2>2, <2>3
<1>13. CASE Clear
  <2>1. stack = <<>>
    BY <1>13 DEF Clear, Dispatch, QueueWords
  <2>2. DOMAIN queue' = {} /\ pc' = "return" /\ UNCHANGED <<status, mode, cur, stack, wild, cache>>
    BY <1>13 DEF Clear, Goto, EmptyQueue
  <2>3. pc = "dispatch"
    BY <1>13 DEF Clear, Dispatch
  <2> QED
    BY <2>1, <2>2, <2>3
<1>14. CASE StartRemove
  <2>1. stack = <<>>
    BY <1>14 DEF StartRemove, Dispatch, QueueWords
  <2> QED
    BY <1>14, <2>1 DEF StartRemove, Goto
<1>15. CASE RemoveWord
  <2>1. stack = <<>>
    BY <1>15 DEF RemoveWord
  <2>2. DOMAIN queue' \subseteq DOMAIN queue /\ \A n \in DOMAIN queue' : queue'[n] = queue[n]
    BY <1>15 DEF RemoveWord, Erase
  <2> QED
    BY <1>15, <2>1, <2>2 DEF RemoveWord, Crash
<1>16. CASE status = "running" /\ EndRemove
  BY <1>16 DEF EndRemove, Goto
<1>17. CASE status = "running" /\ StartCommit
  <2>1. PICK n \in DOMAIN queue : StartAt(n)
    BY <1>17 DEF StartCommit
  <2>2. stack = <<>> /\ Len(stack) < StackLimit
    BY <1>17, LinesAssumption DEF StartCommit, Dispatch, CommitWords, QueueWords
  <2>3. stack' = <<NewFrame(n)>> /\ cur' = queue[n] /\ pc' = "dispatch"
        /\ UNCHANGED <<status, mode, queue, wild>>
    BY <1>17, <2>1, <2>2 DEF StartCommit, StartAt, RunItem, Goto
  <2>4. Len(stack') = 1 /\ stack'[1].at = n
    BY <2>3 DEF NewFrame
  <2> QED
    BY <1>17, <2>3, <2>4 DEF StartCommit, Dispatch
<1>18. CASE CommitNothing
  BY <1>18 DEF CommitNothing, Goto, Dispatch
<1>19. CASE status = "running" /\ NextItem
  <2>1. PICK n \in DOMAIN queue : RunItem(n) /\ stack' = Moved(n)
    BY <1>19 DEF NextItem
  <2>2. n \in Nat
    BY DEF IInv, TypeOK
  <2>3. stack # <<>> /\ Len(stack) = 1
    BY <1>19 DEF NextItem, InCommit
  <2>4. Len(stack') = 1 /\ stack'[1].at = n
    BY <2>1, <2>2, <2>3, MovedAt
  <2>5. /\ cur' = queue[n] /\ pc' = "dispatch" /\ ~mode
        /\ UNCHANGED <<status, mode, queue, wild>>
    BY <1>19, <2>1, <2>3 DEF NextItem, RunItem, Goto
  <2>6. queue[n].word \notin QueueWords
    BY <2>1
  <2>7. status' # "crashed"
    BY <1>19, <2>5
  <2> QED
    BY <2>3, <2>4, <2>5, <2>6, <2>7
<1>20. CASE EndCommit
  <2>1. stack # <<>> /\ Len(stack) = 1
    BY <1>20 DEF EndCommit, InCommit
  <2>2. stack' = <<>> /\ Len(stack') = 0
    BY <1>20, <2>1, PoppedFrames DEF EndCommit, LeaveCommit
  <2> QED
    BY <1>20, <2>2 DEF EndCommit, InCommit, LeaveCommit, Goto
<1>21. CASE Stray
  BY <1>21 DEF Stray, InCommit, Top
<1>22. CASE UNCHANGED vars
  BY <1>22 DEF vars
<1>8. CASE Store
  <2> DEFINE l == [cur EXCEPT !.lead = FALSE]
  <2>1. l.word = cur.word
    BY DEF IInv, TypeOK, Line
  <2> HIDE DEF l
  <2>2. UNCHANGED queue \/ queue' = PushBack(queue, tail, l)
    BY <1>8 DEF Store, l
  <2>3. stack = <<>> /\ cur.word \notin QueueWords
    BY <1>8 DEF Store, NoQueueWordStored
  <2>4. \A n \in DOMAIN queue' : queue'[n].word \notin QueueWords
    BY <2>1, <2>2, <2>3 DEF PushBack
  <2> QED
    BY <1>8, <2>3, <2>4 DEF Store, Goto, ReadCache, Crash
<1> QED
  BY <1>1, <1>2, <1>3, <1>4, <1>5, <1>6, <1>7, <1>8, <1>9, <1>10, <1>11, <1>12,
     <1>13, <1>14, <1>15, <1>16, <1>17, <1>18, <1>19, <1>20, <1>21, <1>22
  DEF Next, User, Program, Over

(* When the queue stores no queue command, only a package cache that is    *)
(* gone, a range outside the queue or orphans-all can crash the session.   *)
THEOREM QuietSessionsSurvive == Spec => []CrashNeedsCause
<1>1. QuietInv => CrashNeedsCause
  BY DEF QuietInv, CrashNeedsCause
<1> QED
  BY <1>1, InitQuiet, NextQuiet, Invariance, PTL DEF Spec

-----------------------------------------------------------------------------
(* Sessions of commands that refresh the cache or change nothing. *)

LEMMA InitFresh == Init => FreshInv
<1> SUFFICES ASSUME Init, Refreshing PROVE FreshInv
  BY DEF FreshInv
<1>1. DOMAIN queue = {}
  BY DEF Init, EmptyQueue
<1>2. cur \in NormalLines /\ cache # "stale"
  BY DEF Init
<1> QED
  BY <1>1, <1>2 DEF FreshInv, Refreshing

LEMMA NextFresh == TypeOK /\ FreshInv /\ [Next]_vars => FreshInv'
<1> SUFFICES ASSUME TypeOK, FreshInv, [Next]_vars, Refreshing PROVE FreshInv'
  BY DEF FreshInv, Refreshing
<1> USE DEF FreshInv
<1>1. CASE TypeLine
  BY <1>1 DEF TypeLine, Refreshing, Goto
<1>2. CASE Store
  <2> DEFINE l == [cur EXCEPT !.lead = FALSE]
  <2>1. l.word = cur.word
    BY DEF TypeOK, Line
  <2> HIDE DEF l
  <2>2. UNCHANGED queue \/ queue' = PushBack(queue, tail, l)
    BY <1>2 DEF Store, l
  <2>3. \A n \in DOMAIN queue' : queue'[n].word \notin {"purge", "."}
    BY <2>1, <2>2 DEF PushBack
  <2> QED
    BY <1>2, <2>3 DEF Store, Goto, ReadCache, Crash
<1>3. CASE ProgramEnds \/ FeedEnds
  <2>1. PICK seen, label : CheckCache(seen, label)
    BY <1>3 DEF ProgramEnds, FeedEnds, External, Refreshing
  <2>2. cache' # "stale"
    BY <2>1 DEF CheckCache, Refreshing
  <2>3. UNCHANGED <<queue, cur>>
    BY <1>3 DEF ProgramEnds, FeedEnds
  <2> QED
    BY <2>2, <2>3
<1>4. CASE Clear
  BY <1>4 DEF Clear, EmptyQueue, Goto
<1>5. CASE RemoveWord
  <2>1. DOMAIN queue' \subseteq DOMAIN queue /\ \A n \in DOMAIN queue' : queue'[n] = queue[n]
    BY <1>5 DEF RemoveWord, Erase
  <2> QED
    BY <1>5, <2>1 DEF RemoveWord, Crash
<1>6. CASE StartCommit
  BY <1>6 DEF StartCommit, Dispatch, StartAt, RunItem, Goto, Crash
<1>7. CASE NextItem
  BY <1>7 DEF NextItem, RunItem, Goto
<1>8. CASE Stray
  BY <1>8 DEF Stray, InCommit, RunItem, LeaveCommit, Goto, Crash
<1>9. CASE RunProgram
  BY <1>9 DEF RunProgram
<1>10. CASE \/ EndOfFile \/ PressTab \/ Interrupt \/ InterruptProgram \/ StartLine \/ FinishLine
            \/ Toggle \/ Quit \/ Report \/ ListEnds \/ FedProgramEnds \/ StartRemove
            \/ EndRemove \/ CommitNothing \/ EndCommit \/ UNCHANGED vars
  <2>1. UNCHANGED <<queue, cur>> /\ cache' \in {cache, "late"}
    BY <1>10
    DEF EndOfFile, PressTab, Interrupt, InterruptProgram, StartLine, FinishLine,
        Toggle, Quit, Report, ListEnds, FedProgramEnds, StartRemove, EndRemove, CommitNothing,
        EndCommit, LeaveCommit, vars
  <2> QED
    BY <2>1
<1> QED
  BY <1>1, <1>2, <1>3, <1>4, <1>5, <1>6, <1>7, <1>8, <1>9, <1>10
  DEF Next, User, Program, Over

(* With refreshing on and only commands that refresh or change nothing,    *)
(* the package cache is never older than the last command, unless that was *)
(* fed an answer and went on behind a closed input.                        *)
THEOREM CacheIsFresh == Spec => []NeverStale
<1>1. FreshInv => NeverStale
  BY DEF FreshInv, NeverStale
<1> QED
  BY <1>1, InitFresh, NextFresh, TypeCorrect, PTL DEF Spec

-----------------------------------------------------------------------------
(* The numbers of a list's lines. *)

(* A list's nodes are positive, and there are finitely many. *)
IsList(q) == IsFiniteSet(DOMAIN q) /\ DOMAIN q \subseteq Nat \ {0}

UpTo(q, n) == {k \in DOMAIN q : k <= n}

LEMMA NumberTypes ==
  ASSUME NEW q, IsList(q), NEW n
  PROVE  /\ Size(q) \in Nat
         /\ IsFiniteSet(UpTo(q, n))
         /\ Number(q, n) = Cardinality(UpTo(q, n))
         /\ Number(q, n) \in 0 .. Size(q)
         /\ n \in DOMAIN q => Number(q, n) # 0
<1>1. UpTo(q, n) \in SUBSET DOMAIN q /\ Number(q, n) = Cardinality(UpTo(q, n))
  BY DEF UpTo, Number
<1>2. /\ Size(q) \in Nat /\ IsFiniteSet(UpTo(q, n))
      /\ Cardinality(UpTo(q, n)) <= Size(q) /\ Cardinality(UpTo(q, n)) \in Nat
  BY <1>1, FS_Subset, FS_CardinalityType DEF IsList, Size
<1>3. ASSUME n \in DOMAIN q PROVE Cardinality(UpTo(q, n)) # 0
  <2>1. n \in UpTo(q, n)
    BY <1>3 DEF IsList, UpTo
  <2> QED
    BY <2>1, <1>2, FS_EmptySet
<1> QED
  BY <1>1, <1>2, <1>3

(* NumberTypes are in the order of the nodes. *)
LEMMA NumbersAscend ==
  ASSUME NEW q, IsList(q), NEW m \in DOMAIN q, NEW n \in DOMAIN q, m < n
  PROVE  Number(q, m) < Number(q, n)
<1>1. UpTo(q, m) \in SUBSET UpTo(q, n) /\ n \in UpTo(q, n) /\ n \notin UpTo(q, m)
  BY DEF UpTo, IsList
<1>2. /\ Cardinality(UpTo(q, m)) \in Nat /\ Cardinality(UpTo(q, n)) \in Nat
      /\ Cardinality(UpTo(q, m)) <= Cardinality(UpTo(q, n))
      /\ Cardinality(UpTo(q, m)) # Cardinality(UpTo(q, n))
  BY <1>1, NumberTypes, FS_Subset, FS_CardinalityType
<1> QED
  BY <1>2, NumberTypes

LEMMA NumbersDiffer ==
  ASSUME NEW q, IsList(q), NEW m \in DOMAIN q, NEW n \in DOMAIN q
  PROVE  /\ Number(q, m) = Number(q, n) <=> m = n
         /\ Number(q, m) < Number(q, n) <=> m < n
<1>1. m \in Nat /\ n \in Nat /\ Number(q, m) \in Nat /\ Number(q, n) \in Nat
  BY NumberTypes DEF IsList
<1>2. CASE m < n
  BY <1>1, <1>2, NumbersAscend
<1>3. CASE n < m
  BY <1>1, <1>3, NumbersAscend
<1>4. CASE m = n
  BY <1>1, <1>4
<1> QED
  BY <1>1, <1>2, <1>3, <1>4

(* Every number up to the size is some line's. *)
LEMMA NumbersAreTaken ==
  ASSUME NEW q, IsList(q), NEW k \in 1 .. Size(q)
  PROVE  \E n \in DOMAIN q : Number(q, n) = k
<1> DEFINE f == [n \in DOMAIN q |-> Number(q, n)]
           T == 1 .. Size(q)
<1>1. f \in [DOMAIN q -> T]
  BY NumberTypes
<1>2. \A m, n \in DOMAIN q : f[m] = f[n] => m = n
  BY NumbersDiffer
<1>3. IsFiniteSet(T) /\ Cardinality(T) = Size(q)
  <2>1. Size(q) \in Nat
    BY NumberTypes
  <2> QED
    BY <2>1, FS_Interval
<1>4. f \in Injection(DOMAIN q, T)
  <2> HIDE DEF f, T
  <2> QED
    BY <1>1, <1>2 DEF Injection, IsInjective
<1>5. f \in Surjection(DOMAIN q, T)
  <2> HIDE DEF f, T
  <2> QED
    BY <1>3, <1>4, FS_Injection DEF Size
<1>6. \A j \in T : \E n \in DOMAIN q : f[n] = j
  <2> HIDE DEF f, T
  <2> QED
    BY <1>5 DEF Surjection
<1> QED
  BY <1>6

(* The line a number is given to. *)
NodeOf(q, k) == CHOOSE n \in DOMAIN q : Number(q, n) = k

LEMMA NodesOfNumbers ==
  ASSUME NEW q, IsList(q)
  PROVE  /\ \A k \in 1 .. Size(q) : NodeOf(q, k) \in DOMAIN q /\ Number(q, NodeOf(q, k)) = k
         /\ \A n \in DOMAIN q : NodeOf(q, Number(q, n)) = n
<1>1. ASSUME NEW k \in 1 .. Size(q)
      PROVE  NodeOf(q, k) \in DOMAIN q /\ Number(q, NodeOf(q, k)) = k
  BY NumbersAreTaken DEF NodeOf
<1>2. ASSUME NEW n \in DOMAIN q PROVE NodeOf(q, Number(q, n)) = n
  <2>1. NodeOf(q, Number(q, n)) \in DOMAIN q /\ Number(q, NodeOf(q, Number(q, n))) = Number(q, n)
    BY DEF NodeOf
  <2> QED
    BY <2>1, NumbersDiffer
<1> QED
  BY <1>1, <1>2

(* i++ goes to the next number, and end() is behind the last. *)
LEMMA NextNumber ==
  ASSUME NEW q, IsList(q), NEW i \in DOMAIN q \cup {0}, NEW n, IsNext(q, i, n)
  PROVE  Number(q, n) = (IF i = 0 THEN 0 ELSE Number(q, i)) + 1
<1>1. CASE i = 0
  <2>1. UpTo(q, n) = {n}
    BY <1>1 DEF UpTo, IsNext, IsList
  <2> QED
    BY <1>1, <2>1, NumberTypes, FS_Singleton
<1>2. CASE i # 0
  <2>1. UpTo(q, n) = UpTo(q, i) \cup {n} /\ n \notin UpTo(q, i)
    BY <1>2 DEF UpTo, IsNext, IsList
  <2> QED
    BY <1>2, <2>1, NumberTypes, FS_AddElement
<1> QED
  BY <1>1, <1>2

LEMMA LastNumber ==
  ASSUME NEW q, IsList(q), NEW i \in DOMAIN q
  PROVE  AtEnd(q, i) <=> Number(q, i) = Size(q)
<1>1. UpTo(q, i) \in SUBSET DOMAIN q
  BY DEF UpTo
<1>2. Cardinality(UpTo(q, i)) = Cardinality(DOMAIN q) <=> UpTo(q, i) = DOMAIN q
  BY <1>1, FS_Subset DEF IsList
<1>3. UpTo(q, i) = DOMAIN q <=> AtEnd(q, i)
  BY DEF UpTo, AtEnd
<1> QED
  BY <1>2, <1>3, NumberTypes DEF Size

LEMMA ListedNodes ==
  ASSUME NEW q
  PROVE  Listed(q) = [k \in 1 .. Size(q) |-> q[NodeOf(q, k)]]
  BY DEF Listed, NodeOf

(* A new line is behind all others. *)
LEMMA ListedPushBack ==
  ASSUME NEW q, IsList(q), NEW t \in Nat \ {0}, \A n \in DOMAIN q : n < t, NEW l
  PROVE  /\ IsList(PushBack(q, t, l))
         /\ Listed(PushBack(q, t, l)) = Append(Listed(q), l)
<1> DEFINE r == PushBack(q, t, l)
<1>1. DOMAIN r = DOMAIN q \cup {t} /\ r[t] = l /\ \A n \in DOMAIN q : r[n] = q[n]
  <2>1. \A n \in DOMAIN q : n # t
    BY DEF IsList
  <2> QED
    BY <2>1 DEF PushBack
<1> HIDE DEF r
<1>2. IsList(r) /\ Size(r) = Size(q) + 1
  <2>1. t \notin DOMAIN q
    BY DEF IsList
  <2> QED
    BY <1>1, <2>1, FS_AddElement DEF IsList, Size
<1>3. ASSUME NEW n \in DOMAIN q PROVE Number(r, n) = Number(q, n)
  <2>1. UpTo(r, n) = UpTo(q, n)
    BY <1>1 DEF UpTo, IsList
  <2> QED
    BY <1>2, <2>1, NumberTypes
<1>4. Number(r, t) = Size(q) + 1
  <2>1. UpTo(r, t) = DOMAIN r
    BY <1>1 DEF UpTo, IsList
  <2> QED
    BY <1>2, <2>1, NumberTypes DEF Size
<1>5. ASSUME NEW k \in 1 .. Size(q) PROVE r[NodeOf(r, k)] = q[NodeOf(q, k)]
  <2>1. NodeOf(q, k) \in DOMAIN q /\ Number(q, NodeOf(q, k)) = k
    BY NodesOfNumbers
  <2>2. NodeOf(r, k) = NodeOf(q, k)
    BY <1>1, <1>2, <1>3, <2>1, NodesOfNumbers
  <2> QED
    BY <1>1, <2>1, <2>2
<1>6. r[NodeOf(r, Size(q) + 1)] = l
  BY <1>1, <1>2, <1>4, NodesOfNumbers
<1>7. Listed(r) = Append(Listed(q), l)
  <2> DEFINE old == [k \in 1 .. Size(q) |-> q[NodeOf(q, k)]]
             new == [k \in 1 .. Size(q) + 1 |-> r[NodeOf(r, k)]]
  <2>1. Size(q) \in Nat
    BY NumberTypes
  <2>2. /\ \A k \in 1 .. Size(q) : new[k] = old[k]
        /\ new[Size(q) + 1] = l
    BY <1>5, <1>6, <2>1
  <2>3. new = Append(old, l)
    <3> DEFINE S == {old[k] : k \in 1 .. Size(q)} \cup {l}
    <3>1. old \in Seq(S) /\ Len(old) = Size(q) /\ l \in S
      BY <2>1
    <3>2. DOMAIN new = 1 .. Size(q) + 1
      OBVIOUS
    <3>3. new \in Seq(S) /\ Len(new) = Size(q) + 1
      <4>1. \A k \in 1 .. Size(q) + 1 : new[k] \in S
        <5> HIDE DEF new, old
        <5> QED
          BY <2>1, <2>2 DEF S
      <4> QED
        BY <2>1, <4>1
    <3> HIDE DEF old, new, S
    <3> QED
      BY <2>1, <2>2, <3>1, <3>3
  <2> QED
    BY <1>2, <2>3, ListedNodes
<1> QED
  BY <1>2, <1>7 DEF r

(* As many are left of the first k numbers. *)
LeftOf(places, k) == Cardinality({j \in 1 .. k : j \notin places})

(* Different lines are as many as their numbers. *)
LEMMA AsManyNumbers ==
  ASSUME NEW q, IsList(q), NEW A \in SUBSET DOMAIN q
  PROVE  /\ IsFiniteSet({Number(q, n) : n \in A})
         /\ Cardinality({Number(q, n) : n \in A}) = Cardinality(A)
<1> DEFINE f == [n \in A |-> Number(q, n)]
           T == {Number(q, n) : n \in A}
<1>1. IsFiniteSet(A)
  BY FS_Subset DEF IsList
<1>2. /\ f \in [A -> T] /\ (\A m, n \in A : f[m] = f[n] => m = n)
      /\ \A k \in T : \E n \in A : f[n] = k
  BY NumbersDiffer
<1>3. f \in Surjection(A, T) /\ f \in Injection(A, T)
  <2> HIDE DEF f, T
  <2> QED
    BY <1>2 DEF Injection, IsInjective, Surjection
<1>4. IsFiniteSet(T) /\ Cardinality(T) = Cardinality(A)
  <2> HIDE DEF f, T
  <2> QED
    BY <1>1, <1>3, FS_Surjection
<1> QED
  BY <1>4

(* The lines left behind an erase() move up. *)
LEMMA ErasedNumbers ==
  ASSUME NEW q, IsList(q), NEW S \in SUBSET DOMAIN q
  PROVE  LET places == {Number(q, n) : n \in S}
         IN  /\ IsList(Erase(q, S)) /\ DOMAIN Erase(q, S) = DOMAIN q \ S
             /\ Size(Erase(q, S)) = Cardinality((1 .. Size(q)) \ places)
             /\ \A n \in DOMAIN q \ S : Number(Erase(q, S), n) = LeftOf(places, Number(q, n))
<1> DEFINE places == {Number(q, n) : n \in S}
           r == Erase(q, S)
<1>1. DOMAIN r = DOMAIN q \ S /\ IsList(r)
  <2>1. DOMAIN r = DOMAIN q \ S
    BY DEF Erase
  <2>2. DOMAIN q \ S \in SUBSET DOMAIN q
    OBVIOUS
  <2> HIDE DEF r
  <2> QED
    BY <2>1, <2>2, FS_Subset DEF IsList
<1> HIDE DEF r
<1>2. \A n \in DOMAIN q : Number(q, n) \in places <=> n \in S
  BY NumbersDiffer
<1>3. Size(r) = Cardinality((1 .. Size(q)) \ places)
  <2>1. (1 .. Size(q)) \ places = {Number(q, n) : n \in DOMAIN q \ S}
    <3>1. ASSUME NEW k \in (1 .. Size(q)) \ places
          PROVE  k \in {Number(q, n) : n \in DOMAIN q \ S}
      <4>1. PICK n \in DOMAIN q : Number(q, n) = k
        BY NumbersAreTaken
      <4> QED
        BY <4>1
    <3>2. ASSUME NEW n \in DOMAIN q \ S PROVE Number(q, n) \in (1 .. Size(q)) \ places
      BY <1>2, NumberTypes
    <3> QED
      BY <3>1, <3>2
  <2>2. DOMAIN q \ S \in SUBSET DOMAIN q
    OBVIOUS
  <2> QED
    BY <1>1, <2>1, <2>2, AsManyNumbers DEF Size
<1>4. ASSUME NEW n \in DOMAIN q \ S PROVE Number(r, n) = LeftOf(places, Number(q, n))
  <2> DEFINE A == UpTo(r, n)
             B == {j \in 1 .. Number(q, n) : j \notin places}
  <2>1. A \in SUBSET DOMAIN q /\ A = {k \in DOMAIN q \ S : k <= n}
    BY <1>1 DEF UpTo
  <2>2. \A k \in DOMAIN q : Number(q, k) <= Number(q, n) <=> k <= n
    <3>1. \A k \in DOMAIN q : Number(q, k) \in Nat /\ k \in Nat
      BY NumberTypes DEF IsList
    <3> QED
      BY <3>1, NumbersDiffer
  <2>3. B = {Number(q, k) : k \in A}
    <3>1. ASSUME NEW j \in B PROVE j \in {Number(q, k) : k \in A}
      <4>1. j \in 1 .. Size(q)
        BY NumberTypes
      <4>2. PICK k \in DOMAIN q : Number(q, k) = j
        BY <4>1, NumbersAreTaken
      <4>3. k \in A
        BY <4>2, <2>1, <2>2, <1>2, NumberTypes
      <4> QED
        BY <4>2, <4>3
    <3>2. ASSUME NEW k \in A PROVE Number(q, k) \in B
      <4>1. k \in DOMAIN q \ S /\ k <= n
        BY <2>1
      <4>2. Number(q, k) \in Nat \ {0} /\ Number(q, n) \in Nat /\ Number(q, k) <= Number(q, n)
        BY <4>1, <2>2, NumberTypes
      <4> QED
        BY <4>1, <4>2, <1>2
    <3> QED
      BY <3>1, <3>2
  <2>4. Number(r, n) = Cardinality(A)
    BY <1>1, NumberTypes
  <2> HIDE DEF A, B
  <2>5. Cardinality(B) = Cardinality(A)
    BY <2>1, <2>3, AsManyNumbers
  <2> QED
    BY <2>4, <2>5 DEF LeftOf, B
<1> QED
  BY <1>1, <1>3, <1>4 DEF r

LEMMA ListedErase ==
  ASSUME NEW q, IsList(q), NEW S \in SUBSET DOMAIN q
  PROVE  LET places == {Number(q, n) : n \in S}
             left == (1 .. Size(q)) \ places
         IN  Listed(Erase(q, S)) =
               [m \in 1 .. Cardinality(left) |->
                  Listed(q)[CHOOSE k \in left : LeftOf(places, k) = m]]
<1> DEFINE places == {Number(q, n) : n \in S}
           left == (1 .. Size(q)) \ places
           r == Erase(q, S)
<1>1. /\ IsList(r) /\ DOMAIN r = DOMAIN q \ S /\ Size(r) = Cardinality(left)
      /\ \A n \in DOMAIN q \ S : Number(r, n) = LeftOf(places, Number(q, n))
  BY ErasedNumbers
<1>2. \A n \in DOMAIN q \ S : r[n] = q[n]
  BY DEF Erase
<1>3. \A n \in DOMAIN q : Number(q, n) \in left <=> n \notin S
  <2>1. \A n \in DOMAIN q : Number(q, n) \in places <=> n \in S
    BY NumbersDiffer
  <2> QED
    BY <2>1, NumberTypes
<1> HIDE DEF r, places, left
<1>4. ASSUME NEW m \in 1 .. Cardinality(left)
      PROVE  r[NodeOf(r, m)] = Listed(q)[CHOOSE k \in left : LeftOf(places, k) = m]
  <2> DEFINE n == NodeOf(r, m)
             c == CHOOSE k \in left : LeftOf(places, k) = m
  <2>1. n \in DOMAIN q \ S /\ Number(r, n) = m
    BY <1>1, NodesOfNumbers
  <2>2. Number(q, n) \in left /\ LeftOf(places, Number(q, n)) = m
    BY <1>1, <1>3, <2>1
  <2>3. c \in left /\ LeftOf(places, c) = m
    BY <2>2
  <2> HIDE DEF c
  <2>4. PICK d \in DOMAIN q : Number(q, d) = c
    BY <2>3, NumbersAreTaken DEF left
  <2>5. d \in DOMAIN q \ S /\ Number(r, d) = m
    BY <1>1, <1>3, <2>3, <2>4
  <2>6. d = n
    BY <1>1, <2>1, <2>5, NumbersDiffer
  <2>7. Listed(q)[c] = q[n]
    <3>1. c \in 1 .. Size(q) /\ NodeOf(q, c) = d
      BY <2>3, <2>4, NodesOfNumbers DEF left
    <3> QED
      BY <3>1, <2>6, ListedNodes
  <2> QED
    BY <1>2, <2>1, <2>7 DEF c
<1> QED
  BY <1>1, <1>4, ListedNodes DEF r, places, left

-----------------------------------------------------------------------------
(* Sessions that store no queue command keep QueuePromise. *)

(* queue-remove is typed in normal mode, and nothing switches while it     *)
(* removes.                                                                *)
RemovesInNormalMode == pc = "removing" => ~mode

LEMMA InitRemoves == Init => RemovesInNormalMode
  BY DEF Init, RemovesInNormalMode

LEMMA NextRemoves == RemovesInNormalMode /\ [Next]_vars => RemovesInNormalMode'
<1> SUFFICES ASSUME RemovesInNormalMode, [Next]_vars, pc' = "removing" PROVE ~mode'
  BY DEF RemovesInNormalMode
<1> USE DEF RemovesInNormalMode, Goto, Crash
<1>1. CASE User
  BY <1>1 DEF User, TypeLine, EndOfFile, PressTab, Interrupt, InterruptProgram, ReadCache
<1>2. CASE StartLine \/ FinishLine \/ Toggle \/ Store \/ Quit \/ Report \/ RunProgram
  BY <1>2 DEF StartLine, FinishLine, Toggle, Store, Quit, Report, RunProgram, Dispatch, ReadCache
<1>3. CASE ListEnds \/ ProgramEnds \/ FeedEnds \/ FedProgramEnds
  BY <1>3 DEF ListEnds, ProgramEnds, FeedEnds, FedProgramEnds, CheckCache
<1>4. CASE Clear \/ StartRemove \/ RemoveWord \/ EndRemove
  BY <1>4 DEF Clear, StartRemove, RemoveWord, EndRemove, Dispatch
<1>5. CASE StartCommit \/ CommitNothing \/ NextItem \/ EndCommit \/ Stray
  BY <1>5 DEF StartCommit, StartAt, CommitNothing, NextItem, EndCommit, Stray, LeaveCommit, RunItem,
              Dispatch
<1>6. CASE UNCHANGED vars
  BY <1>6 DEF vars
<1> QED
  BY <1>1, <1>2, <1>3, <1>4, <1>5, <1>6 DEF Next, Program, Over

LEMMA QueueIsList ==
  ASSUME TypeOK
  PROVE  IsList(queue) /\ tail \in Nat \ {0} /\ \A n \in DOMAIN queue : n < tail
<1>1. IsFiniteSet(1 .. (tail - 1))
  BY FS_Interval DEF TypeOK
<1> QED
  BY <1>1, FS_Subset DEF TypeOK, IsList

PromiseInv == IInv /\ QuietInv /\ RemovesInNormalMode /\ NoQueueWordStored

LEMMA OneAtMost ==
  ASSUME NEW T, NEW s \in Seq(T), Len(s) <= 1, s # <<>>
  PROVE  Len(s) = 1
<1> DEFINE n == Len(s)
<1>1. n \in Nat /\ n <= 1
  OBVIOUS
<1>2. n # 0
  OBVIOUS
<1> HIDE DEF n
<1>3. n = 1
  BY <1>1, <1>2
<1> QED
  BY <1>3 DEF n

(* The one commit there can be stands on a line of the queue. *)
LEMMA OneCommit ==
  ASSUME PromiseInv
  PROVE  /\ stack \in Seq(Frame) /\ ~wild
         /\ stack # <<>> => Len(stack) = 1 /\ Live(1) /\ Top = stack[1] /\ pc # "removing" /\ ~mode
<1>1. stack \in Seq(Frame) /\ Len(stack) <= 1 /\ ~wild
  BY DEF PromiseInv, IInv, TypeOK, QuietInv
<1>2. stack # <<>> => Len(stack) = 1
  BY <1>1, OneAtMost
<1>3. stack # <<>> => Live(1) /\ pc # "removing" /\ ~mode
  BY DEF PromiseInv, IInv, CommitRunsInNormalMode, QuietInv
<1>4. stack # <<>> => Top = stack[1]
  BY <1>2 DEF Top
<1> QED
  BY <1>1, <1>2, <1>3, <1>4

LEMMA PromiseStutters ==
  ASSUME UNCHANGED <<status, mode, queue, stack>>
  PROVE  UNCHANGED Promise!pvars
  BY DEF Promise!pvars

LEMMA PromiseEnds ==
  ASSUME status = "running", status' # "running", UNCHANGED <<mode, queue, stack>>
  PROVE  Promise!Next
  BY DEF Promise!Next, Promise!End

(* A step that leaves the mode, the queue and the commit as they are. *)
LEMMA PromiseQuiet ==
  ASSUME status = "running", UNCHANGED <<mode, queue, stack>>
  PROVE  Promise!Next \/ UNCHANGED Promise!pvars
  BY PromiseStutters, PromiseEnds

LEMMA PromiseUser ==
  ASSUME status = "running", User
  PROVE  Promise!Next \/ UNCHANGED Promise!pvars
<1>1. UNCHANGED <<mode, queue, stack>>
  BY DEF User, TypeLine, EndOfFile, PressTab, Interrupt, InterruptProgram
<1> QED
  BY <1>1, PromiseQuiet

LEMMA PromiseSwitches ==
  ASSUME PromiseInv, status = "running", Toggle
  PROVE  Promise!Next
<1>1. stack = <<>>
  <2> SUFFICES ASSUME stack # <<>> PROVE FALSE
    OBVIOUS
  <2>1. cur = queue[Top.at] /\ Top.at \in DOMAIN queue
    BY OneCommit DEF Toggle, PromiseInv, IInv, RunsItsItem, Live
  <2> QED
    BY <2>1 DEF Toggle, PromiseInv, IInv, StoredPlain
<1>2. Promise!Switch
  BY <1>1 DEF Toggle, Goto, Promise!Switch, Promise!Idle
<1> QED
  BY <1>2 DEF Promise!Next

LEMMA PromiseKeeps ==
  ASSUME PromiseInv, status = "running", Store
  PROVE  Promise!Next
<1>1. stack = <<>> /\ mode /\ UNCHANGED <<mode, stack>>
  BY OneCommit DEF Store
<1>2. CASE status' = "crashed"
  BY <1>1, <1>2, PromiseEnds DEF Store
<1>3. CASE status' # "crashed"
  <2> DEFINE l == [cur EXCEPT !.lead = FALSE]
  <2>1. status' = status
    BY <1>3 DEF Store, ReadCache, Goto, Crash
  <2>2. cur \in QueuedLines
    BY <1>1 DEF Store, PromiseInv, QuietInv
  <2>3. queue' = PushBack(queue, tail, l)
    BY <1>3 DEF Store
  <2> HIDE DEF l
  <2>4. Listed(queue') = Append(Listed(queue), l)
    BY <2>3, QueueIsList, ListedPushBack DEF PromiseInv, IInv
  <2>5. Promise!Keep
    BY <1>1, <2>1, <2>2, <2>4 DEF Promise!Keep, Promise!Idle, l
  <2> QED
    BY <2>5 DEF Promise!Next
<1> QED
  BY <1>2, <1>3

LEMMA SameCardinality == \A S : Promise!Cardinality(S) = Cardinality(S)
  BY DEF Cardinality, Promise!Cardinality

(* Erasing nodes is leaving out their places. *)
LEMMA ErasedIsWithout ==
  ASSUME IsList(queue), NEW S \in SUBSET DOMAIN queue
  PROVE  \E places \in SUBSET DOMAIN Listed(queue) :
           Listed(Erase(queue, S)) = Promise!Without(places)
<1> DEFINE places == {Number(queue, n) : n \in S}
           left == (1 .. Size(queue)) \ places
<1>1. Listed(Erase(queue, S)) =
        [m \in 1 .. Cardinality(left) |->
           Listed(queue)[CHOOSE k \in left : LeftOf(places, k) = m]]
  BY ListedErase
<1>2. DOMAIN Listed(queue) = 1 .. Size(queue)
  BY DEF Listed
<1>3. places \in SUBSET DOMAIN Listed(queue)
  BY <1>2, NumberTypes
<1> HIDE DEF places
<1> DEFINE rest == DOMAIN Listed(queue) \ places
           Stay(k) == Promise!Cardinality({j \in 1 .. k : j \notin places})
<1>4. Promise!Without(places) =
        [m \in 1 .. Promise!Cardinality(rest) |->
           Listed(queue)[CHOOSE k \in rest : Stay(k) = m]]
  BY DEF Promise!Without
<1>5. rest = left
  BY <1>2
<1>6. \A k : Stay(k) = LeftOf(places, k)
  BY SameCardinality DEF LeftOf
<1>7. Promise!Cardinality(rest) = Cardinality(left)
  BY <1>5, SameCardinality
<1> HIDE DEF rest, left, Stay
<1>8. Promise!Without(places) =
        [m \in 1 .. Cardinality(left) |->
           Listed(queue)[CHOOSE k \in left : LeftOf(places, k) = m]]
  BY <1>4, <1>5, <1>6, <1>7
<1> QED
  BY <1>1, <1>3, <1>8 DEF left

LEMMA PromiseDiscards ==
  ASSUME PromiseInv, status = "running", stack = <<>>, ~mode,
         UNCHANGED <<status, mode, stack>>,
         NEW S \in SUBSET DOMAIN queue, queue' = Erase(queue, S)
  PROVE  Promise!Next
<1>1. PICK places \in SUBSET DOMAIN Listed(queue) : Listed(queue') = Promise!Without(places)
  BY QueueIsList, ErasedIsWithout DEF PromiseInv, IInv
<1>2. Promise!Discard
  BY <1>1 DEF Promise!Discard, Promise!Idle
<1> QED
  BY <1>2 DEF Promise!Next

LEMMA PromiseClears ==
  ASSUME PromiseInv, status = "running", Clear
  PROVE  Promise!Next
<1>1. /\ stack = <<>> /\ ~mode /\ UNCHANGED <<status, mode, stack>>
      /\ queue' = EmptyQueue
  BY DEF Clear, Dispatch, QueueWords, Goto, PromiseInv, QuietInv
<1>2. EmptyQueue = Erase(queue, DOMAIN queue)
  BY DEF EmptyQueue, Erase
<1> QED
  BY <1>1, <1>2, PromiseDiscards

LEMMA PromiseRemoves ==
  ASSUME PromiseInv, status = "running", RemoveWord
  PROVE  Promise!Next
<1>1. stack = <<>> /\ ~mode /\ UNCHANGED <<mode, stack>>
  BY OneCommit DEF RemoveWord, PromiseInv, RemovesInNormalMode
<1>2. CASE Misses(queue, Head(args))
  BY <1>1, <1>2, PromiseEnds DEF RemoveWord, Crash
<1>3. CASE ~Misses(queue, Head(args))
  <2> DEFINE S == Named(queue, Head(args))
  <2>1. S \in SUBSET DOMAIN queue
    BY DEF Named
  <2>2. queue' = Erase(queue, S) /\ UNCHANGED status
    BY <1>3 DEF RemoveWord
  <2> HIDE DEF S
  <2> QED
    BY <1>1, <2>1, <2>2, PromiseDiscards
<1> QED
  BY <1>2, <1>3

LEMMA PromiseCommits ==
  ASSUME PromiseInv, status = "running", StartCommit
  PROVE  Promise!Next
<1>1. stack = <<>> /\ ~mode
  BY DEF StartCommit, Dispatch, CommitWords, QueueWords, PromiseInv, QuietInv
<1>2. PICK n \in DOMAIN queue : IsNext(queue, 0, n) /\ StartAt(n)
  BY DEF StartCommit
<1>3. /\ stack' = <<NewFrame(n)>> /\ UNCHANGED <<status, mode, queue>>
  BY <1>1, <1>2, LinesAssumption DEF StartCommit, StartAt, RunItem, Goto
<1>4. stack' # <<>> /\ stack'[1].at = n
  BY <1>3 DEF NewFrame
<1>5. Number(queue, n) = 1 /\ Size(queue) # 0
  <2>1. IsList(queue)
    BY QueueIsList DEF PromiseInv, IInv
  <2>2. Number(queue, n) = 1
    BY <1>2, <2>1, NextNumber
  <2> QED
    BY <2>1, <2>2, NumberTypes
<1>6. Listed(queue) # <<>>
  BY <1>5, QueueIsList, NumberTypes DEF Listed, PromiseInv, IInv
<1>7. Promise!Commit
  BY <1>1, <1>3, <1>4, <1>5, <1>6 DEF Promise!Commit, Promise!Idle
<1> QED
  BY <1>7 DEF Promise!Next

LEMMA ListedLength ==
  ASSUME TypeOK
  PROVE  Len(Listed(queue)) = Size(queue) /\ Size(queue) \in Nat
  BY QueueIsList, NumberTypes DEF Listed

LEMMA PromiseAdvances ==
  ASSUME PromiseInv, status = "running", NextItem \/ EndCommit
  PROVE  Promise!Next
<1>1. /\ stack # <<>> /\ Len(stack) = 1 /\ Top = stack[1] /\ Top.at \in DOMAIN queue
      /\ UNCHANGED <<status, mode, queue>>
  BY OneCommit DEF NextItem, EndCommit, InCommit, LeaveCommit, RunItem, Goto
<1>2. IsList(queue) /\ TypeOK
  BY QueueIsList DEF PromiseInv, IInv
<1> DEFINE k == Number(queue, stack[1].at)
<1>3. k \in 1 .. Size(queue) /\ Len(Listed(queue)) = Size(queue)
  BY <1>1, <1>2, NumberTypes, ListedLength
<1>4. CASE NextItem
  <2>1. PICK n \in DOMAIN queue : IsNext(queue, Top.at, n) /\ stack' = Moved(n)
    BY <1>4 DEF NextItem
  <2>2. stack' # <<>> /\ stack'[1].at = n
    <3>1. n \in Nat
      BY <1>2 DEF IsList
    <3>2. Len(Moved(n)) = 1 /\ Moved(n)[1].at = n
      BY <1>1, <3>1, OneCommit, MovedAt
    <3> QED
      BY <2>1, <3>2
  <2>3. Number(queue, n) = k + 1
    BY <1>1, <1>2, <2>1, NextNumber DEF IsList
  <2>4. k # Size(queue)
    <3>1. Number(queue, n) <= Size(queue)
      BY <1>2, NumberTypes
    <3> QED
      BY <1>3, <2>3, <3>1
  <2>5. Promise!Advance
    BY <1>1, <1>3, <2>2, <2>3, <2>4 DEF Promise!Advance
  <2> QED
    BY <2>5 DEF Promise!Next
<1>5. CASE EndCommit
  <2>1. stack' = <<>>
    BY <1>1, <1>5, OneCommit, PoppedFrames DEF EndCommit, LeaveCommit
  <2>2. k = Size(queue)
    BY <1>1, <1>2, <1>5, LastNumber DEF EndCommit
  <2>3. Promise!Advance
    BY <1>1, <1>3, <2>1, <2>2 DEF Promise!Advance
  <2> QED
    BY <2>3 DEF Promise!Next
<1> QED
  BY <1>4, <1>5

LEMMA NextPromise ==
  ASSUME PromiseInv, [Next]_vars
  PROVE  Promise!Next \/ UNCHANGED Promise!pvars
<1>1. CASE UNCHANGED vars
  BY <1>1, PromiseStutters DEF vars
<1>2. CASE status = "running" /\ User
  BY <1>2, PromiseUser
<1>3. CASE status = "running" /\ (StartLine \/ FinishLine \/ Quit \/ Report \/ RunProgram
                                    \/ ListEnds \/ ProgramEnds \/ FeedEnds \/ FedProgramEnds
                                    \/ StartRemove \/ EndRemove \/ CommitNothing)
  <2>1. UNCHANGED <<mode, queue, stack>>
    BY <1>3 DEF StartLine, FinishLine, Quit, Report, RunProgram, ListEnds, ProgramEnds, FeedEnds,
                FedProgramEnds, StartRemove, EndRemove, CommitNothing
  <2> QED
    BY <1>3, <2>1, PromiseQuiet
<1>4. CASE status = "running" /\ (Toggle \/ Store \/ Clear \/ RemoveWord \/ StartCommit)
  BY <1>4, PromiseSwitches, PromiseKeeps, PromiseClears, PromiseRemoves, PromiseCommits
<1>5. CASE status = "running" /\ (NextItem \/ EndCommit)
  BY <1>5, PromiseAdvances
<1>6. ~Stray
  BY OneCommit DEF Stray, InCommit, Live
<1> QED
  BY <1>1, <1>2, <1>3, <1>4, <1>5, <1>6 DEF Next, Over, Program

LEMMA InitPromise == Init => Promise!Init
<1> SUFFICES ASSUME Init PROVE Promise!Init
  OBVIOUS
<1>1. Size(EmptyQueue) = 0
  BY FS_EmptySet DEF Size, EmptyQueue
<1>2. Listed(EmptyQueue) = <<>>
  BY <1>1 DEF Listed
<1> QED
  BY <1>2 DEF Init, Promise!Init

(* For all lines, bounds and options: while no queue command is stored,    *)
(* lines are kept in order, and a commit runs each of them once, first to  *)
(* last, and leaves the queue as it was.                                   *)
THEOREM PromiseIsKept == NoQueueWordStored => (Spec => Promise!Steps)
<1> SUFFICES ASSUME NoQueueWordStored PROVE Spec => Promise!Steps
  OBVIOUS
<1>1. IInv /\ QuietInv /\ RemovesInNormalMode /\ [Next]_vars => [Promise!Next]_(Promise!pvars)
  BY NextPromise DEF PromiseInv
<1> QED
  BY <1>1, InitPromise, InitQuiet, NextQuiet, InitRemoves, NextRemoves, Invariance, PTL
  DEF Spec, Promise!Steps
=============================================================================
