--------------------------- MODULE ShellInvariant ---------------------------
(***************************************************************************)
(* The inductive invariant behind the safety properties of Shell.          *)
(***************************************************************************)
EXTENDS Shell

Running == {"child", "fed", "starved", "waiting", "stuck"}
Busy == Running \cup {"dispatch", "removing", "return"}

(* executing_now tells whether execute_line() is under way, and commits    *)
(* exist only then.                                                        *)
ExecutingTells ==
  /\ executing <=> pc \in Busy
  /\ stack # <<>> => executing

(* A line that would switch the mode is never stored. *)
StoredPlain == \A n \in DOMAIN queue : queue[n].word # "backtick"

(* Where commits that have not gone astray stand. *)
Live(k) == stack[k].at \in DOMAIN queue
Commits(k) == queue[stack[k].at].word \in CommitWords

(* The line being executed is the one the innermost commit stands on, and  *)
(* a program or queue-remove is under way only for a line that asks for it. *)
RunsItsItem ==
  /\ stack # <<>> /\ pc = "dispatch" => Live(Len(stack))
  /\ stack # <<>> /\ pc # "return" /\ Live(Len(stack)) => cur = queue[Top.at]
  /\ pc \in Running => cur.word \in External \cup Lists
  /\ pc = "removing" => cur.word = "queue-remove"

(* A commit that runs another stands on a commit command, and the inner    *)
(* one has not got past that line.                                         *)
InnerBehindOuter ==
  ~wild => \A k \in 1 .. (Len(stack) - 1) :
             Live(k) => Commits(k) /\ stack[k + 1].at <= stack[k].at

(* The answer is the one in force, but for the moment between the end of a *)
(* commit whose own line was erased and the step astray that follows it.   *)
AnswerTells ==
  ~wild /\ (pc = "return" /\ stack # <<>> => Live(Len(stack))) => InForce

IInv ==
  /\ TypeOK
  /\ ExecutingTells
  /\ CommitRunsInNormalMode
  /\ NeverExitsDuringCommit
  /\ StoredPlain
  /\ RunsItsItem
  /\ InnerBehindOuter
  /\ NestedCommitNeverReturns
  /\ AnswerTells
  /\ AnswerEndsWithCommit

(* With no queue command in the queue there is one commit at most, and it  *)
(* keeps to the queue.                                                     *)
QuietInv ==
  NoQueueWordStored =>
    /\ ~wild
    /\ Len(stack) <= 1
    /\ \A n \in DOMAIN queue : queue[n].word \notin QueueWords
    /\ stack # <<>> => /\ Live(1)
                       /\ pc # "removing"
                       /\ pc # "return" => cur.word \notin QueueWords
    /\ mode /\ pc \in {"line", "dispatch"} => cur \in QueuedLines
    /\ CrashNeedsCause

(* When every command refreshes or changes nothing, so does every line     *)
(* that is stored or being run, and the cache is stale at no moment:       *)
(* ProgramEnds and FeedEnds see the change and refresh.                    *)
FreshInv ==
  Refreshing =>
    /\ cur.word \notin {"purge", "."}
    /\ \A n \in DOMAIN queue : queue[n].word \notin {"purge", "."}
    /\ cache # "stale"
=============================================================================
