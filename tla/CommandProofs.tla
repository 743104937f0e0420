--------------------------- MODULE CommandProofs ---------------------------
(***************************************************************************)
(* Theorems about single commands, each taken apart from the session it is *)
(* typed in: queue-remove with several words (QueueRemove), a program that *)
(* is fed its answers (AnswerFeed), and the listing commands with their    *)
(* helpers (ListPipe).                                                     *)
(***************************************************************************)
EXTENDS QueueRemove, AnswerFeed, ListPipe, FiniteSetTheorems, SequenceTheorems,
        WellFoundedInduction, TLAPS

-----------------------------------------------------------------------------
(* queue-remove.  Words in descending order name nothing but items in      *)
(* front of those that are gone, and these keep the numbers they had.      *)

(* As far as no item is missing, each has the number of its node.          *)
LEMMA NumbersInFront ==
  ASSUME NEW q, IsFiniteSet(DOMAIN q), DOMAIN q \subseteq Nat \ {0},
         NEW v \in Nat, 1 .. v \subseteq DOMAIN q
  PROVE  \A n \in DOMAIN q : /\ Number(q, n) \in Nat
                             /\ n <= v => Number(q, n) = n
                             /\ n > v => Number(q, n) > v
<1> TAKE n \in DOMAIN q
<1> DEFINE below == {k \in DOMAIN q : k <= n}
<1>1. IsFiniteSet(below) /\ Cardinality(below) \in Nat /\ Number(q, n) = Cardinality(below)
  BY FS_Subset, FS_CardinalityType DEF Number
<1>2. ASSUME n <= v PROVE Number(q, n) = n
  <2>1. below = 1 .. n
    BY <1>2
  <2>2. Cardinality(1 .. n) = n
    BY FS_Interval
  <2> QED
    BY <1>1, <2>1, <2>2
<1>3. ASSUME n > v PROVE Number(q, n) > v
  <2>1. IsFiniteSet(1 .. v) /\ Cardinality(1 .. v) = v
    BY FS_Interval
  <2>2. n \notin 1 .. v
    BY <1>3
  <2>3. Cardinality((1 .. v) \cup {n}) = v + 1
    BY <2>1, <2>2, FS_AddElement
  <2>4. (1 .. v) \cup {n} \subseteq below
    BY <1>3
  <2>5. v + 1 <= Cardinality(below)
    BY <1>1, <2>3, <2>4, FS_Subset
  <2> QED
    BY <1>1, <2>5
<1> QED
  BY <1>1, <1>2, <1>3

(* Numbers go up to the size of the queue, which is at most that of the    *)
(* queue the command found.                                                *)
LEMMA NumbersFit ==
  ASSUME NEW q, NEW size \in Nat, DOMAIN q \subseteq 1 .. size
  PROVE  /\ IsFiniteSet(DOMAIN q) /\ DOMAIN q \subseteq Nat \ {0}
         /\ Size(q) \in Nat /\ Size(q) <= size
         /\ \A n \in DOMAIN q : Number(q, n) \in 1 .. size
<1>1. IsFiniteSet(1 .. size) /\ Cardinality(1 .. size) = size
  BY FS_Interval
<1>2. IsFiniteSet(DOMAIN q) /\ Size(q) \in Nat /\ Size(q) <= size
  BY <1>1, FS_Subset, FS_CardinalityType DEF Size
<1>3. ASSUME NEW n \in DOMAIN q PROVE Number(q, n) \in 1 .. size
  <2> DEFINE below == {k \in DOMAIN q : k <= n}
  <2>1. IsFiniteSet(below) /\ Cardinality(below) \in Nat /\ Cardinality(below) <= Size(q)
    BY <1>2, FS_Subset, FS_CardinalityType DEF Size
  <2>2. n \in below
    BY DEF below
  <2>3. Cardinality(below) # 0
    BY <2>1, <2>2, FS_EmptySet
  <2> QED
    BY <1>2, <2>1, <2>3 DEF Number
<1> QED
  BY <1>2, <1>3

WordsInv ==
  /\ \E size \in Nat : DOMAIN before = 1 .. size
  /\ given \in WordLists
  /\ done \in 0 .. Len(given)
  /\ DOMAIN queue \subseteq DOMAIN before
  /\ DescendingIsExact

LEMMA GivenWords ==
  ASSUME given \in WordLists
  PROVE  /\ Len(given) \in Nat
         /\ DOMAIN given = 1 .. Len(given)
         /\ \A k \in DOMAIN given : /\ given[k] \in Given
                                    /\ given[k].range \/ given[k].to = given[k].from
<1>1. PICK k \in 0 .. MaxWords : given \in [1 .. k -> {a \in Given : a.range \/ a.to = a.from}]
  BY DEF WordLists
<1>2. Len(given) = k
  BY <1>1, BoundsAssumption
<1> QED
  BY <1>1, <1>2, BoundsAssumption

(* What the next word means, when the words descend, is what it erases.    *)
LEMMA ErasesWhatItMeans ==
  ASSUME WordsInv, Descending, done < Len(given), ~NamesZero(queue, Word), ~Misses(queue, Word)
  PROVE  Named(queue, Word) = Means(done + 1)
<1>1. PICK size \in Nat : DOMAIN before = 1 .. size
  BY DEF WordsInv
<1>2. DOMAIN queue \subseteq 1 .. size
  BY <1>1 DEF WordsInv
<1>3. done + 1 \in DOMAIN given /\ done \in Nat
  BY GivenWords DEF WordsInv
<1>4. /\ Word.from \in Int /\ Word.to \in Int
      /\ Word.from # Last /\ Word.to # Last
      /\ Word.range \/ Word.to = Word.from
      /\ Word.range \in BOOLEAN
  BY <1>3, GivenWords, BoundsAssumption DEF WordsInv, Word, Given, Values, Descending, OnlyNumbers
<1>5. Word = given[done + 1]
  BY DEF Word
<1>6. ASSUME NEW v \in Means(done + 1)
      PROVE  v \in 1 .. size /\ 1 .. v \subseteq DOMAIN queue
  <2>1. v \in 1 .. size
    BY <1>1, <1>6 DEF Means
  <2>2. ASSUME NEW j \in 1 .. done, NEW m \in Means(j) PROVE v < m
    <3>1. j \in DOMAIN given /\ j < done + 1
      BY <1>3, GivenWords DEF WordsInv
    <3> QED
      BY <1>3, <1>6, <3>1 DEF Descending
  <2>3. \A m \in Meant : v < m
    BY <2>2 DEF Meant
  <2>4. DOMAIN queue = DOMAIN before \ Meant
    BY DEF WordsInv, DescendingIsExact
  <2>5. ASSUME NEW i \in 1 .. v PROVE i \in DOMAIN queue
    <3>1. i \in 1 .. size /\ ~(v < i)
      BY <2>1
    <3> QED
      BY <1>1, <2>3, <2>4, <3>1
  <2> QED
    BY <2>1, <2>5
<1>7. ASSUME NEW v \in Means(done + 1)
      PROVE  \A n \in DOMAIN queue : /\ Number(queue, n) \in Nat
                                     /\ n <= v => Number(queue, n) = n
                                     /\ n > v => Number(queue, n) > v
  <2>1. v \in Nat /\ 1 .. v \subseteq DOMAIN queue
    BY <1>6
  <2>2. IsFiniteSet(DOMAIN queue) /\ DOMAIN queue \subseteq Nat \ {0}
    BY <1>2, NumbersFit
  <2> QED
    BY <2>1, <2>2, NumbersInFront
<1>8. CASE ~Word.range
  <2>1. Named(queue, Word) = {n \in DOMAIN queue : Number(queue, n) = Word.from}
    BY <1>4, <1>8 DEF Named, Resolve
  <2>2. Means(done + 1) = (1 .. size) \cap {Word.from}
    BY <1>1, <1>5, <1>8 DEF Means
  <2>3. CASE Word.from \in 1 .. size
    <3>1. Word.from \in Means(done + 1)
      BY <2>2, <2>3
    <3>2. Word.from \in DOMAIN queue
      BY <1>6, <2>3, <3>1
    <3>3. \A n \in DOMAIN queue : Number(queue, n) = Word.from <=> n = Word.from
      BY <1>2, <1>4, <1>7, <3>1
    <3> QED
      BY <2>1, <2>2, <2>3, <3>2, <3>3
  <2>4. CASE Word.from \notin 1 .. size
    BY <1>2, <2>1, <2>2, <2>4, NumbersFit
  <2> QED
    BY <2>3, <2>4
<1>9. CASE Word.range
  <2> DEFINE lo == IF Word.to < Word.from THEN Word.to ELSE Word.from
             hi == IF Word.to < Word.from THEN Word.from ELSE Word.to
  <2>1. Lo(queue, Word) = lo /\ Hi(queue, Word) = hi
    BY <1>4 DEF Lo, Hi, Resolve
  <2>2. lo \in Int /\ hi \in Int /\ lo <= hi
    BY <1>4
  <2>3. lo >= 1 /\ hi <= Size(queue)
    <3>1. ~(lo < 1 \/ hi > Size(queue))
      BY <1>9, <2>1 DEF Misses
    <3>2. Size(queue) \in Nat
      BY <1>2, NumbersFit
    <3> HIDE DEF lo, hi
    <3> QED
      BY <2>2, <3>1, <3>2
  <2>4. hi <= size
    <3>1. Size(queue) \in Nat /\ Size(queue) <= size
      BY <1>2, NumbersFit
    <3> HIDE DEF lo, hi
    <3> QED
      BY <2>2, <2>3, <3>1
  <2>5. Means(done + 1) = lo .. hi
    <3>1. Means(done + 1) =
            {n \in 1 .. size : n \in Word.from .. Word.to \/ n \in Word.to .. Word.from}
      BY <1>1, <1>5, <1>9 DEF Means
    <3>2. \A n \in Int : (n \in Word.from .. Word.to \/ n \in Word.to .. Word.from) <=> n \in lo .. hi
      BY <1>4
    <3> HIDE DEF lo, hi
    <3>3. \A n \in Int : n \in lo .. hi => n \in 1 .. size
      BY <2>2, <2>3, <2>4
    <3>4. Means(done + 1) = {n \in 1 .. size : n \in lo .. hi}
      BY <3>1, <3>2
    <3>5. lo .. hi = {n \in 1 .. size : n \in lo .. hi}
      <4>1. \A n \in lo .. hi : n \in Int
        BY <2>2
      <4> QED
        BY <3>3, <4>1, Zenon
    <3> QED
      BY <3>4, <3>5, Zenon
  <2> HIDE DEF lo, hi
  <2>6. hi \in Means(done + 1)
    BY <2>2, <2>5
  <2>7. \A n \in DOMAIN queue : Number(queue, n) \in lo .. hi <=> n \in lo .. hi
    BY <1>2, <1>7, <2>2, <2>6
  <2>8. lo .. hi \subseteq DOMAIN queue
    BY <1>6, <2>2, <2>3, <2>6
  <2>9. Named(queue, Word) = {n \in DOMAIN queue : Number(queue, n) \in lo .. hi}
    BY <1>9, <2>1 DEF Named
  <2> QED
    BY <2>5, <2>7, <2>8, <2>9
<1> QED
  BY <1>8, <1>9

LEMMA RemoveWordKeeps ==
  ASSUME WordsInv, RemoveWord
  PROVE  WordsInv'
<1>1. /\ done \in Nat /\ done < Len(given) /\ done' = done + 1
      /\ UNCHANGED <<before, given>>
      /\ queue' = Erase(queue, Named(queue, Word))
  BY GivenWords DEF RemoveWord, WordsInv
<1>2. done' \in 0 .. Len(given)
  BY <1>1, GivenWords DEF WordsInv
<1>3. DOMAIN queue' = DOMAIN queue \ Named(queue, Word)
  BY <1>1 DEF Erase
<1>4. ASSUME Descending PROVE DOMAIN queue' = DOMAIN before \ Meant'
  <2>1. Named(queue, Word) = Means(done + 1)
    BY <1>4, ErasesWhatItMeans DEF RemoveWord
  <2>2. Meant' = Meant \cup Means(done + 1)
    <3>1. Meant' = UNION {Means(k) : k \in 1 .. (done + 1)}
      BY <1>1 DEF Meant, Means
    <3>2. 1 .. (done + 1) = (1 .. done) \cup {done + 1}
      BY <1>1
    <3> QED
      BY <3>1, <3>2 DEF Meant
  <2>3. DOMAIN queue = DOMAIN before \ Meant
    BY <1>4 DEF WordsInv, DescendingIsExact
  <2> QED
    BY <1>3, <2>1, <2>2, <2>3
<1>5. DescendingIsExact'
  BY <1>1, <1>4 DEF DescendingIsExact, Descending, OnlyNumbers, Means
<1> QED
  BY <1>1, <1>2, <1>3, <1>5 DEF WordsInv

(* However long the queue and whatever the words, numbers in descending    *)
(* order erase the items that had them in the listing the user saw: the    *)
(* loop of cmd_queue_remove::execute counts the queue anew for each word.  *)
THEOREM DescendingWordsAreExact == Spec => []DescendingIsExact
<1>1. Init => WordsInv
  <2> SUFFICES ASSUME Init PROVE WordsInv
    OBVIOUS
  <2>1. \E size \in Nat : DOMAIN before = 1 .. size
    BY BoundsAssumption DEF Init
  <2>2. given \in WordLists /\ done = 0 /\ queue = before
    BY DEF Init
  <2>3. Meant = {}
    BY <2>2 DEF Meant
  <2> QED
    BY <2>1, <2>2, <2>3, GivenWords DEF WordsInv, DescendingIsExact
<1>2. WordsInv /\ [Next]_vars => WordsInv'
  <2> SUFFICES ASSUME WordsInv, [Next]_vars PROVE WordsInv'
    OBVIOUS
  <2>1. CASE RemoveWord
    BY <2>1, RemoveWordKeeps
  <2>2. CASE UNCHANGED <<before, given, done, queue>>
    BY <2>2 DEF WordsInv, DescendingIsExact, Descending, OnlyNumbers, Meant, Means
  <2> QED
    BY <2>1, <2>2 DEF Next, RemoveOutside, RefuseZero, Finish, Ended, vars
<1>3. WordsInv => DescendingIsExact
  BY DEF WordsInv
<1> QED
  BY <1>1, <1>2, <1>3, PTL DEF Spec

-----------------------------------------------------------------------------
(* A program that is fed its answers.  While it keeps its input, the pipe  *)
(* breaks only once it is over, and then it changes nothing any more.      *)

FeedInv ==
  /\ keeps /\ input # "program" => program = "gone"
  /\ keeps /\ feeder # "feeding" => input # "program"
  /\ keeps /\ feeder \notin {"feeding", "refreshing"} => cache = "current"

(* check_cache() may come before pclose() in cmd_aptize::execute: if the   *)
(* program keeps its input until it ends, the cache the command returns    *)
(* with shows the packages as the program left them.  Nothing is assumed   *)
(* of the size of the pipe, nor of how often or how the program reads.     *)
THEOREM FedProgramsLeaveFresh == FeedSpec => []FreshWhenReturned
<1>1. FeedInit => FeedInv
  BY DEF FeedInit, FeedInv
<1>2. FeedInv /\ [FeedNext]_feed_vars => FeedInv'
  <2> SUFFICES ASSUME FeedInv, [FeedNext]_feed_vars PROVE FeedInv'
    OBVIOUS
  <2>1. CASE FeederStep
    BY <2>1 DEF FeedInv, FeederStep, Feed, FeedFails, Refresh, CloseFeed,
                ReturnFed
  <2>2. CASE ProgramStep
    <3>1. CASE Ask
      BY <3>1 DEF FeedInv, Ask
    <3>2. CASE Take
      <4>1. input = "program" /\ UNCHANGED <<feeder, keeps, input, cache>>
        BY <3>2 DEF Take
      <4> QED
        BY <4>1 DEF FeedInv
    <3>3. CASE GiveUp \/ FinishProgram
      <4>1. program' = "gone" /\ input' # "program" /\ UNCHANGED <<feeder, keeps, cache>>
        BY <3>3 DEF GiveUp, FinishProgram, Leave
      <4> QED
        BY <4>1 DEF FeedInv
    <3>4. CASE LetGo
      BY <3>4 DEF FeedInv, LetGo
    <3> QED
      BY <2>2, <3>1, <3>2, <3>3, <3>4 DEF ProgramStep
  <2>3. CASE Change
    BY <2>3 DEF FeedInv, Change
  <2>4. CASE CloseInput
    BY <2>4 DEF FeedInv, CloseInput
  <2>5. CASE InterruptProgram
    BY <2>5 DEF FeedInv, InterruptProgram, Leave
  <2>6. CASE UNCHANGED feed_vars
    BY <2>6 DEF FeedInv, feed_vars
  <2> QED
    BY <2>1, <2>2, <2>3, <2>4, <2>5, <2>6 DEF FeedNext, FeedOver
<1>3. FeedInv => FreshWhenReturned
  BY DEF FeedInv, FreshWhenReturned
<1> QED
  BY <1>1, <1>2, <1>3, PTL DEF FeedSpec

-----------------------------------------------------------------------------
(* Induction over numbers, with the set of those for which a fact holds in *)
(* the place of the fact, and the recursive functions it yields.           *)

LEMMA Induction ==
  ASSUME NEW G, 0 \in G, \A k \in Nat : k \in G => k + 1 \in G
  PROVE  Nat \subseteq G
<1> DEFINE R == {ss \in Nat \X Nat : ss[1] < ss[2]}
           Rest == Nat \ G
<1> SUFFICES ASSUME Rest # {} PROVE FALSE
  OBVIOUS
<1>1. IsWellFoundedOn(R, Nat)
  BY NatLessThanWellFounded DEF OpToRel
<1>2. PICK m \in Rest : \A k \in Rest : <<k, m>> \notin R
  <2> HIDE DEF R
  <2>1. Rest \subseteq Nat
    OBVIOUS
  <2> QED
    BY <1>1, <2>1, WFMin
<1>3. m - 1 \in Nat /\ m - 1 < m
  OBVIOUS
<1>4. m - 1 \notin Rest
  BY <1>2, <1>3
<1> QED
  BY <1>3, <1>4

(* A function that starts with z and goes on with step. *)
Runs(g, n, T, z, step) ==
  /\ g \in [0 .. n -> T]
  /\ g[0] = z
  /\ \A k \in 0 .. n : k # n => g[k + 1] = step[k][g[k]]

LEMMA Recursion ==
  ASSUME NEW T, NEW z \in T, NEW step \in [Nat -> [T -> T]]
  PROVE  \A n \in Nat : \E g : Runs(g, n, T, z, step)
<1> DEFINE G == {n \in Nat : \E g : Runs(g, n, T, z, step)}
<1>1. 0 \in G
  <2>1. Runs([k \in 0 .. 0 |-> z], 0, T, z, step)
    BY DEF Runs
  <2> QED
    BY <2>1
<1>2. ASSUME NEW n \in Nat, n \in G PROVE n + 1 \in G
  <2>1. PICK g : Runs(g, n, T, z, step)
    BY <1>2
  <2> DEFINE h == [k \in 0 .. n + 1 |-> IF k = n + 1 THEN step[n][g[n]] ELSE g[k]]
  <2>2. g \in [0 .. n -> T] /\ g[0] = z
    BY <2>1 DEF Runs
  <2>3. step[n][g[n]] \in T
    BY <2>2
  <2>4. h \in [0 .. n + 1 -> T]
    BY <2>2, <2>3
  <2>5. h[0] = z
    BY <2>2
  <2>6. ASSUME NEW k \in 0 .. n + 1, k # n + 1 PROVE h[k + 1] = step[k][h[k]]
    <3>1. CASE k = n
      BY <3>1
    <3>2. CASE k # n
      <4>1. k \in 0 .. n /\ k + 1 \in 0 .. n
        BY <2>6, <3>2
      <4>2. h[k + 1] = g[k + 1] /\ h[k] = g[k]
        BY <4>1
      <4> QED
        BY <2>1, <3>2, <4>1, <4>2 DEF Runs
    <3> QED
      BY <3>1, <3>2
  <2>7. Runs(h, n + 1, T, z, step)
    <3> HIDE DEF h
    <3> QED
      BY <2>4, <2>5, <2>6 DEF Runs
  <2> QED
    BY <2>7
<1>3. Nat \subseteq G
  <2> HIDE DEF G
  <2> QED
    BY <1>1, <1>2, Induction
<1> QED
  BY <1>3

-----------------------------------------------------------------------------
(* A listing and its helper.                                               *)

(* What goes through the pipe.  (The provers do not know that the dash is  *)
(* a string.)                                                              *)
Text == STRING \cup {Dash}

LEMMA KeptSteps ==
  ASSUME Names \in Seq(Text)
  PROVE  /\ Kept \in [0 .. Len(Names) -> Seq(Text)]
         /\ Kept[0] = <<>>
         /\ \A i \in 1 .. Len(Names) :
              Kept[i] = IF Names[i] \in Matching
                             THEN Append(Kept[i - 1], Names[i])
                             ELSE Kept[i - 1]
<1> DEFINE N == Len(Names)
           T == Seq(Text)
           grown(k, s) == IF Names[k + 1] \in Matching THEN Append(s, Names[k + 1]) ELSE s
           step == [k \in Nat |-> [s \in T |-> IF k < N THEN grown(k, s) ELSE s]]
           Defines(g) == g = [i \in 0 .. N |->
                               IF i = 0 THEN <<>>
                               ELSE IF Names[i] \in Matching THEN Append(g[i - 1], Names[i])
                               ELSE g[i - 1]]
<1>1. N \in Nat
  OBVIOUS
<1>2. step \in [Nat -> [T -> T]]
  <2>1. ASSUME NEW k \in Nat, NEW s \in T, k < N PROVE grown(k, s) \in T
    <3>1. Names[k + 1] \in Text
      BY <2>1
    <3>2. \A e \in Text : Append(s, e) \in T
      BY AppendProperties
    <3> HIDE DEF T
    <3> QED
      BY <3>1, <3>2
  <2> HIDE DEF T, N, grown
  <2> QED
    BY <2>1
<1>3. <<>> \in T
  OBVIOUS
<1>4. PICK g : Runs(g, N, T, <<>>, step)
  <2> HIDE DEF N, T, step
  <2> QED
    BY <1>1, <1>2, <1>3, Recursion
<1>5. g \in [0 .. N -> T] /\ g[0] = <<>>
  BY <1>4 DEF Runs
<1>6. ASSUME NEW i \in 1 .. N
      PROVE  g[i] = IF Names[i] \in Matching THEN Append(g[i - 1], Names[i]) ELSE g[i - 1]
  <2>1. i - 1 \in 0 .. N /\ i - 1 # N /\ (i - 1) + 1 = i /\ i - 1 \in Nat /\ i - 1 < N
    BY <1>1
  <2>2. g[i] = step[i - 1][g[i - 1]]
    <3> HIDE DEF N, T, step
    <3> QED
      BY <1>4, <2>1 DEF Runs
  <2>3. g[i - 1] \in T
    BY <1>5, <2>1
  <2>4. step[i - 1][g[i - 1]] = grown(i - 1, g[i - 1])
    BY <2>1, <2>3
  <2> QED
    BY <2>1, <2>2, <2>4
<1>7. Defines(g)
  <2>1. \A i \in 0 .. N : i # 0 => i \in 1 .. N
    BY <1>1
  <2> HIDE DEF T, N
  <2> QED
    BY <1>1, <1>5, <1>6, <2>1
<1>8. Defines(Kept)
  BY <1>7 DEF Kept
<1> HIDE DEF N
<1>9. /\ Kept = [i \in 0 .. N |-> Kept[i]]
      /\ Kept[0] = <<>>
      /\ \A i \in 1 .. N :
           Kept[i] = IF Names[i] \in Matching THEN Append(Kept[i - 1], Names[i])
                          ELSE Kept[i - 1]
  <2> DEFINE K == Kept
  <2>1. Defines(K)
    BY <1>8
  <2> HIDE DEF K
  <2>2. DOMAIN K = 0 .. N /\ K[0] = <<>>
    BY <1>1, <2>1
  <2>3. ASSUME NEW i \in 1 .. N
        PROVE  K[i] = IF Names[i] \in Matching THEN Append(K[i - 1], Names[i]) ELSE K[i - 1]
    <3>1. i \in 0 .. N /\ i # 0
      BY <1>1
    <3> QED
      BY <2>1, <3>1
  <2>4. K = [i \in 0 .. N |-> K[i]]
    BY <2>1
  <2> QED
    BY <2>2, <2>3, <2>4 DEF K
<1>10. ASSUME NEW i \in 0 .. N PROVE Kept[i] \in T
  <2> DEFINE G == {k \in Nat : k <= N => Kept[k] \in T}
  <2>1. 0 \in G
    BY <1>3, <1>9
  <2>2. ASSUME NEW k \in Nat, k \in G PROVE k + 1 \in G
    <3> SUFFICES ASSUME k + 1 <= N PROVE Kept[k + 1] \in T
      OBVIOUS
    <3>1. Kept[k] \in T /\ k + 1 \in 1 .. N /\ (k + 1) - 1 = k
      BY <1>1, <2>2
    <3>2. Names[k + 1] \in Text
      BY <3>1 DEF N
    <3>3. Append(Kept[k], Names[k + 1]) \in T
      BY <3>1, <3>2, AppendProperties
    <3> HIDE DEF T
    <3> QED
      BY <1>9, <3>1, <3>3
  <2>3. Nat \subseteq G
    <3> HIDE DEF G
    <3> QED
      BY <2>1, <2>2, Induction
  <2> QED
    BY <1>1, <2>3
<1> QED
  BY <1>9, <1>10 DEF N

(* What the helper has printed when it has dealt with i names. *)
Printed(c, i) == IF c = "orphans" THEN SubSeq(Names, 1, i) ELSE Kept[i]

LEMMA PrintedSteps ==
  ASSUME Names \in Seq(Text), NEW c
  PROVE  /\ Printed(c, 0) = <<>>
         /\ \A i \in 0 .. Len(Names) : Printed(c, i) \in Seq(Text)
         /\ \A i \in 1 .. Len(Names) :
              Printed(c, i) = IF c = "orphans" \/ Names[i] \in Matching
                              THEN Append(Printed(c, i - 1), Names[i])
                              ELSE Printed(c, i - 1)
<1>1. CASE c = "orphans"
  <2>1. Printed(c, 0) = <<>>
    BY <1>1, SubSeqEmpty DEF Printed
  <2>2. ASSUME NEW i \in 0 .. Len(Names) PROVE Printed(c, i) \in Seq(Text)
    <3>1. \A k \in 1 .. i : Names[k] \in Text
      OBVIOUS
    <3>2. SubSeq(Names, 1, i) \in Seq(Text)
      BY <3>1, SubSeqProperties
    <3> QED
      BY <1>1, <3>2 DEF Printed
  <2>3. ASSUME NEW i \in 1 .. Len(Names)
        PROVE  Printed(c, i) = Append(Printed(c, i - 1), Names[i])
    <3>1. SubSeq(Names, 1, i) = SubSeq(Names, 1, i - 1) \o <<Names[i]>>
      BY SubSeqRecursiveSecond
    <3>2. SubSeq(Names, 1, i - 1) \in Seq(Text) /\ Names[i] \in Text
      BY <1>1, <2>2 DEF Printed
    <3>3. Append(SubSeq(Names, 1, i - 1), Names[i]) = SubSeq(Names, 1, i - 1) \o <<Names[i]>>
      BY <3>2, AppendIsConcat
    <3> QED
      BY <1>1, <3>1, <3>3 DEF Printed
  <2> QED
    BY <1>1, <2>1, <2>2, <2>3
<1>2. CASE c # "orphans"
  BY <1>2, KeptSteps DEF Printed
<1> QED
  BY <1>1, <1>2

Begins(s, t) == Len(s) <= Len(t) /\ \A k \in 1 .. Len(s) : s[k] = t[k]

LEMMA BeginsLonger ==
  ASSUME NEW s \in Seq(Text), NEW t \in Seq(Text), NEW e \in Text, Begins(s, t)
  PROVE  Begins(s, Append(t, e))
<1> DEFINE r == Append(t, e)
<1>1. Len(r) = Len(t) + 1 /\ \A k \in 1 .. Len(t) : r[k] = t[k]
  BY AppendProperties
<1>2. Len(s) \in Nat /\ Len(t) \in Nat
  OBVIOUS
<1> HIDE DEF r
<1>3. Len(s) <= Len(r)
  BY <1>1, <1>2 DEF Begins
<1>4. ASSUME NEW k \in 1 .. Len(s) PROVE s[k] = r[k]
  <2>1. k \in 1 .. Len(t) /\ s[k] = t[k]
    BY <1>2 DEF Begins
  <2> QED
    BY <1>1, <2>1
<1> QED
  BY <1>3, <1>4 DEF Begins, r

LEMMA BeginsIsSubSeq ==
  ASSUME NEW s \in Seq(Text), NEW t \in Seq(Text), Begins(s, t)
  PROVE  s = SubSeq(t, 1, Len(s))
<1>1. \A k \in 1 .. Len(s) : t[k] \in Text
  BY DEF Begins
<1>2. /\ SubSeq(t, 1, Len(s)) \in Seq(Text)
      /\ Len(SubSeq(t, 1, Len(s))) = Len(s)
      /\ \A k \in 1 .. Len(s) : SubSeq(t, 1, Len(s))[k] = t[k]
  BY <1>1, SubSeqProperties
<1> QED
  BY <1>2, SeqEqual DEF Begins

LEMMA PrintedBegins ==
  ASSUME Names \in Seq(Text), NEW c, NEW i \in 0 .. Len(Names)
  PROVE  Begins(Printed(c, i), Printed(c, Len(Names)))
<1> DEFINE N == Len(Names)
           G == {j \in Nat : i <= j /\ j <= N => Begins(Printed(c, i), Printed(c, j))}
<1>1. N \in Nat
  OBVIOUS
<1>2. ASSUME NEW j \in 0 .. N PROVE Begins(Printed(c, j), Printed(c, j))
  BY DEF Begins
<1>3. 0 \in G
  BY <1>1, <1>2
<1>4. ASSUME NEW j \in Nat, j \in G PROVE j + 1 \in G
  <2> SUFFICES ASSUME i <= j + 1, j + 1 <= N
               PROVE  Begins(Printed(c, i), Printed(c, j + 1))
    OBVIOUS
  <2>1. CASE i = j + 1
    BY <1>2, <2>1
  <2>2. CASE i # j + 1
    <3>1. Begins(Printed(c, i), Printed(c, j))
      BY <1>1, <1>4, <2>2
    <3>2. /\ Printed(c, i) \in Seq(Text) /\ Printed(c, j) \in Seq(Text)
          /\ Names[j + 1] \in Text
          /\ j + 1 \in 1 .. N /\ (j + 1) - 1 = j
      <4>1. j \in 0 .. N /\ j + 1 \in 1 .. N /\ (j + 1) - 1 = j
        BY <1>1
      <4>2. Names[j + 1] \in Text
        BY <4>1
      <4>3. \A k \in 0 .. Len(Names) : Printed(c, k) \in Seq(Text)
        BY PrintedSteps
      <4> QED
        BY <4>1, <4>2, <4>3
    <3>3. \/ Printed(c, j + 1) = Append(Printed(c, j), Names[j + 1])
          \/ Printed(c, j + 1) = Printed(c, j)
      BY <3>2, PrintedSteps
    <3> QED
      BY <3>1, <3>2, <3>3, BeginsLonger
  <2> QED
    BY <2>1, <2>2
<1>5. Nat \subseteq G
  <2> HIDE DEF G
  <2> QED
    BY <1>3, <1>4, Induction
<1> QED
  BY <1>1, <1>5

LEMMA SentNames ==
  /\ Names \in Seq(Text) /\ Len(Names) \in Nat
  /\ Sent \in Seq(Text)
  /\ Len(Sent) = IF command = "orphans" THEN Len(Names) ELSE Len(Names) + 1
  /\ \A i \in 1 .. Len(Names) : Sent[i] = Names[i] /\ Names[i] # Dash
  /\ command # "orphans" => Sent[Len(Names) + 1] = Dash
  /\ Listing = Printed(command, Len(Names))
<1>1. Names \in Seq(Text) /\ Len(Names) \in Nat
  BY ListAssumption, SeqMonotonic DEF Text
<1>2. \A i \in 1 .. Len(Names) : Names[i] # Dash
  BY ListAssumption
<1>3. Dash \in Text
  BY DEF Text
<1>4. CASE command = "orphans"
  BY <1>1, <1>2, <1>4, SubSeqFull DEF Sent, Listing, Printed
<1>5. CASE command # "orphans"
  <2>1. Sent = Append(Names, Dash)
    BY <1>5 DEF Sent
  <2> QED
    BY <1>1, <1>2, <1>3, <1>5, <2>1, AppendProperties DEF Listing, Printed
<1> QED
  BY <1>4, <1>5

(* While the helper reads, the pipe holds what was written last, and what  *)
(* came before is what it has dealt with.                                  *)
PipeInv ==
  /\ pipe \in Seq(Text)
  /\ written \in 0 .. Len(Sent)
  /\ \E i \in 0 .. Len(Names) : out = Printed(command, i)
  /\ helper = "reading" =>
       /\ Len(pipe) <= written
       /\ \A k \in 1 .. Len(pipe) : pipe[k] = Sent[(written - Len(pipe)) + k]
       /\ written - Len(pipe) <= Len(Names)
       /\ pager => out = Printed(command, written - Len(pipe))
       /\ shell # "killed"
  /\ shell \in {"closing", "waiting", "returned"} => written = Len(Sent)
  /\ helper = "ended" /\ in # Unread /\ pager /\ shell # "crashed" =>
       out = Listing

LEMMA PipeInit ==
  ASSUME ListInit
  PROVE  PipeInv
<1>1. /\ pipe = <<>> /\ written = 0 /\ out = <<>> /\ shell = "writing" /\ helper = "reading"
  BY DEF ListInit
<1>2. Printed(command, 0) = <<>> /\ Len(Sent) \in Nat
  BY SentNames, PrintedSteps
<1> QED
  BY <1>1, <1>2, SentNames DEF PipeInv

LEMMA WriteKeeps ==
  ASSUME PipeInv, Write
  PROVE  PipeInv'
<1> DEFINE w == written + 1
           s == Sent
           n == Len(pipe)
<1>1. /\ helper = "reading" /\ written < Len(s) /\ shell = "writing"
      /\ pipe' = Append(pipe, s[w]) /\ written' = w
      /\ UNCHANGED <<command, shell, helper, in, out, pager>>
  BY DEF Write
<1>2. s \in Seq(Text) /\ Len(s) \in Nat /\ written \in Nat /\ n \in Nat
  BY SentNames DEF PipeInv
<1>3. s[w] \in Text
  BY <1>1, <1>2
<1>4. /\ pipe' \in Seq(Text) /\ Len(pipe') = n + 1
      /\ \A k \in 1 .. n : pipe'[k] = pipe[k]
      /\ pipe'[n + 1] = s[w]
  BY <1>1, <1>3, AppendProperties DEF PipeInv
<1>5. s' = s
  BY <1>1 DEF Sent
<1>6. written' - Len(pipe') = written - n
  BY <1>1, <1>2, <1>4
<1>7. ASSUME NEW k \in 1 .. (n + 1) PROVE pipe'[k] = s[(written - n) + k]
  <2>1. CASE k = n + 1
    <3>1. (written - n) + k = w
      BY <1>2, <2>1
    <3> QED
      BY <1>4, <2>1, <3>1
  <2>2. CASE k # n + 1
    <3>1. k \in 1 .. n
      BY <1>2, <2>2
    <3> QED
      BY <1>1, <1>4, <3>1 DEF PipeInv
  <2> QED
    BY <2>1, <2>2
<1>8. Len(pipe') <= written'
  BY <1>1, <1>2, <1>4 DEF PipeInv
<1>9. written' \in 0 .. Len(s)
  BY <1>1, <1>2
<1> HIDE DEF s, w, n
<1> QED
  BY <1>1, <1>4, <1>5, <1>6, <1>7, <1>8, <1>9 DEF PipeInv, s, n

LEMMA WriteBrokenKeeps ==
  ASSUME PipeInv, WriteBroken
  PROVE  PipeInv'
<1>1. /\ helper # "reading" /\ written < Len(Sent) /\ shell = "writing"
      /\ UNCHANGED <<command, pipe, helper, in, out, pager>>
      /\ \/ written' = written + 1 /\ UNCHANGED shell
         \/ shell' = "killed" /\ UNCHANGED written
  BY DEF WriteBroken
<1>2. Sent' = Sent /\ Listing' = Listing
  BY <1>1 DEF Sent, Listing
<1>3. written' \in 0 .. Len(Sent)
  BY <1>1, SentNames DEF PipeInv
<1>4. shell' \notin {"closing", "waiting", "returned"} /\ shell # "crashed"
  BY <1>1
<1> QED
  BY <1>1, <1>2, <1>3, <1>4 DEF PipeInv

(* Steps of the shell that write nothing. *)
LEMMA ShellGoesOn ==
  ASSUME PipeInv,
         \/ AllWritten \/ Close \/ Return \/ Crash
  PROVE  PipeInv'
<1>1. /\ UNCHANGED <<command, written, pipe, helper, in, out, pager>>
      /\ shell # "crashed" /\ shell' # "killed"
      /\ shell' \in {"closing", "waiting", "returned"} => written = Len(Sent)
  BY DEF AllWritten, Close, Return, Crash, PipeInv
<1>2. Sent' = Sent /\ Listing' = Listing
  BY <1>1 DEF Sent, Listing
<1> QED
  BY <1>1, <1>2 DEF PipeInv

(* The helper takes the next word: a name, or the dash after the last one. *)
LEMMA ScanTakes ==
  ASSUME PipeInv, Scan
  PROVE  LET i == written - Len(pipe)
         IN  /\ i \in 0 .. Len(Names)
             /\ Len(pipe') = Len(pipe) - 1 /\ Len(pipe) <= written
             /\ Len(pipe) \in Nat \ {0}
             /\ pipe' \in Seq(Text)
             /\ \A k \in 1 .. Len(pipe') : pipe'[k] = pipe[k + 1]
             /\ Head(pipe) = Sent[i + 1]
             /\ i + 1 <= Len(Sent)
<1> DEFINE i == written - Len(pipe)
<1>1. pipe \in Seq(Text) /\ pipe # <<>> /\ pipe' = Tail(pipe) /\ helper = "reading"
  BY DEF Scan, Ready, PipeInv
<1>2. Len(pipe) \in Nat \ {0}
  BY <1>1, EmptySeq
<1>3. /\ pipe' \in Seq(Text) /\ Len(pipe') = Len(pipe) - 1
      /\ \A k \in 1 .. Len(pipe') : pipe'[k] = pipe[k + 1]
  BY <1>1, HeadTailProperties
<1>4. /\ Len(pipe) <= written /\ written \in 0 .. Len(Sent) /\ i <= Len(Names)
      /\ Len(Sent) \in Nat /\ Len(Names) \in Nat
  BY <1>1, SentNames DEF PipeInv
<1>5. i \in 0 .. Len(Names) /\ i + 1 <= Len(Sent)
  BY <1>2, <1>4
<1>6. Head(pipe) = pipe[1]
  BY <1>1
<1>7. pipe[1] = Sent[i + 1]
  <2>1. 1 \in 1 .. Len(pipe)
    BY <1>2
  <2> QED
    BY <1>1, <2>1 DEF PipeInv
<1> QED
  BY <1>2, <1>3, <1>4, <1>5, <1>6, <1>7

LEMMA ScanKeeps ==
  ASSUME PipeInv, Scan
  PROVE  PipeInv'
<1> DEFINE i == written - Len(pipe)
           N == Len(Names)
           word == Head(pipe)
<1>1. /\ i \in 0 .. N /\ N \in Nat
      /\ Len(pipe') = Len(pipe) - 1 /\ Len(pipe) <= written /\ Len(pipe) \in Nat \ {0}
      /\ pipe' \in Seq(Text)
      /\ \A k \in 1 .. Len(pipe') : pipe'[k] = pipe[k + 1]
      /\ word = Sent[i + 1]
      /\ i + 1 <= Len(Sent) /\ Len(Sent) \in Nat
  BY ScanTakes, SentNames
<1>2. /\ UNCHANGED <<interactive, command, shell, written, pager>>
      /\ helper = "reading" /\ Handle(word)
  BY DEF Scan
<1>3. Sent' = Sent /\ Listing' = Listing
  BY <1>2 DEF Sent, Listing
<1>4. /\ written \in 0 .. Len(Sent)
      /\ \E j \in 0 .. N : out = Printed(command, j)
      /\ pager => out = Printed(command, i)
      /\ shell # "killed"
      /\ shell \in {"closing", "waiting", "returned"} => written = Len(Sent)
  BY <1>2 DEF PipeInv
<1>5. Len(pipe') <= written' /\ written' - Len(pipe') = i + 1
  BY <1>1, <1>2, <1>4
<1>6. ASSUME NEW k \in 1 .. Len(pipe') PROVE pipe'[k] = Sent[(i + 1) + k]
  <2>1. k + 1 \in 1 .. Len(pipe)
    BY <1>1
  <2>2. pipe[k + 1] = Sent[i + (k + 1)]
    BY <1>2, <2>1 DEF PipeInv
  <2>3. i + (k + 1) = (i + 1) + k
    BY <1>1
  <2> QED
    BY <1>1, <2>2, <2>3
<1>7. CASE i = N
  <2>1. command # "orphans" /\ word = Dash
    BY <1>1, <1>7, SentNames
  <2>2. helper' = "ended" /\ out' = out
    BY <1>2, <2>1 DEF Handle, Filters
  <2>3. pager => out = Listing
    BY <1>4, <1>7, SentNames
  <2> HIDE DEF i, N, word
  <2> QED
    BY <1>1, <1>2, <1>3, <1>4, <2>2, <2>3 DEF PipeInv, N
<1>8. CASE i # N
  <2>1. i + 1 \in 1 .. N /\ (i + 1) - 1 = i
    BY <1>1, <1>8
  <2>2. word = Names[i + 1] /\ word # Dash
    BY <1>1, <2>1, SentNames
  <2>3. Printed(command, i + 1) = IF command = "orphans" \/ word \in Matching
                                  THEN Append(Printed(command, i), word)
                                  ELSE Printed(command, i)
    BY <2>1, <2>2, SentNames, PrintedSteps
  <2>4. /\ helper' \in {"reading", "killed"}
        /\ pager => out' = Printed(command, i + 1)
        /\ ~pager => out' = out
    <3>1. CASE command # "orphans" /\ word \notin Matching
      BY <1>2, <1>4, <2>2, <2>3, <3>1 DEF Handle, Filters
    <3>2. CASE command = "orphans" \/ word \in Matching
      BY <1>2, <1>4, <2>2, <2>3, <3>2 DEF Handle, Filters
    <3> QED
      BY <3>1, <3>2
  <2>5. i + 1 \in 0 .. N /\ i + 1 <= N
    BY <2>1
  <2>6. \E j \in 0 .. N : out' = Printed(command, j)
    BY <1>4, <2>4, <2>5
  <2> HIDE DEF i, N, word
  <2>7. helper' # "ended" /\ (pager' => out' = Printed(command', i + 1))
    BY <1>2, <2>4
  <2> QED
    BY <1>1, <1>2, <1>3, <1>4, <1>5, <1>6, <2>5, <2>6, <2>7 DEF PipeInv, N
<1> QED
  BY <1>7, <1>8

(* A printer that has seen the end of its input has copied all of it. *)
LEMMA PrinterEndsKeeps ==
  ASSUME PipeInv, PrinterEnds
  PROVE  PipeInv'
<1>1. /\ helper = "reading" /\ helper' = "ended" /\ command = "orphans" /\ pipe = <<>>
      /\ shell \in {"waiting", "returned", "killed", "crashed"}
      /\ UNCHANGED <<command, shell, written, pipe, in, out, pager>>
  BY DEF PrinterEnds, InputEnds, WriterGone, Filters
<1>2. Sent' = Sent /\ Listing' = Listing
  BY <1>1 DEF Sent, Listing
<1>3. ASSUME pager, shell # "crashed" PROVE out = Listing
  <2>1. Len(pipe) = 0
    BY <1>1
  <2>2. shell \in {"waiting", "returned"}
    BY <1>1, <1>3 DEF PipeInv
  <2>3. written = Len(Names) /\ Len(Names) \in Nat
    BY <1>1, <2>2, SentNames DEF PipeInv
  <2>4. written - Len(pipe) = Len(Names)
    BY <2>1, <2>3
  <2>5. out = Printed(command, written - Len(pipe))
    BY <1>1, <1>3 DEF PipeInv
  <2> QED
    BY <2>4, <2>5, SentNames
<1> QED
  BY <1>1, <1>2, <1>3 DEF PipeInv

(* Whatever else ends the helper does it before it has read a name, or     *)
(* leaves it without an end of its own.                                    *)
LEMMA HelperIsStopped ==
  ASSUME PipeInv,
         \/ ScanFails \/ Refuse \/ LeavePager \/ Interrupt
  PROVE  PipeInv'
<1>1. CASE ScanFails \/ Refuse
  <2>1. /\ helper = "reading"
        /\ helper' \in {"reading", "killed"} \/ in = Unread
        /\ UNCHANGED <<command, shell, written, pipe, in, out, pager>>
    BY <1>1 DEF ScanFails, Refuse
  <2>2. Sent' = Sent /\ Listing' = Listing
    BY <2>1 DEF Sent, Listing
  <2>3. helper' = "ended" => in' = Unread
    BY <2>1
  <2> QED
    BY <2>1, <2>2, <2>3 DEF PipeInv
<1>2. CASE LeavePager
  <2>1. ~pager' /\ UNCHANGED <<command, shell, written, pipe, helper, in, out>>
    BY <1>2 DEF LeavePager
  <2>2. Sent' = Sent /\ Listing' = Listing
    BY <2>1 DEF Sent, Listing
  <2> QED
    BY <2>1, <2>2 DEF PipeInv
<1>3. CASE Interrupt
  <2>1. /\ shell \in {"writing", "closing", "waiting"}
        /\ shell' = shell \/ shell' = "killed"
        /\ helper' # "reading" /\ (helper' = "ended" => helper = "ended")
        /\ UNCHANGED <<command, written, pipe, in, out, pager>>
    BY <1>3 DEF Interrupt
  <2>2. Sent' = Sent /\ Listing' = Listing
    BY <2>1 DEF Sent, Listing
  <2> QED
    BY <2>1, <2>2 DEF PipeInv
<1> QED
  BY <1>1, <1>2, <1>3

LEMMA PrintsWhatItShould ==
  ASSUME PipeInv
  PROVE  PrintsListing
<1>1. PICK i \in 0 .. Len(Names) : out = Printed(command, i)
  BY DEF PipeInv
<1>2. Listing = Printed(command, Len(Names)) /\ Names \in Seq(Text)
  BY SentNames
<1>3. Begins(out, Listing) /\ out \in Seq(Text)
  BY <1>1, <1>2, PrintedBegins, PrintedSteps
<1>4. Listing \in Seq(Text)
  <2>1. Len(Names) \in 0 .. Len(Names)
    BY SentNames
  <2>2. Printed(command, Len(Names)) \in Seq(Text)
    BY <1>2, <2>1, PrintedSteps
  <2> QED
    BY <1>2, <2>2
<1>5. Len(out) <= Len(Listing) /\ out = SubSeq(Listing, 1, Len(out))
  BY <1>3, <1>4, BeginsIsSubSeq DEF Begins
<1> QED
  BY <1>5 DEF PipeInv, PrintsListing

(* Whatever the packages and the pattern, and however much the pipe holds: *)
(* what ls, rls and orphans print is a beginning of the listing, and all   *)
(* of it when the helper came to the end and nobody stopped reading or     *)
(* died before.  scanf()'s reading ahead and the dash that ends the list   *)
(* of ls.c and rls.c lose and add nothing.                                 *)
THEOREM ListingsAreExact == ListSpec => []PrintsListing
<1>1. ListInit => PipeInv
  BY PipeInit
<1>2. PipeInv /\ [ListNext]_list_vars => PipeInv'
  <2> SUFFICES ASSUME PipeInv, [ListNext]_list_vars PROVE PipeInv'
    OBVIOUS
  <2>1. CASE ShellStep \/ Crash
    BY <2>1, WriteKeeps, WriteBrokenKeeps, ShellGoesOn DEF ShellStep
  <2>2. CASE HelperStep \/ Refuse \/ LeavePager \/ Interrupt
    BY <2>2, ScanKeeps, PrinterEndsKeeps, HelperIsStopped DEF HelperStep
  <2>3. CASE UNCHANGED list_vars
    BY <2>3 DEF list_vars, PipeInv, Sent, Listing
  <2> QED
    BY <2>1, <2>2, <2>3 DEF ListNext, Over
<1>3. PipeInv => PrintsListing
  BY PrintsWhatItShould
<1> QED
  BY <1>1, <1>2, <1>3, PTL DEF ListSpec
=============================================================================
