---------------------------- MODULE HistoryProofs ----------------------------
(***************************************************************************)
(* Proofs about the history file, for any number of shells, any lines and  *)
(* any count; and about the command line that comes first, for every list  *)
(* of arguments.                                                           *)
(***************************************************************************)
EXTENDS Startup, FiniteSetTheorems, WellFoundedInduction, TLAPS

(* What each shell knows of the file and of its own list at its step: a    *)
(* shell only appends to a file and rewrites one that exists, and its      *)
(* newest entry is the line it is about to save.                           *)
AtStep ==
  \A s \in Shells :
    /\ pc[s] \in {"appending", "rewriting", "refilling"} => exists
    /\ pc[s] \in {"saving", "appending", "creating"} =>
         list[s] # <<>> /\ Newest(list[s]) = line[s]

(* Nobody creates a file that was there at first, and nobody rewrites it   *)
(* before it is too long.                                                  *)
ShortInv ==
  /\ existed => exists
  /\ \A s \in Shells : pc[s] = "creating" => ~existed
  /\ \A s \in Shells : existed /\ pc[s] \in {"rewriting", "refilling"} => Len(log) > Count
  /\ ShortFileLosesNothing

SharedInv == TypeOK /\ AtStep /\ ShortInv

LEMMA LastNType ==
  ASSUME NEW S, NEW s \in Seq(S), NEW n \in Nat
  PROVE  LastN(s, n) \in Seq(S) /\ FirstN(s, n) \in Seq(S)
BY DEF LastN, FirstN

LEMMA AppendNewest ==
  ASSUME NEW S, NEW s \in Seq(S), NEW t \in S
  PROVE  /\ Append(s, t) \in Seq(S) /\ Append(s, t) # <<>>
         /\ Newest(Append(s, t)) = t
<1>1. Append(s, t) \in Seq(S) /\ Len(Append(s, t)) = Len(s) + 1
  OBVIOUS
<1>2. Append(s, t)[Len(s) + 1] = t
  OBVIOUS
<1>3. Append(s, t) # <<>>
  <2>1. Len(s) \in Nat /\ Len(<<>>) = 0
    OBVIOUS
  <2> QED
    BY <1>1, <2>1
<1> QED
  BY <1>1, <1>2, <1>3 DEF Newest

LEMMA InitShared == Init => SharedInv
<1> SUFFICES ASSUME Init PROVE SharedInv
  OBVIOUS
<1>1. (CHOOSE t \in Typed : TRUE) \in Typed
  BY CountAssumption
<1>2. <<>> \in Seq(Typed)
  OBVIOUS
<1>3. TypeOK
  BY <1>1, <1>2 DEF Init, TypeOK, Labels
<1>4. AtStep
  BY DEF Init, AtStep
<1>5. ShortInv
  BY CountAssumption DEF Init, ShortInv, ShortFileLosesNothing
<1> QED
  BY <1>3, <1>4, <1>5 DEF SharedInv

LEMMA NextShared == SharedInv /\ [Next]_vars => SharedInv'
<1> SUFFICES ASSUME SharedInv, [Next]_vars PROVE SharedInv'
  OBVIOUS
<1> USE DEF SharedInv, AtStep, ShortInv, ShortFileLosesNothing, TypeOK, Labels
<1>1. CASE UNCHANGED vars
  BY <1>1 DEF vars
<1>2. ASSUME NEW s \in Shells, Start(s) PROVE SharedInv'
  BY <1>2 DEF Start, From
<1>3. ASSUME NEW s \in Shells, TruncateReads(s) PROVE SharedInv'
  BY <1>3, CountAssumption DEF TruncateReads, From, TooLong
<1>4. ASSUME NEW s \in Shells, TruncateWrites(s) PROVE SharedInv'
  <2>1. LastN(snapshot[s], Count) \in Seq(Typed)
    BY LastNType, CountAssumption
  <2>2. exists /\ (existed => Len(log) > Count)
    BY <1>4 DEF TruncateWrites, From
  <2>3. TypeOK' /\ AtStep'
    BY <1>4, <2>1, <2>2 DEF TruncateWrites, From
  <2>4. ShortInv'
    BY <1>4, <2>2, CountAssumption DEF TruncateWrites, From
  <2> QED
    BY <2>3, <2>4
<1>11. ASSUME NEW s \in Shells, TruncateEmpties(s) PROVE SharedInv'
  <2>1. <<>> \in Seq(Typed)
    OBVIOUS
  <2>2. exists /\ (existed => Len(log) > Count)
    BY <1>11 DEF TruncateEmpties, From
  <2>3. TypeOK' /\ AtStep'
    BY <1>11, <2>1, <2>2 DEF TruncateEmpties, From
  <2>4. ShortInv'
    BY <1>11, <2>2, CountAssumption DEF TruncateEmpties, From
  <2> QED
    BY <2>3, <2>4
<1>5. ASSUME NEW s \in Shells, ReadHistory(s) PROVE SharedInv'
  <2>1. FirstN(file, Count) \in Seq(Typed)
    BY LastNType, CountAssumption
  <2> QED
    BY <1>5, <2>1 DEF ReadHistory, From
<1>6. ASSUME NEW s \in Shells, Type(s) PROVE SharedInv'
  <2>1. PICK t \in Typed :
          /\ line' = [line EXCEPT ![s] = t]
          /\ list' = [list EXCEPT ![s] = Append(list[s], t)]
    BY <1>6 DEF Type
  <2>2. /\ Append(list[s], t) \in Seq(Typed)
        /\ Append(list[s], t) # <<>>
        /\ Newest(Append(list[s], t)) = t
    <3>1. list[s] \in Seq(Typed)
      OBVIOUS
    <3> QED
      BY <3>1, AppendNewest
  <2>3. list'[s] = Append(list[s], t) /\ line'[s] = t
    BY <2>1
  <2>4. \A r \in Shells \ {s} :
          list'[r] = list[r] /\ line'[r] = line[r] /\ pc'[r] = pc[r]
    BY <1>6, <2>1 DEF Type, From
  <2>5. TypeOK'
    BY <1>6, <2>1, <2>2 DEF Type, From
  <2>6. AtStep'
    BY <1>6, <2>2, <2>3, <2>4 DEF Type, From
  <2>7. ShortInv'
    BY <1>6 DEF Type, From
  <2> QED
    BY <2>5, <2>6, <2>7
<1>7. ASSUME NEW s \in Shells, Check(s) PROVE SharedInv'
  BY <1>7 DEF Check, From
<1>8. ASSUME NEW s \in Shells, AppendHistory(s) PROVE SharedInv'
  <2>1. NewEntries(s) = <<line[s]>> /\ exists /\ pc[s] = "appending"
    BY <1>8 DEF AppendHistory, From, NewEntries
  <2>2. /\ file' = Append(file, line[s]) /\ file' \in Seq(Typed)
        /\ log' = Append(log, line[s]) /\ log' \in Seq(Typed)
        /\ recent' \in Seq(Typed)
        /\ Len(log') = Len(log) + 1
    BY <1>8, <2>1 DEF AppendHistory
  <2>3. Len(log') <= Count => Len(log) <= Count
    BY <2>2, CountAssumption
  <2>4. (ShortFileLosesNothing)'
    BY <1>8, <2>2, <2>3 DEF AppendHistory
  <2> QED
    BY <1>8, <2>1, <2>2, <2>4, CountAssumption DEF AppendHistory, From
<1>9. ASSUME NEW s \in Shells, WriteHistory(s) PROVE SharedInv'
  <2>1. ~existed /\ list[s] \in Seq(Typed)
    BY <1>9 DEF WriteHistory, From
  <2>2. log' \in Seq(Typed) /\ recent' \in Seq(Typed)
    BY <1>9 DEF WriteHistory
  <2> QED
    BY <1>9, <2>1, <2>2 DEF WriteHistory, From
<1>10. ASSUME NEW s \in Shells, Leave(s) PROVE SharedInv'
  <2>1. <<>> \in Seq(Typed)
    OBVIOUS
  <2> QED
    BY <1>10, <2>1 DEF Leave
<1> QED
  BY <1>1, <1>2, <1>3, <1>4, <1>5, <1>6, <1>7, <1>8, <1>9, <1>10, <1>11
     DEF Next, Step

(* The history's variables keep their types, and there are lines only in a *)
(* file that exists, for any shells, lines and count.                      *)
THEOREM HistoryTyped == Spec => []TypeOK
<1>1. SharedInv => TypeOK
  BY DEF SharedInv
<1> QED
  BY <1>1, InitShared, NextShared, PTL DEF Spec

(* Any number of shells over a file that is there and short enough write   *)
(* exactly the lines they save, in the order in which they save them.      *)
THEOREM ShortFileIsExact == Spec => []ShortFileLosesNothing
<1>1. SharedInv => ShortFileLosesNothing
  BY DEF SharedInv, ShortInv
<1> QED
  BY <1>1, InitShared, NextShared, PTL DEF Spec

-----------------------------------------------------------------------------
(* Two sequences end alike: their last lines, as many as are kept, agree.  *)
SameEnd(a, b) == LastN(a, Count) = LastN(b, Count)

(* One shell after another: what it works on ends as what was saved since  *)
(* a kill has last left the file empty.                                    *)
SerialInv ==
  /\ ~exists => recent = <<>>
  /\ ~overlap =>
       /\ \A r, s \in Shells : r # s => pc[r] = "off" \/ pc[s] = "off"
       /\ (\A s \in Shells : pc[s] # "refilling") => SameEnd(file, recent)
       /\ \A s \in Shells :
            /\ pc[s] \in {"rewriting", "refilling"} => SameEnd(snapshot[s], recent)
            /\ pc[s] = "refilling" => file = <<>>
            /\ pc[s] = "reading" => Len(file) <= Count
            /\ pc[s] = "prompt" => SameEnd(list[s], recent)
            /\ pc[s] \in {"saving", "appending", "creating"} =>
                 SameEnd(list[s], Append(recent, line[s]))

LEMMA LastNParts ==
  ASSUME NEW S, NEW s \in Seq(S), NEW n \in Nat, Len(s) > n
  PROVE  /\ LastN(s, n) \in Seq(S) /\ Len(LastN(s, n)) = n
         /\ \A k \in 1 .. n : LastN(s, n)[k] = s[Len(s) - n + k]
<1>1. LastN(s, n) = SubSeq(s, Len(s) - n + 1, Len(s))
  BY DEF LastN
<1>2. Len(s) \in Nat /\ Len(s) - n + 1 \in 1 .. (Len(s) + 1)
  OBVIOUS
<1>3. LastN(s, n) \in Seq(S)
  BY LastNType
<1>4. Len(LastN(s, n)) = n
  BY <1>1, <1>2
<1>5. \A k \in 1 .. n : LastN(s, n)[k] = s[Len(s) - n + k]
  BY <1>1, <1>2
<1> QED
  BY <1>3, <1>4, <1>5

LEMMA LastNTwice ==
  ASSUME NEW S, NEW s \in Seq(S), NEW n \in Nat
  PROVE  LastN(LastN(s, n), n) = LastN(s, n) /\ Len(LastN(s, n)) <= n
<1>1. CASE Len(s) <= n
  BY <1>1 DEF LastN
<1>2. CASE Len(s) > n
  BY <1>2, LastNParts DEF LastN
<1> QED
  BY <1>1, <1>2

(* The end of a longer sequence depends on the end of the shorter only.    *)
LEMMA EndOfAppend ==
  ASSUME NEW S, NEW s \in Seq(S), NEW x \in S, NEW n \in Nat \ {0}
  PROVE  LastN(Append(s, x), n) = LastN(Append(LastN(s, n), x), n)
<1>1. CASE Len(s) <= n
  BY <1>1 DEF LastN
<1>2. CASE Len(s) > n
  <2> DEFINE e == LastN(s, n)
             a == Append(s, x)
             b == Append(e, x)
  <2>1. /\ e \in Seq(S) /\ Len(e) = n /\ Len(s) \in Nat
        /\ \A k \in 1 .. n : e[k] = s[Len(s) - n + k]
    BY <1>2, LastNParts
  <2> HIDE DEF e
  <2>2. /\ a \in Seq(S) /\ Len(a) = Len(s) + 1 /\ a[Len(s) + 1] = x
        /\ \A k \in 1 .. Len(s) : a[k] = s[k]
    OBVIOUS
  <2>3. /\ b \in Seq(S) /\ Len(b) = n + 1 /\ b[n + 1] = x
        /\ \A k \in 1 .. n : b[k] = e[k]
    BY <2>1
  <2> HIDE DEF a, b
  <2>4. /\ LastN(a, n) \in Seq(S) /\ Len(LastN(a, n)) = n
        /\ \A k \in 1 .. n : LastN(a, n)[k] = a[Len(s) + 1 - n + k]
    <3>1. a \in Seq(S) /\ n \in Nat /\ Len(a) > n
      BY <1>2, <2>1, <2>2
    <3>2. /\ LastN(a, n) \in Seq(S) /\ Len(LastN(a, n)) = n
          /\ \A k \in 1 .. n : LastN(a, n)[k] = a[Len(a) - n + k]
      BY <3>1, LastNParts
    <3> QED
      BY <2>2, <3>2
  <2>5. /\ LastN(b, n) \in Seq(S) /\ Len(LastN(b, n)) = n
        /\ \A k \in 1 .. n : LastN(b, n)[k] = b[k + 1]
    <3>1. b \in Seq(S) /\ n \in Nat /\ Len(b) > n
      BY <2>3
    <3>2. /\ LastN(b, n) \in Seq(S) /\ Len(LastN(b, n)) = n
          /\ \A k \in 1 .. n : LastN(b, n)[k] = b[Len(b) - n + k]
      BY <3>1, LastNParts
    <3> QED
      BY <2>3, <3>2
  <2>6. ASSUME NEW k \in 1 .. n PROVE a[Len(s) + 1 - n + k] = b[k + 1]
    <3>1. CASE k = n
      BY <2>1, <2>2, <2>3, <3>1
    <3>2. CASE k < n
      <4>1. /\ k + 1 \in 1 .. n /\ Len(s) + 1 - n + k \in 1 .. Len(s)
            /\ Len(s) - n + (k + 1) = Len(s) + 1 - n + k
        BY <1>2, <2>1, <3>2
      <4>2. b[k + 1] = s[Len(s) - n + (k + 1)]
        BY <2>1, <2>3, <4>1
      <4>3. a[Len(s) + 1 - n + k] = s[Len(s) + 1 - n + k]
        BY <2>2, <4>1
      <4> QED
        BY <4>1, <4>2, <4>3
    <3> QED
      BY <3>1, <3>2
  <2>7. LastN(a, n) = LastN(b, n)
    <3>1. \A k \in 1 .. n : LastN(a, n)[k] = LastN(b, n)[k]
      BY <2>4, <2>5, <2>6
    <3> QED
      BY <2>4, <2>5, <3>1
  <2> QED
    BY <2>7 DEF a, b, e
<1> QED
  BY <1>1, <1>2

LEMMA SameEndAppend ==
  ASSUME NEW a \in Seq(Typed), NEW b \in Seq(Typed), NEW t \in Typed, SameEnd(a, b)
  PROVE  SameEnd(Append(a, t), Append(b, t))
  BY EndOfAppend, CountAssumption DEF SameEnd

LEMMA InitSerial == Init => SerialInv
  BY DEF Init, SerialInv, SameEnd

(* Where a shell is, once it is the only one. *)
LEMMA SerialStart ==
  ASSUME SharedInv, SerialInv, NEW s \in Shells, Start(s)
  PROVE  SerialInv'
<1>1. /\ \A r \in Shells : pc'[r] = IF r = s THEN "truncating" ELSE pc[r]
      /\ pc[s] = "off"
      /\ UNCHANGED <<exists, file, list, snapshot, line, recent>>
  BY DEF Start, From, SharedInv, TypeOK
<1>2. ~overlap' => ~overlap /\ \A r \in Shells \ {s} : pc[r] = "off"
  BY Zenon DEF Start
<1> QED
  BY <1>1, <1>2 DEF SerialInv

LEMMA SerialTruncate ==
  ASSUME SharedInv, SerialInv, NEW s \in Shells,
         TruncateReads(s) \/ TruncateEmpties(s) \/ TruncateWrites(s)
  PROVE  SerialInv'
<1> USE DEF SharedInv, TypeOK
<1>1. CASE TruncateReads(s)
  <2>1. /\ \A r \in Shells \ {s} : pc'[r] = pc[r] /\ snapshot'[r] = snapshot[r]
        /\ pc[s] = "truncating" /\ snapshot'[s] = file
        /\ pc'[s] = IF exists /\ TooLong(s) THEN "rewriting" ELSE "reading"
        /\ UNCHANGED <<exists, file, list, line, recent, overlap>>
    BY <1>1 DEF TruncateReads, From
  <2>2. pc'[s] = "reading" => Len(file) <= Count
    BY <2>1, CountAssumption DEF TooLong
  <2>3. pc'[s] \in {"rewriting", "reading"}
    BY <2>1
  <2>4. ~overlap => \A r \in Shells : pc[r] # "refilling"
    BY <2>1 DEF SerialInv
  <2>5. ~overlap => SameEnd(file, recent)
    BY <2>4 DEF SerialInv
  <2> QED
    BY <2>1, <2>2, <2>3, <2>5 DEF SerialInv
<1>2. CASE TruncateEmpties(s)
  <2>1. /\ \A r \in Shells \ {s} : pc'[r] = pc[r]
        /\ pc[s] = "rewriting" /\ pc'[s] = "refilling" /\ file' = <<>>
        /\ UNCHANGED <<exists, snapshot, list, line, recent, overlap>>
    BY <1>2 DEF TruncateEmpties, From
  <2>2. ~overlap => \A r \in Shells \ {s} : pc[r] = "off"
    BY <2>1 DEF SerialInv
  <2> QED
    BY <2>1, <2>2 DEF SerialInv
<1>3. CASE TruncateWrites(s)
  <2>1. /\ \A r \in Shells \ {s} : pc'[r] = pc[r]
        /\ pc[s] = "refilling" /\ pc'[s] = "reading" /\ file' = LastN(snapshot[s], Count)
        /\ UNCHANGED <<exists, snapshot, list, line, recent, overlap>>
    BY <1>3 DEF TruncateWrites, From
  <2>2. Len(file') <= Count /\ LastN(file', Count) = LastN(snapshot[s], Count)
    BY <2>1, LastNTwice, CountAssumption
  <2>3. ~overlap => SameEnd(file', recent)
    BY <2>1, <2>2 DEF SerialInv, SameEnd
  <2>4. ~overlap => \A r \in Shells \ {s} : pc[r] = "off"
    BY <2>1 DEF SerialInv
  <2> QED
    BY <2>1, <2>2, <2>3, <2>4 DEF SerialInv
<1> QED
  BY <1>1, <1>2, <1>3

LEMMA SerialRead ==
  ASSUME SharedInv, SerialInv, NEW s \in Shells, ReadHistory(s)
  PROVE  SerialInv'
<1>1. /\ \A r \in Shells \ {s} : pc'[r] = pc[r] /\ list'[r] = list[r]
      /\ pc[s] = "reading" /\ pc'[s] = "prompt" /\ list'[s] = FirstN(file, Count)
      /\ UNCHANGED <<exists, file, snapshot, line, recent, overlap>>
  BY DEF ReadHistory, From, SharedInv, TypeOK
<1>2. ~overlap => list'[s] = file
  BY <1>1 DEF SerialInv, FirstN
<1> QED
  BY <1>1, <1>2 DEF SerialInv

LEMMA SerialType ==
  ASSUME SharedInv, SerialInv, NEW s \in Shells, Type(s)
  PROVE  SerialInv'
<1>1. PICK t \in Typed :
        /\ line' = [line EXCEPT ![s] = t]
        /\ list' = [list EXCEPT ![s] = Append(list[s], t)]
  BY DEF Type
<1>2. /\ \A r \in Shells \ {s} : pc'[r] = pc[r] /\ list'[r] = list[r] /\ line'[r] = line[r]
      /\ pc[s] = "prompt" /\ pc'[s] = "saving"
      /\ list'[s] = Append(list[s], t) /\ line'[s] = t
      /\ UNCHANGED <<exists, file, snapshot, recent, overlap>>
  BY <1>1 DEF Type, From, SharedInv, TypeOK
<1>3. ~overlap => SameEnd(list'[s], Append(recent, t))
  <2>1. list[s] \in Seq(Typed) /\ recent \in Seq(Typed)
    BY DEF SharedInv, TypeOK
  <2>2. ~overlap => SameEnd(list[s], recent)
    BY <1>2 DEF SerialInv
  <2> QED
    BY <1>2, <2>1, <2>2, SameEndAppend
<1> QED
  BY <1>2, <1>3 DEF SerialInv

LEMMA SerialSave ==
  ASSUME SharedInv, SerialInv, NEW s \in Shells, AppendHistory(s) \/ WriteHistory(s)
  PROVE  SerialInv'
<1> DEFINE t == line[s]
<1>1. /\ \A r \in Shells \ {s} : pc'[r] = pc[r]
      /\ pc[s] \in {"appending", "creating"} /\ pc'[s] = "prompt"
      /\ recent' = Append(recent, t) /\ UNCHANGED <<list, snapshot, line, overlap>>
  BY DEF AppendHistory, WriteHistory, From, SharedInv, TypeOK
<1>2. exists'
  BY DEF AppendHistory, WriteHistory, From, SharedInv, AtStep
<1>3. file \in Seq(Typed) /\ recent \in Seq(Typed) /\ t \in Typed
  BY DEF SharedInv, TypeOK
<1>4. ~overlap => SameEnd(list[s], recent')
  BY <1>1 DEF SerialInv
<1>5. ~overlap => SameEnd(file', recent')
  <2>1. CASE AppendHistory(s)
    <3>1. file' = Append(file, t)
      BY <2>1, <1>3 DEF AppendHistory, NewEntries, From, SharedInv, AtStep
    <3>2. ~overlap => \A r \in Shells : pc[r] # "refilling"
      BY <1>1 DEF SerialInv
    <3>3. ~overlap => SameEnd(file, recent)
      BY <3>2 DEF SerialInv
    <3> QED
      BY <1>1, <1>3, <3>1, <3>3, SameEndAppend
  <2>2. CASE WriteHistory(s)
    BY <1>4, <2>2 DEF WriteHistory
  <2> QED
    BY <2>1, <2>2
<1>6. ~overlap => \A r \in Shells \ {s} : pc[r] = "off"
  BY <1>1 DEF SerialInv
<1> QED
  BY <1>1, <1>2, <1>4, <1>5, <1>6 DEF SerialInv

LEMMA SerialCheck ==
  ASSUME SharedInv, SerialInv, NEW s \in Shells, Check(s)
  PROVE  SerialInv'
<1>1. /\ \A r \in Shells \ {s} : pc'[r] = pc[r]
      /\ pc[s] = "saving" /\ pc'[s] \in {"appending", "creating"}
      /\ UNCHANGED <<exists, file, list, snapshot, line, recent, overlap>>
  BY DEF Check, From, SharedInv, TypeOK
<1> QED
  BY <1>1 DEF SerialInv

LEMMA SerialLeave ==
  ASSUME SharedInv, SerialInv, NEW s \in Shells, Leave(s)
  PROVE  SerialInv'
<1>1. /\ \A r \in Shells \ {s} : pc'[r] = pc[r]
      /\ pc'[s] = "off"
      /\ UNCHANGED <<exists, file, list, snapshot, line, overlap>>
  BY DEF Leave, SharedInv, TypeOK
<1>2. pc[s] # "off"
  BY DEF Leave
<1>3. ~overlap => \A r \in Shells \ {s} : pc[r] = "off"
  BY <1>2 DEF SerialInv
<1>4. CASE pc[s] = "refilling"
  <2>1. recent' = <<>>
    BY <1>4 DEF Leave
  <2>2. ~overlap => file' = recent'
    BY <1>1, <1>4, <2>1 DEF SerialInv
  <2> QED
    BY <1>1, <1>3, <2>1, <2>2 DEF SerialInv, SameEnd
<1>5. CASE pc[s] # "refilling"
  <2>1. recent' = recent
    BY <1>5 DEF Leave
  <2>2. ~overlap => SameEnd(file, recent)
    BY <1>3, <1>5 DEF SerialInv
  <2> QED
    BY <1>1, <1>3, <2>1, <2>2 DEF SerialInv
<1> QED
  BY <1>4, <1>5

LEMMA NextSerial == SharedInv /\ SerialInv /\ [Next]_vars => SerialInv'
<1>1. UNCHANGED vars /\ SerialInv => SerialInv'
  BY DEF vars, SerialInv
<1> QED
  BY <1>1, SerialStart, SerialTruncate, SerialRead, SerialType, SerialSave, SerialCheck, SerialLeave
     DEF Next, Step

(* One shell after another, any number of times and killed anywhere: the   *)
(* newest lines that were saved since a kill last fell between the         *)
(* emptying and the writing of a truncation are in the list of each that   *)
(* starts.                                                                 *)
THEOREM NewestAreKept == Spec => []RestartRemembers
<1>1. SerialInv => RestartRemembers
  BY DEF SerialInv, SameEnd, RestartRemembers
<1> QED
  BY <1>1, InitShared, NextShared, InitSerial, NextSerial, PTL DEF Spec

-----------------------------------------------------------------------------
(* The command line.                                                       *)

Letters == {"c", "s", "v", "x", "?", "word"}
Undecided(last) == \A k \in 1 .. last : argv[k].option \notin {"v", "?", "x"}

(* What has been made of the options up to the one handed out last; while  *)
(* there are more, and when there are none.                                *)
ToLast ==
  /\ Undecided(at)
  /\ ran = <<>>
  /\ at # 0 => argv[at].option # "word"
  /\ queue_mode <=> \E k \in 1 .. at : argv[k].option = "s"
  /\ config_file <=> Named(at) # <<>>
  /\ config = Named(at)
ToEnd ==
  /\ Undecided(Len(argv))
  /\ ran = <<>>
  /\ at = 0 <=> \A k \in DOMAIN argv : argv[k].option = "word"
  /\ queue_mode <=> \E k \in DOMAIN argv : argv[k].option = "s"
  /\ config = IF Named(Len(argv)) = <<>> THEN <<Default>> ELSE Named(Len(argv))
LineInv ==
  /\ argv \in Seq([option : Letters, text : STRING])
  /\ at \in 0 .. Len(argv)
  /\ config_file \in BOOLEAN /\ queue_mode \in BOOLEAN
  /\ phase = "options" => ToLast
  /\ phase = "words" => ToEnd
  /\ CommandLineMeans

LEMMA SmallestNumber ==
  ASSUME NEW S \in SUBSET Nat, S # {}
  PROVE  Min(S) \in S /\ \A y \in S : Min(S) <= y
<1> DEFINE R == {ss \in Nat \X Nat : ss[1] < ss[2]}
<1>1. IsWellFoundedOn(R, Nat)
  BY NatLessThanWellFounded DEF OpToRel
<1>2. PICK x \in S : \A y \in S : <<y, x>> \notin R
  <2> HIDE DEF R
  <2> QED
    BY <1>1, WFMin
<1>3. ASSUME NEW y \in S PROVE x <= y
  <2>1. x \in Nat /\ y \in Nat
    OBVIOUS
  <2>2. ~(y < x)
    BY <1>2, <2>1
  <2> QED
    BY <2>1, <2>2
<1> QED
  BY <1>3 DEF Min

(* The files named up to an argument are a sequence, and only a -c adds to *)
(* it, at its end.                                                         *)
LEMMA NamingIsFinite ==
  ASSUME NEW k \in Nat
  PROVE  IsFiniteSet(Naming(k)) /\ Cardinality(Naming(k)) \in Nat
<1>1. IsFiniteSet(1 .. k) /\ Naming(k) \in SUBSET (1 .. k)
  BY FS_Interval DEF Naming
<1> QED
  BY <1>1, FS_Subset, FS_CardinalityType

LEMMA OthersNameNothing ==
  ASSUME NEW i \in Nat, NEW j \in Nat, i <= j,
         \A k \in i + 1 .. j : argv[k].option # "c"
  PROVE  Named(j) = Named(i)
<1>1. Naming(j) = Naming(i)
  BY DEF Naming
<1> QED
  BY <1>1 DEF Named

LEMMA NothingNamed == Named(0) = <<>>
<1>1. Naming(0) = {}
  BY DEF Naming
<1>2. Cardinality(Naming(0)) = 0
  BY <1>1, FS_EmptySet
<1> QED
  BY <1>2 DEF Named

LEMMA NextFile ==
  ASSUME NEW k \in 1 .. Len(argv), argv \in Seq([option : Letters, text : STRING]),
         argv[k].option = "c"
  PROVE  /\ Named(k) = Append(Named(k - 1), argv[k].text)
         /\ Named(k) # <<>>
<1> DEFINE n == Cardinality(Naming(k - 1))
<1>1. k \in Nat /\ k - 1 \in Nat /\ k \in DOMAIN argv /\ DOMAIN argv = 1 .. Len(argv)
  OBVIOUS
<1>2. Naming(k) = Naming(k - 1) \cup {k} /\ k \notin Naming(k - 1)
  BY <1>1 DEF Naming
<1>3. IsFiniteSet(Naming(k - 1)) /\ n \in Nat
  BY <1>1, NamingIsFinite
<1>4. Cardinality(Naming(k)) = n + 1
  BY <1>2, <1>3, FS_AddElement
<1>5. ASSUME NEW j \in DOMAIN argv, argv[j].option = "c", Cardinality(Naming(j)) = n + 1
      PROVE  j = k
  <2>1. j \in Nat
    BY <1>1
  <2>2. Naming(j) \in SUBSET Naming(k) \/ Naming(k) \in SUBSET Naming(j)
    BY <1>1, <2>1 DEF Naming
  <2>3. IsFiniteSet(Naming(j)) /\ IsFiniteSet(Naming(k))
    BY <1>1, <2>1, NamingIsFinite
  <2>4. Naming(j) = Naming(k)
    BY <1>4, <1>5, <2>2, <2>3, FS_Subset
  <2>5. j \in Naming(j) /\ k \in Naming(k)
    BY <1>1, <1>5, <2>1 DEF Naming
  <2> QED
    BY <1>1, <2>1, <2>4, <2>5 DEF Naming
<1>6. Nth(n + 1) = k
  BY <1>1, <1>4, <1>5 DEF Nth
<1> HIDE DEF n
<1>7. Named(k - 1) = [i \in 1 .. n |-> argv[Nth(i)].text]
  BY DEF Named, n
<1>8. Named(k) = [i \in 1 .. n + 1 |-> argv[Nth(i)].text]
  BY <1>4 DEF Named
<1>9. Named(k - 1) \in Seq({argv[Nth(i)].text : i \in 1 .. n}) /\ Len(Named(k - 1)) = n
  BY <1>3, <1>7
<1>10. Append(Named(k - 1), argv[k].text) =
         [i \in 1 .. n + 1 |-> IF i = n + 1 THEN argv[k].text ELSE Named(k - 1)[i]]
  BY <1>3, <1>9
<1>11. ASSUME NEW i \in 1 .. n + 1
       PROVE  argv[Nth(i)].text = IF i = n + 1 THEN argv[k].text ELSE Named(k - 1)[i]
  BY <1>3, <1>6, <1>7
<1>12. Named(k) = Append(Named(k - 1), argv[k].text)
  BY <1>8, <1>10, <1>11
<1>13. 1 \in DOMAIN Named(k)
  BY <1>3, <1>8
<1> QED
  BY <1>12, <1>13

(* The option handed out next, with nothing but words before it.           *)
LEMMA NextOption ==
  ASSUME LineInv, phase = "options", NEW option \in Letters, Given(option)
  PROVE  \E next \in at + 1 .. Len(argv) :
           /\ at' = next
           /\ argv[next].option = option /\ option # "word"
           /\ Undecided(next - 1)
           /\ Named(next - 1) = Named(at)
           /\ queue_mode <=> \E k \in 1 .. next - 1 : argv[k].option = "s"
<1>1. DOMAIN argv = 1 .. Len(argv) /\ Len(argv) \in Nat /\ at \in Nat
  BY DEF LineInv
<1>2. OptionsLeft \in SUBSET Nat /\ OptionsLeft # {}
  BY <1>1 DEF OptionsLeft, Given
<1>3. PICK next \in OptionsLeft : at' = next /\ \A k \in OptionsLeft : next <= k
  BY <1>2, SmallestNumber DEF Given
<1>4. next \in at + 1 .. Len(argv) /\ next \in Nat /\ argv[next].option # "word"
  BY <1>1, <1>3 DEF OptionsLeft
<1>5. argv[next].option = option
  BY <1>3 DEF Given
<1>6. ASSUME NEW k \in at + 1 .. next - 1 PROVE argv[k].option = "word"
  <2>1. k \in DOMAIN argv /\ k > at /\ ~(next <= k)
    BY <1>1, <1>4
  <2> QED
    BY <1>3, <2>1 DEF OptionsLeft
<1>7. ASSUME NEW k \in 1 .. next - 1 PROVE k \in 1 .. at \/ argv[k].option = "word"
  <2>1. k \in 1 .. at \/ k \in at + 1 .. next - 1
    BY <1>1, <1>4
  <2> QED
    BY <1>6, <2>1
<1>8. ToLast
  BY DEF LineInv
<1>9. Undecided(next - 1)
  BY <1>7, <1>8 DEF Undecided, ToLast
<1>10. Named(next - 1) = Named(at)
  <2>1. next - 1 \in Nat /\ at <= next - 1
    BY <1>1, <1>4
  <2>2. \A k \in at + 1 .. next - 1 : argv[k].option # "c"
    BY <1>6
  <2> QED
    BY <1>1, <2>1, <2>2, OthersNameNothing
<1>11. \A k \in 1 .. at : k \in 1 .. next - 1
  BY <1>1, <1>4
<1>12. queue_mode <=> \E k \in 1 .. next - 1 : argv[k].option = "s"
  BY <1>7, <1>8, <1>11 DEF ToLast
<1> QED
  BY <1>3, <1>4, <1>5, <1>9, <1>10, <1>12

(* The first option that decides is the one that Decided finds.            *)
LEMMA DecidedIs ==
  ASSUME argv \in Seq([option : Letters, text : STRING]),
         NEW d \in 1 .. Len(argv), Undecided(d - 1), argv[d].option \in {"v", "?", "x"}
  PROVE  Deciding # {} /\ Decided = d
<1>1. DOMAIN argv = 1 .. Len(argv) /\ Len(argv) \in Nat
  OBVIOUS
<1>2. d \in Deciding /\ Deciding \in SUBSET Nat
  BY <1>1 DEF Deciding
<1>3. \A k \in Deciding : d <= k
  BY <1>1 DEF Deciding, Undecided
<1>4. Min(Deciding) \in Deciding /\ Min(Deciding) <= d
  BY <1>2, SmallestNumber
<1>5. Min(Deciding) = d
  <2>1. Min(Deciding) \in Nat /\ d \in Nat /\ d <= Min(Deciding)
    BY <1>1, <1>2, <1>3, <1>4
  <2> QED
    BY <1>4, <2>1
<1> QED
  BY <1>2, <1>5 DEF Decided

LEMMA NothingDecides ==
  ASSUME argv \in Seq([option : Letters, text : STRING]), Undecided(Len(argv))
  PROVE  Deciding = {} /\ Decided - 1 = Len(argv)
<1>1. Deciding = {}
  BY DEF Deciding, Undecided
<1> QED
  BY <1>1 DEF Decided

LEMMA InitLine == StartupInit => LineInv
<1> SUFFICES ASSUME StartupInit PROVE LineInv
  OBVIOUS
<1>1. argv \in Seq([option : Letters, text : STRING])
  BY CommandLinesAssumption DEF StartupInit, Letters
<1>2. Named(at) = <<>>
  BY NothingNamed DEF StartupInit
<1>3. ToLast
  BY <1>2 DEF StartupInit, ToLast, Undecided
<1>4. at \in 0 .. Len(argv)
  BY <1>1 DEF StartupInit
<1> QED
  BY <1>1, <1>3, <1>4 DEF StartupInit, LineInv, CommandLineMeans

-----------------------------------------------------------------------------
LEMMA StepConfig == LineInv /\ ConfigOption => LineInv'
<1> SUFFICES ASSUME LineInv, ConfigOption PROVE LineInv'
  OBVIOUS
<1>1. phase = "options" /\ Given("c") /\ "c" \in Letters
  BY DEF ConfigOption, Given, Letters
<1>2. PICK next \in at + 1 .. Len(argv) :
        /\ at' = next /\ argv[next].option = "c"
        /\ Undecided(next - 1) /\ Named(next - 1) = Named(at)
        /\ queue_mode <=> \E k \in 1 .. next - 1 : argv[k].option = "s"
  BY <1>1, NextOption
<1>3. UNCHANGED <<argv, phase, queue_mode, ran>> /\ config_file' = TRUE
      /\ config' = Append(config, argv[next].text)
  BY <1>2 DEF ConfigOption, Argument
<1>4. at \in Nat /\ Len(argv) \in Nat /\ argv \in Seq([option : Letters, text : STRING])
  BY DEF LineInv
<1>5. next \in 1 .. Len(argv) /\ \A k : k \in 1 .. next <=> k \in 1 .. next - 1 \/ k = next
  BY <1>4
<1>6. Named(next) = Append(Named(at), argv[next].text) /\ Named(next) # <<>>
  BY <1>2, <1>4, <1>5, NextFile
<1>7. ran = <<>> /\ config = Named(at)
  BY <1>1 DEF LineInv, ToLast
<1>8. Undecided(next)
  BY <1>2, <1>5 DEF Undecided
<1>9. queue_mode <=> \E k \in 1 .. next : argv[k].option = "s"
  BY <1>2, <1>5
<1>10. Named(at)' = Named(next) /\ Undecided(at)' = Undecided(next)
  BY <1>2, <1>3 DEF Named, Naming, Nth, Undecided
<1>11. ToLast'
  BY <1>2, <1>3, <1>6, <1>7, <1>8, <1>9, <1>10 DEF ToLast
<1>12. at' \in 0 .. Len(argv)
  BY <1>2, <1>4
<1> QED
  BY <1>1, <1>3, <1>4, <1>11, <1>12 DEF LineInv, CommandLineMeans

LEMMA StepStoring == LineInv /\ StoringOption => LineInv'
<1> SUFFICES ASSUME LineInv, StoringOption PROVE LineInv'
  OBVIOUS
<1>1. phase = "options" /\ Given("s") /\ "s" \in Letters
  BY DEF StoringOption, Given, Letters
<1>2. PICK next \in at + 1 .. Len(argv) :
        /\ at' = next /\ argv[next].option = "s"
        /\ Undecided(next - 1) /\ Named(next - 1) = Named(at)
  BY <1>1, NextOption
<1>3. UNCHANGED <<argv, phase, config, config_file, ran>> /\ queue_mode' = TRUE
  BY DEF StoringOption
<1>4. at \in Nat /\ Len(argv) \in Nat /\ argv \in Seq([option : Letters, text : STRING])
  BY DEF LineInv
<1>5. next \in 1 .. Len(argv) /\ \A k : k \in 1 .. next <=> k \in 1 .. next - 1 \/ k = next
  BY <1>4
<1>6. Named(next) = Named(next - 1)
  <2>1. next - 1 \in Nat /\ next \in Nat /\ next - 1 <= next
        /\ \A k \in (next - 1) + 1 .. next : k = next
    BY <1>5
  <2> QED
    BY <1>2, <2>1, OthersNameNothing
<1>7. ran = <<>> /\ config = Named(at) /\ (config_file <=> Named(at) # <<>>)
  BY <1>1 DEF LineInv, ToLast
<1>8. Undecided(next)
  BY <1>2, <1>5 DEF Undecided
<1>9. \E k \in 1 .. next : argv[k].option = "s"
  BY <1>2, <1>5
<1>10. Named(at)' = Named(next) /\ Undecided(at)' = Undecided(next)
  BY <1>2, <1>3 DEF Named, Naming, Nth, Undecided
<1>11. ToLast'
  BY <1>2, <1>3, <1>6, <1>7, <1>8, <1>9, <1>10 DEF ToLast
<1>12. at' \in 0 .. Len(argv)
  BY <1>2, <1>4
<1> QED
  BY <1>1, <1>3, <1>4, <1>11, <1>12 DEF LineInv, CommandLineMeans

(* -v, -? and -x, whose meaning is that of the whole command line.         *)
LEMMA Deciders ==
  ASSUME LineInv, phase = "options", NEW option \in {"v", "?", "x"}, Given(option)
  PROVE  /\ Deciding # {} /\ Decided = at'
         /\ at' \in 0 .. Len(argv) /\ argv[at'].option = option
         /\ ran = <<>> /\ config = FilesNamed /\ queue_mode = Storing /\ ~OnlyWords
<1>1. option \in Letters
  BY DEF Letters
<1>2. PICK next \in at + 1 .. Len(argv) :
        /\ at' = next /\ argv[next].option = option
        /\ Undecided(next - 1) /\ Named(next - 1) = Named(at)
        /\ queue_mode <=> \E k \in 1 .. next - 1 : argv[k].option = "s"
  BY <1>1, NextOption
<1>3. at \in Nat /\ Len(argv) \in Nat /\ argv \in Seq([option : Letters, text : STRING])
  BY DEF LineInv
<1>4. next \in 1 .. Len(argv) /\ next \in 0 .. Len(argv)
  BY <1>3
<1>5. Deciding # {} /\ Decided = next
  BY <1>2, <1>3, <1>4, DecidedIs
<1>6. ran = <<>> /\ config = Named(at)
  BY DEF LineInv, ToLast
<1>7. ~OnlyWords
  BY <1>2, <1>3, <1>4 DEF OnlyWords
<1>8. queue_mode = Storing
  <2>1. queue_mode \in BOOLEAN
    BY DEF LineInv
  <2>2. queue_mode <=> Storing
    BY <1>2, <1>5 DEF Storing
  <2> QED
    BY <2>1, <2>2 DEF Storing
<1> QED
  BY <1>2, <1>4, <1>5, <1>6, <1>7, <1>8 DEF FilesNamed

LEMMA SameLine ==
  ASSUME argv' = argv
  PROVE  /\ Executed' = Executed /\ FilesNamed' = FilesNamed /\ Storing' = Storing
         /\ Deciding' = Deciding /\ OnlyWords' = OnlyWords /\ Disputed' = Disputed
<1>1. Deciding' = Deciding /\ OnlyWords' = OnlyWords
  BY DEF Deciding, OnlyWords
<1>2. Decided' = Decided
  BY <1>1 DEF Decided
<1>3. Storing' = Storing
  BY <1>2 DEF Storing
<1>4. FilesNamed' = FilesNamed
  BY <1>2 DEF FilesNamed, Named, Naming, Nth
<1> QED
  BY <1>1, <1>2, <1>3, <1>4 DEF Executed, Disputed

LEMMA StepInfo == LineInv /\ InfoOption => LineInv'
<1> SUFFICES ASSUME LineInv, InfoOption PROVE LineInv'
  OBVIOUS
<1>1. PICK option \in {"v", "?"} : Given(option)
  BY DEF InfoOption
<1>2. phase = "options" /\ option \in {"v", "?", "x"} /\ option # "x"
  BY <1>1 DEF Given
<1>3. UNCHANGED <<argv, config, config_file, queue_mode, ran>> /\ phase' = "done"
  BY DEF InfoOption
<1>4. /\ Deciding # {} /\ Decided = at'
      /\ at' \in 0 .. Len(argv) /\ argv[at'].option = option
      /\ ran = <<>> /\ config = FilesNamed /\ queue_mode = Storing /\ ~OnlyWords
  BY <1>1, <1>2, Deciders
<1>5. Executed = <<>>
  BY <1>2, <1>4 DEF Executed
<1>6. CommandLineMeans'
  BY <1>3, <1>4, <1>5, SameLine DEF CommandLineMeans
<1>7. argv \in Seq([option : Letters, text : STRING])
  BY DEF LineInv
<1> QED
  BY <1>3, <1>4, <1>6, <1>7 DEF LineInv

LEMMA StepExecute == LineInv /\ ExecuteOption => LineInv'
<1> SUFFICES ASSUME LineInv, ExecuteOption PROVE LineInv'
  OBVIOUS
<1>1. Given("x") /\ "x" \in {"v", "?", "x"}
  BY DEF ExecuteOption
<1>2. phase = "options"
  BY <1>1 DEF Given
<1>3. UNCHANGED <<argv, config, config_file, queue_mode>> /\ phase' \in {"done", "failed"}
  BY DEF ExecuteOption, Libapt
<1>4. /\ Deciding # {} /\ Decided = at'
      /\ at' \in 0 .. Len(argv) /\ argv[at'].option = "x"
      /\ ran = <<>> /\ config = FilesNamed /\ queue_mode = Storing /\ ~OnlyWords
  BY <1>1, <1>2, Deciders
<1>5. phase' = "done" => ran' = Executed \/ Disputed
  <2>1. Executed = <<argv[at'].text>> /\ (Disputed <=> queue_mode)
    BY <1>4 DEF Executed, Disputed
  <2>2. phase' = "done" => ran' = IF ~queue_mode THEN Append(ran, argv[at'].text) ELSE ran
    BY DEF ExecuteOption, Argument
  <2>3. Append(<<>>, argv[at'].text) = <<argv[at'].text>>
    OBVIOUS
  <2> QED
    BY <1>4, <2>1, <2>2, <2>3
<1>6. CommandLineMeans'
  BY <1>3, <1>4, <1>5, SameLine DEF CommandLineMeans
<1>7. argv \in Seq([option : Letters, text : STRING])
  BY DEF LineInv
<1> QED
  BY <1>3, <1>4, <1>6, <1>7 DEF LineInv

LEMMA StepEnd == LineInv /\ OptionsEnd => LineInv'
<1> SUFFICES ASSUME LineInv, OptionsEnd PROVE LineInv'
  OBVIOUS
<1>1. ToLast /\ OptionsLeft = {}
  BY DEF LineInv, OptionsEnd
<1>2. UNCHANGED <<argv, at, queue_mode, ran>> /\ phase' = "words"
      /\ config' = IF config_file THEN config ELSE Append(config, Default)
  BY DEF OptionsEnd
<1>3. /\ at \in 0 .. Len(argv) /\ at \in Nat /\ Len(argv) \in Nat
      /\ argv \in Seq([option : Letters, text : STRING]) /\ DOMAIN argv = 1 .. Len(argv)
  BY DEF LineInv
<1>4. \A k \in DOMAIN argv : k \in 1 .. at \/ argv[k].option = "word"
  BY <1>1, <1>3 DEF OptionsLeft
<1>5. \A k \in at + 1 .. Len(argv) : argv[k].option # "c"
  BY <1>1, <1>3 DEF OptionsLeft
<1>6. Named(Len(argv)) = Named(at)
  BY <1>3, <1>5, OthersNameNothing
<1>7. Undecided(Len(argv))
  BY <1>1, <1>3, <1>4 DEF ToLast, Undecided
<1>8. at = 0 <=> \A k \in DOMAIN argv : argv[k].option = "word"
  BY <1>1, <1>3, <1>4 DEF ToLast
<1>9. queue_mode <=> \E k \in DOMAIN argv : argv[k].option = "s"
  <2>1. \A k \in 1 .. at : k \in DOMAIN argv
    BY <1>3
  <2> QED
    BY <1>1, <1>4, <2>1 DEF ToLast
<1>10. config' = IF Named(Len(argv)) = <<>> THEN <<Default>> ELSE Named(Len(argv))
  <2>1. Append(<<>>, Default) = <<Default>>
    OBVIOUS
  <2> QED
    BY <1>1, <1>2, <1>6, <2>1 DEF ToLast
<1>11. Named(Len(argv))' = Named(Len(argv)) /\ Undecided(Len(argv))' = Undecided(Len(argv))
  BY <1>2 DEF Named, Naming, Nth, Undecided
<1>12. ToEnd'
  BY <1>1, <1>2, <1>7, <1>8, <1>9, <1>10, <1>11 DEF ToEnd, ToLast
<1>13. config_file' \in BOOLEAN /\ queue_mode' \in BOOLEAN
  BY DEF OptionsEnd, LineInv
<1> QED
  BY <1>2, <1>3, <1>12, <1>13 DEF LineInv, CommandLineMeans

(* Behind the options, nothing has decided and the words count.            *)
LEMMA WordsLeft ==
  ASSUME LineInv, phase = "words"
  PROVE  /\ Deciding = {} /\ ran = <<>> /\ queue_mode = Storing
         /\ OnlyWords <=> at = 0 /\ argv # <<>>
         /\ config = IF FilesNamed = <<>> THEN <<Default>> ELSE FilesNamed
         /\ Executed = IF OnlyWords /\ argv[1].text \in Names THEN <<argv[1].text>> ELSE <<>>
<1>1. ToEnd /\ argv \in Seq([option : Letters, text : STRING])
  BY DEF LineInv
<1>2. Deciding = {} /\ Decided - 1 = Len(argv)
  BY <1>1, NothingDecides DEF ToEnd
<1>3. DOMAIN argv = 1 .. Len(argv)
  BY <1>1
<1>4. FilesNamed = Named(Len(argv))
  BY <1>2 DEF FilesNamed
<1>6. queue_mode = Storing
  <2>1. queue_mode \in BOOLEAN
    BY DEF LineInv
  <2>2. queue_mode <=> Storing
    BY <1>1, <1>2, <1>3 DEF Storing, ToEnd
  <2> QED
    BY <2>1, <2>2 DEF Storing
<1>5. OnlyWords <=> at = 0 /\ argv # <<>>
  BY <1>1 DEF OnlyWords, ToEnd
<1> QED
  BY <1>1, <1>2, <1>4, <1>5, <1>6 DEF ToEnd, Executed

LEMMA StepDirect == LineInv /\ DirectCommand => LineInv'
<1> SUFFICES ASSUME LineInv, DirectCommand PROVE LineInv'
  OBVIOUS
<1>1. phase = "words" /\ at = 0 /\ argv # <<>>
  BY DEF DirectCommand
<1>2. UNCHANGED <<argv, at, config, config_file, queue_mode>> /\ phase' \in {"done", "failed"}
  BY DEF DirectCommand, Libapt
<1>3. /\ Deciding = {} /\ ran = <<>> /\ OnlyWords
      /\ config = IF FilesNamed = <<>> THEN <<Default>> ELSE FilesNamed
      /\ Executed = IF argv[1].text \in Names THEN <<argv[1].text>> ELSE <<>>
  BY <1>1, WordsLeft
<1>4. phase' = "done" => ran' = Executed
  <2>1. Append(<<>>, argv[1].text) = <<argv[1].text>>
    OBVIOUS
  <2> QED
    BY <1>3, <2>1 DEF DirectCommand
<1>5. CommandLineMeans'
  BY <1>2, <1>3, <1>4, SameLine DEF CommandLineMeans
<1> QED
  BY <1>2, <1>5 DEF LineInv

LEMMA StepInteractive == LineInv /\ NoCommand => LineInv'
<1> SUFFICES ASSUME LineInv, NoCommand PROVE LineInv'
  OBVIOUS
<1>1. phase = "words" /\ (at # 0 \/ argv = <<>>)
  BY DEF NoCommand
<1>2. /\ UNCHANGED <<argv, at, config, config_file, queue_mode, ran>>
      /\ phase' \in {"interactive", "failed"}
  BY DEF NoCommand, Libapt
<1>3. /\ Deciding = {} /\ ran = <<>> /\ ~OnlyWords /\ queue_mode = Storing
      /\ config = IF FilesNamed = <<>> THEN <<Default>> ELSE FilesNamed
      /\ Executed = <<>>
  BY <1>1, WordsLeft
<1>4. CommandLineMeans'
  BY <1>2, <1>3, SameLine DEF CommandLineMeans
<1> QED
  BY <1>2, <1>4 DEF LineInv

LEMMA StepEnter == LineInv /\ Enter => LineInv'
<1> SUFFICES ASSUME LineInv, Enter PROVE LineInv'
  OBVIOUS
<1>1. /\ phase' = "running" /\ argv' = <<>> /\ at' = 0 /\ queue_mode' = FALSE
      /\ config_file' = config_file /\ config_file \in BOOLEAN
  BY DEF Enter, LineInv
<1>2. <<>> \in Seq([option : Letters, text : STRING]) /\ 0 \in 0 .. Len(<<>>)
  OBVIOUS
<1> QED
  BY <1>1, <1>2 DEF LineInv, CommandLineMeans

LEMMA StepNone == LineInv /\ UNCHANGED startup_vars => LineInv'
<1> SUFFICES ASSUME LineInv, UNCHANGED startup_vars PROVE LineInv'
  OBVIOUS
<1>1. UNCHANGED <<argv, at, phase, config, config_file, queue_mode, ran>>
  BY DEF startup_vars
<1>2. CommandLineMeans'
  BY <1>1, SameLine DEF LineInv, CommandLineMeans
<1>3. Named(Len(argv))' = Named(Len(argv)) /\ Undecided(Len(argv))' = Undecided(Len(argv))
      /\ Named(at)' = Named(at) /\ Undecided(at)' = Undecided(at)
  BY <1>1 DEF Named, Naming, Nth, Undecided
<1>4. (phase = "options" => ToLast') /\ (phase = "words" => ToEnd')
  BY <1>1, <1>3 DEF LineInv, ToLast, ToEnd
<1> QED
  BY <1>1, <1>2, <1>4 DEF LineInv

LEMMA NextLine == LineInv /\ [StartupNext]_<<vars, startup_vars>> => LineInv'
BY StepConfig, StepStoring, StepInfo, StepExecute, StepEnd, StepDirect,
   StepInteractive, StepEnter, StepNone DEF StartupNext, OptionStep

(* Whatever the arguments and their order: the first of -v, -x and -?      *)
(* decides, the files named before it are read in order, and a command on  *)
(* the command line is executed once; of -x behind -s nothing is said.     *)
THEOREM OptionsMeanWhatTheySay == StartupSpec => []CommandLineMeans
<1>1. LineInv => CommandLineMeans
  BY DEF LineInv
<1> QED
  BY <1>1, InitLine, NextLine, PTL DEF StartupSpec

(* A shell that starts with its command line is one of those of            *)
(* HistoryFile, so all that holds of these holds of it.                    *)
THEOREM ShellsStartLikeAny == StartupSpec => Spec
<1>1. StartupInit => Init
  BY DEF StartupInit
<1>2. [StartupNext]_<<vars, startup_vars>> => [Next]_vars
  BY DEF StartupNext, Enter, Next, Step, vars
<1> QED
  BY <1>1, <1>2, PTL DEF StartupSpec, Spec

(* Whatever the command lines: shells one after another remember the       *)
(* newest lines, and a short file gets all lines of any shells.            *)
COROLLARY StartedShellsRemember ==
  StartupSpec => [](RestartRemembers /\ ShortFileLosesNothing)
BY ShellsStartLikeAny, NewestAreKept, ShortFileIsExact, PTL
=============================================================================
