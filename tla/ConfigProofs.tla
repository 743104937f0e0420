---------------------------- MODULE ConfigProofs ----------------------------
(***************************************************************************)
(* cfg_parse() for every file and every limit: its buffers hold what it    *)
(* writes but for the byte its branches write unchecked, and what it has   *)
(* set, wherever it stands, is what the lines so far say.                  *)
(* Release 0.0.1 reads a file of simple lines in the same way, whatever    *)
(* lines before have left in its buffer.                                   *)
(***************************************************************************)
EXTENDS ConfigReleases, FiniteSetTheorems, SequenceTheorems,
        WellFoundedInduction, TLAPS

(* Every branch that writes has either checked the index for the one       *)
(* character it writes, or writes two characters under the check for one:  *)
(* that is the byte a value may have over a name.                          *)
Inv == TypeOK /\ BuffersSuffice

(* A character read in the file is one of the file's, or EOF. *)
LEMMA AheadIsChar ==
  ASSUME TypeOK, NEW k \in Nat \ {0}
  PROVE  Ahead(k) \in Char \cup {EOF}
BY DEF TypeOK, Ahead

(* Reading never leaves the file. *)
LEMMA ReadStays ==
  ASSUME TypeOK, NEW k \in Nat, Read(k)
  PROVE  file' = file /\ pos' \in 0 .. Len(file)
BY DEF TypeOK, Read

(* What cfg_set() stores is a string. *)
LEMMA SetIsTyped ==
  ASSUME TypeOK, NEW n, NEW value \in Seq(Byte)
  PROVE  /\ DOMAIN Set(n, value) \subseteq Known
         /\ \A o \in DOMAIN Set(n, value) : Set(n, value)[o] \in Seq(Byte)
<1>1. CString(value) \in Seq(Byte)
  <2> DEFINE front == {i \in 1 .. Len(value) : \A j \in 1 .. i : value[j] # Nul}
  <2>1. Len(value) \in Nat
    OBVIOUS
  <2>2. IsFiniteSet(1 .. Len(value)) /\ Cardinality(1 .. Len(value)) = Len(value)
    <3>1. Cardinality(1 .. Len(value)) = IF 1 > Len(value) THEN 0 ELSE Len(value) - 1 + 1
      BY <2>1, FS_Interval
    <3>2. IsFiniteSet(1 .. Len(value))
      BY <2>1, FS_Interval
    <3> QED
      BY <2>1, <3>1, <3>2
  <2>3. Cardinality(front) \in 0 .. Len(value)
    <3>1. front \subseteq 1 .. Len(value)
      OBVIOUS
    <3>2. IsFiniteSet(front) /\ Cardinality(front) <= Len(value)
      BY <2>2, <3>1, FS_Subset
    <3> QED
      BY <2>1, <3>2, FS_CardinalityType
  <2>4. \A k \in 0 .. Len(value) : SubSeq(value, 1, k) \in Seq(Byte)
    OBVIOUS
  <2>5. CString(value) = SubSeq(value, 1, Cardinality(front))
    BY DEF CString
  <2> QED
    BY <2>3, <2>4, <2>5
<1> QED
  BY <1>1 DEF Set, TypeOK

(* The parser starts typed, with empty buffers. *)
LEMMA StartsTyped ==
  ASSUME Init
  PROVE  Inv
BY FilesAssumption DEF Init, Inv, TypeOK, BuffersSuffice

(* One step for each turn of the loop. *)
LEMMA StepsPreserve ==
  ASSUME Inv, [Next]_vars
  PROVE  Inv'
<1> USE DEF Inv
<1>1. CASE EndOfFile
  BY <1>1 DEF EndOfFile, TypeOK, BuffersSuffice
<1>2. CASE EndLine
  <2>1. file' = file /\ pos' \in 0 .. Len(file)
    BY <1>2, ReadStays DEF EndLine
  <2>2. DOMAIN settings' \subseteq Known /\ \A o \in DOMAIN settings' : settings'[o] \in Seq(Byte)
    BY <1>2, SetIsTyped DEF EndLine, TypeOK
  <2> QED
    BY <1>2, <2>1, <2>2, FilesAssumption DEF EndLine, Reset, TypeOK, BuffersSuffice
<1>3. CASE StartComment
  <2>1. file' = file /\ pos' \in 0 .. Len(file)
    BY <1>3, ReadStays DEF StartComment
  <2> QED
    BY <1>3, <2>1 DEF StartComment, TypeOK, BuffersSuffice
<1>4. CASE SkipComment
  <2>1. file' = file /\ pos' \in 0 .. Len(file)
    BY <1>4, ReadStays DEF SkipComment
  <2> QED
    BY <1>4, <2>1 DEF SkipComment, TypeOK, BuffersSuffice
<1>5. CASE EndName
  <2>1. file' = file /\ pos' \in 0 .. Len(file)
    BY <1>5, ReadStays DEF EndName
  <2> QED
    BY <1>5, <2>1, FilesAssumption DEF EndName, TypeOK, BuffersSuffice
<1>6. CASE NameChar
  <2>1. file' = file /\ pos' \in 0 .. Len(file)
    BY <1>6, ReadStays DEF NameChar
  <2>2. Ahead(1) \in Byte
    BY <1>6, AheadIsChar DEF NameChar, InName, Byte
  <2>3. text' \in Seq(Byte) /\ Len(text') = Len(text) + 1
    BY <1>6, <2>2 DEF NameChar, Put, TypeOK
  <2> QED
    BY <1>6, <2>1, <2>3, FilesAssumption DEF NameChar, Put, TypeOK, BuffersSuffice
<1>7. CASE SkipBlank
  <2>1. file' = file /\ pos' \in 0 .. Len(file)
    BY <1>7, ReadStays DEF SkipBlank
  <2> QED
    BY <1>7, <2>1 DEF SkipBlank, TypeOK, BuffersSuffice
<1>8. CASE TooLong
  <2>1. file' = file /\ pos' \in 0 .. Len(file)
    BY <1>8, ReadStays DEF TooLong
  <2> QED
    BY <1>8, <2>1 DEF TooLong, InName, TypeOK, BuffersSuffice
<1>9. CASE ValueChar
  <2>1. file' = file /\ pos' \in 0 .. Len(file)
    BY <1>9, ReadStays DEF ValueChar
  <2>2. Ahead(1) \in Byte
    BY <1>9, AheadIsChar DEF ValueChar, Byte
  <2>3. text' \in Seq(Byte) /\ Len(text') = Len(text) + 1
    BY <1>9, <2>2 DEF ValueChar, Put, TypeOK
  <2> QED
    BY <1>9, <2>1, <2>3, FilesAssumption DEF ValueChar, Put, InValue, TypeOK, BuffersSuffice
<1>10. CASE EscapedByte
  <2>1. file' = file /\ pos' \in 0 .. Len(file)
    BY <1>10, ReadStays DEF EscapedByte
  <2>2. Decoded(Ahead(3), Ahead(4)) \in Byte
    BY <1>10 DEF EscapedByte, Byte
  <2>3. text' \in Seq(Byte) /\ Len(text') = Len(text) + 1
    BY <1>10, <2>2 DEF EscapedByte, Put, TypeOK
  <2> QED
    BY <1>10, <2>1, <2>3, FilesAssumption
    DEF EscapedByte, Put, Escape, InValue, TypeOK, BuffersSuffice
<1>11. CASE BrokenEscape
  <2>1. file' = file /\ pos' \in 0 .. Len(file)
    BY <1>11, ReadStays DEF BrokenEscape
  <2> QED
    BY <1>11, <2>1 DEF BrokenEscape, TypeOK, BuffersSuffice
<1>12. CASE EscapedEnd
  <2>1. file' = file /\ pos' \in 0 .. Len(file)
    BY <1>12, ReadStays DEF EscapedEnd
  <2>2. text \o <<"\\">> \in Seq(Byte)
    BY DEF TypeOK, Byte, Char
  <2>3. DOMAIN settings' \subseteq Known /\ \A o \in DOMAIN settings' : settings'[o] \in Seq(Byte)
    BY <1>12, <2>2, SetIsTyped DEF EscapedEnd
  <2> QED
    BY <1>12, <2>1, <2>3, FilesAssumption DEF EscapedEnd, Reset, TypeOK, BuffersSuffice
<1>13. CASE EscapedChar
  <2>1. file' = file /\ pos' \in 0 .. Len(file)
    BY <1>13, ReadStays DEF EscapedChar
  <2>2. <<"\\", Ahead(2)>> \in Seq(Byte)
    BY <1>13, AheadIsChar DEF EscapedChar, Byte, Char
  <2>3. text' \in Seq(Byte) /\ Len(text') = Len(text) + 2
    BY <1>13, <2>2 DEF EscapedChar, Put, Kept, TypeOK
  <2> QED
    BY <1>13, <2>1, <2>3, FilesAssumption
    DEF EscapedChar, Put, Escape, InValue, TypeOK, BuffersSuffice
<1>14. CASE UNCHANGED vars
  BY <1>14 DEF vars, TypeOK, BuffersSuffice
<1> QED
  BY <1>1, <1>2, <1>3, <1>4, <1>5, <1>6, <1>7, <1>8, <1>9, <1>10, <1>11, <1>12,
     <1>13, <1>14
  DEF Next, Turn, Returned

(* The variables of cfg_parse() keep their types, whatever the file.       *)
THEOREM ParserTyped == Spec => []TypeOK
<1> QED
  BY StartsTyped, StepsPreserve, PTL DEF Spec, Inv

(* No file makes cfg_parse() write behind the end of buf or buf_v.         *)
THEOREM BuffersNeverOverflow == Spec => []BuffersSuffice
<1> QED
  BY StartsTyped, StepsPreserve, PTL DEF Spec, Inv

-----------------------------------------------------------------------------
(* What the lines read so far mean, and where the machine is in the line   *)
(* it is reading: p is the last character read, and the line begins at     *)
(* First(p).                                                               *)
Regular == ~HasBrokenEscape /\ ~EndsInBackslash

First(p) == 1 + Max({0} \cup {d \in Ends : d <= p})
NextEnd(p, e) == e \in Ends /\ e > p /\ \A d \in Ends : d > p => e <= d

(* It has a character, and is no comment. *)
Begun(p) ==
  \E i \in First(p) .. p : file[i] \notin {"blank", "#"} /\ Letters(First(p), i - 1) = {}

AtNothing(p, t) == Letters(First(p), p) = {} /\ t = <<>>
AtName(p, t) == Begun(p) /\ EqualsIn(First(p), p) = {} /\ t = NoBlanks(First(p), p)

(* What the rest of the value will add to the text makes it the value.     *)
AtValue(p, t, n) ==
  /\ Begun(p)
  /\ \E q \in EqualsIn(First(p), p) :
       /\ \A r \in EqualsIn(First(p), p) : q <= r
       /\ n = NoBlanks(First(p), q - 1)
       /\ \A e : NextEnd(p, e) =>
            Meaning(e - 1)[q + 1] = t \o Meaning(e - 1)[p + 1]

(* The options that the lines assign whose end is not behind p, and whose  *)
(* number is not in lost.                                                  *)
AssigningTo(lost, p, o) ==
  {e \in Ends : e <= p /\ Assigns(e) /\ NameIn(e) = o /\ Number(e) \notin lost}
KeptAt(lost, p) ==
  [o \in {n \in Known : AssigningTo(lost, p, n) # {}} |->
     CString(ValueIn(Max(AssigningTo(lost, p, o))))]
MeantAt(p) == KeptAt({}, p)

(* Options with the value of a line that assigns one of them.              *)
With(set, n, value) ==
  IF n \in Known
  THEN [o \in DOMAIN set \cup {n} |-> IF o = n THEN value ELSE set[o]]
  ELSE set

LineInv ==
  /\ pc = "loop" =>
       /\ stage = 0 => AtNothing(pos, text)
       /\ stage = 1 => AtName(pos, text)
       /\ stage = 3 => AtValue(pos, text, name)
  /\ pc = "comment" => IsComment(First(pos), pos) /\ stage = 0 /\ text = <<>>
  /\ settings = MeantAt(pos)

-----------------------------------------------------------------------------
(* Where lines begin.                                                      *)

LEMMA LargestNumber ==
  ASSUME NEW n \in Nat, NEW S \in SUBSET (0 .. n), S # {}
  PROVE  Max(S) \in S /\ \A y \in S : Max(S) >= y
<1> DEFINE R == {ss \in Nat \X Nat : ss[1] < ss[2]}
           below == {n - x : x \in S}
<1>1. IsWellFoundedOn(R, Nat)
  BY NatLessThanWellFounded DEF OpToRel
<1>2. below \subseteq Nat /\ below # {}
  <2>1. ASSUME NEW x \in S PROVE n - x \in Nat /\ n - x \in below
    <3>1. x \in 0 .. n
      OBVIOUS
    <3> QED
      BY <3>1
  <2>2. \A d \in below : \E x \in S : d = n - x
    OBVIOUS
  <2> HIDE DEF below
  <2> QED
    BY <2>1, <2>2
<1>3. PICK d \in below : \A e \in below : <<e, d>> \notin R
  <2> HIDE DEF R, below
  <2> QED
    BY <1>1, <1>2, WFMin
<1>4. PICK x \in S : d = n - x
  OBVIOUS
<1>5. ASSUME NEW y \in S PROVE x >= y
  <2>1. n - y \in below /\ n - y \in Nat /\ d \in Nat
    BY <1>2
  <2>2. ~(n - y < d)
    BY <1>3, <2>1
  <2> QED
    BY <1>4, <2>2
<1> QED
  BY <1>5 DEF Max

LEMMA Numbers ==
  ASSUME file \in Seq(Char)
  PROVE  /\ Len(file) \in Nat /\ DOMAIN file = 1 .. Len(file)
         /\ \A i \in 1 .. Len(file) : file[i] \in Char /\ file[i] # EOF
         /\ Ends = {e \in 1 .. Len(file) : file[e] = "newline"}
BY FilesAssumption DEF Ends

LEMMA FirstIs ==
  ASSUME file \in Seq(Char), NEW p \in 0 .. Len(file)
  PROVE  First(p) \in 1 .. p + 1 /\ \A d \in Ends : d <= p => d < First(p)
<1> DEFINE S == {0} \cup {d \in Ends : d <= p}
<1>1. p \in Nat /\ S \in SUBSET (0 .. p) /\ S # {}
  BY Numbers
<1>2. Max(S) \in S /\ \A y \in S : Max(S) >= y
  <2> HIDE DEF S
  <2> QED
    BY <1>1, LargestNumber
<1>3. First(p) = 1 + Max(S)
  BY DEF First
<1>4. Max(S) \in 0 .. p
  <2> HIDE DEF S
  <2> QED
    BY <1>1, <1>2
<1>5. \A d \in Ends : d <= p => d \in S /\ d \in Nat
  BY Numbers
<1> HIDE DEF S
<1> QED
  BY <1>1, <1>2, <1>3, <1>4, <1>5

LEMMA FirstStays ==
  ASSUME file \in Seq(Char), NEW p \in 0 .. Len(file), NEW r \in 0 .. Len(file),
         p <= r, \A i \in p + 1 .. r : i \notin Ends
  PROVE  First(r) = First(p)
<1>1. {d \in Ends : d <= p} = {d \in Ends : d <= r}
  BY Numbers
<1> QED
  BY <1>1 DEF First

LEMMA FirstMoves ==
  ASSUME file \in Seq(Char), NEW r \in Ends
  PROVE  First(r) = r + 1
<1>1. r \in 0 .. Len(file) /\ r \in Nat
  BY Numbers
<1>2. First(r) \in 1 .. r + 1 /\ r < First(r)
  BY <1>1, FirstIs
<1> QED
  BY <1>1, <1>2

LEMMA StartIs ==
  ASSUME file \in Seq(Char), NEW e \in Ends
  PROVE  Start(e) = First(e - 1)
<1>1. {d \in Ends : d < e} = {d \in Ends : d <= e - 1}
  BY Numbers
<1> QED
  BY <1>1 DEF Start, First

-----------------------------------------------------------------------------
(* The text without its blanks.                                            *)

LEMMA LettersFinite ==
  ASSUME file \in Seq(Char), NEW from \in Nat, NEW k \in Nat
  PROVE  IsFiniteSet(Letters(from, k)) /\ Cardinality(Letters(from, k)) \in Nat
<1>1. IsFiniteSet(from .. k) /\ Letters(from, k) \in SUBSET (from .. k)
  BY FS_Interval DEF Letters
<1> QED
  BY <1>1, FS_Subset, FS_CardinalityType

LEMMA BlanksDoNotCount ==
  ASSUME file \in Seq(Char), NEW from \in Nat, NEW k \in 1 .. Len(file), file[k] = "blank"
  PROVE  /\ Letters(from, k) = Letters(from, k - 1)
         /\ NoBlanks(from, k) = NoBlanks(from, k - 1)
<1>1. Letters(from, k) = Letters(from, k - 1)
  <2>1. k \in Nat
    BY Numbers
  <2> QED
    BY <2>1 DEF Letters
<1> QED
  BY <1>1 DEF NoBlanks

LEMMA NothingButBlanks ==
  ASSUME NEW from, NEW k, Letters(from, k) = {}
  PROVE  NoBlanks(from, k) = <<>>
<1>1. Cardinality(Letters(from, k)) = 0
  BY FS_EmptySet
<1> QED
  BY <1>1 DEF NoBlanks

LEMMA NthIs ==
  ASSUME file \in Seq(Char), NEW from \in Nat, NEW k \in 1 .. Len(file),
         from <= k, file[k] # "blank"
  PROVE  Nth(from, Cardinality(Letters(from, k))) = k
<1> DEFINE n == Cardinality(Letters(from, k))
<1>1. k \in Nat /\ k \in DOMAIN file /\ DOMAIN file = 1 .. Len(file)
  BY Numbers
<1>2. ASSUME NEW j \in DOMAIN file, j >= from, file[j] # "blank",
             Cardinality(Letters(from, j)) = n
      PROVE  j = k
  <2>1. j \in Nat
    BY <1>1
  <2>2. Letters(from, j) \in SUBSET Letters(from, k) \/ Letters(from, k) \in SUBSET Letters(from, j)
    BY <1>1, <2>1 DEF Letters
  <2>3. IsFiniteSet(Letters(from, j)) /\ IsFiniteSet(Letters(from, k))
    BY <1>1, <2>1, LettersFinite
  <2>4. Letters(from, j) = Letters(from, k)
    BY <1>2, <2>2, <2>3, FS_Subset
  <2>5. j \in Letters(from, j) /\ k \in Letters(from, k)
    BY <1>1, <1>2, <2>1 DEF Letters
  <2> QED
    BY <1>1, <2>1, <2>4, <2>5 DEF Letters
<1>3. k >= from
  BY <1>1
<1> QED
  BY <1>1, <1>2, <1>3 DEF Nth

LEMMA NextLetter ==
  ASSUME file \in Seq(Char), NEW from \in Nat, NEW k \in 1 .. Len(file),
         from <= k, file[k] # "blank"
  PROVE  NoBlanks(from, k) = Append(NoBlanks(from, k - 1), file[k])
<1> DEFINE n == Cardinality(Letters(from, k - 1))
<1>1. k \in Nat /\ k - 1 \in Nat /\ k \in DOMAIN file /\ DOMAIN file = 1 .. Len(file)
  BY Numbers
<1>2. Letters(from, k) = Letters(from, k - 1) \cup {k} /\ k \notin Letters(from, k - 1)
  BY <1>1 DEF Letters
<1>3. IsFiniteSet(Letters(from, k - 1)) /\ n \in Nat
  BY <1>1, LettersFinite
<1>4. Cardinality(Letters(from, k)) = n + 1
  BY <1>2, <1>3, FS_AddElement
<1>5. k >= from
  BY <1>1
<1>6. Nth(from, n + 1) = k
  BY <1>4, <1>5, NthIs
<1> HIDE DEF n
<1>7. NoBlanks(from, k - 1) = [i \in 1 .. n |-> file[Nth(from, i)]]
  BY DEF NoBlanks, n
<1>8. NoBlanks(from, k) = [i \in 1 .. n + 1 |-> file[Nth(from, i)]]
  BY <1>4 DEF NoBlanks
<1>9. NoBlanks(from, k - 1) \in Seq({file[Nth(from, i)] : i \in 1 .. n})
      /\ Len(NoBlanks(from, k - 1)) = n
  BY <1>3, <1>7
<1>10. Append(NoBlanks(from, k - 1), file[k]) =
         [i \in 1 .. n + 1 |-> IF i = n + 1 THEN file[k] ELSE NoBlanks(from, k - 1)[i]]
  BY <1>3, <1>9
<1>11. ASSUME NEW i \in 1 .. n + 1
       PROVE  file[Nth(from, i)] = IF i = n + 1 THEN file[k] ELSE NoBlanks(from, k - 1)[i]
  BY <1>3, <1>6, <1>7
<1> QED
  BY <1>8, <1>10, <1>11

-----------------------------------------------------------------------------
(* The value that characters stand for.                                    *)

(* A function that reads the characters up to a last one from i on, if its *)
(* values for the later ones are right.                                    *)
Reads(f, to, i) ==
  f[i] = IF i > to THEN <<>>
         ELSE IF file[i] # "\\" \/ i = to THEN <<file[i]>> \o f[i + 1]
         ELSE IF file[i + 1] # "x" THEN <<file[i], file[i + 1]>> \o f[i + 2]
         ELSE <<Decoded(file[i + 2], file[i + 3])>> \o f[i + 4]

(* Every \x up to the last one has its digits there.                       *)
Whole(to) ==
  \A i \in 1 .. to :
    file[i] = "\\" /\ i # to /\ file[i + 1] = "x" =>
      i + 3 <= to /\ {file[i + 2], file[i + 3]} \subseteq HexDigit

ReaderFrom(g, to, n) ==
  /\ g \in [to + 1 - n .. to + 2 -> Seq(Byte)]
  /\ \A i \in to + 1 - n .. to + 2 : Reads(g, to, i)

LEMMA ReaderStep ==
  ASSUME file \in Seq(Char), NEW to \in 0 .. Len(file), Whole(to),
         NEW n \in Nat, n < to, NEW g, ReaderFrom(g, to, n)
  PROVE  \E h : ReaderFrom(h, to, n + 1)
<1> DEFINE k == to - n
           value == IF file[k] # "\\" \/ k = to THEN <<file[k]>> \o g[k + 1]
                    ELSE IF file[k + 1] # "x" THEN <<file[k], file[k + 1]>> \o g[k + 2]
                    ELSE <<Decoded(file[k + 2], file[k + 3])>> \o g[k + 4]
           h == [i \in k .. to + 2 |-> IF i = k THEN value ELSE g[i]]
<1>1. /\ to \in Nat /\ k \in 1 .. to /\ k \in Nat /\ to + 1 - (n + 1) = k /\ to + 1 - n = k + 1
      /\ to <= Len(file)
  BY Numbers
<1>2. /\ g \in [k + 1 .. to + 2 -> Seq(Byte)]
      /\ \A i \in k + 1 .. to + 2 : Reads(g, to, i)
  BY <1>1 DEF ReaderFrom
<1>3. Char \subseteq Byte /\ \A c, d \in HexDigit : Decoded(c, d) \in Byte
  BY DEF Byte
<1>4. \A i \in 1 .. to : file[i] \in Byte
  BY <1>1, <1>3, Numbers
<1> HIDE DEF k
<1>5. value \in Seq(Byte)
  <2>1. CASE file[k] # "\\" \/ k = to
    <3>1. g[k + 1] \in Seq(Byte) /\ <<file[k]>> \in Seq(Byte)
      BY <1>1, <1>2, <1>4
    <3> QED
      BY <2>1, <3>1
  <2>2. CASE file[k] = "\\" /\ k # to /\ file[k + 1] # "x"
    <3>1. k + 2 \in k + 1 .. to + 2 /\ k + 1 \in 1 .. to
      BY <1>1, <2>2
    <3>2. g[k + 2] \in Seq(Byte) /\ <<file[k], file[k + 1]>> \in Seq(Byte)
      <4>1. file[k] \in Byte /\ file[k + 1] \in Byte
        BY <1>1, <1>4, <3>1
      <4>2. \A b, c : b \in Byte /\ c \in Byte => <<b, c>> \in Seq(Byte)
        OBVIOUS
      <4>3. <<file[k], file[k + 1]>> \in Seq(Byte)
        BY <4>1, <4>2, Zenon
      <4> QED
        BY <1>2, <3>1, <4>3
    <3> QED
      BY <2>2, <3>2
  <2>3. CASE file[k] = "\\" /\ k # to /\ file[k + 1] = "x"
    <3>1. k + 3 <= to /\ {file[k + 2], file[k + 3]} \subseteq HexDigit
      BY <1>1, <2>3 DEF Whole
    <3>2. k + 4 \in k + 1 .. to + 2
      BY <1>1, <3>1
    <3>3. g[k + 4] \in Seq(Byte) /\ <<Decoded(file[k + 2], file[k + 3])>> \in Seq(Byte)
      BY <1>2, <1>3, <3>1, <3>2
    <3> QED
      BY <2>3, <3>3
  <2> QED
    BY <2>1, <2>2, <2>3
<1>6. h \in [k .. to + 2 -> Seq(Byte)]
  <2>1. \A i \in k .. to + 2 : i # k => i \in k + 1 .. to + 2
    BY <1>1
  <2> HIDE DEF value
  <2> QED
    BY <1>2, <1>5, <2>1
<1>7. h[k] = value /\ \A i \in k + 1 .. to + 2 : h[i] = g[i]
  <2>1. k \in k .. to + 2 /\ \A i \in k + 1 .. to + 2 : i \in k .. to + 2 /\ i # k
    BY <1>1
  <2> HIDE DEF value
  <2> QED
    BY <2>1
<1>8. Reads(h, to, k)
  <2>1. ~(k > to)
    BY <1>1
  <2>2. CASE file[k] # "\\" \/ k = to
    <3>1. h[k + 1] = g[k + 1]
      BY <1>1, <1>7
    <3> HIDE DEF h
    <3> QED
      BY <1>7, <2>1, <2>2, <3>1 DEF Reads
  <2>3. CASE file[k] = "\\" /\ k # to /\ file[k + 1] # "x"
    <3>1. h[k + 2] = g[k + 2]
      BY <1>1, <1>7
    <3> HIDE DEF h
    <3> QED
      BY <1>7, <2>1, <2>3, <3>1 DEF Reads
  <2>4. CASE file[k] = "\\" /\ k # to /\ file[k + 1] = "x"
    <3>1. k + 3 <= to
      BY <1>1, <2>4 DEF Whole
    <3>2. h[k + 4] = g[k + 4]
      BY <1>1, <1>7, <3>1
    <3> HIDE DEF h
    <3> QED
      BY <1>7, <2>1, <2>4, <3>2 DEF Reads
  <2> QED
    BY <2>2, <2>3, <2>4
<1>9. ASSUME NEW i \in k + 1 .. to + 2 PROVE Reads(h, to, i)
  <2>1. Reads(g, to, i) /\ h[i] = g[i] /\ i \in Nat
    BY <1>1, <1>2, <1>7
  <2>2. CASE i > to
    BY <2>1, <2>2 DEF Reads
  <2>3. CASE ~(i > to) /\ (file[i] # "\\" \/ i = to)
    <3>1. h[i + 1] = g[i + 1]
      BY <1>1, <1>7, <2>3
    <3> HIDE DEF h
    <3> QED
      BY <2>1, <2>3, <3>1 DEF Reads
  <2>4. CASE ~(i > to) /\ file[i] = "\\" /\ i # to /\ file[i + 1] # "x"
    <3>1. h[i + 2] = g[i + 2]
      BY <1>1, <1>7, <2>4
    <3> HIDE DEF h
    <3> QED
      BY <2>1, <2>4, <3>1 DEF Reads
  <2>5. CASE ~(i > to) /\ file[i] = "\\" /\ i # to /\ file[i + 1] = "x"
    <3>1. i + 3 <= to
      BY <1>1, <2>5 DEF Whole
    <3>2. h[i + 4] = g[i + 4]
      BY <1>1, <1>7, <3>1
    <3> HIDE DEF h
    <3> QED
      BY <2>1, <2>5, <3>2 DEF Reads
  <2> QED
    BY <2>2, <2>3, <2>4, <2>5
<1>10. \A i \in k .. to + 2 : i = k \/ i \in k + 1 .. to + 2
  BY <1>1
<1>11. ReaderFrom(h, to, n + 1)
  <2> HIDE DEF h
  <2> QED
    BY <1>1, <1>6, <1>8, <1>9, <1>10 DEF ReaderFrom
<1> QED
  BY <1>11

(* Induction over numbers, with the set of those for which a fact holds in *)
(* the place of the fact.                                                  *)
LEMMA Induction ==
  ASSUME NEW G, 0 \in G, \A k \in Nat : k \in G => k + 1 \in G
  PROVE  Nat \subseteq G
<1> DEFINE R == {ss \in Nat \X Nat : ss[1] < ss[2]}
           Rest == Nat \ G
<1> SUFFICES ASSUME Rest # {} PROVE FALSE
  OBVIOUS
<1>1. IsWellFoundedOn(R, Nat)
  BY NatLessThanWellFounded DEF OpToRel
<1>2. PICK m \in Rest : \A k \in Rest : <<k, m>> \notin R
  <2> HIDE DEF R
  <2>1. Rest \subseteq Nat
    OBVIOUS
  <2> QED
    BY <1>1, <2>1, WFMin
<1>3. m - 1 \in Nat /\ m - 1 < m
  OBVIOUS
<1>4. m - 1 \notin Rest
  BY <1>2, <1>3
<1> QED
  BY <1>3, <1>4

LEMMA ReaderExists ==
  ASSUME file \in Seq(Char), NEW to \in 0 .. Len(file), Whole(to)
  PROVE  \E g : ReaderFrom(g, to, to)
<1> DEFINE G == {n \in Nat : n <= to => \E g : ReaderFrom(g, to, n)}
<1>1. to \in Nat
  BY Numbers
<1>2. 0 \in G
  <2> DEFINE g == [i \in to + 1 .. to + 2 |-> <<>>]
  <2>1. g \in [to + 1 .. to + 2 -> Seq(Byte)]
    OBVIOUS
  <2>2. ASSUME NEW i \in to + 1 .. to + 2 PROVE Reads(g, to, i)
    <3>1. g[i] = <<>> /\ i > to
      BY <1>1
    <3> QED
      BY <3>1 DEF Reads
  <2>3. to + 1 - 0 = to + 1
    BY <1>1
  <2>4. ReaderFrom(g, to, 0)
    <3> HIDE DEF g
    <3> QED
      BY <2>1, <2>2, <2>3 DEF ReaderFrom
  <2> QED
    BY <2>4
<1>3. ASSUME NEW n \in Nat, n \in G PROVE n + 1 \in G
  <2> SUFFICES ASSUME n + 1 <= to PROVE \E g : ReaderFrom(g, to, n + 1)
    OBVIOUS
  <2>1. n < to
    BY <1>1
  <2>2. PICK g : ReaderFrom(g, to, n)
    BY <1>1, <1>3, <2>1
  <2> QED
    BY <2>1, <2>2, ReaderStep
<1>4. Nat \subseteq G
  <2> HIDE DEF G
  <2> QED
    BY <1>2, <1>3, Induction
<1> QED
  BY <1>1, <1>4

LEMMA MeaningReads ==
  ASSUME file \in Seq(Char), NEW to \in 0 .. Len(file), Whole(to)
  PROVE  \A i \in 1 .. to + 2 : Reads(Meaning(to), to, i)
<1> DEFINE Defines(g) ==
             g = [i \in 1 .. to + 2 |->
                    IF i > to THEN <<>>
                    ELSE IF file[i] # "\\" \/ i = to THEN <<file[i]>> \o g[i + 1]
                    ELSE IF file[i + 1] # "x" THEN <<file[i], file[i + 1]>> \o g[i + 2]
                    ELSE <<Decoded(file[i + 2], file[i + 3])>> \o g[i + 4]]
<1>1. to \in Nat /\ to + 1 - to = 1
  BY Numbers
<1>2. PICK g : ReaderFrom(g, to, to)
  BY ReaderExists
<1>3. g \in [1 .. to + 2 -> Seq(Byte)] /\ \A i \in 1 .. to + 2 : Reads(g, to, i)
  BY <1>1, <1>2 DEF ReaderFrom
<1>4. Defines(g)
  BY <1>3 DEF Reads
<1>5. Defines(Meaning(to))
  BY <1>4 DEF Meaning
<1> DEFINE M == Meaning(to)
<1>6. Defines(M)
  BY <1>5
<1> HIDE DEF M
<1>7. ASSUME NEW i \in 1 .. to + 2 PROVE Reads(M, to, i)
  BY <1>6 DEF Reads
<1> QED
  BY <1>7 DEF M

LEMMA MeaningTyped ==
  ASSUME file \in Seq(Char), NEW to \in 0 .. Len(file), Whole(to)
  PROVE  \A i \in 1 .. to + 2 : Meaning(to)[i] \in Seq(Byte)
<1> DEFINE M == Meaning(to)
           G == {n \in Nat : n <= to => \A i \in to + 1 - n .. to + 2 : M[i] \in Seq(Byte)}
<1>1. to \in Nat /\ to <= Len(file) /\ to + 1 - to = 1
  BY Numbers
<1>2. \A i \in 1 .. to + 2 : Reads(M, to, i)
  BY MeaningReads
<1> HIDE DEF M
<1>3. Char \subseteq Byte /\ \A c, d \in HexDigit : Decoded(c, d) \in Byte
  BY DEF Byte
<1>4. \A i \in 1 .. to : file[i] \in Byte
  BY <1>1, <1>3, Numbers
<1>5. 0 \in G
  <2>1. ASSUME NEW i \in to + 1 .. to + 2 PROVE M[i] = <<>>
    <3>1. i \in 1 .. to + 2 /\ i > to
      BY <1>1
    <3> QED
      BY <1>2, <3>1 DEF Reads
  <2>2. ASSUME NEW i \in to + 1 - 0 .. to + 2 PROVE M[i] \in Seq(Byte)
    <3>1. i \in to + 1 .. to + 2
      BY <1>1
    <3>2. <<>> \in Seq(Byte)
      OBVIOUS
    <3> QED
      BY <2>1, <3>1, <3>2
  <2> QED
    BY <2>2
<1>6. ASSUME NEW n \in Nat, n \in G PROVE n + 1 \in G
  <2> SUFFICES ASSUME n + 1 <= to
               PROVE  \A i \in to + 1 - (n + 1) .. to + 2 : M[i] \in Seq(Byte)
    OBVIOUS
  <2> DEFINE k == to - n
  <2>1. /\ k \in 1 .. to /\ k \in Nat /\ to + 1 - (n + 1) = k /\ to + 1 - n = k + 1
    BY <1>1
  <2>2. \A i \in k + 1 .. to + 2 : M[i] \in Seq(Byte)
    BY <1>1, <1>6, <2>1
  <2> HIDE DEF k, G
  <2>3. Reads(M, to, k)
    BY <1>1, <1>2, <2>1
  <2>4. M[k] \in Seq(Byte)
    <3>0. ~(k > to)
      BY <1>1, <2>1
    <3>1. CASE file[k] # "\\" \/ k = to
      <4>1. M[k + 1] \in Seq(Byte) /\ <<file[k]>> \in Seq(Byte)
        BY <1>1, <1>4, <2>1, <2>2
      <4>2. M[k] = <<file[k]>> \o M[k + 1]
        BY <2>3, <3>0, <3>1, Zenon DEF Reads
      <4> QED
        BY <4>1, <4>2, ConcatProperties
    <3>2. CASE file[k] = "\\" /\ k # to /\ file[k + 1] # "x"
      <4>1. k + 2 \in k + 1 .. to + 2 /\ k + 1 \in 1 .. to
        BY <1>1, <2>1, <3>2
      <4>2. M[k + 2] \in Seq(Byte) /\ <<file[k], file[k + 1]>> \in Seq(Byte)
        <5>1. file[k] \in Byte /\ file[k + 1] \in Byte
          BY <1>4, <2>1, <4>1
        <5>2. \A b, c : b \in Byte /\ c \in Byte => <<b, c>> \in Seq(Byte)
          OBVIOUS
        <5>3. <<file[k], file[k + 1]>> \in Seq(Byte)
          BY <5>1, <5>2, Zenon
        <5> QED
          BY <2>2, <4>1, <5>3
      <4>3. M[k] = <<file[k], file[k + 1]>> \o M[k + 2]
        BY <2>3, <3>0, <3>2, Zenon DEF Reads
      <4> QED
        BY <4>2, <4>3, ConcatProperties
    <3>3. CASE file[k] = "\\" /\ k # to /\ file[k + 1] = "x"
      <4>1. k + 3 <= to /\ {file[k + 2], file[k + 3]} \subseteq HexDigit
        BY <2>1, <3>3 DEF Whole
      <4>2. k + 4 \in k + 1 .. to + 2
        BY <1>1, <2>1, <4>1
      <4>3. M[k + 4] \in Seq(Byte) /\ <<Decoded(file[k + 2], file[k + 3])>> \in Seq(Byte)
        <5>1. Decoded(file[k + 2], file[k + 3]) \in Byte
          BY <1>3, <4>1, Zenon
        <5>2. \A b : b \in Byte => <<b>> \in Seq(Byte)
          OBVIOUS
        <5>3. <<Decoded(file[k + 2], file[k + 3])>> \in Seq(Byte)
          BY <5>1, <5>2, Zenon
        <5> QED
          BY <2>2, <4>2, <5>3
      <4>4. M[k] = <<Decoded(file[k + 2], file[k + 3])>> \o M[k + 4]
        BY <2>3, <3>0, <3>3, Zenon DEF Reads
      <4> QED
        BY <4>3, <4>4, ConcatProperties
    <3> QED
      BY <3>1, <3>2, <3>3
  <2>5. \A i \in k .. to + 2 : i = k \/ i \in k + 1 .. to + 2
    BY <1>1, <2>1
  <2> QED
    BY <2>1, <2>2, <2>4, <2>5
<1>7. Nat \subseteq G
  <2> HIDE DEF G
  <2> QED
    BY <1>5, <1>6, Induction
<1>8. \A i \in 1 .. to + 2 : M[i] \in Seq(Byte)
  BY <1>1, <1>7
<1> QED
  BY <1>8 DEF M

-----------------------------------------------------------------------------
(* Within a line, from one character to the next.                          *)

LEMMA BegunStays ==
  ASSUME file \in Seq(Char), NEW p \in 0 .. Len(file), NEW r \in 0 .. Len(file),
         p <= r, First(r) = First(p), Begun(p)
  PROVE  Begun(r)
<1>1. p \in Nat /\ r \in Nat /\ First(p) \in Nat
  BY Numbers, FirstIs
<1>2. First(p) .. p \subseteq First(p) .. r
  BY <1>1
<1> QED
  BY <1>2 DEF Begun

LEMMA BegunIsNoComment ==
  ASSUME file \in Seq(Char), NEW p \in 0 .. Len(file), NEW r \in 0 .. Len(file), p <= r,
         Begun(p)
  PROVE  ~IsComment(First(p), r)
<1>1. p \in Nat /\ r \in Nat /\ First(p) \in Nat
  BY Numbers, FirstIs
<1>2. PICK i \in First(p) .. p : file[i] \notin {"blank", "#"} /\ Letters(First(p), i - 1) = {}
  BY DEF Begun
<1>3. ASSUME NEW j \in First(p) .. r, file[j] = "#", Letters(First(p), j - 1) = {}
      PROVE  FALSE
  <2>1. i \in Nat /\ j \in Nat /\ i # j
    BY <1>1, <1>2, <1>3
  <2>2. CASE i < j
    <3>1. i \in Letters(First(p), j - 1)
      BY <1>1, <1>2, <2>1, <2>2 DEF Letters
    <3> QED
      BY <1>3, <3>1
  <2>3. CASE j < i
    <3>1. j \in Letters(First(p), i - 1)
      BY <1>1, <1>3, <2>1, <2>3 DEF Letters
    <3> QED
      BY <1>2, <3>1
  <2> QED
    BY <2>1, <2>2, <2>3
<1> QED
  BY <1>3 DEF IsComment

(* The next character, when the line does not end with it.                 *)
LEMMA SameFirst ==
  ASSUME file \in Seq(Char), NEW p \in 0 .. Len(file), p # Len(file),
         file[p + 1] # "newline"
  PROVE  /\ First(p + 1) = First(p) /\ First(p) \in 1 .. p + 1
         /\ p \in Nat /\ p + 1 \in 1 .. Len(file) /\ p + 1 \in 0 .. Len(file)
         /\ First(p) .. p + 1 = (First(p) .. p) \cup {p + 1}
<1>1. p \in Nat /\ p + 1 \in 1 .. Len(file) /\ p + 1 \in 0 .. Len(file) /\ Len(file) \in Nat
  <2>1. Len(file) \in Nat
    BY Numbers
  <2> QED
    BY <2>1
<1>2. First(p) \in 1 .. p + 1
  BY FirstIs
<1>3. \A i \in p + 1 .. p + 1 : i \notin Ends
  <2>1. p + 1 \notin Ends
    BY Numbers
  <2> QED
    BY <1>1, <2>1
<1>4. First(p + 1) = First(p)
  BY <1>1, <1>3, FirstStays
<1>5. First(p) .. p + 1 = (First(p) .. p) \cup {p + 1}
  BY <1>1, <1>2
<1> QED
  BY <1>1, <1>2, <1>4, <1>5

LEMMA NothingOn ==
  ASSUME file \in Seq(Char), NEW p \in 0 .. Len(file), p # Len(file), NEW t,
         file[p + 1] = "blank", AtNothing(p, t)
  PROVE  AtNothing(p + 1, t)
<1>1. First(p + 1) = First(p) /\ First(p) .. p + 1 = (First(p) .. p) \cup {p + 1}
  BY SameFirst
<1> QED
  BY <1>1 DEF AtNothing, Letters

LEMMA CommentBegins ==
  ASSUME file \in Seq(Char), NEW p \in 0 .. Len(file), p # Len(file), NEW t,
         file[p + 1] = "#", AtNothing(p, t)
  PROVE  IsComment(First(p + 1), p + 1)
<1>1. First(p + 1) = First(p) /\ p \in Nat /\ First(p) \in 1 .. p + 1
  BY SameFirst
<1>2. p + 1 \in First(p) .. p + 1 /\ (p + 1) - 1 = p
  BY <1>1
<1> QED
  BY <1>1, <1>2 DEF AtNothing, IsComment

LEMMA CommentOn ==
  ASSUME file \in Seq(Char), NEW p \in 0 .. Len(file), p # Len(file),
         file[p + 1] # "newline", IsComment(First(p), p)
  PROVE  IsComment(First(p + 1), p + 1)
<1>1. First(p + 1) = First(p) /\ First(p) .. p + 1 = (First(p) .. p) \cup {p + 1}
  BY SameFirst
<1> QED
  BY <1>1 DEF IsComment

LEMMA NameBegins ==
  ASSUME file \in Seq(Char), NEW p \in 0 .. Len(file), p # Len(file), NEW t,
         file[p + 1] \notin {"newline", "blank", "#"}, AtNothing(p, t)
  PROVE  AtName(p + 1, t \o <<file[p + 1]>>)
<1>1. /\ First(p + 1) = First(p) /\ First(p) \in 1 .. p + 1 /\ p \in Nat
      /\ p + 1 \in 1 .. Len(file) /\ First(p) .. p + 1 = (First(p) .. p) \cup {p + 1}
  BY SameFirst
<1>2. Letters(First(p), p) = {} /\ t = <<>>
  BY DEF AtNothing
<1>3. p + 1 \in First(p) .. p + 1 /\ (p + 1) - 1 = p /\ First(p) <= p + 1 /\ First(p) \in Nat
  BY <1>1
<1>4. Begun(p + 1)
  BY <1>1, <1>2, <1>3 DEF Begun
<1>5. EqualsIn(First(p), p + 1) = {}
  BY <1>1, <1>2, <1>3 DEF EqualsIn, Letters
<1>6. NoBlanks(First(p), p + 1) = Append(NoBlanks(First(p), p), file[p + 1])
  BY <1>1, <1>3, NextLetter
<1>7. NoBlanks(First(p), p) = <<>>
  BY <1>2, NothingButBlanks
<1>8. Append(<<>>, file[p + 1]) = <<>> \o <<file[p + 1]>>
  OBVIOUS
<1> QED
  BY <1>1, <1>2, <1>4, <1>5, <1>6, <1>7, <1>8 DEF AtName

LEMMA NameOn ==
  ASSUME file \in Seq(Char), NEW p \in 0 .. Len(file), p # Len(file), NEW t \in Seq(Byte),
         file[p + 1] \notin {"newline", "blank", "="}, AtName(p, t)
  PROVE  AtName(p + 1, t \o <<file[p + 1]>>)
<1>1. /\ First(p + 1) = First(p) /\ First(p) \in 1 .. p + 1 /\ p \in Nat
      /\ p + 1 \in 1 .. Len(file) /\ p + 1 \in 0 .. Len(file) /\ p <= p + 1
      /\ First(p) .. p + 1 = (First(p) .. p) \cup {p + 1}
  BY SameFirst
<1>2. Begun(p) /\ EqualsIn(First(p), p) = {} /\ t = NoBlanks(First(p), p)
  BY DEF AtName
<1>3. (p + 1) - 1 = p /\ First(p) <= p + 1 /\ First(p) \in Nat
  BY <1>1
<1>4. Begun(p + 1)
  BY <1>1, <1>2, BegunStays
<1>5. EqualsIn(First(p), p + 1) = {}
  BY <1>1, <1>2 DEF EqualsIn
<1>6. NoBlanks(First(p), p + 1) = Append(t, file[p + 1])
  BY <1>1, <1>2, <1>3, NextLetter
<1>7. file[p + 1] \in Byte
  <2>1. file[p + 1] \in Char
    BY <1>1, Numbers
  <2> QED
    BY <2>1 DEF Byte
<1>8. Append(t, file[p + 1]) = t \o <<file[p + 1]>>
  BY <1>7, AppendIsConcat
<1> QED
  BY <1>1, <1>4, <1>5, <1>6, <1>8 DEF AtName

LEMMA NameSkips ==
  ASSUME file \in Seq(Char), NEW p \in 0 .. Len(file), p # Len(file), NEW t,
         file[p + 1] = "blank", AtName(p, t)
  PROVE  AtName(p + 1, t)
<1>1. /\ First(p + 1) = First(p) /\ First(p) \in 1 .. p + 1 /\ p \in Nat
      /\ p + 1 \in 1 .. Len(file) /\ p + 1 \in 0 .. Len(file) /\ p <= p + 1
      /\ First(p) .. p + 1 = (First(p) .. p) \cup {p + 1}
  BY SameFirst
<1>2. Begun(p) /\ EqualsIn(First(p), p) = {} /\ t = NoBlanks(First(p), p)
  BY DEF AtName
<1>3. (p + 1) - 1 = p /\ First(p) \in Nat
  BY <1>1
<1>4. Begun(p + 1)
  BY <1>1, <1>2, BegunStays
<1>5. EqualsIn(First(p), p + 1) = {}
  BY <1>1, <1>2 DEF EqualsIn
<1>6. NoBlanks(First(p), p + 1) = t
  BY <1>1, <1>2, <1>3, BlanksDoNotCount
<1> QED
  BY <1>1, <1>4, <1>5, <1>6 DEF AtName

LEMMA RegularLines ==
  ASSUME file \in Seq(Char), Regular, NEW e \in Ends
  PROVE  e - 1 \in 0 .. Len(file) /\ Whole(e - 1)
<1>1. Len(file) \in Nat
  BY Numbers
<1>2. e \in 1 .. Len(file) /\ file[e] = "newline"
  BY Numbers
<1>3. e \in Nat /\ e - 1 \in Nat /\ e - 1 \in 0 .. Len(file)
  BY <1>1, <1>2
<1>4. ASSUME NEW i \in 1 .. e - 1, file[i] = "\\", i # e - 1, file[i + 1] = "x"
      PROVE  i + 3 <= e - 1 /\ {file[i + 2], file[i + 3]} \subseteq HexDigit
  <2>1. i \in 1 .. Len(file) - 1
    BY <1>1, <1>2, <1>3
  <2>2. i + 3 <= Len(file) /\ {file[i + 2], file[i + 3]} \subseteq HexDigit
    BY <1>4, <2>1 DEF Regular, HasBrokenEscape
  <2>3. i + 2 # e /\ i + 3 # e
    BY <1>2, <2>2, FilesAssumption
  <2> QED
    BY <1>3, <1>4, <2>2, <2>3
<1> QED
  BY <1>3, <1>4 DEF Whole

LEMMA ValueBegins ==
  ASSUME file \in Seq(Char), Regular, NEW p \in 0 .. Len(file), p # Len(file), NEW t,
         file[p + 1] = "=", AtName(p, t)
  PROVE  AtValue(p + 1, <<>>, t)
<1>1. /\ First(p + 1) = First(p) /\ First(p) \in 1 .. p + 1 /\ p \in Nat
      /\ p + 1 \in 1 .. Len(file) /\ p + 1 \in 0 .. Len(file) /\ p <= p + 1
      /\ First(p) .. p + 1 = (First(p) .. p) \cup {p + 1}
  BY SameFirst
<1>2. Begun(p) /\ EqualsIn(First(p), p) = {} /\ t = NoBlanks(First(p), p)
  BY DEF AtName
<1>3. (p + 1) - 1 = p
  BY <1>1
<1>4. Begun(p + 1)
  BY <1>1, <1>2, BegunStays
<1>5. Letters(First(p), p) # {}
  <2>1. PICK i \in First(p) .. p : file[i] \notin {"blank", "#"}
    BY <1>2 DEF Begun
  <2> QED
    BY <2>1 DEF Letters
<1>6. EqualsIn(First(p), p + 1) = {p + 1}
  <2>1. p + 1 \in EqualsIn(First(p), p + 1)
    BY <1>1, <1>3, <1>5 DEF EqualsIn
  <2>2. \A i \in EqualsIn(First(p), p + 1) : i = p + 1
    BY <1>1, <1>2 DEF EqualsIn
  <2> QED
    BY <2>1, <2>2
<1>7. ASSUME NEW e, NextEnd(p + 1, e)
      PROVE  Meaning(e - 1)[(p + 1) + 1] = <<>> \o Meaning(e - 1)[(p + 1) + 1]
  <2>1. e \in Ends /\ e > p + 1 /\ e \in Nat
    <3>1. e \in Ends /\ e > p + 1
      BY <1>7 DEF NextEnd
    <3>2. e \in 1 .. Len(file)
      BY <3>1, Numbers
    <3> QED
      BY <3>1, <3>2
  <2>2. e - 1 \in 0 .. Len(file) /\ Whole(e - 1)
    BY <2>1, RegularLines
  <2>3. (p + 1) + 1 \in 1 .. (e - 1) + 2
    BY <1>1, <2>1
  <2>4. Meaning(e - 1)[(p + 1) + 1] \in Seq(Byte)
    BY <2>2, <2>3, MeaningTyped
  <2> QED
    BY <2>4, ConcatEmptySeq
<1>8. p + 1 <= p + 1
  BY <1>1
<1> QED
  BY <1>1, <1>2, <1>3, <1>4, <1>6, <1>7, <1>8 DEF AtValue

(* Some characters of a value, which stand for others.                     *)
LEMMA ValueOn ==
  ASSUME file \in Seq(Char), Regular, NEW p \in 0 .. Len(file), NEW r \in 0 .. Len(file),
         p < r, \A i \in p + 1 .. r : i \notin Ends,
         NEW t \in Seq(Byte), NEW n, NEW more \in Seq(Byte), AtValue(p, t, n),
         \A e : NextEnd(p, e) => Meaning(e - 1)[p + 1] = more \o Meaning(e - 1)[r + 1]
  PROVE  AtValue(r, t \o more, n)
<1>1. p \in Nat /\ r \in Nat /\ p <= r /\ First(p) \in Nat
  BY Numbers, FirstIs
<1>2. First(r) = First(p)
  BY <1>1, FirstStays
<1>3. Begun(r)
  BY <1>1, <1>2, BegunStays DEF AtValue
<1>4. PICK q \in EqualsIn(First(p), p) :
        /\ \A i \in EqualsIn(First(p), p) : q <= i
        /\ n = NoBlanks(First(p), q - 1)
        /\ \A e : NextEnd(p, e) => Meaning(e - 1)[q + 1] = t \o Meaning(e - 1)[p + 1]
  BY DEF AtValue
<1>5. q \in First(p) .. p /\ q \in Nat
  BY <1>1, <1>4 DEF EqualsIn
<1>6. q \in EqualsIn(First(p), r)
  BY <1>1, <1>4, <1>5 DEF EqualsIn
<1>7. ASSUME NEW i \in EqualsIn(First(p), r) PROVE q <= i
  <2>1. i \in First(p) .. r /\ i \in Nat
    BY <1>1 DEF EqualsIn
  <2>2. CASE i <= p
    <3>1. i \in EqualsIn(First(p), p)
      BY <1>1, <2>1, <2>2 DEF EqualsIn
    <3> QED
      BY <1>4, <3>1
  <2>3. CASE i > p
    BY <1>1, <1>5, <2>1, <2>3
  <2> QED
    BY <1>1, <2>1, <2>2, <2>3
<1>8. ASSUME NEW e, NextEnd(r, e)
      PROVE  Meaning(e - 1)[q + 1] = (t \o more) \o Meaning(e - 1)[r + 1]
  <2>1. e \in Ends /\ e > r /\ e \in Nat
    BY <1>8, Numbers DEF NextEnd
  <2>2. NextEnd(p, e)
    <3>1. ASSUME NEW d \in Ends, d > p PROVE e <= d
      <4>1. d \in Nat /\ d \notin p + 1 .. r
        BY Numbers
      <4>2. d > r
        BY <1>1, <3>1, <4>1
      <4> QED
        BY <1>8, <4>2 DEF NextEnd
    <3> QED
      BY <1>1, <2>1, <3>1 DEF NextEnd
  <2>3. Meaning(e - 1)[q + 1] = t \o (more \o Meaning(e - 1)[r + 1])
    BY <1>4, <2>2
  <2>4. e - 1 \in 0 .. Len(file) /\ Whole(e - 1)
    BY <2>1, RegularLines
  <2>5. r + 1 \in 1 .. (e - 1) + 2
    BY <1>1, <2>1
  <2>6. Meaning(e - 1)[r + 1] \in Seq(Byte)
    BY <2>4, <2>5, MeaningTyped
  <2> DEFINE rest == Meaning(e - 1)[r + 1]
  <2>7. t \o (more \o rest) = (t \o more) \o rest
    <3> HIDE DEF rest
    <3>1. rest \in Seq(Byte)
      BY <2>6 DEF rest
    <3> QED
      BY <3>1, ConcatAssociative
  <2> QED
    BY <2>3, <2>7
<1> QED
  BY <1>2, <1>3, <1>4, <1>6, <1>7, <1>8 DEF AtValue

-----------------------------------------------------------------------------
(* At the end of a line.                                                   *)

LEMMA NothingAssigned ==
  ASSUME file \in Seq(Char), NEW p \in 0 .. Len(file), p + 1 \in Ends,
         \/ Letters(First(p), p) = {}
         \/ EqualsIn(First(p), p) = {}
         \/ IsComment(First(p), p)
  PROVE  ~Assigns(p + 1)
<1>1. (p + 1) - 1 = p /\ p \in Nat /\ First(p) \in Nat
  BY Numbers, FirstIs
<1>2. Start(p + 1) = First(p)
  BY <1>1, StartIs
<1>3. Letters(First(p), p) = {} => EqualsIn(First(p), p) = {}
  <2>1. ASSUME NEW i \in EqualsIn(First(p), p) PROVE i \in Letters(First(p), p)
    BY DEF EqualsIn, Letters
  <2> QED
    BY <2>1
<1> QED
  BY <1>1, <1>2, <1>3 DEF Assigns

LEMMA ValueEnds ==
  ASSUME file \in Seq(Char), Regular, NEW p \in 0 .. Len(file), NEW t, NEW n, NEW e,
         NextEnd(p, e), AtValue(p, t, n),
         \A i \in p + 1 .. e - 1 : file[i] # "newline"
  PROVE  /\ Assigns(e) /\ NameIn(e) = n
         /\ ValueIn(e) = t \o Meaning(e - 1)[p + 1]
<1>1. e \in Ends /\ e \in Nat /\ p \in Nat /\ p < e /\ First(p) \in Nat
      /\ e - 1 \in 0 .. Len(file) /\ p <= e - 1
  <2>1. e \in Ends /\ e \in 1 .. Len(file) /\ e > p
    BY Numbers DEF NextEnd
  <2> QED
    BY <2>1, Numbers, FirstIs
<1>2. First(e - 1) = First(p)
  <2>1. \A i \in p + 1 .. e - 1 : i \notin Ends
    BY Numbers
  <2> QED
    BY <1>1, <2>1, FirstStays
<1>3. Start(e) = First(p)
  BY <1>1, <1>2, StartIs
<1>4. PICK q \in EqualsIn(First(p), p) :
        /\ \A i \in EqualsIn(First(p), p) : q <= i
        /\ n = NoBlanks(First(p), q - 1)
        /\ Meaning(e - 1)[q + 1] = t \o Meaning(e - 1)[p + 1]
  BY DEF AtValue
<1>5. q \in First(p) .. p /\ q \in Nat
  BY <1>1, <1>4 DEF EqualsIn
<1>6. q \in EqualsIn(First(p), e - 1)
  BY <1>1, <1>4, <1>5 DEF EqualsIn
<1>7. ASSUME NEW i \in EqualsIn(First(p), e - 1) PROVE i \in Nat /\ q <= i
  <2>1. i \in First(p) .. e - 1 /\ i \in Nat
    BY <1>1 DEF EqualsIn
  <2>2. CASE i <= p
    <3>1. i \in EqualsIn(First(p), p)
      BY <1>1, <2>1, <2>2 DEF EqualsIn
    <3> QED
      BY <1>4, <2>1, <3>1
  <2>3. CASE i > p
    BY <1>1, <1>5, <2>1, <2>3
  <2> QED
    BY <1>1, <2>1, <2>2, <2>3
<1>8. Equals(e) = q
  <2>1. ASSUME NEW i \in EqualsIn(First(p), e - 1), \A y \in EqualsIn(First(p), e - 1) : i <= y
        PROVE  i = q
    <3>1. i <= q /\ q <= i /\ i \in Nat
      BY <1>6, <1>7, <2>1
    <3> QED
      BY <1>5, <3>1
  <2>2. Min(EqualsIn(First(p), e - 1)) = q
    BY <1>6, <1>7, <2>1 DEF Min
  <2> QED
    BY <1>3, <2>2 DEF Equals
<1>9. ~IsComment(First(p), e - 1)
  BY <1>1, BegunIsNoComment DEF AtValue
<1> QED
  BY <1>3, <1>4, <1>6, <1>8, <1>9 DEF Assigns, NameIn, ValueIn

(* What the lines assign, before and behind the end of one.                *)
LEMMA SameLines ==
  ASSUME NEW lost, file \in Seq(Char), NEW p \in 0 .. Len(file), NEW r \in 0 .. Len(file), p <= r,
         \A i \in p + 1 .. r : i \in Ends => ~Assigns(i) \/ Number(i) \in lost
  PROVE  KeptAt(lost, r) = KeptAt(lost, p)
<1>1. ASSUME NEW o PROVE AssigningTo(lost, r, o) = AssigningTo(lost, p, o)
  <2>1. p \in Nat /\ r \in Nat /\ \A e \in Ends : e \in Nat
    BY Numbers
  <2>2. \A e \in Ends : e <= r /\ Assigns(e) /\ Number(e) \notin lost => e <= p
    BY <2>1
  <2>3. \A e \in Ends : e <= p => e <= r
    BY <2>1
  <2> QED
    BY <2>2, <2>3 DEF AssigningTo
<1> QED
  BY <1>1 DEF KeptAt

LEMMA OneLineMore ==
  ASSUME NEW lost, file \in Seq(Char), NEW p \in 0 .. Len(file), NEW e \in Ends, p < e,
         \A i \in p + 1 .. e - 1 : i \notin Ends, Assigns(e), Number(e) \notin lost
  PROVE  KeptAt(lost, e) = With(KeptAt(lost, p), NameIn(e), CString(ValueIn(e)))
<1>1. p \in Nat /\ e \in Nat /\ e \in 0 .. Len(file) /\ \A d \in Ends : d \in Nat
  BY Numbers
<1>2. \A d \in Ends : d <= e <=> d <= p \/ d = e
  BY <1>1
<1>3. \A o : o # NameIn(e) => AssigningTo(lost, e, o) = AssigningTo(lost, p, o)
  BY <1>2 DEF AssigningTo
<1>4. /\ e \in AssigningTo(lost, e, NameIn(e))
      /\ \A d \in AssigningTo(lost, e, NameIn(e)) : d <= e /\ d \in Nat
  BY <1>1 DEF AssigningTo
<1>5. Max(AssigningTo(lost, e, NameIn(e))) = e
  <2>1. ASSUME NEW d \in AssigningTo(lost, e, NameIn(e)),
               \A y \in AssigningTo(lost, e, NameIn(e)) : d >= y
        PROVE  d = e
    <3>1. d <= e /\ d >= e /\ d \in Nat
      BY <1>4, <2>1
    <3> QED
      BY <1>1, <3>1
  <2>2. \A y \in AssigningTo(lost, e, NameIn(e)) : e >= y
    BY <1>1, <1>4
  <2> QED
    BY <1>4, <2>1, <2>2 DEF Max
<1>6. CASE NameIn(e) \notin Known
  <2>1. \A n \in Known : AssigningTo(lost, e, n) = AssigningTo(lost, p, n)
    BY <1>3, <1>6
  <2> QED
    BY <1>6, <2>1 DEF KeptAt, With
<1>7. CASE NameIn(e) \in Known
  <2> DEFINE before == {n \in Known : AssigningTo(lost, p, n) # {}}
             behind == {n \in Known : AssigningTo(lost, e, n) # {}}
  <2>1. behind = before \cup {NameIn(e)}
    BY <1>3, <1>4, <1>7
  <2>2. DOMAIN KeptAt(lost, p) = before /\ \A o \in before :
          KeptAt(lost, p)[o] = CString(ValueIn(Max(AssigningTo(lost, p, o))))
    BY DEF KeptAt
  <2>3. ASSUME NEW o \in behind
        PROVE  CString(ValueIn(Max(AssigningTo(lost, e, o)))) =
                 IF o = NameIn(e) THEN CString(ValueIn(e)) ELSE KeptAt(lost, p)[o]
    <3>1. CASE o = NameIn(e)
      BY <1>5, <3>1
    <3>2. CASE o # NameIn(e)
      BY <1>3, <2>1, <2>2, <3>2
    <3> QED
      BY <3>1, <3>2
  <2>4. KeptAt(lost, e) = [o \in behind |-> CString(ValueIn(Max(AssigningTo(lost, e, o))))]
    BY DEF KeptAt
  <2> HIDE DEF before, behind
  <2>5. KeptAt(lost, e) = [o \in behind |-> IF o = NameIn(e) THEN CString(ValueIn(e)) ELSE KeptAt(lost, p)[o]]
    BY <2>3, <2>4
  <2> QED
    BY <1>7, <2>1, <2>2, <2>5 DEF With
<1> QED
  BY <1>6, <1>7

(* A step is right if it is so in the rigid terms of the lemmas above.     *)
LEMMA SameFile ==
  ASSUME file' = file
  PROVE  /\ Ends' = Ends /\ Regular' = Regular
         /\ \A e : Assigns(e)' = Assigns(e)
         /\ \A e : NameIn(e)' = NameIn(e)
         /\ \A e : ValueIn(e)' = ValueIn(e)
         /\ \A e : Number(e)' = Number(e)
<1>1. Ends' = Ends /\ Regular' = Regular
  BY DEF Ends, Regular, HasBrokenEscape, EndsInBackslash
<1>2. ASSUME NEW e PROVE Assigns(e)' = Assigns(e)
  BY DEF Assigns, IsComment, EqualsIn, Letters, Start, Ends
<1>3. ASSUME NEW e PROVE Equals(e)' = Equals(e) /\ Start(e)' = Start(e)
  BY DEF Equals, EqualsIn, Letters, Start, Ends
<1>4. ASSUME NEW e PROVE NameIn(e)' = NameIn(e)
  BY DEF NameIn, NoBlanks, Letters, Nth, Equals, EqualsIn, Start, Ends
<1>5. ASSUME NEW e PROVE ValueIn(e)' = ValueIn(e)
  BY <1>3 DEF ValueIn, Meaning
<1>6. ASSUME NEW e PROVE Number(e)' = Number(e)
  BY DEF Number, Ends
<1> QED
  BY <1>1, <1>2, <1>4, <1>5, <1>6

LEMMA Moves ==
  ASSUME file' = file, NEW next, pos' = next,
         pc' = "loop" =>
           /\ stage' = 0 => AtNothing(next, text')
           /\ stage' = 1 => AtName(next, text')
           /\ stage' = 3 => AtValue(next, text', name'),
         pc' = "comment" => IsComment(First(next), next) /\ stage' = 0 /\ text' = <<>>,
         settings' = MeantAt(next)
  PROVE  LineInv'
<1>1. AtNothing(pos, text)' = AtNothing(next, text')
  BY DEF AtNothing, First, Ends, Letters
<1>2. AtName(pos, text)' = AtName(next, text')
  BY DEF AtName, Begun, First, Ends, EqualsIn, Letters, NoBlanks, Nth
<1>3. AtValue(pos, text, name)' = AtValue(next, text', name')
  <2>1. Begun(pos)' = Begun(next)
    BY DEF Begun, First, Ends, Letters
  <2>2. EqualsIn(First(pos), pos)' = EqualsIn(First(next), next)
    BY DEF First, Ends, EqualsIn, Letters
  <2>3. ASSUME NEW q PROVE NoBlanks(First(pos), q - 1)' = NoBlanks(First(next), q - 1)
    BY DEF First, Ends, Letters, NoBlanks, Nth
  <2>4. ASSUME NEW e PROVE NextEnd(pos, e)' = NextEnd(next, e)
    BY DEF NextEnd, Ends
  <2>5. ASSUME NEW e PROVE Meaning(e - 1)' = Meaning(e - 1)
    BY DEF Meaning
  <2> QED
    BY <2>1, <2>2, <2>3, <2>4, <2>5 DEF AtValue
<1>4. IsComment(First(pos), pos)' = IsComment(First(next), next)
  BY DEF IsComment, First, Ends, Letters
<1>5. MeantAt(pos)' = MeantAt(next)
  BY SameFile DEF MeantAt, KeptAt, AssigningTo
<1> QED
  BY <1>1, <1>2, <1>3, <1>4, <1>5 DEF LineInv

-----------------------------------------------------------------------------
(* The turns of the loop.                                                  *)

LEMMA CharAhead ==
  ASSUME TypeOK, NEW k \in Nat \ {0}, Ahead(k) # EOF
  PROVE  /\ pos + k \in 1 .. Len(file) /\ Ahead(k) = file[pos + k]
         /\ Read(k) => file' = file /\ pos' = pos + k
<1>1. pos \in Nat /\ Len(file) \in Nat
  BY DEF TypeOK
<1> QED
  BY <1>1 DEF Ahead, Read

(* One character, which does not end the line.                             *)
LEMMA ReadOne ==
  ASSUME TypeOK, Read(1), Ahead(1) \notin {"newline", EOF}
  PROVE  /\ file \in Seq(Char) /\ pos \in 0 .. Len(file) /\ pos # Len(file)
         /\ file' = file /\ pos' = pos + 1 /\ Ahead(1) = file[pos + 1]
         /\ MeantAt(pos + 1) = MeantAt(pos)
<1>1. file \in Seq(Char) /\ pos \in 0 .. Len(file) /\ pos \in Nat /\ Len(file) \in Nat
  BY DEF TypeOK
<1>2. pos + 1 \in 1 .. Len(file) /\ Ahead(1) = file[pos + 1] /\ file' = file /\ pos' = pos + 1
  BY CharAhead
<1>3. pos # Len(file) /\ pos + 1 \in 0 .. Len(file) /\ pos <= pos + 1
  BY <1>1, <1>2
<1>4. \A i \in pos + 1 .. pos + 1 : i \in Ends => ~Assigns(i)
  <2>1. pos + 1 \notin Ends
    BY <1>2 DEF Ends
  <2>2. \A i \in pos + 1 .. pos + 1 : i = pos + 1
    BY <1>1
  <2> QED
    BY <2>1, <2>2
<1>5. MeantAt(pos + 1) = MeantAt(pos)
  BY <1>1, <1>3, <1>4, SameLines DEF MeantAt
<1> QED
  BY <1>1, <1>2, <1>3, <1>5

(* The end of a line, at which nothing or one option is assigned.          *)
LEMMA LineEnds ==
  ASSUME file \in Seq(Char), NEW e \in Ends
  PROVE  AtNothing(e, <<>>)
<1>1. e \in Nat /\ First(e) = e + 1
  BY Numbers, FirstMoves
<1>2. Letters(e + 1, e) = {}
  BY <1>1 DEF Letters
<1> QED
  BY <1>1, <1>2 DEF AtNothing

LEMMA EndOfNothing ==
  ASSUME TypeOK, Ahead(1) = "newline", Read(1),
         \/ Letters(First(pos), pos) = {}
         \/ EqualsIn(First(pos), pos) = {}
         \/ IsComment(First(pos), pos)
  PROVE  /\ file' = file /\ pos' = pos + 1
         /\ pos + 1 \in Ends /\ MeantAt(pos + 1) = MeantAt(pos) /\ AtNothing(pos + 1, <<>>)
<1>1. file \in Seq(Char) /\ pos \in 0 .. Len(file) /\ pos \in Nat /\ Len(file) \in Nat
  BY DEF TypeOK
<1>2. Ahead(1) # EOF
  BY FilesAssumption DEF Char
<1>3. pos + 1 \in 1 .. Len(file) /\ Ahead(1) = file[pos + 1] /\ file' = file /\ pos' = pos + 1
  BY <1>2, CharAhead
<1>4. pos + 1 \in Ends
  BY <1>1, <1>3, Numbers
<1>5. ~Assigns(pos + 1)
  BY <1>1, <1>4, NothingAssigned
<1>6. \A i \in pos + 1 .. pos + 1 : i \in Ends => ~Assigns(i)
  <2>1. \A i \in pos + 1 .. pos + 1 : i = pos + 1
    BY <1>1
  <2> QED
    BY <1>5, <2>1
<1>7. pos + 1 \in 0 .. Len(file) /\ pos <= pos + 1
  BY <1>1, <1>3
<1>8. MeantAt(pos + 1) = MeantAt(pos)
  BY <1>1, <1>6, <1>7, SameLines DEF MeantAt
<1> QED
  BY <1>1, <1>3, <1>4, <1>8, LineEnds

LEMMA EndOfValue ==
  ASSUME TypeOK, Regular, NEW e \in Ends, pos < e,
         \A i \in pos + 1 .. e - 1 : file[i] # "newline",
         AtValue(pos, text, name), settings = MeantAt(pos),
         NEW more, Meaning(e - 1)[pos + 1] = more
  PROVE  MeantAt(e) = Set(name, text \o more)
<1>1. file \in Seq(Char) /\ pos \in 0 .. Len(file) /\ pos \in Nat /\ e \in Nat
  BY Numbers DEF TypeOK
<1>2. NextEnd(pos, e)
  <2>1. ASSUME NEW d \in Ends, d > pos PROVE e <= d
    <3>1. d \in Nat /\ file[d] = "newline"
      BY <1>1, Numbers
    <3>2. d \notin pos + 1 .. e - 1
      BY <3>1
    <3> QED
      BY <1>1, <2>1, <3>1, <3>2
  <2> QED
    BY <1>1, <2>1 DEF NextEnd
<1>3. Assigns(e) /\ NameIn(e) = name /\ ValueIn(e) = text \o more
  BY <1>1, <1>2, ValueEnds
<1>4. \A i \in pos + 1 .. e - 1 : i \notin Ends
  BY DEF Ends
<1>5. MeantAt(e) = With(MeantAt(pos), NameIn(e), CString(ValueIn(e)))
  <2>1. Number(e) \notin {}
    OBVIOUS
  <2> QED
    BY <1>1, <1>3, <1>4, <2>1, OneLineMore DEF MeantAt
<1> QED
  BY <1>3, <1>5 DEF Set, With

LEMMA LineAtEOF ==
  ASSUME TypeOK, Regular, LineInv, EndOfFile
  PROVE  LineInv'
<1>1. file' = file /\ pos' = pos /\ pc' = "closed" /\ settings' = settings
  BY DEF EndOfFile
<1>2. settings' = MeantAt(pos)
  BY <1>1 DEF LineInv
<1> QED
  BY <1>1, <1>2, Moves

LEMMA LineAtEnd ==
  ASSUME TypeOK, Regular, LineInv, EndLine
  PROVE  LineInv'
<1>1. file \in Seq(Char) /\ pos \in 0 .. Len(file) /\ pos \in Nat /\ Len(file) \in Nat
      /\ text \in Seq(Byte) /\ stage \in {0, 1, 3}
  BY DEF TypeOK
<1>2. /\ pc = "loop" /\ Ahead(1) = "newline" /\ Read(1)
      /\ settings' = IF stage = 3 THEN Set(name, text) ELSE settings
      /\ stage' = 0 /\ text' = <<>> /\ pc' = pc
  BY DEF EndLine, Reset
<1>3. Ahead(1) # EOF
  BY <1>2, FilesAssumption DEF Char
<1>4. pos + 1 \in 1 .. Len(file) /\ Ahead(1) = file[pos + 1] /\ file' = file /\ pos' = pos + 1
  BY <1>2, <1>3, CharAhead
<1>5. pos + 1 \in Ends /\ AtNothing(pos + 1, <<>>)
  BY <1>1, <1>2, <1>4, Numbers, LineEnds
<1>6. settings = MeantAt(pos)
  BY DEF LineInv
<1>7. settings' = MeantAt(pos + 1)
  <2>1. CASE stage \in {0, 1}
    <3>1. Letters(First(pos), pos) = {} \/ EqualsIn(First(pos), pos) = {}
      BY <1>2, <2>1 DEF LineInv, AtNothing, AtName
    <3>2. MeantAt(pos + 1) = MeantAt(pos)
      BY <1>2, <3>1, EndOfNothing
    <3> QED
      BY <1>2, <1>6, <2>1, <3>2
  <2>2. CASE stage = 3
    <3>1. AtValue(pos, text, name)
      BY <1>2, <2>2 DEF LineInv
    <3>2. Meaning((pos + 1) - 1)[pos + 1] = <<>>
      <4>1. (pos + 1) - 1 = pos /\ pos + 1 \in 1 .. pos + 2 /\ pos + 1 > pos
        BY <1>1
      <4>2. Whole(pos)
        BY <1>1, <1>5, <4>1, RegularLines
      <4>3. Reads(Meaning(pos), pos, pos + 1)
        BY <1>1, <4>1, <4>2, MeaningReads
      <4> QED
        BY <4>1, <4>3 DEF Reads
    <3>3. pos < pos + 1 /\ \A i \in pos + 1 .. (pos + 1) - 1 : file[i] # "newline"
      BY <1>1
    <3>4. MeantAt(pos + 1) = Set(name, text \o <<>>)
      BY <1>5, <1>6, <3>1, <3>2, <3>3, EndOfValue
    <3>5. text \o <<>> = text
      BY <1>1, ConcatEmptySeq
    <3> QED
      BY <1>2, <2>2, <3>4, <3>5
  <2> QED
    BY <1>1, <2>1, <2>2
<1> QED
  BY <1>2, <1>4, <1>5, <1>7, Moves

LEMMA LineAtHash ==
  ASSUME TypeOK, Regular, LineInv, StartComment
  PROVE  LineInv'
<1>1. /\ pc = "loop" /\ Ahead(1) = "#" /\ stage = 0 /\ Read(1)
      /\ pc' = "comment" /\ UNCHANGED <<stage, text, name, settings>>
  BY DEF StartComment, AtComment
<1>2. Ahead(1) \notin {"newline", EOF}
  BY <1>1, FilesAssumption DEF Char
<1>3. /\ file \in Seq(Char) /\ pos \in 0 .. Len(file) /\ pos # Len(file)
      /\ file' = file /\ pos' = pos + 1 /\ Ahead(1) = file[pos + 1]
      /\ MeantAt(pos + 1) = MeantAt(pos)
  BY <1>1, <1>2, ReadOne
<1>4. AtNothing(pos, text) /\ settings = MeantAt(pos)
  BY <1>1 DEF LineInv
<1>5. IsComment(First(pos + 1), pos + 1)
  BY <1>1, <1>3, <1>4, CommentBegins
<1> QED
  BY <1>1, <1>3, <1>4, <1>5, Moves DEF AtNothing

LEMMA LineInComment ==
  ASSUME TypeOK, Regular, LineInv, SkipComment
  PROVE  LineInv'
<1>1. /\ pc = "comment" /\ Read(1) /\ UNCHANGED <<stage, text, name, settings>>
      /\ pc' = IF Ahead(1) = "newline" THEN "loop" ELSE "comment"
  BY DEF SkipComment
<1>2. IsComment(First(pos), pos) /\ stage = 0 /\ text = <<>> /\ settings = MeantAt(pos)
  BY <1>1 DEF LineInv
<1>3. CASE Ahead(1) = EOF
  <2>1. file \in Seq(Char) /\ pos \in 0 .. Len(file) /\ Len(file) \in Nat /\ pos \in Nat
    BY DEF TypeOK
  <2>2. ~(pos + 1 <= Len(file))
    <3>1. pos + 1 <= Len(file) => pos + 1 \in 1 .. Len(file)
      BY <2>1
    <3>2. \A i \in 1 .. Len(file) : file[i] # EOF
      BY <2>1, Numbers
    <3> QED
      BY <1>3, <3>1, <3>2 DEF Ahead
  <2>3. pos' = pos /\ file' = file
    BY <1>1, <2>1, <2>2 DEF Read
  <2>4. Ahead(1) # "newline"
    BY <1>3, FilesAssumption DEF Char
  <2> QED
    BY <1>1, <1>2, <2>3, <2>4, Moves
<1>4. CASE Ahead(1) = "newline"
  <2>1. /\ file' = file /\ pos' = pos + 1
        /\ MeantAt(pos + 1) = MeantAt(pos) /\ AtNothing(pos + 1, <<>>)
    BY <1>1, <1>2, <1>4, EndOfNothing
  <2> QED
    BY <1>1, <1>2, <1>4, <2>1, Moves
<1>5. CASE Ahead(1) \notin {"newline", EOF}
  <2>1. Ahead(1) \notin {"newline", EOF}
    BY <1>5
  <2>2. /\ file \in Seq(Char) /\ pos \in 0 .. Len(file) /\ pos # Len(file)
        /\ file' = file /\ pos' = pos + 1 /\ Ahead(1) = file[pos + 1]
        /\ MeantAt(pos + 1) = MeantAt(pos)
    BY <1>1, <2>1, ReadOne
  <2>3. IsComment(First(pos + 1), pos + 1)
    BY <1>2, <1>5, <2>2, CommentOn
  <2> QED
    BY <1>1, <1>2, <1>5, <2>2, <2>3, Moves
<1> QED
  BY <1>3, <1>4, <1>5

LEMMA LineAtEquals ==
  ASSUME TypeOK, Regular, LineInv, EndName
  PROVE  LineInv'
<1>1. /\ pc = "loop" /\ Ahead(1) = "=" /\ stage = 1 /\ Read(1)
      /\ name' = text /\ text' = <<>> /\ stage' = 3 /\ UNCHANGED <<pc, settings>>
  BY DEF EndName
<1>2. Ahead(1) \notin {"newline", EOF}
  BY <1>1, FilesAssumption DEF Char
<1>3. /\ file \in Seq(Char) /\ pos \in 0 .. Len(file) /\ pos # Len(file)
      /\ file' = file /\ pos' = pos + 1 /\ Ahead(1) = file[pos + 1]
      /\ MeantAt(pos + 1) = MeantAt(pos)
  BY <1>1, <1>2, ReadOne
<1>4. AtName(pos, text) /\ settings = MeantAt(pos)
  BY <1>1 DEF LineInv
<1>5. AtValue(pos + 1, <<>>, text)
  BY <1>1, <1>3, <1>4, ValueBegins
<1> QED
  BY <1>1, <1>3, <1>4, <1>5, Moves

LEMMA LineInName ==
  ASSUME TypeOK, Regular, LineInv, NameChar
  PROVE  LineInv'
<1>1. /\ pc = "loop" /\ InName /\ Read(1) /\ stage' = 1
      /\ text' = text \o <<Ahead(1)>> /\ UNCHANGED <<pc, name, settings>>
  BY DEF NameChar, Put
<1>2. Ahead(1) \notin {"newline", EOF} /\ Ahead(1) # "blank"
  BY <1>1 DEF InName
<1>3. /\ file \in Seq(Char) /\ pos \in 0 .. Len(file) /\ pos # Len(file)
      /\ file' = file /\ pos' = pos + 1 /\ Ahead(1) = file[pos + 1]
      /\ MeantAt(pos + 1) = MeantAt(pos)
  BY <1>1, <1>2, ReadOne
<1>4. text \in Seq(Byte) /\ settings = MeantAt(pos)
  BY DEF LineInv, TypeOK
<1>5. AtName(pos + 1, text \o <<file[pos + 1]>>)
  <2>1. CASE stage = 0 /\ Ahead(1) # "#"
    <3>1. AtNothing(pos, text)
      BY <1>1, <2>1 DEF LineInv
    <3> QED
      BY <1>2, <1>3, <2>1, <3>1, NameBegins
  <2>2. CASE stage = 1 /\ Ahead(1) # "="
    <3>1. AtName(pos, text)
      BY <1>1, <2>2 DEF LineInv
    <3> QED
      BY <1>2, <1>3, <1>4, <2>2, <3>1, NameOn
  <2> QED
    BY <1>1, <2>1, <2>2 DEF InName, AtComment
<1> QED
  BY <1>1, <1>3, <1>4, <1>5, Moves

LEMMA LineAtBlank ==
  ASSUME TypeOK, Regular, LineInv, SkipBlank
  PROVE  LineInv'
<1>1. /\ pc = "loop" /\ Ahead(1) = "blank" /\ stage # 3 /\ Read(1)
      /\ UNCHANGED <<pc, stage, text, name, settings>>
  BY DEF SkipBlank
<1>2. Ahead(1) \notin {"newline", EOF}
  BY <1>1, FilesAssumption DEF Char
<1>3. /\ file \in Seq(Char) /\ pos \in 0 .. Len(file) /\ pos # Len(file)
      /\ file' = file /\ pos' = pos + 1 /\ Ahead(1) = file[pos + 1]
      /\ MeantAt(pos + 1) = MeantAt(pos)
  BY <1>1, <1>2, ReadOne
<1>4. settings = MeantAt(pos)
  BY DEF LineInv
<1>5. stage = 0 => AtNothing(pos + 1, text)
  BY <1>1, <1>3, NothingOn DEF LineInv
<1>6. stage = 1 => AtName(pos + 1, text)
  BY <1>1, <1>3, NameSkips DEF LineInv
<1> QED
  BY <1>1, <1>3, <1>4, <1>5, <1>6, Moves

LEMMA LineTooLong ==
  ASSUME TypeOK, Regular, LineInv, TooLong
  PROVE  LineInv'
<1>1. Read(1) /\ pc' = "failed" /\ UNCHANGED <<text, name, settings>>
  BY DEF TooLong
<1>2. Ahead(1) \notin {"newline", EOF}
  BY DEF TooLong, InName
<1>3. file' = file /\ pos' = pos + 1 /\ MeantAt(pos + 1) = MeantAt(pos)
  BY <1>1, <1>2, ReadOne
<1>4. settings' = MeantAt(pos + 1)
  BY <1>1, <1>3 DEF LineInv
<1> QED
  BY <1>1, <1>3, <1>4, Moves

(* Inside a value, from a character to one behind it.                      *)
LEMMA ValueMoves ==
  ASSUME TypeOK, Regular, LineInv, pc = "loop", stage = 3,
         NEW r \in 0 .. Len(file), pos < r, \A i \in pos + 1 .. r : file[i] # "newline",
         NEW more \in Seq(Byte),
         \A e : NextEnd(pos, e) => Meaning(e - 1)[pos + 1] = more \o Meaning(e - 1)[r + 1],
         file' = file, pos' = r, text' = text \o more, UNCHANGED <<pc, stage, name, settings>>
  PROVE  LineInv'
<1>1. file \in Seq(Char) /\ pos \in 0 .. Len(file) /\ text \in Seq(Byte) /\ pos \in Nat /\ r \in Nat
  BY Numbers DEF TypeOK
<1>2. AtValue(pos, text, name) /\ settings = MeantAt(pos)
  BY DEF LineInv
<1>3. \A i \in pos + 1 .. r : i \notin Ends
  BY DEF Ends
<1>4. AtValue(r, text \o more, name)
  BY <1>1, <1>2, <1>3, ValueOn
<1>5. MeantAt(r) = MeantAt(pos)
  BY <1>1, <1>3, SameLines DEF MeantAt
<1> QED
  BY <1>2, <1>4, <1>5, Moves

(* How the next end of a line reads what is before it.                     *)
LEMMA NextReads ==
  ASSUME TypeOK, Regular, NEW e, NextEnd(pos, e)
  PROVE  /\ e \in Ends /\ e \in Nat /\ e - 1 \in Nat /\ pos \in Nat /\ pos < e
         /\ \A i \in pos + 1 .. e : file[i] # "newline" => i # e
         /\ Reads(Meaning(e - 1), e - 1, pos + 1)
<1>1. file \in Seq(Char) /\ pos \in Nat
  BY DEF TypeOK
<1>2. e \in Ends /\ pos < e
  BY DEF NextEnd
<1>3. e \in 1 .. Len(file) /\ file[e] = "newline"
  BY <1>1, <1>2, Numbers
<1>4. e \in Nat /\ e - 1 \in Nat
  BY <1>3
<1>5. e - 1 \in 0 .. Len(file) /\ Whole(e - 1)
  BY <1>1, <1>2, RegularLines
<1>6. pos + 1 \in 1 .. (e - 1) + 2
  BY <1>1, <1>2, <1>4
<1>7. Reads(Meaning(e - 1), e - 1, pos + 1)
  BY <1>1, <1>5, <1>6, MeaningReads
<1> QED
  BY <1>1, <1>2, <1>3, <1>4, <1>7

LEMMA LineInValue ==
  ASSUME TypeOK, Regular, LineInv, ValueChar
  PROVE  LineInv'
<1>1. /\ pc = "loop" /\ stage = 3 /\ Ahead(1) \notin {"newline", "\\", EOF} /\ Read(1)
      /\ text' = text \o <<Ahead(1)>> /\ UNCHANGED <<pc, stage, name, settings>>
  BY DEF ValueChar, InValue, Put
<1>2. /\ pos + 1 \in 1 .. Len(file) /\ Ahead(1) = file[pos + 1]
      /\ file' = file /\ pos' = pos + 1
  BY <1>1, CharAhead
<1>3. pos \in Nat /\ pos < pos + 1 /\ pos + 1 \in 0 .. Len(file)
      /\ \A i \in pos + 1 .. pos + 1 : i = pos + 1
  BY <1>2 DEF TypeOK
<1>4. <<file[pos + 1]>> \in Seq(Byte)
  <2>1. file[pos + 1] \in Char
    BY <1>2, Numbers DEF TypeOK
  <2> QED
    BY <2>1 DEF Byte
<1>5. ASSUME NEW e, NextEnd(pos, e)
      PROVE  Meaning(e - 1)[pos + 1] = <<file[pos + 1]>> \o Meaning(e - 1)[(pos + 1) + 1]
  <2>1. /\ e \in Nat /\ pos < e /\ Reads(Meaning(e - 1), e - 1, pos + 1)
        /\ \A i \in pos + 1 .. e : file[i] # "newline" => i # e
    BY <1>5, NextReads
  <2>2. pos + 1 # e
    BY <1>1, <1>2, <1>3, <2>1
  <2>3. ~(pos + 1 > e - 1)
    BY <1>3, <2>1, <2>2
  <2> QED
    BY <1>1, <1>2, <2>1, <2>3 DEF Reads
<1>6. \A i \in pos + 1 .. pos + 1 : file[i] # "newline"
  BY <1>1, <1>2, <1>3
<1> QED
  BY <1>1, <1>2, <1>3, <1>4, <1>5, <1>6, ValueMoves

LEMMA LineAtByte ==
  ASSUME TypeOK, Regular, LineInv, EscapedByte
  PROVE  LineInv'
<1>1. /\ pc = "loop" /\ stage = 3 /\ Ahead(1) = "\\" /\ Ahead(2) = "x"
      /\ {Ahead(3), Ahead(4)} \subseteq HexDigit /\ Read(4)
      /\ text' = text \o <<Decoded(Ahead(3), Ahead(4))>> /\ UNCHANGED <<pc, stage, name, settings>>
  BY DEF EscapedByte, Escape, InValue, Put
<1>2. \A k \in 1 .. 4 : Ahead(k) \notin {"newline", EOF}
  <2>1. Ahead(1) \notin {"newline", EOF} /\ Ahead(2) \notin {"newline", EOF}
    BY <1>1, FilesAssumption DEF Char
  <2>2. Ahead(3) \notin {"newline", EOF} /\ Ahead(4) \notin {"newline", EOF}
    BY <1>1, FilesAssumption DEF Char
  <2> QED
    BY <2>1, <2>2
<1>3. /\ pos + 1 \in 1 .. Len(file) /\ Ahead(1) = file[pos + 1]
      /\ pos + 2 \in 1 .. Len(file) /\ Ahead(2) = file[pos + 2]
      /\ pos + 3 \in 1 .. Len(file) /\ Ahead(3) = file[pos + 3]
      /\ pos + 4 \in 1 .. Len(file) /\ Ahead(4) = file[pos + 4]
      /\ file' = file /\ pos' = pos + 4
  BY <1>1, <1>2, CharAhead
<1>4. pos \in Nat /\ pos < pos + 4 /\ pos + 4 \in 0 .. Len(file)
      /\ \A i \in pos + 1 .. pos + 4 : i \in {pos + 1, pos + 2, pos + 3, pos + 4}
  BY <1>3 DEF TypeOK
<1>5. <<Decoded(file[pos + 3], file[pos + 4])>> \in Seq(Byte)
  <2>1. Decoded(file[pos + 3], file[pos + 4]) \in Byte
    BY <1>1, <1>3 DEF Byte
  <2> QED
    BY <2>1
<1>6. ASSUME NEW e, NextEnd(pos, e)
      PROVE  Meaning(e - 1)[pos + 1] =
               <<Decoded(file[pos + 3], file[pos + 4])>> \o Meaning(e - 1)[(pos + 4) + 1]
  <2>1. /\ e \in Nat /\ pos < e /\ Reads(Meaning(e - 1), e - 1, pos + 1)
        /\ \A i \in pos + 1 .. e : file[i] # "newline" => i # e
    BY <1>6, NextReads
  <2>2. pos + 1 # e /\ pos + 2 # e
    <3>1. file[pos + 1] # "newline" /\ file[pos + 2] # "newline"
      BY <1>1, <1>3
    <3> QED
      BY <1>4, <2>1, <3>1
  <2>3. ~(pos + 1 > e - 1) /\ pos + 1 # e - 1
    BY <1>4, <2>1, <2>2
  <2>4. (pos + 1) + 1 = pos + 2 /\ (pos + 1) + 2 = pos + 3 /\ (pos + 1) + 3 = pos + 4
        /\ (pos + 1) + 4 = (pos + 4) + 1
    BY <1>4
  <2>5. file[pos + 1] = "\\" /\ file[pos + 2] = "x"
    BY <1>1, <1>3
  <2> QED
    BY <2>1, <2>3, <2>4, <2>5 DEF Reads
<1>7. \A i \in pos + 1 .. pos + 4 : file[i] # "newline"
  <2>1. /\ file[pos + 1] # "newline" /\ file[pos + 2] # "newline"
        /\ file[pos + 3] # "newline" /\ file[pos + 4] # "newline"
    BY <1>2, <1>3
  <2> QED
    BY <1>4, <2>1
<1>8. text' = text \o <<Decoded(file[pos + 3], file[pos + 4])>>
  BY <1>1, <1>3
<1> QED
  BY <1>1, <1>3, <1>4, <1>5, <1>6, <1>7, <1>8, ValueMoves

LEMMA LineAtBroken ==
  ASSUME TypeOK, Regular, BrokenEscape
  PROVE  FALSE
<1>1. /\ Ahead(1) = "\\" /\ Ahead(2) = "x" /\ ~({Ahead(3), Ahead(4)} \subseteq HexDigit)
  BY DEF BrokenEscape, Escape
<1>2. Ahead(1) # EOF /\ Ahead(2) # EOF
  BY <1>1, FilesAssumption DEF Char
<1>3. /\ pos + 1 \in 1 .. Len(file) /\ Ahead(1) = file[pos + 1]
      /\ pos + 2 \in 1 .. Len(file) /\ Ahead(2) = file[pos + 2]
  BY <1>2, CharAhead
<1>4. pos \in Nat /\ Len(file) \in Nat
  BY DEF TypeOK
<1>5. /\ pos + 1 \in 1 .. Len(file) - 1 /\ (pos + 1) + 1 = pos + 2 /\ (pos + 1) + 2 = pos + 3
      /\ (pos + 1) + 3 = pos + 4
  BY <1>3, <1>4
<1>6. pos + 4 <= Len(file) /\ {file[pos + 3], file[pos + 4]} \subseteq HexDigit
  BY <1>1, <1>3, <1>5 DEF Regular, HasBrokenEscape
<1>7. Ahead(3) = file[pos + 3] /\ Ahead(4) = file[pos + 4]
  <2>1. pos + 3 <= Len(file)
    BY <1>4, <1>6
  <2> QED
    BY <1>6, <2>1 DEF Ahead
<1> QED
  BY <1>1, <1>6, <1>7

LEMMA LineAtEscapedEnd ==
  ASSUME TypeOK, Regular, LineInv, EscapedEnd
  PROVE  LineInv'
<1>1. /\ pc = "loop" /\ stage = 3 /\ Ahead(1) = "\\" /\ Ahead(2) \in {"newline", EOF}
      /\ Read(2) /\ settings' = Set(name, text \o <<"\\">>)
      /\ stage' = 0 /\ text' = <<>> /\ pc' = pc
  BY DEF EscapedEnd, Escape, InValue, Reset
<1>2. Ahead(1) # EOF
  BY <1>1, FilesAssumption DEF Char
<1>3. pos + 1 \in 1 .. Len(file) /\ Ahead(1) = file[pos + 1]
  BY <1>2, CharAhead
<1>4. /\ file \in Seq(Char) /\ pos \in 0 .. Len(file) /\ pos \in Nat /\ Len(file) \in Nat
      /\ text \in Seq(Byte)
  BY DEF TypeOK
<1>5. pos + 1 # Len(file)
  <2>1. file # <<>>
    BY <1>3
  <2> QED
    BY <1>1, <1>3, <2>1 DEF Regular, EndsInBackslash
<1>6. pos + 2 \in 1 .. Len(file)
  BY <1>3, <1>4, <1>5
<1>7. Ahead(2) # EOF
  <2>1. Ahead(2) = file[pos + 2]
    BY <1>6 DEF Ahead
  <2> QED
    BY <1>4, <1>6, <2>1, Numbers
<1>8. Ahead(2) = file[pos + 2] /\ file' = file /\ pos' = pos + 2
  BY <1>1, <1>7, CharAhead
<1>9. pos + 2 \in Ends
  BY <1>1, <1>4, <1>6, <1>7, <1>8, Numbers
<1>10. AtNothing(pos + 2, <<>>)
  BY <1>4, <1>9, LineEnds
<1>11. Meaning((pos + 2) - 1)[pos + 1] = <<"\\">>
  <2>1. (pos + 2) - 1 = pos + 1 /\ pos + 1 \in 0 .. Len(file)
    BY <1>3, <1>4
  <2>2. Whole(pos + 1)
    BY <1>4, <1>9, <2>1, RegularLines
  <2>3. pos + 1 \in 1 .. (pos + 1) + 2 /\ pos + 2 \in 1 .. (pos + 1) + 2
        /\ ~(pos + 1 > pos + 1) /\ pos + 2 > pos + 1 /\ (pos + 1) + 1 = pos + 2
    BY <1>4
  <2>4. Reads(Meaning(pos + 1), pos + 1, pos + 1) /\ Reads(Meaning(pos + 1), pos + 1, pos + 2)
    BY <1>4, <2>1, <2>2, <2>3, MeaningReads
  <2>5. Meaning(pos + 1)[pos + 2] = <<>>
    BY <2>3, <2>4 DEF Reads
  <2>6. Meaning(pos + 1)[pos + 1] = <<file[pos + 1]>> \o <<>>
    BY <2>3, <2>4, <2>5 DEF Reads
  <2>7. <<file[pos + 1]>> \o <<>> = <<file[pos + 1]>>
    OBVIOUS
  <2> QED
    BY <1>1, <1>3, <2>1, <2>6, <2>7
<1>12. pos < pos + 2 /\ \A i \in pos + 1 .. (pos + 2) - 1 : file[i] # "newline"
  <2>1. \A i \in pos + 1 .. (pos + 2) - 1 : i = pos + 1
    BY <1>4
  <2>2. file[pos + 1] # "newline"
    BY <1>1, <1>3
  <2> QED
    BY <1>4, <2>1, <2>2
<1>13. AtValue(pos, text, name) /\ settings = MeantAt(pos)
  BY <1>1 DEF LineInv
<1>14. MeantAt(pos + 2) = Set(name, text \o <<"\\">>)
  BY <1>9, <1>11, <1>12, <1>13, EndOfValue
<1> QED
  BY <1>1, <1>8, <1>10, <1>14, Moves

LEMMA LineAtEscape ==
  ASSUME TypeOK, Regular, LineInv, EscapedChar
  PROVE  LineInv'
<1>1. /\ pc = "loop" /\ stage = 3 /\ Ahead(1) = "\\" /\ Ahead(2) \notin {"x", "newline", EOF}
      /\ Read(2) /\ text' = text \o <<"\\", Ahead(2)>> /\ UNCHANGED <<pc, stage, name, settings>>
  BY DEF EscapedChar, Escape, InValue, Put, Kept
<1>2. Ahead(1) # EOF /\ Ahead(2) # EOF
  BY <1>1, FilesAssumption DEF Char
<1>3. /\ pos + 1 \in 1 .. Len(file) /\ Ahead(1) = file[pos + 1]
      /\ pos + 2 \in 1 .. Len(file) /\ Ahead(2) = file[pos + 2]
      /\ file' = file /\ pos' = pos + 2
  BY <1>1, <1>2, CharAhead
<1>4. pos \in Nat /\ pos < pos + 2 /\ pos + 2 \in 0 .. Len(file)
      /\ \A i \in pos + 1 .. pos + 2 : i \in {pos + 1, pos + 2}
  BY <1>3 DEF TypeOK
<1>5. <<file[pos + 1], file[pos + 2]>> \in Seq(Byte)
  <2>1. file[pos + 1] \in Char /\ file[pos + 2] \in Char
    BY <1>3, Numbers DEF TypeOK
  <2> QED
    BY <2>1 DEF Byte
<1>6. ASSUME NEW e, NextEnd(pos, e)
      PROVE  Meaning(e - 1)[pos + 1] =
               <<file[pos + 1], file[pos + 2]>> \o Meaning(e - 1)[(pos + 2) + 1]
  <2>1. /\ e \in Nat /\ pos < e /\ Reads(Meaning(e - 1), e - 1, pos + 1)
        /\ \A i \in pos + 1 .. e : file[i] # "newline" => i # e
    BY <1>6, NextReads
  <2>2. pos + 1 # e /\ pos + 2 # e
    <3>1. file[pos + 1] # "newline" /\ file[pos + 2] # "newline"
      BY <1>1, <1>3
    <3> QED
      BY <1>4, <2>1, <3>1
  <2>3. ~(pos + 1 > e - 1) /\ pos + 1 # e - 1
    BY <1>4, <2>1, <2>2
  <2>4. (pos + 1) + 1 = pos + 2 /\ (pos + 1) + 2 = (pos + 2) + 1
    BY <1>4
  <2>5. file[pos + 1] = "\\" /\ file[pos + 2] # "x"
    BY <1>1, <1>3
  <2> QED
    BY <2>1, <2>3, <2>4, <2>5 DEF Reads
<1>7. \A i \in pos + 1 .. pos + 2 : file[i] # "newline"
  <2>1. file[pos + 1] # "newline" /\ file[pos + 2] # "newline"
    BY <1>1, <1>3
  <2> QED
    BY <1>4, <2>1
<1>8. text' = text \o <<file[pos + 1], file[pos + 2]>>
  BY <1>1, <1>3
<1> QED
  BY <1>1, <1>3, <1>4, <1>5, <1>6, <1>7, <1>8, ValueMoves

-----------------------------------------------------------------------------
LEMMA LineStarts ==
  ASSUME Init
  PROVE  LineInv
<1>1. file \in Seq(Char) /\ pos = 0 /\ pc = "loop" /\ stage = 0 /\ text = <<>>
      /\ settings = [o \in {} |-> <<>>]
  BY FilesAssumption DEF Init
<1>2. Letters(First(pos), pos) = {}
  <2>1. 0 \in 0 .. Len(file)
    BY <1>1, Numbers
  <2>2. First(0) \in 1 .. 0 + 1
    BY <1>1, <2>1, FirstIs
  <2>3. First(0) = 1
    BY <2>2
  <2> QED
    BY <1>1, <2>3 DEF Letters
<1>3. MeantAt(pos) = [o \in {} |-> <<>>]
  <2>1. \A e \in Ends : ~(e <= 0)
    BY <1>1, Numbers
  <2>2. ASSUME NEW o PROVE AssigningTo({}, 0, o) = {}
    BY <2>1 DEF AssigningTo
  <2> QED
    BY <1>1, <2>2 DEF MeantAt, KeptAt
<1> QED
  BY <1>1, <1>2, <1>3 DEF LineInv, AtNothing

LEMMA LineStep ==
  ASSUME TypeOK, Regular => LineInv, [Next]_vars
  PROVE  (Regular => LineInv)'
<1>1. file' = file
  BY DEF Next, Returned, Turn, vars, EndOfFile, EndLine, StartComment, SkipComment, EndName,
     NameChar, SkipBlank, TooLong, ValueChar, EscapedByte, BrokenEscape, EscapedEnd,
     EscapedChar, Read
<1>2. Regular' = Regular
  BY <1>1, SameFile
<1>3. ASSUME Regular PROVE LineInv'
  <2>1. LineInv
    BY <1>3
  <2>2. CASE Turn
    BY <1>3, <2>1, <2>2, LineAtEOF, LineAtEnd, LineAtHash, LineInComment, LineAtEquals,
       LineInName, LineAtBlank, LineTooLong, LineInValue, LineAtByte, LineAtBroken,
       LineAtEscapedEnd, LineAtEscape DEF Turn
  <2>3. CASE UNCHANGED vars
    <3>1. file' = file /\ pos' = pos /\ pc' = pc /\ stage' = stage /\ text' = text
          /\ name' = name /\ settings' = settings
      BY <2>3 DEF vars
    <3> QED
      BY <2>1, <3>1, Moves DEF LineInv
  <2> QED
    BY <2>2, <2>3 DEF Next, Returned
<1> QED
  BY <1>2, <1>3

(* Any file that has no broken escapes and no backslash at its end:        *)
(* blanks, comments, nameless lines, names that are assigned again, a line *)
(* that is too long and an unfinished one do not disturb what the lines    *)
(* around them mean.                                                       *)
THEOREM FilesMeanTheirLines == Spec => []ReadsLineByLine
<1>1. Inv /\ (Regular => LineInv) => ReadsLineByLine
  BY DEF LineInv, MeantAt, KeptAt, AssigningTo, Meant, Assigning, ReadsLineByLine, Regular
<1>2. Init => Inv /\ (Regular => LineInv)
  BY StartsTyped, LineStarts
<1>3. Inv /\ (Regular => LineInv) /\ [Next]_vars => (Inv /\ (Regular => LineInv))'
  BY StepsPreserve, LineStep DEF Inv
<1> QED
  BY <1>1, <1>2, <1>3, PTL DEF Spec
-----------------------------------------------------------------------------
(* Release 0.0.1: what its strings are, when a text of the file has been   *)
(* stored in its buffer.                                                   *)

LEMMA LeastNumber ==
  ASSUME NEW S \in SUBSET Nat, S # {}
  PROVE  \E n \in S : \A y \in S : n <= y
<1> DEFINE R == {ss \in Nat \X Nat : ss[1] < ss[2]}
<1>1. IsWellFoundedOn(R, Nat)
  BY NatLessThanWellFounded DEF OpToRel
<1>2. PICK n \in S : \A y \in S : <<y, n>> \notin R
  <2> HIDE DEF R
  <2> QED
    BY <1>1, WFMin
<1>3. ASSUME NEW y \in S PROVE n <= y
  <2>1. n \in Nat /\ y \in Nat
    OBVIOUS
  <2>2. ~(y < n)
    BY <1>2, <2>1
  <2> QED
    BY <2>1, <2>2
<1> QED
  BY <1>3

LEMMA OnePart ==
  ASSUME NEW S, NEW s, NEW a \in Int, NEW z \in Int, \A i \in a .. z : s[i] \in S
  PROVE  /\ SubSeq(s, a, z) \in Seq(S)
         /\ z < a => SubSeq(s, a, z) = <<>>
         /\ a <= z + 1 => Len(SubSeq(s, a, z)) = z - a + 1
         /\ \A k \in 1 .. z - a + 1 : SubSeq(s, a, z)[k] = s[a + k - 1]
BY SubSeqProperties, SubSeqEmpty

(* The same characters at two places.                                      *)
LEMMA SameText ==
  ASSUME NEW S, NEW s, NEW t, NEW a \in Int, NEW z \in Int, NEW b \in Int,
         \A i \in a .. z : s[i] \in S /\ s[i] = t[b + (i - a)]
  PROVE  SubSeq(s, a, z) = SubSeq(t, b, b + (z - a))
<1>1. CASE z < a
  BY <1>1, SubSeqEmpty
<1>2. CASE a <= z
  <2> DEFINE p == SubSeq(s, a, z)
             q == SubSeq(t, b, b + (z - a))
  <2>1. \A i \in b .. b + (z - a) : t[i] \in S
    <3>1. ASSUME NEW i \in b .. b + (z - a) PROVE t[i] \in S
      <4>1. a + (i - b) \in a .. z /\ b + ((a + (i - b)) - a) = i
        BY <1>2
      <4> QED
        BY <4>1
    <3> QED
      BY <3>1
  <2>2. /\ p \in Seq(S) /\ Len(p) = z - a + 1
        /\ \A k \in 1 .. z - a + 1 : p[k] = s[a + k - 1]
    <3>1. \A i \in a .. z : s[i] \in S
      OBVIOUS
    <3>2. a <= z + 1
      BY <1>2
    <3> QED
      BY <3>1, <3>2, OnePart
  <2>3. b + (z - a) \in Int /\ b <= b + (z - a) + 1 /\ b + (z - a) - b + 1 = z - a + 1
    BY <1>2
  <2>4. /\ q \in Seq(S) /\ Len(q) = z - a + 1
        /\ \A k \in 1 .. z - a + 1 : q[k] = t[b + k - 1]
    BY <2>1, <2>3, OnePart
  <2>5. ASSUME NEW k \in 1 .. z - a + 1 PROVE s[a + k - 1] = t[b + k - 1]
    <3>1. a + k - 1 \in a .. z /\ b + ((a + k - 1) - a) = b + k - 1
      BY <1>2
    <3> QED
      BY <3>1
  <2> HIDE DEF p, q
  <2>6. p = q
    BY <2>2, <2>4, <2>5, SeqEqual
  <2> QED
    BY <2>6 DEF p, q
<1> QED
  BY <1>1, <1>2

(* What may be in its buffer. *)
OldByte == Char \cup {Nul}

LEMMA StoreIs ==
  ASSUME NEW buf \in Seq(OldByte), NEW i \in Nat, NEW c \in OldByte
  PROVE  /\ Old!Store(buf, i, c) \in Seq(OldByte) /\ Len(Old!Store(buf, i, c)) \in Nat
         /\ i + 1 <= Len(Old!Store(buf, i, c)) /\ Len(buf) <= Len(Old!Store(buf, i, c))
         /\ Old!Store(buf, i, c)[i + 1] = c
         /\ \A k \in 1 .. Len(buf) : k # i + 1 => Old!Store(buf, i, c)[k] = buf[k]
<1> DEFINE b == Old!Store(buf, i, c)
<1> DEFINE n == IF Len(buf) < i + 1 THEN i + 1 ELSE Len(buf)
<1>1. n \in Nat /\ i + 1 <= n /\ Len(buf) <= n /\ Len(buf) \in Nat
  OBVIOUS
<1>2. b = [k \in 1 .. n |-> IF k = i + 1 THEN c ELSE IF k <= Len(buf) THEN buf[k] ELSE Nul]
  BY DEF Old!Store
<1> HIDE DEF n, b
<1>3. \A k \in 1 .. n : b[k] = IF k = i + 1 THEN c ELSE IF k <= Len(buf) THEN buf[k] ELSE Nul
  BY <1>2
<1>4. \A k \in 1 .. Len(buf) : buf[k] \in OldByte
  OBVIOUS
<1>5. \A k \in 1 .. n : b[k] \in OldByte
  <2>1. ASSUME NEW k \in 1 .. n PROVE b[k] \in OldByte
    <3>1. k <= Len(buf) => k \in 1 .. Len(buf)
      BY <1>1
    <3>2. Nul \in OldByte
      BY DEF OldByte
    <3> QED
      BY <1>3, <1>4, <3>1, <3>2
  <2> QED
    BY <2>1
<1>6. b \in [1 .. n -> OldByte]
  BY <1>2, <1>5
<1>7. b \in Seq(OldByte) /\ Len(b) = n
  BY <1>1, <1>6
<1>8. i + 1 \in 1 .. n /\ \A k \in 1 .. Len(buf) : k \in 1 .. n /\ k <= Len(buf)
  BY <1>1
<1>9. b[i + 1] = c /\ \A k \in 1 .. Len(buf) : k # i + 1 => b[k] = buf[k]
  BY <1>3, <1>8
<1> QED
  BY <1>1, <1>7, <1>9 DEF b

(* The first of some characters in a text.                                 *)
LEMMA FirstInText ==
  ASSUME NEW c, NEW s, NEW n \in 1 .. Len(s), Len(s) \in Nat, s[n] = c,
         \A k \in 1 .. n - 1 : s[k] # c
  PROVE  Min({k \in 1 .. Len(s) : s[k] = c}) = n
<1> DEFINE I == {k \in 1 .. Len(s) : s[k] = c}
<1>1. n \in I /\ \A k \in I : k \in Nat /\ n <= k
  <2>1. ASSUME NEW k \in I PROVE k \in Nat /\ n <= k
    <3>1. k \in 1 .. Len(s) /\ s[k] = c /\ k \notin 1 .. n - 1
      OBVIOUS
    <3> QED
      BY <3>1
  <2> QED
    BY <2>1
<1>2. ASSUME NEW k \in I, \A y \in I : k <= y PROVE k = n
  <2>1. k <= n /\ n <= k /\ k \in Nat /\ n \in Nat
    BY <1>1, <1>2
  <2> QED
    BY <2>1
<1> HIDE DEF I
<1>3. Min(I) = n
  BY <1>1, <1>2 DEF Min
<1> QED
  BY <1>3 DEF I

LEMMA StringIs ==
  ASSUME NEW buf \in Seq(OldByte), NEW i \in Nat, NEW z \in Nat, i <= z, z + 1 <= Len(buf),
         buf[z + 1] = Nul, \A k \in i + 1 .. z : buf[k] # Nul
  PROVE  Old!StringAt(buf, i) = SubSeq(buf, i + 1, z)
<1> DEFINE rest == SubSeq(buf, i + 1, Len(buf))
           I == {k \in 1 .. Len(rest) : rest[k] = Nul}
           end == IF I # {} THEN Min(I) ELSE 0
<1>1. /\ i + 1 \in Int /\ Len(buf) \in Int /\ i + 1 <= Len(buf) + 1
      /\ Len(buf) - (i + 1) + 1 = Len(buf) - i /\ z - i + 1 \in 1 .. Len(buf) - i
  OBVIOUS
<1>2. \A k \in i + 1 .. Len(buf) : buf[k] \in OldByte
  OBVIOUS
<1>3. /\ rest \in Seq(OldByte) /\ Len(rest) = Len(buf) - i
      /\ \A k \in 1 .. Len(buf) - i : rest[k] = buf[(i + 1) + k - 1]
  <2>1. ASSUME NEW n \in Int, n = Len(buf)
        PROVE  /\ SubSeq(buf, i + 1, n) \in Seq(OldByte)
               /\ Len(SubSeq(buf, i + 1, n)) = n - i
               /\ \A k \in 1 .. n - i : SubSeq(buf, i + 1, n)[k] = buf[(i + 1) + k - 1]
    <3>1. i + 1 \in Int /\ i + 1 <= n + 1 /\ n - (i + 1) + 1 = n - i
          /\ \A k \in i + 1 .. n : buf[k] \in OldByte
      BY <1>1, <1>2, <2>1
    <3> QED
      BY <3>1, OnePart
  <2> QED
    BY <1>1, <2>1
<1>4. Old!StringAt(buf, i) = IF end = 0 THEN rest ELSE SubSeq(rest, 1, end - 1)
  BY Zenon DEF Old!StringAt, Old!SelectInSeq, Old!Min, Min
<1> HIDE DEF rest
<1>5. rest[z - i + 1] = Nul
  <2>1. (i + 1) + (z - i + 1) - 1 = z + 1
    OBVIOUS
  <2> QED
    BY <1>1, <1>3, <2>1
<1>6. ASSUME NEW k \in 1 .. (z - i + 1) - 1 PROVE rest[k] # Nul
  <2>1. (i + 1) + k - 1 \in i + 1 .. z /\ k \in 1 .. Len(buf) - i
    OBVIOUS
  <2> QED
    BY <1>3, <2>1
<1>7. Min(I) = z - i + 1 /\ z - i + 1 \in I
  <2>1. z - i + 1 \in 1 .. Len(rest) /\ Len(rest) \in Nat
    BY <1>1, <1>3
  <2>2. Min(I) = z - i + 1
    BY <1>5, <1>6, <2>1, FirstInText
  <2> QED
    BY <1>5, <2>1, <2>2
<1> HIDE DEF I
<1>8. Old!StringAt(buf, i) = SubSeq(rest, 1, z - i)
  <2>1. z - i + 1 # 0 /\ (z - i + 1) - 1 = z - i /\ I # {}
    BY <1>7
  <2> QED
    BY <1>4, <1>7, <2>1
<1>9. ASSUME NEW k \in 1 .. z - i PROVE rest[k] \in OldByte /\ rest[k] = buf[(i + 1) + (k - 1)]
  <2>1. k \in 1 .. Len(buf) - i /\ (i + 1) + k - 1 = (i + 1) + (k - 1)
        /\ (i + 1) + (k - 1) \in i + 1 .. Len(buf)
    BY <1>1
  <2> QED
    BY <1>2, <1>3, <2>1
<1>10. z - i \in Int /\ (i + 1) + ((z - i) - 1) = z
  OBVIOUS
<1>11. SubSeq(rest, 1, z - i) = SubSeq(buf, i + 1, (i + 1) + ((z - i) - 1))
  BY <1>1, <1>9, <1>10, SameText
<1> QED
  BY <1>8, <1>10, <1>11
-----------------------------------------------------------------------------
(* What a simple line says.                                                *)

(* The line that has got as far as p begins, but for blanks, at f.         *)
Opens(f, p) == file[f] \notin {"blank", "#"} /\ Letters(First(p), f - 1) = {}

LEMMA NameText ==
  ASSUME file \in Seq(Char), NEW from \in Nat, NEW k \in 0 .. Len(file),
         NEW f \in Nat \ {0}, NEW j \in Nat, f <= j, Letters(from, k) = f .. j
  PROVE  NoBlanks(from, k) = SubSeq(file, f, j)
<1> DEFINE n == j - f + 1
<1>1. Len(file) \in Nat /\ \A i \in 1 .. Len(file) : file[i] \in Char
  BY Numbers
<1>2. n \in Nat /\ k \in Nat /\ f \in Letters(from, k) /\ j \in Letters(from, k)
  <2>1. f \in f .. j /\ j \in f .. j
    OBVIOUS
  <2> QED
    BY <1>1, <2>1
<1>3. from <= f /\ j <= k
  BY <1>2 DEF Letters
<1>4. Cardinality(Letters(from, k)) = n
  BY FS_Interval
<1>5. ASSUME NEW i \in 1 .. n PROVE Nth(from, i) = f + i - 1
  <2> DEFINE c == f + i - 1
  <2>1. c \in f .. j /\ c \in Nat /\ c \in 1 .. Len(file) /\ from <= c /\ c <= k
    BY <1>1, <1>2, <1>3
  <2>2. file[c] # "blank"
    BY <2>1 DEF Letters
  <2>3. Letters(from, c) = f .. c
    <3>1. \A m : m \in Letters(from, c) <=> m \in Letters(from, k) /\ m <= c
      BY <1>2, <2>1 DEF Letters
    <3>2. \A m : m \in f .. c <=> m \in f .. j /\ m <= c
      BY <2>1
    <3>3. \A m : m \in Letters(from, c) <=> m \in f .. c
      BY <3>1, <3>2
    <3> HIDE DEF c
    <3> QED
      BY <3>3
  <2>4. Cardinality(Letters(from, c)) = i
    <3>1. Cardinality(f .. c) = c - f + 1
      BY <2>1, FS_Interval
    <3> QED
      BY <2>3, <3>1
  <2> HIDE DEF c
  <2>5. Nth(from, i) = c
    BY <2>1, <2>2, <2>4, NthIs
  <2> QED
    BY <2>5 DEF c
<1>6. NoBlanks(from, k) = [i \in 1 .. n |-> file[f + i - 1]]
  BY <1>4, <1>5 DEF NoBlanks
<1>7. \A i \in f .. j : file[i] \in Char
  BY <1>1, <1>2, <1>3
<1>8. SubSeq(file, f, j) \in Seq(Char) /\ Len(SubSeq(file, f, j)) = n
      /\ \A i \in 1 .. n : SubSeq(file, f, j)[i] = file[f + i - 1]
  BY <1>7, OnePart
<1>9. NoBlanks(from, k) \in Seq(Char) /\ Len(NoBlanks(from, k)) = n
      /\ \A i \in 1 .. n : NoBlanks(from, k)[i] = file[f + i - 1]
  <2>1. \A i \in 1 .. n : file[f + i - 1] \in Char
    BY <1>2, <1>7
  <2> HIDE DEF n
  <2> QED
    BY <1>2, <1>6, <2>1
<1> HIDE DEF n
<1> QED
  BY <1>8, <1>9, SeqEqual

LEMMA NameHead ==
  ASSUME file \in Seq(Char), NEW from \in Nat \ {0}, NEW f \in from .. Len(file),
         file[f] # "blank", Letters(from, f - 1) = {}, NEW k \in f .. Len(file)
  PROVE  1 \in DOMAIN NoBlanks(from, k) /\ NoBlanks(from, k)[1] = file[f]
<1>1. f \in Nat /\ k \in Nat /\ f \in 1 .. Len(file) /\ from <= f
  BY Numbers
<1>2. Letters(from, f) = {f}
  BY <1>1 DEF Letters
<1>3. Cardinality(Letters(from, f)) = 1
  BY <1>2, FS_Singleton
<1>4. Nth(from, 1) = f
  BY <1>1, <1>3, NthIs
<1>5. Cardinality(Letters(from, k)) \in Nat \ {0}
  <2>1. f \in Letters(from, k)
    BY <1>1 DEF Letters
  <2>2. IsFiniteSet(Letters(from, k)) /\ Cardinality(Letters(from, k)) \in Nat
    BY <1>1, LettersFinite
  <2>3. Cardinality(Letters(from, k)) # 0
    BY <2>1, <2>2, FS_EmptySet
  <2> QED
    BY <2>2, <2>3
<1> QED
  BY <1>4, <1>5 DEF NoBlanks

LEMMA SimpleLine ==
  ASSUME file \in Seq(Char), NEW e \in Ends, Simple(e), NEW f \in First(e - 1) .. e - 1,
         Opens(f, e - 1)
  PROVE  /\ e - f < BufSize
         /\ \E q \in f .. e - 1 : file[q] = "=" /\ \A i \in f .. q - 1 : file[i] # "="
         /\ \A j \in f .. e - 1 :
              file[j] # "blank" /\ (\A i \in f .. j : file[i] # "=") =>
                f .. j \subseteq Letters(First(e - 1), e - 1)
<1> DEFINE from == First(e - 1)
           letters == Letters(from, e - 1)
<1>1. e \in Nat /\ e - 1 \in Nat /\ e - 1 \in 0 .. Len(file) /\ from \in Nat \ {0} /\ f \in Nat
      /\ Start(e) = from /\ from <= f /\ f <= e - 1
  <2>1. e \in Nat /\ e - 1 \in Nat /\ e - 1 \in 0 .. Len(file)
    BY Numbers
  <2>2. from \in 1 .. (e - 1) + 1 /\ Start(e) = from
    BY <2>1, FirstIs, StartIs
  <2> QED
    BY <2>1, <2>2
<1>2. f \in letters /\ \A i \in letters : i \in Nat /\ f <= i
  <2>1. f \in letters
    BY <1>1 DEF Opens, Letters
  <2>2. ASSUME NEW i \in letters PROVE i \in Nat /\ f <= i
    <3>1. i \in from .. e - 1 /\ file[i] # "blank"
      BY DEF Letters
    <3>2. i \notin Letters(from, f - 1)
      BY DEF Opens
    <3>3. ~(i <= f - 1)
      BY <1>1, <3>1, <3>2 DEF Letters
    <3> QED
      BY <1>1, <3>1, <3>3
  <2> QED
    BY <2>1, <2>2
<1>3. ~IsComment(from, e - 1)
  <2>1. Begun(e - 1)
    BY DEF Begun, Opens
  <2> QED
    BY <1>1, <2>1, BegunIsNoComment
<1>4. /\ \E i \in from .. e - 1 : file[i] = "="
      /\ \A i, k \in letters :
           (\A n \in from .. e - 1 : n <= k => file[n] # "=") => i .. k \subseteq letters
      /\ e - Min(letters) < BufSize
  BY <1>1, <1>2, <1>3 DEF Simple
<1>5. Min(letters) = f
  <2>1. ASSUME NEW i \in letters, \A y \in letters : i <= y PROVE i = f
    <3>1. i <= f /\ f <= i /\ i \in Nat
      BY <1>2, <2>1
    <3> QED
      BY <1>1, <3>1
  <2> HIDE DEF letters
  <2> QED
    BY <1>2, <2>1 DEF Min
<1>6. ASSUME NEW n \in from .. f - 1 PROVE file[n] = "blank"
  <2>1. n \notin Letters(from, f - 1)
    BY DEF Opens
  <2> QED
    BY <2>1 DEF Letters
<1>7. \E q \in f .. e - 1 : file[q] = "=" /\ \A i \in f .. q - 1 : file[i] # "="
  <2> DEFINE equals == {i \in f .. e - 1 : file[i] = "="}
  <2>1. equals # {} /\ equals \in SUBSET Nat
    <3>1. PICK i \in from .. e - 1 : file[i] = "="
      BY <1>4
    <3>2. i \notin from .. f - 1
      BY <1>6, <3>1
    <3>3. i \in f .. e - 1
      BY <1>1, <3>1, <3>2
    <3> QED
      BY <1>1, <3>1, <3>3
  <2>2. PICK q \in equals : \A y \in equals : q <= y
    <3> HIDE DEF equals
    <3> QED
      BY <2>1, LeastNumber
  <2>3. ASSUME NEW i \in f .. q - 1, file[i] = "=" PROVE FALSE
    <3>1. i \in Nat /\ q \in Nat /\ i \in f .. e - 1 /\ ~(q <= i)
      BY <1>1, <2>2
    <3> QED
      BY <2>2, <2>3, <3>1
  <2> QED
    BY <2>2, <2>3
<1>8. ASSUME NEW j \in f .. e - 1, file[j] # "blank", \A i \in f .. j : file[i] # "="
      PROVE  f .. j \subseteq letters
  <2>1. j \in letters
    BY <1>1, <1>8 DEF Letters
  <2>2. ASSUME NEW n \in from .. e - 1, n <= j PROVE file[n] # "="
    <3>1. CASE n \in from .. f - 1
      BY <1>6, <3>1
    <3>2. CASE n \notin from .. f - 1
      <4>1. n \in f .. j
        BY <1>1, <2>2, <3>2
      <4> QED
        BY <1>8, <4>1
    <3> QED
      BY <3>1, <3>2
  <2> QED
    BY <1>2, <1>4, <2>1, <2>2
<1> QED
  BY <1>4, <1>5, <1>7, <1>8

(* The line assigns to the name that it begins with, which is one word.    *)
LEMMA NamedLine ==
  ASSUME file \in Seq(Char), NEW e \in Ends, Simple(e), NEW f \in First(e - 1) .. e - 1,
         Opens(f, e - 1), NEW q \in f + 1 .. e - 1, file[q] = "=",
         \A i \in f .. q - 1 : file[i] # "="
  PROVE  /\ Assigns(e) /\ Equals(e) = q
         /\ \E j \in f .. q - 1 :
              /\ NameIn(e) = SubSeq(file, f, j)
              /\ \A i \in f .. q - 1 : file[i] # "blank" <=> i \in f .. j
<1> DEFINE from == First(e - 1)
<1>1. e \in Nat /\ e - 1 \in Nat /\ e - 1 \in 0 .. Len(file) /\ from \in Nat \ {0} /\ f \in Nat
      /\ Start(e) = from /\ from <= f /\ f <= e - 1 /\ q \in Nat /\ f < q /\ q <= e - 1
  <2>1. e \in Nat /\ e - 1 \in Nat /\ e - 1 \in 0 .. Len(file)
    BY Numbers
  <2>2. from \in 1 .. (e - 1) + 1 /\ Start(e) = from
    BY <2>1, FirstIs, StartIs
  <2> QED
    BY <2>1, <2>2
<1>2. \A i \in from .. f - 1 : file[i] = "blank"
  BY DEF Opens, Letters
<1>3. ~IsComment(from, e - 1)
  <2>1. Begun(e - 1)
    BY DEF Begun, Opens
  <2> QED
    BY <1>1, <2>1, BegunIsNoComment
<1>4. q \in EqualsIn(from, e - 1)
  <2>1. f \in Letters(from, q - 1)
    BY <1>1 DEF Letters, Opens
  <2> QED
    BY <1>1, <2>1 DEF EqualsIn
<1>5. ASSUME NEW i \in EqualsIn(from, e - 1) PROVE i \in Nat /\ q <= i
  <2>1. i \in from .. e - 1 /\ file[i] = "="
    BY DEF EqualsIn
  <2>2. i \notin from .. f - 1 /\ i \notin f .. q - 1
    BY <1>2, <2>1
  <2> QED
    BY <1>1, <2>1, <2>2
<1>6. Equals(e) = q
  <2>1. ASSUME NEW i \in EqualsIn(from, e - 1), \A y \in EqualsIn(from, e - 1) : i <= y
        PROVE  i = q
    <3>1. i <= q /\ q <= i /\ i \in Nat
      BY <1>4, <1>5, <2>1
    <3> QED
      BY <1>1, <3>1
  <2>2. Min(EqualsIn(from, e - 1)) = q
    BY <1>4, <1>5, <2>1 DEF Min
  <2> QED
    BY <1>1, <2>2 DEF Equals
<1>7. Assigns(e)
  BY <1>1, <1>3, <1>4 DEF Assigns
<1>8. PICK j \in Letters(from, q - 1) : \A y \in Letters(from, q - 1) : j >= y
  <2>1. q - 1 \in Nat /\ Letters(from, q - 1) \in SUBSET (0 .. q - 1)
    BY <1>1 DEF Letters
  <2>2. Letters(from, q - 1) # {}
    BY <1>1 DEF Letters, Opens
  <2> QED
    BY <2>1, <2>2, LargestNumber
<1>9. j \in f .. q - 1 /\ j \in Nat /\ file[j] # "blank"
  <2>1. j \in from .. q - 1 /\ file[j] # "blank"
    BY <1>8 DEF Letters
  <2>2. j \notin from .. f - 1
    BY <1>2, <2>1
  <2> QED
    BY <1>1, <2>1, <2>2
<1>10. f .. j \subseteq Letters(from, e - 1)
  <2>1. j \in f .. e - 1 /\ \A i \in f .. j : i \in f .. q - 1
    BY <1>1, <1>9
  <2> QED
    BY <1>9, <2>1, SimpleLine
<1>11. ASSUME NEW i \in f .. q - 1 PROVE file[i] # "blank" <=> i \in f .. j
  <2>1. i \in f .. j => file[i] # "blank"
    BY <1>10 DEF Letters
  <2>2. ASSUME file[i] # "blank" PROVE i \in f .. j
    <3>1. i \in Letters(from, q - 1)
      BY <1>1, <2>2 DEF Letters
    <3> QED
      BY <1>8, <1>9, <3>1
  <2> QED
    BY <2>1, <2>2
<1>12. Letters(from, q - 1) = f .. j
  <2>1. ASSUME NEW i \in Letters(from, q - 1) PROVE i \in f .. j
    <3>1. i \in from .. q - 1 /\ file[i] # "blank"
      BY DEF Letters
    <3>2. i \notin from .. f - 1
      BY <1>2, <3>1
    <3>3. i \in f .. q - 1
      BY <1>1, <3>1, <3>2
    <3> QED
      BY <1>11, <3>1, <3>3
  <2>2. ASSUME NEW i \in f .. j PROVE i \in Letters(from, q - 1)
    <3>1. i \in f .. q - 1 /\ i \in from .. q - 1
      BY <1>1, <1>9
    <3> QED
      BY <1>11, <3>1 DEF Letters
  <2> QED
    BY <2>1, <2>2
<1>13. NameIn(e) = SubSeq(file, f, j)
  <2>1. q - 1 \in 0 .. Len(file) /\ f \in Nat \ {0} /\ f <= j
    BY <1>1, <1>9, Numbers
  <2>2. NoBlanks(from, q - 1) = SubSeq(file, f, j)
    <3>1. from \in Nat
      BY <1>1
    <3> HIDE DEF from
    <3> QED
      BY <1>9, <1>12, <2>1, <3>1, NameText
  <2> QED
    BY <1>1, <1>6, <2>2 DEF NameIn
<1> QED
  BY <1>6, <1>7, <1>9, <1>11, <1>13

LEMMA PlainMeaning ==
  ASSUME file \in Seq(Char), \A i \in DOMAIN file : file[i] # "\\",
         NEW to \in 0 .. Len(file), NEW i \in 1 .. to + 1
  PROVE  Meaning(to)[i] = SubSeq(file, i, to)
<1> DEFINE M == Meaning(to)
           G == {n \in Nat : n <= to => M[to + 1 - n] = SubSeq(file, to + 1 - n, to)}
<1>1. to \in Nat /\ to <= Len(file) /\ Len(file) \in Nat
      /\ \A k \in 1 .. to : file[k] \in Char /\ file[k] # "\\"
  BY Numbers
<1>2. Whole(to)
  BY <1>1 DEF Whole
<1>3. \A k \in 1 .. to + 2 : Reads(M, to, k)
  BY <1>2, MeaningReads
<1> HIDE DEF M
<1>4. 0 \in G
  <2>1. to + 1 \in 1 .. to + 2 /\ to + 1 > to /\ to < to + 1 /\ to + 1 - 0 = to + 1
    BY <1>1
  <2>2. M[to + 1] = <<>>
    BY <1>3, <2>1 DEF Reads
  <2>3. SubSeq(file, to + 1, to) = <<>>
    BY <1>1, <2>1, SubSeqEmpty
  <2> QED
    BY <2>1, <2>2, <2>3
<1>5. ASSUME NEW n \in Nat, n \in G PROVE n + 1 \in G
  <2> SUFFICES ASSUME n + 1 <= to
               PROVE  M[to + 1 - (n + 1)] = SubSeq(file, to + 1 - (n + 1), to)
    OBVIOUS
  <2> DEFINE k == to - n
             rest == SubSeq(file, k + 1, to)
             all == SubSeq(file, k, to)
  <2>1. k \in 1 .. to /\ k \in Int /\ to + 1 - (n + 1) = k /\ to + 1 - n = k + 1 /\ ~(k > to)
        /\ k \in 1 .. to + 2 /\ n <= to
    BY <1>1
  <2>2. M[k + 1] = rest
    BY <1>5, <2>1
  <2> HIDE DEF k, G
  <2>3. M[k] = <<file[k]>> \o rest
    <3>1. Reads(M, to, k) /\ file[k] # "\\"
      BY <1>1, <1>3, <2>1
    <3> QED
      BY <2>1, <2>2, <3>1 DEF Reads
  <2>4. /\ rest \in Seq(Char) /\ Len(rest) = to - k
        /\ \A j \in 1 .. to - k : rest[j] = file[k + j]
    <3>1. k + 1 \in Int /\ k + 1 <= to + 1 /\ to - (k + 1) + 1 = to - k
          /\ \A j \in k + 1 .. to : file[j] \in Char
      BY <1>1, <2>1
    <3>2. /\ rest \in Seq(Char) /\ Len(rest) = to - k
          /\ \A j \in 1 .. to - k : rest[j] = file[(k + 1) + j - 1]
      BY <1>1, <3>1, OnePart
    <3>3. \A j \in 1 .. to - k : (k + 1) + j - 1 = k + j
      BY <2>1
    <3> QED
      BY <3>2, <3>3
  <2>5. /\ all \in Seq(Char) /\ Len(all) = to - k + 1
        /\ \A j \in 1 .. to - k + 1 : all[j] = file[k + j - 1]
    <3>1. k <= to + 1 /\ \A j \in k .. to : file[j] \in Char
      BY <1>1, <2>1
    <3> QED
      BY <1>1, <2>1, <3>1, OnePart
  <2>6. <<file[k]>> \in Seq(Char) /\ Len(<<file[k]>>) = 1 /\ <<file[k]>>[1] = file[k]
    BY <1>1, <2>1
  <2> DEFINE one == <<file[k]>>
  <2> HIDE DEF rest, all, one
  <2>7. /\ one \o rest \in Seq(Char) /\ Len(one \o rest) = 1 + (to - k)
        /\ \A j \in 1 .. 1 + (to - k) : (one \o rest)[j] = IF j <= 1 THEN one[j] ELSE rest[j - 1]
    BY <2>4, <2>6, ConcatProperties DEF one
  <2>8. ASSUME NEW j \in 1 .. to - k + 1 PROVE (one \o rest)[j] = all[j]
    <3>1. CASE j = 1
      <4>1. (one \o rest)[1] = one[1] /\ one[1] = file[k]
        BY <2>1, <2>6, <2>7 DEF one
      <4>2. all[1] = file[k]
        BY <2>1, <2>5
      <4> QED
        BY <3>1, <4>1, <4>2
    <3>2. CASE j # 1
      <4>1. j - 1 \in 1 .. to - k /\ ~(j <= 1) /\ k + (j - 1) = k + j - 1 /\ j \in 1 .. 1 + (to - k)
        BY <1>1, <2>1, <3>2
      <4> QED
        BY <2>4, <2>5, <2>7, <4>1
    <3> QED
      BY <3>1, <3>2
  <2>9. one \o rest = all
    <3>1. Len(one \o rest) = to - k + 1
      BY <1>1, <2>1, <2>7
    <3> QED
      BY <2>5, <2>7, <2>8, <3>1, SeqEqual
  <2> QED
    BY <2>1, <2>3, <2>9 DEF one, all
<1>6. Nat \subseteq G
  <2> HIDE DEF G
  <2> QED
    BY <1>4, <1>5, Induction
<1>7. to + 1 - i \in Nat /\ to + 1 - i <= to /\ to + 1 - (to + 1 - i) = i
  BY <1>1
<1> QED
  BY <1>6, <1>7 DEF M

LEMMA PlainString ==
  ASSUME NEW s \in Seq(Char)
  PROVE  CString(s) = s
<1>1. Len(s) \in Nat /\ \A j \in 1 .. Len(s) : s[j] \in Char
  OBVIOUS
<1>2. {i \in 1 .. Len(s) : \A j \in 1 .. i : s[j] # Nul} = 1 .. Len(s)
  <2>1. ASSUME NEW i \in 1 .. Len(s), NEW j \in 1 .. i PROVE s[j] # Nul
    <3>1. s[j] \in Char
      BY <1>1
    <3> QED
      BY <3>1, ReleasesAssumption
  <2> QED
    BY <2>1
<1>3. Cardinality(1 .. Len(s)) = Len(s)
  <2>1. Cardinality(1 .. Len(s)) = IF 1 > Len(s) THEN 0 ELSE Len(s) - 1 + 1
    BY <1>1, FS_Interval
  <2> QED
    BY <1>1, <2>1
<1>4. SubSeq(s, 1, Len(s)) = s
  <2>1. ASSUME NEW n \in Nat, n = Len(s)
        PROVE  /\ SubSeq(s, 1, n) \in Seq(Char) /\ Len(SubSeq(s, 1, n)) = n
               /\ \A k \in 1 .. n : SubSeq(s, 1, n)[k] = s[k]
    <3>1. 1 <= n + 1 /\ n - 1 + 1 = n /\ \A k \in 1 .. n : s[k] \in Char /\ 1 + k - 1 = k
      BY <1>1, <2>1
    <3> QED
      BY <3>1, OnePart
  <2>2. /\ SubSeq(s, 1, Len(s)) \in Seq(Char) /\ Len(SubSeq(s, 1, Len(s))) = Len(s)
        /\ \A k \in 1 .. Len(s) : SubSeq(s, 1, Len(s))[k] = s[k]
    BY <1>1, <2>1
  <2> QED
    BY <2>2, SeqEqual
<1> QED
  BY <1>2, <1>3, <1>4 DEF CString

(* trim() of a word with blanks behind it, and of nothing.                 *)
LEMMA TrimWord ==
  ASSUME NEW s \in Seq(Char), NEW n \in 1 .. Len(s), NEW behind,
         \A i \in 1 .. Len(s) : s[i] # "blank" <=> i \in 1 .. n
  PROVE  Old!trim(s, behind) = SubSeq(s, 1, n) \o behind
<1> DEFINE letters == {k \in DOMAIN s : s[k] # "blank"}
<1>1. n \in Nat /\ 1 <= n /\ DOMAIN s = 1 .. Len(s) /\ Len(s) \in Nat
  OBVIOUS
<1>2. letters = 1 .. n
  <2>1. \A k : k \in 1 .. n => k \in 1 .. Len(s)
    BY <1>1
  <2> QED
    BY <1>1, <2>1
<1>3. Min(letters) = 1 /\ Max(letters) = n
  <2>1. 1 \in 1 .. n /\ n \in 1 .. n
    BY <1>1
  <2>2. \A k \in 1 .. n : 1 <= k /\ n >= k
    BY <1>1
  <2>3. ASSUME NEW k \in 1 .. n, \A y \in 1 .. n : k <= y PROVE k = 1
    BY <2>1, <2>3
  <2>4. ASSUME NEW k \in 1 .. n, \A y \in 1 .. n : k >= y PROVE k = n
    BY <1>1, <2>1, <2>4
  <2>5. Min(1 .. n) = 1
    BY <2>1, <2>2, <2>3 DEF Min
  <2>6. Max(1 .. n) = n
    BY <2>1, <2>2, <2>4 DEF Max
  <2> QED
    BY <1>2, <2>5, <2>6
<1>4. Old!trim(s, behind) =
        IF letters = {} THEN <<>> ELSE SubSeq(s, Min(letters), Max(letters)) \o behind
  BY Zenon DEF Old!trim, Old!Min, Old!Max, Min, Max
<1>5. letters # {}
  BY <1>1, <1>2
<1> HIDE DEF letters
<1> QED
  BY <1>3, <1>4, <1>5

LEMMA TrimNothing ==
  ASSUME NEW behind
  PROVE  Old!trim(<<>>, behind) = <<>>
<1>1. {k \in DOMAIN <<>> : <<>>[k] # "blank"} = {}
  OBVIOUS
<1> QED
  BY <1>1 DEF Old!trim

-----------------------------------------------------------------------------
(* Release 0.0.1's machine m after p characters, when the names of the     *)
(* lines whose number is in lost have been spoilt.                         *)
Machine(lost, p) ==
  [buf : Seq(OldByte), x : Nat, typing : BOOLEAN, comment : BOOLEAN, line : {1 + Number(p)},
   failed : BOOLEAN, overrun : BOOLEAN, options : {KeptAt(lost, p)}]

Holds(m, f, p) ==
  /\ m.x = p - f + 1 /\ m.x <= Len(m.buf)
  /\ \A k \in 1 .. m.x : m.buf[k] = file[f + k - 1]
Typing(m, p) == \E f \in First(p) .. p : Opens(f, p) /\ Holds(m, f, p)

OldInv(m, lost, p) ==
  /\ m \in Machine(lost, p)
  /\ m.failed => \A e \in Ends : e <= p
  /\ ~m.failed =>
       \/ m.comment /\ ~m.typing /\ m.x = 0 /\ IsComment(First(p), p)
       \/ ~m.comment /\ ~m.typing /\ m.x = 0 /\ Letters(First(p), p) = {}
       \/ ~m.comment /\ m.typing /\ Typing(m, p)

LEMMA NumberTyped ==
  ASSUME file \in Seq(Char), NEW p \in Nat
  PROVE  Number(p) \in Nat
<1>1. IsFiniteSet(1 .. Len(file))
  BY FS_Interval, Numbers
<1>2. {d \in Ends : d <= p} \in SUBSET (1 .. Len(file))
  BY Numbers
<1>3. IsFiniteSet({d \in Ends : d <= p})
  BY <1>1, <1>2, FS_Subset
<1> QED
  BY <1>3, FS_CardinalityType DEF Number

LEMMA NumberNext ==
  ASSUME file \in Seq(Char), NEW e \in Ends
  PROVE  1 + Number(e - 1) = Number(e)
<1>1. Len(file) \in Nat /\ e \in Nat /\ \A d \in Ends : d \in 1 .. Len(file) /\ d \in Nat
  BY Numbers
<1>2. {d \in Ends : d <= e} = {d \in Ends : d <= e - 1} \cup {e}
  <2>1. e <= e /\ \A d \in Ends : d <= e <=> d <= e - 1 \/ d = e
    BY <1>1
  <2> QED
    BY <2>1
<1>3. e \notin {d \in Ends : d <= e - 1}
  BY <1>1
<1>4. IsFiniteSet({d \in Ends : d <= e - 1})
  <2>1. IsFiniteSet(1 .. Len(file))
    BY <1>1, FS_Interval
  <2>2. {d \in Ends : d <= e - 1} \in SUBSET (1 .. Len(file))
    BY <1>1
  <2> QED
    BY <2>1, <2>2, FS_Subset
<1>5. Cardinality({d \in Ends : d <= e - 1}) \in Nat
  BY <1>4, FS_CardinalityType
<1>6. Cardinality({d \in Ends : d <= e}) = Cardinality({d \in Ends : d <= e - 1}) + 1
  BY <1>2, <1>3, <1>4, FS_AddElement
<1> QED
  BY <1>5, <1>6 DEF Number

(* What is put together at the end of a line.                              *)
LEMMA AssignIs ==
  ASSUME file \in Seq(Char), NEW e \in Ends, NEW lost, NEW m \in Machine(lost, e - 1),
         NEW f \in 1 .. e - 1, Holds(m, f, e - 1), NEW q \in f .. e - 1, file[q] = "=",
         \A i \in f .. q - 1 : file[i] # "=", NEW behind, NEW name001,
         name001 = Old!trim(SubSeq(file, f, q - 1), behind)
  PROVE  Old!Assign(m, behind) =
           IF name001 = <<>> THEN m.options
           ELSE Old!cfg_set(m.options, name001, SubSeq(file, q + 1, e - 1))
<1> DEFINE b == Old!Store(m.buf, m.x, Nul)
           l == Old!StringAt(b, 0)
           I == {k \in 1 .. Len(l) : l[k] = "="}
           eq == IF I # {} THEN Min(I) ELSE 0
           i == IF eq = 0 THEN Len(l) ELSE eq - 1
<1>1. Old!Assign(m, behind) =
        IF Old!trim(SubSeq(l, 1, i), behind) = <<>> THEN m.options
        ELSE Old!cfg_set(m.options, Old!trim(SubSeq(l, 1, i), behind), Old!StringAt(b, i + 1))
  BY Zenon DEF Old!Assign, Old!SelectInSeq, Old!Min, Min
<1>2. m.buf \in Seq(OldByte) /\ m.x \in Nat
  BY DEF Machine
<1>6. PICK x \in Nat : x = m.x
  BY <1>2
<1>3. /\ e \in Nat /\ f \in Nat /\ q \in Nat /\ x = e - f /\ 1 <= f /\ f <= q /\ q <= e - 1
      /\ e - 1 <= Len(file)
      /\ x <= Len(m.buf) /\ \A k \in 1 .. x : m.buf[k] = file[f + k - 1]
  <2>1. e \in Nat /\ e - 1 <= Len(file) /\ m.x = (e - 1) - f + 1
    BY Numbers DEF Holds
  <2> QED
    BY <1>6, <2>1 DEF Holds
<1>4. /\ b \in Seq(OldByte) /\ Len(b) \in Nat /\ x + 1 <= Len(b) /\ Len(m.buf) <= Len(b)
      /\ b[x + 1] = Nul /\ \A k \in 1 .. Len(m.buf) : k # x + 1 => b[k] = m.buf[k]
  <2>1. Nul \in OldByte
    BY DEF OldByte
  <2>2. PICK buf \in Seq(OldByte) : buf = m.buf
    BY <1>2
  <2>3. /\ Old!Store(buf, x, Nul) \in Seq(OldByte) /\ Len(Old!Store(buf, x, Nul)) \in Nat
        /\ x + 1 <= Len(Old!Store(buf, x, Nul)) /\ Len(buf) <= Len(Old!Store(buf, x, Nul))
        /\ Old!Store(buf, x, Nul)[x + 1] = Nul
        /\ \A k \in 1 .. Len(buf) : k # x + 1 => Old!Store(buf, x, Nul)[k] = buf[k]
    BY <2>1, StoreIs
  <2> QED
    BY <1>6, <2>2, <2>3
<1> HIDE DEF b, l
<1>5. ASSUME NEW k \in 1 .. x PROVE b[k] = file[f + k - 1] /\ b[k] \in Char /\ b[k] # Nul
  <2>1. k \in 1 .. Len(m.buf) /\ k # x + 1 /\ f + k - 1 \in 1 .. Len(file)
    BY <1>2, <1>3
  <2>2. b[k] = file[f + k - 1] /\ file[f + k - 1] \in Char
    BY <1>3, <1>4, <2>1, Numbers
  <2> QED
    BY <2>2, ReleasesAssumption
<1>7. ASSUME NEW n \in 0 .. x
      PROVE  Old!StringAt(b, n) = SubSeq(file, f + n, e - 1)
  <2>1. n \in Nat /\ n <= x /\ \A k \in n + 1 .. x : k \in 1 .. x
    BY <1>6
  <2>2. Old!StringAt(b, n) = SubSeq(b, n + 1, x)
    <3>1. \A k \in n + 1 .. x : b[k] # Nul
      BY <1>5, <2>1
    <3> QED
      BY <1>4, <2>1, <3>1, StringIs
  <2>3. ASSUME NEW k \in n + 1 .. x
        PROVE  b[k] \in Char /\ b[k] = file[(f + n) + (k - (n + 1))]
    <3>1. k \in 1 .. x /\ f + k - 1 = (f + n) + (k - (n + 1))
      BY <1>3, <2>1
    <3> QED
      BY <1>5, <3>1
  <2>4. n + 1 \in Int /\ x \in Int /\ f + n \in Int /\ (f + n) + (x - (n + 1)) = e - 1
    BY <1>3, <1>6, <2>1
  <2>5. SubSeq(b, n + 1, x) = SubSeq(file, f + n, (f + n) + (x - (n + 1)))
    BY <2>3, <2>4, SameText
  <2> QED
    BY <2>2, <2>4, <2>5
<1>8. l = SubSeq(file, f, e - 1)
  <2>1. 0 \in 0 .. x /\ f + 0 = f
    BY <1>3, <1>6
  <2> QED
    BY <1>7, <2>1 DEF l
<1>9. /\ l \in Seq(Char) /\ Len(l) = e - f
      /\ \A k \in 1 .. e - f : l[k] = file[f + k - 1]
  <2>1. \A k \in f .. e - 1 : file[k] \in Char
    BY <1>3, Numbers
  <2>2. f <= (e - 1) + 1 /\ (e - 1) - f + 1 = e - f /\ f \in Int /\ e - 1 \in Int
    BY <1>3
  <2> QED
    BY <1>8, <2>1, <2>2, OnePart
<1>10. Min(I) = q - f + 1 /\ I # {}
  <2>1. q - f + 1 \in 1 .. Len(l) /\ Len(l) \in Nat
    BY <1>3, <1>9
  <2>2. l[q - f + 1] = "="
    <3>1. f + (q - f + 1) - 1 = q
      BY <1>3
    <3> QED
      BY <1>9, <2>1, <3>1
  <2>3. ASSUME NEW k \in 1 .. (q - f + 1) - 1 PROVE l[k] # "="
    <3>1. k \in 1 .. e - f /\ f + k - 1 \in f .. q - 1
      BY <1>3
    <3> QED
      BY <1>9, <3>1
  <2>4. Min(I) = q - f + 1
    BY <2>1, <2>2, <2>3, FirstInText
  <2> QED
    BY <2>1, <2>2, <2>4
<1> HIDE DEF I
<1>11. i = q - f
  BY <1>3, <1>10
<1> HIDE DEF i
<1>12. SubSeq(l, 1, i) = SubSeq(file, f, q - 1)
  <2>1. ASSUME NEW k \in 1 .. q - f PROVE l[k] \in Char /\ l[k] = file[f + (k - 1)]
    <3>1. k \in 1 .. e - f /\ f + k - 1 = f + (k - 1) /\ f + k - 1 \in 1 .. Len(file)
      BY <1>3
    <3> QED
      BY <1>9, <3>1, Numbers
  <2>2. q - f \in Int /\ f \in Int /\ f + ((q - f) - 1) = q - 1
    BY <1>3
  <2>3. SubSeq(l, 1, q - f) = SubSeq(file, f, f + ((q - f) - 1))
    BY <2>1, <2>2, SameText
  <2> QED
    BY <1>11, <2>2, <2>3
<1>13. Old!StringAt(b, i + 1) = SubSeq(file, q + 1, e - 1)
  <2>1. i + 1 \in 0 .. x /\ f + (i + 1) = q + 1
    BY <1>3, <1>11
  <2> QED
    BY <1>7, <2>1
<1> QED
  BY <1>1, <1>12, <1>13

(* A line of a simple file gives its option the value that it means, if    *)
(* its name has not been spoilt.                                           *)
LEMMA OldAssigns ==
  ASSUME file \in Seq(Char), SimpleFile, NEW lost, NEW e \in Ends,
         NEW m \in Machine(lost, e - 1), Typing(m, e - 1),
         NEW behind, behind = IF m.line \in lost THEN <<"garbage">> ELSE <<>>
  PROVE  KeptAt(lost, e) = Old!Assign(m, behind)
<1>1. PICK f \in First(e - 1) .. e - 1 : Opens(f, e - 1) /\ Holds(m, f, e - 1)
  BY DEF Typing
<1>2. /\ e \in Nat /\ e - 1 \in Nat /\ e - 1 \in 0 .. Len(file) /\ e \in 0 .. Len(file)
      /\ e \in 1 .. Len(file) /\ e - 1 < e /\ e - 1 <= e
      /\ First(e - 1) \in Nat \ {0} /\ f \in 1 .. e - 1 /\ f \in Nat /\ Start(e) = First(e - 1)
  <2>1. e \in Nat /\ e - 1 \in Nat /\ e - 1 \in 0 .. Len(file) /\ e \in 0 .. Len(file)
        /\ e \in 1 .. Len(file) /\ e - 1 < e /\ e - 1 <= e
    BY Numbers
  <2>2. First(e - 1) \in 1 .. (e - 1) + 1 /\ Start(e) = First(e - 1)
    BY <2>1, FirstIs, StartIs
  <2> QED
    BY <2>1, <2>2
<1>3. Simple(e) /\ \A i \in DOMAIN file : file[i] # "\\"
  BY DEF SimpleFile
<1>4. PICK q \in f .. e - 1 : file[q] = "=" /\ \A i \in f .. q - 1 : file[i] # "="
  BY <1>1, <1>3, SimpleLine
<1>5. m.options = KeptAt(lost, e - 1) /\ m.line = Number(e)
  <2>1. m.options = KeptAt(lost, e - 1) /\ m.line = 1 + Number(e - 1)
    BY DEF Machine
  <2> QED
    BY <2>1, NumberNext
<1>6. \A i \in (e - 1) + 1 .. e - 1 : i \notin Ends
  BY <1>2
<1>7. ~Assigns(e) \/ Number(e) \in lost => KeptAt(lost, e) = m.options
  <2>1. \A i \in (e - 1) + 1 .. e : i = e
    BY <1>2
  <2> QED
    BY <1>2, <1>5, <2>1, SameLines
<1>8. Assigns(e) /\ Number(e) \notin lost =>
        KeptAt(lost, e) = With(m.options, NameIn(e), CString(ValueIn(e)))
  BY <1>2, <1>5, <1>6, OneLineMore
<1> DEFINE name001 == Old!trim(SubSeq(file, f, q - 1), behind)
<1>9. Old!Assign(m, behind) =
        IF name001 = <<>> THEN m.options
        ELSE Old!cfg_set(m.options, name001, SubSeq(file, q + 1, e - 1))
  BY <1>1, <1>2, <1>4, AssignIs
<1> HIDE DEF name001
<1>10. CASE q = f
  <2>1. name001 = <<>>
    <3>1. f \in Int /\ f - 1 \in Int /\ f - 1 < f
      BY <1>2
    <3>2. SubSeq(file, f, f - 1) = <<>>
      BY <3>1, SubSeqEmpty
    <3> QED
      BY <1>10, <3>2, TrimNothing DEF name001
  <2>2. ASSUME Assigns(e) PROVE NameIn(e) \notin Known
    <3>1. Equals(e) \in Nat /\ Equals(e) - 1 \in f .. Len(file)
      <4>1. EqualsIn(First(e - 1), e - 1) \in SUBSET Nat /\ EqualsIn(First(e - 1), e - 1) # {}
        BY <1>2, <2>2 DEF Assigns, EqualsIn
      <4>2. \E i \in EqualsIn(First(e - 1), e - 1) :
              \A y \in EqualsIn(First(e - 1), e - 1) : i <= y
        BY <4>1, LeastNumber
      <4>3. Equals(e) \in EqualsIn(First(e - 1), e - 1)
        BY <1>2, <4>2 DEF Equals, Min
      <4>4. Equals(e) \in First(e - 1) .. e - 1 /\ Letters(First(e - 1), Equals(e) - 1) # {}
        BY <4>3 DEF EqualsIn
      <4>5. ~(Equals(e) <= f)
        <5>1. Letters(First(e - 1), f - 1) = {}
          BY <1>1 DEF Opens
        <5>2. Equals(e) <= f =>
                Letters(First(e - 1), Equals(e) - 1) \subseteq Letters(First(e - 1), f - 1)
          BY <1>2, <4>4 DEF Letters
        <5> QED
          BY <4>4, <5>1, <5>2
      <4> QED
        BY <1>2, <4>4, <4>5
    <3>2. 1 \in DOMAIN NameIn(e) /\ NameIn(e)[1] = "="
      <4>1. f \in First(e - 1) .. Len(file) /\ file[f] # "blank"
            /\ Letters(First(e - 1), f - 1) = {} /\ file[f] = "="
        BY <1>1, <1>2, <1>4, <1>10 DEF Opens
      <4>2. /\ 1 \in DOMAIN NoBlanks(First(e - 1), Equals(e) - 1)
            /\ NoBlanks(First(e - 1), Equals(e) - 1)[1] = file[f]
        BY <1>2, <3>1, <4>1, NameHead
      <4> QED
        BY <1>2, <4>1, <4>2 DEF NameIn
    <3>3. \A n \in Known : 1 \in DOMAIN n => n[1] # "="
      BY ReleasesAssumption
    <3> QED
      BY <3>2, <3>3
  <2> QED
    BY <1>7, <1>8, <1>9, <2>1, <2>2 DEF With
<1>11. CASE q # f
  <2>1. q \in f + 1 .. e - 1 /\ q \in Nat
    BY <1>2, <1>11
  <2>2. Assigns(e) /\ Equals(e) = q
    BY <1>1, <1>3, <1>4, <2>1, NamedLine
  <2>3. PICK j \in f .. q - 1 :
          /\ NameIn(e) = SubSeq(file, f, j)
          /\ \A i \in f .. q - 1 : file[i] # "blank" <=> i \in f .. j
    BY <1>1, <1>3, <1>4, <2>1, NamedLine
  <2> DEFINE n == j - f + 1
             s == SubSeq(file, f, q - 1)
             word == SubSeq(file, f, j)
  <2>4. \A i \in f .. e - 1 : i \in 1 .. Len(file) /\ file[i] \in Char
    BY <1>2, Numbers
  <2>5. /\ s \in Seq(Char) /\ Len(s) = q - f
        /\ \A k \in 1 .. q - f : s[k] = file[f + k - 1]
    <3>1. f \in Int /\ q - 1 \in Int /\ f <= (q - 1) + 1 /\ (q - 1) - f + 1 = q - f
          /\ \A i \in f .. q - 1 : file[i] \in Char
      BY <1>2, <2>1, <2>4
    <3> QED
      BY <3>1, OnePart
  <2>6. /\ word \in Seq(Char) /\ Len(word) = n /\ n \in 1 .. Len(s)
    <3>1. f \in Int /\ j \in Int /\ f <= j + 1 /\ n \in 1 .. q - f
          /\ \A i \in f .. j : file[i] \in Char
      BY <1>2, <2>1, <2>4
    <3> QED
      BY <2>5, <3>1, OnePart
  <2>7. SubSeq(s, 1, n) = word
    <3>1. ASSUME NEW k \in 1 .. n PROVE s[k] \in Char /\ s[k] = file[f + (k - 1)]
      <4>1. k \in 1 .. q - f /\ f + k - 1 = f + (k - 1) /\ f + k - 1 \in f .. e - 1
        BY <1>2, <2>1
      <4> QED
        BY <2>4, <2>5, <4>1
    <3>2. n \in Int /\ f \in Int /\ f + (n - 1) = j
      BY <1>2, <2>1
    <3> HIDE DEF n, s
    <3>3. SubSeq(s, 1, n) = SubSeq(file, f, f + (n - 1))
      BY <3>1, <3>2, SameText
    <3> QED
      BY <3>2, <3>3
  <2>8. ASSUME NEW k \in 1 .. Len(s) PROVE s[k] # "blank" <=> k \in 1 .. n
    <3>4. k \in 1 .. q - f
      BY <2>5
    <3>1. k \in 1 .. q - f /\ f + k - 1 \in f .. q - 1
      BY <1>2, <2>1, <3>4
    <3>2. f + k - 1 \in f .. j <=> k \in 1 .. n
      <4>1. j \in Nat /\ k \in Nat /\ 1 <= k
        BY <1>2, <2>1, <3>1
      <4> QED
        BY <1>2, <4>1
    <3>3. s[k] = file[f + k - 1]
      BY <2>5, <3>1
    <3> HIDE DEF n, s
    <3> QED
      BY <2>3, <3>1, <3>2, <3>3
  <2> HIDE DEF n, s, word
  <2>9. name001 = word \o behind
    <3>1. name001 = Old!trim(s, behind)
      BY DEF name001, s
    <3>2. Old!trim(s, behind) = SubSeq(s, 1, n) \o behind
      BY <2>5, <2>6, <2>8, TrimWord
    <3> QED
      BY <2>7, <3>1, <3>2
  <2>10. name001 # <<>> /\ (m.line \in lost => name001 \notin Known)
         /\ (m.line \notin lost => name001 = word)
    <3>1. n \in Nat /\ n # 0 /\ word # <<>>
      BY <2>5, <2>6
    <3>2. CASE m.line \in lost
      <4> DEFINE Part == Char \cup {"garbage"}
                 one == <<"garbage">>
      <4>1. word \in Seq(Part) /\ one \in Seq(Part) /\ Len(one) = 1 /\ one[1] = "garbage"
        BY <2>6
      <4>2. name001 = word \o one
        BY <2>9, <3>2
      <4> HIDE DEF one, Part
      <4>3. /\ name001 \in Seq(Part) /\ Len(name001) = n + 1
            /\ \A i \in 1 .. n + 1 : name001[i] = IF i <= n THEN word[i] ELSE one[i - n]
        <5>1. Len(word) = n
          BY <2>6
        <5>2. /\ word \o one \in Seq(Part) /\ Len(word \o one) = Len(word) + Len(one)
              /\ \A i \in 1 .. Len(word) + Len(one) :
                   (word \o one)[i] = IF i <= Len(word) THEN word[i] ELSE one[i - Len(word)]
          BY <4>1, ConcatProperties
        <5> QED
          BY <4>1, <4>2, <5>1, <5>2
      <4>4. n + 1 \in 1 .. Len(name001) /\ name001[n + 1] = "garbage"
        <5>1. n + 1 \in 1 .. n + 1 /\ ~(n + 1 <= n) /\ (n + 1) - n = 1
          BY <3>1
        <5> QED
          BY <4>1, <4>3, <5>1
      <4>5. ASSUME NEW k \in Known, NEW i \in 1 .. Len(k) PROVE k[i] # "garbage"
        <5>1. k \in Seq(Char)
          BY ReleasesAssumption
        <5>2. k[i] \in Char
          BY <5>1
        <5> QED
          BY <5>2, ReleasesAssumption
      <4>6. name001 # <<>>
        BY <3>1, <4>3
      <4> QED
        BY <3>2, <4>4, <4>5, <4>6
    <3>3. CASE m.line \notin lost
      <4>1. word \o <<>> = word
        BY <2>6, ConcatEmptySeq
      <4> QED
        BY <2>9, <3>1, <3>3, <4>1
    <3> QED
      BY <3>2, <3>3
  <2>11. CString(ValueIn(e)) = SubSeq(file, q + 1, e - 1)
    <3>1. q + 1 \in 1 .. (e - 1) + 1 /\ q + 1 \in Int /\ e - 1 \in Int
          /\ \A i \in q + 1 .. e - 1 : file[i] \in Char
      BY <1>2, <2>1, <2>4
    <3>2. ValueIn(e) = SubSeq(file, q + 1, e - 1)
      BY <1>2, <1>3, <2>2, <3>1, PlainMeaning DEF ValueIn
    <3>3. SubSeq(file, q + 1, e - 1) \in Seq(Char)
      BY <3>1, OnePart
    <3> QED
      BY <3>2, <3>3, PlainString
  <2>12. Old!cfg_set(m.options, name001, SubSeq(file, q + 1, e - 1)) =
           With(m.options, name001, SubSeq(file, q + 1, e - 1))
    BY DEF Old!cfg_set, With
  <2>13. CASE Number(e) \in lost
    <3>1. With(m.options, name001, SubSeq(file, q + 1, e - 1)) = m.options
      BY <1>5, <2>10, <2>13 DEF With
    <3> QED
      BY <1>7, <1>9, <2>12, <2>13, <3>1
  <2>14. CASE Number(e) \notin lost
    <3>1. name001 = NameIn(e)
      BY <1>5, <2>3, <2>10, <2>14 DEF word
    <3> QED
      BY <1>8, <1>9, <2>2, <2>10, <2>11, <2>12, <2>14, <3>1
  <2> QED
    BY <2>13, <2>14
<1> QED
  BY <1>10, <1>11

LEMMA AssignNothing ==
  ASSUME NEW lost, NEW p, NEW m \in Machine(lost, p), m.x = 0, NEW behind
  PROVE  Old!Assign(m, behind) = m.options
<1> DEFINE b == Old!Store(m.buf, m.x, Nul)
           l == Old!StringAt(b, 0)
           I == {k \in 1 .. Len(l) : l[k] = "="}
           eq == IF I # {} THEN Min(I) ELSE 0
           i == IF eq = 0 THEN Len(l) ELSE eq - 1
<1>1. Old!Assign(m, behind) =
        IF Old!trim(SubSeq(l, 1, i), behind) = <<>> THEN m.options
        ELSE Old!cfg_set(m.options, Old!trim(SubSeq(l, 1, i), behind), Old!StringAt(b, i + 1))
  BY Zenon DEF Old!Assign, Old!SelectInSeq, Old!Min, Min
<1>2. PICK buf \in Seq(OldByte) : buf = m.buf
  BY DEF Machine
<1>3. b \in Seq(OldByte) /\ Len(b) \in Nat /\ 0 + 1 <= Len(b) /\ b[0 + 1] = Nul
  <2>1. Nul \in OldByte
    BY DEF OldByte
  <2>2. /\ Old!Store(buf, 0, Nul) \in Seq(OldByte) /\ Len(Old!Store(buf, 0, Nul)) \in Nat
        /\ 0 + 1 <= Len(Old!Store(buf, 0, Nul)) /\ Old!Store(buf, 0, Nul)[0 + 1] = Nul
    BY <2>1, StoreIs
  <2> QED
    BY <1>2, <2>2
<1> HIDE DEF b
<1>4. l = <<>>
  <2>1. ASSUME NEW n \in Nat, n = 0 PROVE Old!StringAt(b, n) = <<>>
    <3>1. n <= n /\ n + 1 <= Len(b) /\ b[n + 1] = Nul
      BY <1>3, <2>1
    <3>2. \A k \in n + 1 .. n : b[k] # Nul
      OBVIOUS
    <3>3. Old!StringAt(b, n) = SubSeq(b, n + 1, n)
      BY <1>3, <3>1, <3>2, StringIs
    <3>4. n + 1 \in Int /\ n \in Int /\ n < n + 1
      OBVIOUS
    <3>5. SubSeq(b, n + 1, n) = <<>>
      BY <3>4, SubSeqEmpty
    <3> QED
      BY <3>3, <3>5
  <2> QED
    BY <2>1 DEF l
<1> HIDE DEF l
<1>5. I = {} /\ Len(l) = 0
  BY <1>4
<1>6. SubSeq(l, 1, i) = <<>>
  <2>1. i = 0
    BY <1>5
  <2>2. SubSeq(l, 1, 0) = <<>>
    BY SubSeqEmpty
  <2> QED
    BY <2>1, <2>2
<1> QED
  BY <1>1, <1>6, TrimNothing

(* A character within a line.                                              *)
LEMMA OldStays ==
  ASSUME file \in Seq(Char), NEW lost, NEW p \in 0 .. Len(file), p # Len(file),
         file[p + 1] # "newline"
  PROVE  /\ Machine(lost, p + 1) = Machine(lost, p)
         /\ (\A e \in Ends : e <= p) => (\A e \in Ends : e <= p + 1)
<1>1. p \in Nat /\ p + 1 \in 0 .. Len(file) /\ p + 1 \notin Ends /\ \A e \in Ends : e \in Nat
  <2>1. p \in Nat /\ p + 1 \in 0 .. Len(file)
    BY SameFirst
  <2>2. p + 1 \notin Ends
    BY DEF Ends
  <2>3. \A e \in Ends : e \in Nat
    <3>1. Len(file) \in Nat /\ Ends \subseteq 1 .. Len(file)
      BY Numbers
    <3> QED
      BY <3>1
  <2> QED
    BY <2>1, <2>2, <2>3
<1>2. \A e \in Ends : e <= p <=> e <= p + 1
  BY <1>1
<1>3. Number(p + 1) = Number(p)
  <2>1. {d \in Ends : d <= p} = {d \in Ends : d <= p + 1}
    BY <1>2
  <2> QED
    BY <2>1 DEF Number
<1>4. KeptAt(lost, p + 1) = KeptAt(lost, p)
  <2>1. p <= p + 1 /\ \A i \in p + 1 .. p + 1 : i \notin Ends
    BY <1>1
  <2> QED
    BY <1>1, <2>1, SameLines
<1> QED
  BY <1>2, <1>3, <1>4 DEF Machine

(* A line that is too long for the buffer is not complete.                 *)
LEMMA OldTooLong ==
  ASSUME file \in Seq(Char), SimpleFile, NEW p \in 0 .. Len(file),
         NEW f \in First(p) .. p, Opens(f, p), p - f >= BufSize
  PROVE  \A e \in Ends : e <= p
<1>1. p \in Nat /\ f \in Nat /\ \A e \in Ends : e \in Nat
  BY Numbers, FirstIs
<1> SUFFICES ASSUME NEW c \in Ends, ~(c <= p) PROVE FALSE
  OBVIOUS
<1>2. PICK e \in Ends : e > p /\ \A d \in Ends : d > p => e <= d
  <2> DEFINE S == {d \in Ends : d > p}
  <2>1. S \in SUBSET Nat /\ c \in S
    BY <1>1
  <2>2. \E n \in S : \A y \in S : n <= y
    <3> HIDE DEF S
    <3> QED
      BY <2>1, LeastNumber
  <2> QED
    BY <2>2
<1>3. e \in Nat /\ e - 1 \in 0 .. Len(file) /\ p <= e - 1 /\ \A i \in p + 1 .. e - 1 : i \notin Ends
  <2>1. e \in Nat /\ e - 1 \in 0 .. Len(file) /\ p <= e - 1
    BY <1>1, <1>2, Numbers
  <2>2. ASSUME NEW i \in p + 1 .. e - 1, i \in Ends PROVE FALSE
    <3>1. i \in Nat /\ i > p /\ ~(e <= i)
      BY <1>1, <2>1, <2>2
    <3> QED
      BY <1>2, <2>2, <3>1
  <2> QED
    BY <2>1, <2>2
<1>4. First(e - 1) = First(p)
  BY <1>3, FirstStays
<1>5. f \in First(e - 1) .. e - 1 /\ Opens(f, e - 1)
  <2>1. First(p) \in Nat
    BY FirstIs
  <2> QED
    BY <1>1, <1>3, <1>4, <2>1 DEF Opens
<1>6. e - f < BufSize
  BY <1>5, SimpleLine DEF SimpleFile
<1> QED
  BY <1>1, <1>2, <1>3, <1>6, ReleasesAssumption

LEMMA OldWrites ==
  ASSUME file \in Seq(Char), SimpleFile, NEW lost, NEW p \in 0 .. Len(file), p # Len(file),
         file[p + 1] # "newline", NEW m \in Machine(lost, p), ~m.failed, ~m.comment,
         NEW f \in First(p) .. p + 1, Opens(f, p + 1), m.x = p + 1 - f, m.x <= Len(m.buf),
         \A k \in 1 .. m.x : m.buf[k] = file[f + k - 1],
         m.typing \/ file[p + 1] \notin {"blank", "#"}
  PROVE  OldInv(Old!Turn001(m, file[p + 1], lost), lost, p + 1)
<1> DEFINE c == file[p + 1]
           t == Old!Turn001(m, c, lost)
<1>1. /\ p \in Nat /\ p + 1 \in 0 .. Len(file) /\ p + 1 \in 1 .. Len(file) /\ First(p + 1) = First(p)
      /\ First(p) \in Nat /\ f \in Nat /\ c \in Char /\ Machine(lost, p + 1) = Machine(lost, p)
  <2>1. p \in Nat /\ p + 1 \in 0 .. Len(file) /\ p + 1 \in 1 .. Len(file) /\ First(p + 1) = First(p)
        /\ First(p) \in Nat
    BY SameFirst
  <2>2. f \in Nat
    BY <2>1
  <2>3. c \in Char
    BY <2>1, Numbers
  <2> QED
    BY <2>1, <2>2, <2>3, OldStays
<1>2. c # "newline" /\ (m.typing \/ c \notin {"blank", "#"})
  OBVIOUS
<1> HIDE DEF c
<1>3. t = IF m.x > BufSize - 1 THEN [m EXCEPT !.typing = TRUE, !.failed = TRUE]
          ELSE [m EXCEPT !.typing = TRUE, !.buf = Old!Store(m.buf, m.x, c), !.x = m.x + 1]
  BY <1>2, Zenon DEF Old!Turn001
<1> HIDE DEF t
<1>4. PICK x \in Nat : x = m.x
  BY DEF Machine
<1>5. CASE x > BufSize - 1
  <2>1. t = [m EXCEPT !.typing = TRUE, !.failed = TRUE]
    BY <1>3, <1>4, <1>5
  <2>2. t \in Machine(lost, p) /\ t.failed
    BY <2>1 DEF Machine
  <2>3. \A e \in Ends : e <= p + 1
    <3>1. f \in First(p + 1) .. p + 1 /\ (p + 1) - f >= BufSize
      BY <1>1, <1>4, <1>5, ReleasesAssumption
    <3> QED
      BY <1>1, <3>1, OldTooLong
  <2> QED
    BY <1>1, <2>2, <2>3 DEF OldInv, t, c
<1>6. CASE ~(x > BufSize - 1)
  <2> DEFINE b == Old!Store(m.buf, x, c)
  <2>1. t = [m EXCEPT !.typing = TRUE, !.buf = b, !.x = x + 1]
    BY <1>3, <1>4, <1>6
  <2>2. PICK buf \in Seq(OldByte) : buf = m.buf
    BY DEF Machine
  <2>3. c \in OldByte
    BY <1>1 DEF OldByte
  <2>4. /\ Old!Store(buf, x, c) \in Seq(OldByte) /\ Len(Old!Store(buf, x, c)) \in Nat
        /\ x + 1 <= Len(Old!Store(buf, x, c)) /\ Len(buf) <= Len(Old!Store(buf, x, c))
        /\ Old!Store(buf, x, c)[x + 1] = c
        /\ \A k \in 1 .. Len(buf) : k # x + 1 => Old!Store(buf, x, c)[k] = buf[k]
    BY <2>3, StoreIs
  <2>5. /\ b \in Seq(OldByte) /\ Len(b) \in Nat /\ x + 1 <= Len(b) /\ b[x + 1] = c
        /\ \A k \in 1 .. Len(m.buf) : k # x + 1 => b[k] = m.buf[k]
    BY <2>2, <2>4
  <2> HIDE DEF b
  <2>6. /\ t \in Machine(lost, p) /\ t.typing /\ ~t.comment /\ ~t.failed /\ t.x = x + 1 /\ t.buf = b
    <3>1. t = [buf |-> b, x |-> x + 1, typing |-> TRUE, comment |-> m.comment, line |-> m.line,
               failed |-> m.failed, overrun |-> m.overrun, options |-> m.options]
      BY <2>1 DEF Machine
    <3>2. /\ m.comment \in BOOLEAN /\ m.line \in {1 + Number(p)} /\ m.failed \in BOOLEAN
          /\ m.overrun \in BOOLEAN /\ m.options \in {KeptAt(lost, p)}
      BY DEF Machine
    <3>3. t \in Machine(lost, p)
      BY <2>5, <3>1, <3>2 DEF Machine
    <3> QED
      BY <3>1, <3>3
  <2>7. Holds(t, f, p + 1)
    <3>1. x + 1 = (p + 1) - f + 1
      BY <1>1, <1>4
    <3>2. ASSUME NEW k \in 1 .. x + 1 PROVE b[k] = file[f + k - 1]
      <4>1. CASE k = x + 1
        <5>1. f + k - 1 = p + 1
          BY <1>1, <1>4, <4>1
        <5> QED
          BY <2>5, <4>1, <5>1 DEF c
      <4>2. CASE k # x + 1
        <5>1. k \in 1 .. x /\ k \in 1 .. Len(m.buf)
          BY <1>4, <2>2, <4>2
        <5> QED
          BY <1>4, <2>5, <4>2, <5>1
      <4> QED
        BY <4>1, <4>2
    <3> QED
      BY <2>5, <2>6, <3>1, <3>2 DEF Holds
  <2>8. Typing(t, p + 1)
    BY <1>1, <2>7 DEF Typing
  <2> QED
    BY <1>1, <2>6, <2>8 DEF OldInv, t, c
<1> QED
  BY <1>4, <1>5, <1>6

(* One turn of its loop.                                                   *)
LEMMA OldTurn ==
  ASSUME file \in Seq(Char), SimpleFile, NEW lost, NEW p \in 0 .. Len(file), p # Len(file),
         file[p + 1] # "newline", NEW m, OldInv(m, lost, p)
  PROVE  OldInv(Old!Turn001(m, file[p + 1], lost), lost, p + 1)
<1> DEFINE c == file[p + 1]
           t == Old!Turn001(m, c, lost)
<1>1. /\ p \in Nat /\ p + 1 \in 1 .. Len(file) /\ p + 1 \in 0 .. Len(file)
      /\ First(p + 1) = First(p) /\ First(p) \in 1 .. p + 1 /\ First(p) \in Nat
      /\ First(p) .. p + 1 = (First(p) .. p) \cup {p + 1}
  BY SameFirst
<1>2. /\ Machine(lost, p + 1) = Machine(lost, p)
      /\ (\A e \in Ends : e <= p) => (\A e \in Ends : e <= p + 1)
  BY OldStays
<1>3. m \in Machine(lost, p)
  BY DEF OldInv
<1>4. m.comment \in BOOLEAN /\ m.typing \in BOOLEAN /\ m.failed \in BOOLEAN
  BY <1>3 DEF Machine
<1>5. CASE m.failed
  <2>1. t = m
    BY <1>5, Zenon DEF Old!Turn001
  <2>2. \A e \in Ends : e <= p + 1
    BY <1>2, <1>5 DEF OldInv
  <2> QED
    BY <1>2, <1>3, <1>5, <2>1, <2>2 DEF OldInv
<1>6. CASE ~m.failed /\ m.comment
  <2>1. t = m
    BY <1>6, Zenon DEF Old!Turn001
  <2>2. ~m.typing /\ m.x = 0 /\ IsComment(First(p), p)
    BY <1>6 DEF OldInv
  <2>3. IsComment(First(p + 1), p + 1)
    BY <2>2, CommentOn
  <2> QED
    BY <1>2, <1>3, <1>6, <2>1, <2>2, <2>3 DEF OldInv
<1>7. CASE ~m.failed /\ ~m.comment /\ ~m.typing
  <2>1. m.x = 0 /\ AtNothing(p, <<>>)
    BY <1>7 DEF OldInv, AtNothing
  <2>2. CASE c = "blank"
    <3>1. t = m
      BY <1>7, <2>2, Zenon DEF Old!Turn001
    <3>2. AtNothing(p + 1, <<>>)
      BY <2>1, <2>2, NothingOn
    <3> QED
      BY <1>2, <1>3, <1>7, <2>1, <3>1, <3>2 DEF OldInv, AtNothing
  <2>3. CASE c = "#"
    <3>1. t = [m EXCEPT !.comment = TRUE]
      <4>1. c # "blank"
        BY <2>3
      <4> HIDE DEF c
      <4> QED
        BY <1>7, <2>3, <4>1, Zenon DEF Old!Turn001
    <3>2. IsComment(First(p + 1), p + 1)
      BY <2>1, <2>3, CommentBegins
    <3> HIDE DEF t
    <3>3. t \in Machine(lost, p) /\ t.comment /\ t.typing = m.typing /\ t.failed = m.failed
          /\ t.x = m.x
      BY <1>3, <3>1 DEF Machine
    <3> QED
      BY <1>2, <1>7, <2>1, <3>2, <3>3 DEF OldInv, t
  <2>4. CASE c \notin {"blank", "#"}
    <3>1. p + 1 \in First(p) .. p + 1 /\ (p + 1) - 1 = p /\ p + 1 - (p + 1) = 0
      BY <1>1
    <3>2. Opens(p + 1, p + 1)
      BY <1>1, <2>1, <2>4, <3>1 DEF Opens, AtNothing
    <3>3. m.x = p + 1 - (p + 1) /\ m.x <= Len(m.buf)
          /\ \A k \in 1 .. m.x : m.buf[k] = file[(p + 1) + k - 1]
      <4>1. PICK buf \in Seq(OldByte) : buf = m.buf
        BY <1>3 DEF Machine
      <4>2. 0 <= Len(buf)
        OBVIOUS
      <4> QED
        BY <2>1, <3>1, <4>1, <4>2
    <3> QED
      BY <1>3, <1>7, <2>4, <3>1, <3>2, <3>3, OldWrites
  <2> QED
    BY <2>2, <2>3, <2>4
<1>8. CASE ~m.failed /\ ~m.comment /\ m.typing
  <2>1. PICK f \in First(p) .. p : Opens(f, p) /\ Holds(m, f, p)
    BY <1>8 DEF OldInv, Typing
  <2>2. f \in First(p) .. p + 1 /\ Opens(f, p + 1) /\ p - f + 1 = p + 1 - f
    BY <1>1, <2>1 DEF Opens
  <2> QED
    BY <1>3, <1>8, <2>1, <2>2, OldWrites DEF Holds
<1> QED
  BY <1>4, <1>5, <1>6, <1>7, <1>8

LEMMA OldEnd ==
  ASSUME file \in Seq(Char), SimpleFile, NEW lost, NEW e \in Ends, NEW m, OldInv(m, lost, e - 1)
  PROVE  OldInv(Old!Turn001(m, file[e], lost), lost, e)
<1> DEFINE behind == IF m.line \in lost THEN <<"garbage">> ELSE <<>>
           t == Old!Turn001(m, file[e], lost)
<1>1. /\ e \in Nat /\ e - 1 \in Nat /\ e - 1 \in 0 .. Len(file) /\ e \in 0 .. Len(file)
      /\ e \in 1 .. Len(file) /\ ~(e <= e - 1) /\ e - 1 <= e /\ (e - 1) + 1 = e
  BY Numbers
<1>2. file[e] = "newline"
  BY DEF Ends
<1>3. m \in Machine(lost, e - 1)
  BY DEF OldInv
<1>4. /\ m.comment \in BOOLEAN /\ m.typing \in BOOLEAN /\ m.failed \in BOOLEAN
      /\ m.overrun \in BOOLEAN /\ m.x \in Nat /\ m.line = 1 + Number(e - 1)
      /\ m.options = KeptAt(lost, e - 1)
  BY <1>3 DEF Machine
<1>5. ~m.failed
  BY <1>1 DEF OldInv
<1> HIDE DEF behind
<1>6. t = Old!EndLine(m, behind)
  BY <1>2, <1>5, Zenon DEF Old!Turn001, behind
<1> HIDE DEF t
<1>7. KeptAt(lost, e) = IF m.comment THEN m.options ELSE Old!Assign(m, behind)
  <2>1. ASSUME ~Assigns(e) PROVE KeptAt(lost, e) = m.options
    <3>1. \A i \in (e - 1) + 1 .. e : i = e
      BY <1>1
    <3> QED
      BY <1>1, <1>4, <2>1, <3>1, SameLines
  <2>2. CASE m.comment
    <3>1. IsComment(First(e - 1), e - 1)
      BY <1>5, <2>2 DEF OldInv
    <3>2. ~Assigns(e)
      BY <1>1, <3>1, NothingAssigned
    <3> QED
      BY <2>1, <2>2, <3>2
  <2>3. CASE ~m.comment /\ ~m.typing
    <3>1. m.x = 0 /\ Letters(First(e - 1), e - 1) = {}
      BY <1>5, <2>3 DEF OldInv
    <3>2. ~Assigns(e)
      BY <1>1, <3>1, NothingAssigned
    <3>3. Old!Assign(m, behind) = m.options
      BY <1>3, <3>1, AssignNothing
    <3> QED
      BY <2>1, <2>3, <3>2, <3>3
  <2>4. CASE ~m.comment /\ m.typing
    <3>1. Typing(m, e - 1)
      BY <1>5, <2>4 DEF OldInv
    <3>2. KeptAt(lost, e) = Old!Assign(m, behind)
      BY <1>3, <3>1, OldAssigns DEF behind
    <3> QED
      BY <2>4, <3>2
  <2> QED
    BY <1>4, <2>2, <2>3, <2>4
<1> DEFINE b == Old!Store(IF m.comment THEN m.buf ELSE Old!Store(m.buf, m.x, Nul), 0, Nul)
           o == IF m.comment THEN m.options ELSE Old!Assign(m, behind)
           v == m.overrun \/ m.x >= BufSize
<1>8. b \in Seq(OldByte)
  <2>1. PICK buf \in Seq(OldByte) : buf = m.buf
    BY <1>3 DEF Machine
  <2>2. PICK x \in Nat : x = m.x
    BY <1>4
  <2>3. Nul \in OldByte
    BY DEF OldByte
  <2>4. \A one \in Seq(OldByte) : \A n \in Nat : Old!Store(one, n, Nul) \in Seq(OldByte)
    BY <2>3, StoreIs
  <2>5. Old!Store(buf, x, Nul) \in Seq(OldByte) /\ 0 \in Nat
    BY <2>4
  <2>6. (IF m.comment THEN m.buf ELSE Old!Store(m.buf, m.x, Nul)) \in Seq(OldByte)
    BY <2>1, <2>2, <2>5
  <2> QED
    BY <2>4, <2>5, <2>6
<1>9. v \in BOOLEAN
  BY <1>4
<1>10. t = [[m EXCEPT !.options = o, !.overrun = v, !.buf = b, !.x = 0, !.typing = FALSE,
                      !.line = m.line + 1] EXCEPT !.comment = FALSE]
  BY <1>6, Zenon DEF Old!EndLine, Old!TakeLine
<1> HIDE DEF b, o, v
<1>11. t = [buf |-> b, x |-> 0, typing |-> FALSE, comment |-> FALSE, line |-> m.line + 1,
            failed |-> m.failed, overrun |-> v, options |-> o]
  BY <1>3, <1>10 DEF Machine
<1>12. o = KeptAt(lost, e) /\ m.line + 1 = 1 + Number(e)
  <2>1. Number(e) = 1 + Number(e - 1)
    BY NumberNext
  <2>2. Number(e - 1) \in Nat
    BY <1>1, NumberTyped
  <2> QED
    BY <1>4, <1>7, <2>1, <2>2 DEF o
<1>13. t \in Machine(lost, e)
  BY <1>4, <1>8, <1>9, <1>11, <1>12 DEF Machine
<1>14. ~t.failed /\ ~t.comment /\ ~t.typing /\ t.x = 0
  BY <1>5, <1>11
<1>15. Letters(First(e), e) = {}
  BY LineEnds DEF AtNothing
<1> QED
  BY <1>13, <1>14, <1>15 DEF OldInv, t

LEMMA OldStarts ==
  ASSUME file \in Seq(Char), NEW lost
  PROVE  OldInv(Old!Begins, lost, 0)
<1> DEFINE t == Old!Begins
<1>1. 0 \in 0 .. Len(file) /\ \A e \in Ends : ~(e <= 0)
  BY Numbers
<1>2. Number(0) = 0
  <2>1. {d \in Ends : d <= 0} = {}
    BY <1>1
  <2> QED
    BY <2>1, FS_EmptySet DEF Number
<1>3. KeptAt(lost, 0) = [o \in {} |-> <<>>]
  <2>1. \A o : AssigningTo(lost, 0, o) = {}
    BY <1>1 DEF AssigningTo
  <2> QED
    BY <2>1 DEF KeptAt
<1>4. Letters(First(0), 0) = {}
  <2>1. First(0) \in 1 .. 0 + 1
    BY <1>1, FirstIs
  <2> QED
    BY <2>1 DEF Letters
<1>5. t = [buf |-> <<>>, x |-> 0, typing |-> FALSE, comment |-> FALSE, line |-> 1,
           failed |-> FALSE, overrun |-> FALSE, options |-> KeptAt(lost, 0)]
  BY <1>3 DEF Old!Begins
<1> HIDE DEF t
<1>6. <<>> \in Seq(OldByte) /\ 1 \in {1 + Number(0)} /\ KeptAt(lost, 0) \in {KeptAt(lost, 0)}
      /\ FALSE \in BOOLEAN /\ 0 \in Nat
  BY <1>2
<1>7. t \in Machine(lost, 0)
  BY <1>5, <1>6 DEF Machine
<1>8. ~t.failed /\ ~t.comment /\ ~t.typing /\ t.x = 0
  BY <1>5
<1> QED
  BY <1>4, <1>7, <1>8 DEF OldInv, t

(* The machine after each character: the recursion has a solution, and so  *)
(* After() is one.                                                         *)
Runs(g, lost, n) ==
  g = [k \in 0 .. n |-> IF k = 0 THEN Old!Begins ELSE Old!Turn001(g[k - 1], file[k], lost)]

LEMMA RunExists ==
  ASSUME NEW lost, NEW n \in Nat
  PROVE  \E g : Runs(g, lost, n)
<1> DEFINE G == {i \in Nat : \E g : Runs(g, lost, i)}
<1>1. 0 \in G
  <2> DEFINE g == [k \in 0 .. 0 |-> Old!Begins]
  <2>1. g = [k \in 0 .. 0 |->
               IF k = 0 THEN Old!Begins ELSE Old!Turn001(g[k - 1], file[k], lost)]
    <3>1. \A k \in 0 .. 0 : k = 0
      OBVIOUS
    <3> QED
      BY <3>1
  <2>2. Runs(g, lost, 0)
    <3> HIDE DEF g
    <3> QED
      BY <2>1 DEF Runs
  <2> QED
    BY <2>2
<1>2. ASSUME NEW i \in Nat, i \in G PROVE i + 1 \in G
  <2>1. PICK g : Runs(g, lost, i)
    BY <1>2
  <2> DEFINE h == [k \in 0 .. i + 1 |->
                     IF k = i + 1 THEN Old!Turn001(g[i], file[i + 1], lost) ELSE g[k]]
  <2>2. \A k \in 0 .. i : g[k] = IF k = 0 THEN Old!Begins
                                 ELSE Old!Turn001(g[k - 1], file[k], lost)
    BY <2>1, Zenon DEF Runs
  <2>3. \A k \in 0 .. i : k \in 0 .. i + 1 /\ k # i + 1
    OBVIOUS
  <2>4. i + 1 \in 0 .. i + 1 /\ i + 1 # 0 /\ (i + 1) - 1 = i /\ i \in 0 .. i
    OBVIOUS
  <2>5. h[i + 1] = Old!Turn001(g[i], file[i + 1], lost) /\ \A k \in 0 .. i : h[k] = g[k]
    BY <2>3, <2>4
  <2>6. h = [k \in 0 .. i + 1 |-> h[k]]
    OBVIOUS
  <2> HIDE DEF h
  <2>7. ASSUME NEW k \in 0 .. i + 1
        PROVE  h[k] = IF k = 0 THEN Old!Begins ELSE Old!Turn001(h[k - 1], file[k], lost)
    <3>1. CASE k = i + 1
      <4>1. k # 0 /\ k - 1 = i /\ h[k - 1] = g[i]
        BY <2>4, <2>5, <3>1
      <4> QED
        BY <2>5, <3>1, <4>1
    <3>2. CASE k = 0
      <4>1. 0 \in 0 .. i
        OBVIOUS
      <4> QED
        BY <2>2, <2>5, <3>2, <4>1
    <3>3. CASE k # i + 1 /\ k # 0
      <4>1. k \in 0 .. i /\ k - 1 \in 0 .. i
        BY <3>3
      <4> QED
        BY <2>2, <2>5, <3>3, <4>1
    <3> QED
      BY <3>1, <3>2, <3>3
  <2>8. Runs(h, lost, i + 1)
    BY <2>6, <2>7 DEF Runs
  <2> QED
    BY <2>8
<1>3. Nat \subseteq G
  <2> HIDE DEF G
  <2> QED
    BY <1>1, <1>2, Induction
<1> QED
  BY <1>3

LEMMA AfterIs ==
  ASSUME file \in Seq(Char), NEW lost
  PROVE  /\ Old!After(file, lost)[0] = Old!Begins
         /\ \A k \in 1 .. Len(file) :
              Old!After(file, lost)[k] = Old!Turn001(Old!After(file, lost)[k - 1], file[k], lost)
<1>1. Len(file) \in Nat
  BY Numbers
<1>2. PICK g : Runs(g, lost, Len(file))
  BY <1>1, RunExists
<1> DEFINE A == Old!After(file, lost)
<1>3. A = [k \in 0 .. Len(file) |->
             IF k = 0 THEN Old!Begins ELSE Old!Turn001(A[k - 1], file[k], lost)]
  BY <1>2, Zenon DEF Runs, Old!After
<1> HIDE DEF A
<1>4. \A k \in 0 .. Len(file) :
        A[k] = IF k = 0 THEN Old!Begins ELSE Old!Turn001(A[k - 1], file[k], lost)
  BY <1>3, Zenon
<1>5. 0 \in 0 .. Len(file) /\ \A k \in 1 .. Len(file) : k \in 0 .. Len(file) /\ k # 0
  BY <1>1
<1> QED
  BY <1>4, <1>5 DEF A

LEMMA OldReads ==
  ASSUME file \in Seq(Char), SimpleFile, NEW lost
  PROVE  Old!Parsed001(file, lost).options = KeptAt(lost, Len(file))
<1> DEFINE A == Old!After(file, lost)
           G == {p \in Nat : p <= Len(file) => OldInv(A[p], lost, p)}
<1>1. Len(file) \in Nat
  BY Numbers
<1>2. A[0] = Old!Begins /\ \A k \in 1 .. Len(file) : A[k] = Old!Turn001(A[k - 1], file[k], lost)
  BY AfterIs
<1> HIDE DEF A
<1>3. 0 \in G
  BY <1>2, OldStarts
<1>4. ASSUME NEW p \in Nat, p \in G PROVE p + 1 \in G
  <2> SUFFICES ASSUME p + 1 <= Len(file) PROVE OldInv(A[p + 1], lost, p + 1)
    OBVIOUS
  <2>1. /\ p \in 0 .. Len(file) /\ p # Len(file) /\ p + 1 \in 1 .. Len(file) /\ (p + 1) - 1 = p
        /\ p <= Len(file)
    BY <1>1
  <2>2. OldInv(A[p], lost, p)
    BY <1>4, <2>1
  <2>3. A[p + 1] = Old!Turn001(A[p], file[p + 1], lost)
    BY <1>2, <2>1
  <2>4. CASE file[p + 1] # "newline"
    BY <2>1, <2>2, <2>3, <2>4, OldTurn
  <2>5. CASE file[p + 1] = "newline"
    <3>1. p + 1 \in Ends
      BY <2>1, <2>5, Numbers
    <3> QED
      BY <2>1, <2>2, <2>3, <3>1, OldEnd
  <2> QED
    BY <2>4, <2>5
<1>5. Nat \subseteq G
  <2> HIDE DEF G
  <2> QED
    BY <1>3, <1>4, Induction
<1>6. OldInv(A[Len(file)], lost, Len(file))
  BY <1>1, <1>5
<1>7. A[Len(file)].options = KeptAt(lost, Len(file))
  BY <1>6 DEF OldInv, Machine
<1> QED
  BY <1>7 DEF Old!Parsed001, A

(* cfg_parse() of trunk closes the file when it has read all of it.        *)
ClosedInv == pc = "closed" => pos = Len(file)

LEMMA ClosedStep ==
  ASSUME TypeOK, ClosedInv, [Next]_vars
  PROVE  ClosedInv'
<1>1. CASE EndOfFile
  <2>1. pos' = pos /\ file' = file /\ Ahead(1) = EOF
    BY <1>1 DEF EndOfFile
  <2>2. pos \in 0 .. Len(file) /\ Len(file) \in Nat /\ file \in Seq(Char)
    BY DEF TypeOK
  <2>3. ~(pos + 1 <= Len(file))
    <3>1. pos + 1 <= Len(file) => pos + 1 \in 1 .. Len(file)
      BY <2>2
    <3>2. \A i \in 1 .. Len(file) : file[i] # EOF
      BY <2>2, Numbers
    <3> QED
      BY <2>1, <3>1, <3>2 DEF Ahead
  <2> QED
    BY <2>1, <2>2, <2>3 DEF ClosedInv
<1>2. CASE UNCHANGED vars
  BY <1>2 DEF vars, ClosedInv
<1>3. CASE Returned
  BY <1>3 DEF Returned, vars, ClosedInv
<1>4. CASE Turn /\ ~EndOfFile
  <2>1. pc' # "closed"
    BY <1>4 DEF Turn, EndOfFile, EndLine, StartComment, SkipComment, EndName, NameChar, SkipBlank,
       TooLong, ValueChar, EscapedByte, BrokenEscape, EscapedEnd, EscapedChar, Reset, Put,
       Escape, InValue, InName, AtComment, Kept
  <2> QED
    BY <2>1 DEF ClosedInv
<1> QED
  BY <1>1, <1>2, <1>3, <1>4 DEF Next

(* A simple file means the same to both releases, whatever was read before *)
(* and however long its lines were, and a name that trim() has spoilt      *)
(* costs no more than its line.                                            *)
THEOREM ReleasesReadAlike == Spec => []ReleasesAgree
<1>1. Inv /\ (Regular => LineInv) /\ ClosedInv => ReleasesAgree
  <2> SUFFICES ASSUME TypeOK, Regular => LineInv, ClosedInv, pc = "closed", SimpleFile
               PROVE  /\ Old!Parsed001(file, {}).options = settings
                      /\ \A lost : Old!Parsed001(file, lost).options = MeantWithout(lost)
    BY DEF Inv, ReleasesAgree
  <2>1. file \in Seq(Char) /\ pos = Len(file)
    BY DEF TypeOK, ClosedInv
  <2>2. Regular
    <3>1. \A i \in DOMAIN file : file[i] # "\\"
      BY DEF SimpleFile
    <3>2. DOMAIN file = 1 .. Len(file) /\ Len(file) \in Nat
      BY <2>1, Numbers
    <3>3. \A i \in 1 .. Len(file) - 1 : i \in 1 .. Len(file)
      BY <3>2
    <3>4. file # <<>> => Len(file) \in 1 .. Len(file)
      BY <2>1
    <3> QED
      BY <3>1, <3>2, <3>3, <3>4 DEF Regular, HasBrokenEscape, EndsInBackslash
  <2>3. settings = KeptAt({}, Len(file))
    BY <2>1, <2>2 DEF LineInv, MeantAt
  <2>4. ASSUME NEW lost PROVE MeantWithout(lost) = KeptAt(lost, Len(file))
    <3>1. ASSUME NEW o
          PROVE  {e \in Assigning(o) : Number(e) \notin lost} = AssigningTo(lost, Len(file), o)
      BY <2>1 DEF Assigning, AssigningTo
    <3> QED
      BY <3>1 DEF MeantWithout, KeptAt
  <2> QED
    BY <2>1, <2>3, <2>4, OldReads
<1>2. Init => Inv /\ (Regular => LineInv) /\ ClosedInv
  BY StartsTyped, LineStarts DEF Init, ClosedInv
<1>3. Inv /\ (Regular => LineInv) /\ ClosedInv /\ [Next]_vars
        => (Inv /\ (Regular => LineInv) /\ ClosedInv)'
  BY StepsPreserve, LineStep, ClosedStep DEF Inv
<1> QED
  BY <1>1, <1>2, <1>3, PTL DEF Spec
=============================================================================
