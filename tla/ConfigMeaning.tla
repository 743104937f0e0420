--------------------------- MODULE ConfigMeaning ---------------------------
(***************************************************************************)
(* What a configuration file means, line by line, and whether the machine  *)
(* of cfg_parse() agrees.  A line assigns when it is no comment and has an *)
(* '=' behind a name: the name is what is left of it without blanks, the   *)
(* value all that follows it, with its escapes replaced.                   *)
(***************************************************************************)
EXTENDS ConfigParse, SequencesExt

(* The ends of lines; the line that ends at e is from Start(e) to e - 1.   *)
Ends == {e \in DOMAIN file : file[e] = "newline"}
Start(e) == 1 + Max({0} \cup {d \in Ends : d < e})

(* What is no blank, the n-th of it, and all of it as a text.              *)
Letters(from, to) == {i \in from .. to : file[i] # "blank"}
Nth(from, n) ==
  CHOOSE i \in DOMAIN file :
    i >= from /\ file[i] # "blank" /\ Cardinality(Letters(from, i)) = n
NoBlanks(from, to) ==
  [n \in 1 .. Cardinality(Letters(from, to)) |-> file[Nth(from, n)]]

IsComment(from, to) == \E i \in from .. to : file[i] = "#" /\ Letters(from, i - 1) = {}
EqualsIn(from, to) == {i \in from .. to : file[i] = "=" /\ Letters(from, i - 1) # {}}

(* The value that the characters up to some last one stand for, from each  *)
(* of them on.                                                             *)
Meaning(to) ==
  LET from[i \in 1 .. to + 2] ==
        IF i > to THEN <<>>
        ELSE IF file[i] # "\\" \/ i = to THEN <<file[i]>> \o from[i + 1]
        ELSE IF file[i + 1] # "x" THEN <<file[i], file[i + 1]>> \o from[i + 2]
        ELSE <<Decoded(file[i + 2], file[i + 3])>> \o from[i + 4]
  IN  from

Assigns(e) == ~IsComment(Start(e), e - 1) /\ EqualsIn(Start(e), e - 1) # {}
Equals(e) == Min(EqualsIn(Start(e), e - 1))
NameIn(e) == NoBlanks(Start(e), Equals(e) - 1)
ValueIn(e) == Meaning(e - 1)[Equals(e) + 1]

(* The options the lines read so far assign, each by its last line.        *)
Assigning(o) == {e \in Ends : e <= pos /\ Assigns(e) /\ NameIn(e) = o}
Meant ==
  [o \in {n \in Known : Assigning(n) # {}} |-> CString(ValueIn(Max(Assigning(o))))]

(* Somewhere \x is not followed by two digits. *)
HasBrokenEscape ==
  \E i \in 1 .. Len(file) - 1 :
    /\ file[i] = "\\" /\ file[i + 1] = "x"
    /\ ~(i + 3 <= Len(file) /\ {file[i + 2], file[i + 3]} \subseteq HexDigit)

(* The last line has no newline, and is a comment. *)
EndsInComment == IsComment(1 + Max({0} \cup Ends), Len(file))

-----------------------------------------------------------------------------
(* A backslash at the end of the file ends a line too.                     *)
EndsInBackslash == file # <<>> /\ file[Len(file)] = "\\"

(* Otherwise, and without broken escapes, the options set are at every     *)
(* moment those that the lines read so far assign: blanks, comments, empty *)
(* and nameless lines, later assignments to the same option and a line     *)
(* that is too long do not disturb the lines around them, and a last line  *)
(* that just ends does not count.                                          *)
ReadsLineByLine ==
  ~HasBrokenEscape /\ ~EndsInBackslash => settings = Meant

(* cfg_parse() returns, unless the file ends within a comment.             *)
EndsUnlessInComment ==
  ~EndsInComment => <>(pc \in {"closed", "failed"})
=============================================================================
