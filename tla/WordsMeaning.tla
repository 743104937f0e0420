---------------------------- MODULE WordsMeaning ----------------------------
(***************************************************************************)
(* Whether what string_utils.cc makes of the line at the prompt is what    *)
(* completion takes it for, and what the shell makes of a line that        *)
(* escape_params() has been through.                                       *)
(***************************************************************************)
EXTENDS CompletionMeaning

Text == INSTANCE Words

(* The parts of a line are what blanks separate: no blank is within one,   *)
(* and none but the last, which may have been just begun, is empty.        *)
Letters == STRING \ {"blank", "tab", "NUL"}
ASSUME PartsAssumption ==
  \A l \in Lines :
    /\ l.text \in Seq(Letters)
    /\ \A k \in DOMAIN l.words : l.words[k] \in Seq(Letters) /\ l.words[k] # <<>>

(* The line as it is typed, its parts separated by so many blanks.         *)
Blanks(n) == [k \in 1 .. n |-> "blank"]
Buffer(n) ==
  LET from[k \in 1 .. Len(line.words) + 1] ==
        IF k > Len(line.words) THEN line.text
        ELSE line.words[k] \o Blanks(n) \o from[k + 1]
  IN  from[1]

(* The words of a text: the longest runs without a blank.                  *)
Runs(text) ==
  {r \in [from : DOMAIN text, to : DOMAIN text] :
     /\ r.from <= r.to
     /\ \A k \in r.from .. r.to : text[k] # "blank"
     /\ {Text!Char(text, r.from - 1), Text!Char(text, r.to + 1)} \subseteq {"blank", "NUL"}}

(* However the parts of the line are spaced and wherever the cursor is:    *)
(* completion() finds the command typed first, word_at_point() the part    *)
(* that is to be completed, word_iterator() every word in order, and       *)
(* backward_word_iterator() the words before the cursor's own, the last    *)
(* one first, but for a first word of one letter.  (At the end of the line *)
(* it begins with the word to complete, unless that is empty.)             *)
LineIsRead ==
  \A n \in 1 .. 2 :
    LET text == Buffer(n)
        parts == IF line.text = <<>> THEN line.words ELSE Append(line.words, line.text)
    IN  /\ Text!word_iterator(Blanks(n) \o text) = parts
        /\ parts # <<>> => Text!first_word(Text!trimleft(Blanks(n) \o text)) = Head(parts)
        /\ Text!word_at_point(text, Len(text) + 1) = line.text
        /\ \A point \in DOMAIN text \cup {Len(text) + 1} :
             LET before == {r \in Runs(text) : r.to < point /\ r.to # 1}
                 back == Text!backward_word_iterator(text, point)
             IN  /\ Len(back) = Cardinality(before)
                 /\ \A r \in before :
                      back[Cardinality({q \in before : q.from >= r.from})] =
                        SubSeq(text, r.from, r.to)

-----------------------------------------------------------------------------
(* What the shell (external) takes a character for: a backslash stands for *)
(* itself between single quotes, and elsewhere quotes what follows it.     *)
Reading == [quote |-> "none", escaped |-> FALSE, piped |-> FALSE, wild |-> FALSE, odd |-> FALSE]

ShellTurn(m, c) ==
  IF m.piped THEN m
  ELSE IF m.escaped THEN [m EXCEPT !.escaped = FALSE]
  ELSE IF c = "\\" /\ m.quote # "single" THEN [m EXCEPT !.escaped = TRUE]
  ELSE IF c \in {"double", "single"} /\ m.quote \in {"none", c}
    THEN [m EXCEPT !.quote = Text!Opposite(m.quote, c)]
  ELSE [m EXCEPT !.piped = m.quote = "none" /\ c \in {"|", ">"},
                 !.wild = m.wild \/ (m.quote = "none" /\ c \in {"*", "?"}),
                 !.odd = m.odd \/ c = "\\"]
ReadByShell(text) ==
  LET after[n \in 0 .. Len(text)] ==
        IF n = 0 THEN Reading ELSE ShellTurn(after[n - 1], text[n])
  IN  after[Len(text)]

(* The comment at string_utils.cc:102: no wildcard that is typed for ls or *)
(* rls is expanded to the names of files, unless a backslash stands        *)
(* between single quotes, where escape_params() does not expect it.        *)
WildcardsAreKept(text) ==
  ~ReadByShell(text).odd => ~ReadByShell(Text!escape_params(text)).wild
=============================================================================
