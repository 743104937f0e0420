-------------------------------- MODULE Words --------------------------------
(***************************************************************************)
(* string_utils.cc: the words of a line, read from the front, from the     *)
(* back and at the cursor, and the quoting of a line for the shell.        *)
(*                                                                         *)
(* A text is a sequence of characters; its first one has number 1, and     *)
(* the '\0' behind it is at Len(text) + 1.  Pointers are such numbers.     *)
(***************************************************************************)
EXTENDS Naturals, Sequences, SequencesExt

Char(text, i) == IF i \in DOMAIN text THEN text[i] ELSE "NUL"

(* strchr(" \t", c), which also finds the '\0'. *)
Separates(c) == c \in {"blank", "tab", "NUL"}

(* while (i > low && !Stop(text[i])) i--; and the same upwards.            *)
Down(text, i, low, Stop(_)) == Max({low} \cup {k \in low .. i : Stop(Char(text, k))})
Up(text, i, Stop(_)) == Min({k \in i .. Len(text) + 1 : Stop(Char(text, k))})

-----------------------------------------------------------------------------
first_word(cmd) == SubSeq(cmd, 1, Up(cmd, 1, LAMBDA c : c \in {"blank", "NUL"}) - 1)

trimleft(cmd) == SubSeq(cmd, Up(cmd, 1, LAMBDA c : c # "blank"), Len(cmd))

(* A faulty variant: blanks between words are not skipped. *)
next_word_untrimmed(cur) ==
  [word |-> first_word(cur), rest |-> SubSeq(cur, Len(first_word(cur)) + 1, Len(cur))]

next_word(cur) ==
  [word |-> first_word(cur), rest |-> trimleft(SubSeq(cur, Len(first_word(cur)) + 1, Len(cur)))]

(* All that word_iterator(text) returns before its NULL. *)
word_iterator(text) ==
  LET from[n \in 0 .. Len(text)] ==
        LET turn == next_word(SubSeq(text, Len(text) - n + 1, Len(text)))
        IN  IF turn.word = <<>> THEN <<>> ELSE <<turn.word>> \o from[Len(turn.rest)]
  IN  from[Len(trimleft(text))]

-----------------------------------------------------------------------------
(* A faulty variant: the cursor's own word comes first. *)
back_from_here(text, start_point) ==
  Down(text, start_point, 1, LAMBDA c : ~Separates(c))

(* The end of the word before the one start_point is in, or the first      *)
(* character.                                                              *)
back_from(text, start_point) ==
  Down(text, Down(text, start_point, 1, Separates), 1, LAMBDA c : ~Separates(c))

(* All that backward_word_iterator(text, start_point) returns before its   *)
(* NULL, which comes as soon as cur is at the first character.             *)
backward_word_iterator(text, start_point) ==
  LET before[cur \in 0 .. Len(text) + 1] ==
        LET begin == Down(text, cur, 0, Separates)
        IN  IF cur <= 1 THEN <<>>
            ELSE <<SubSeq(text, begin + 1, cur)>>
                   \o before[Down(text, begin, 0, LAMBDA c : ~Separates(c))]
  IN  before[back_from(text, start_point)]

(* The word at the cursor; a blank is a word too. *)
word_at_point(text, point) ==
  IF Char(text, point) = "blank" THEN <<"blank">>
  ELSE SubSeq(text, Down(text, point, 0, LAMBDA c : c = "blank") + 1,
              Up(text, point, LAMBDA c : c \in {"blank", "NUL"}) - 1)

-----------------------------------------------------------------------------
(* escape_params(): one turn of its loop, and the loop. *)
Unescaped == [result |-> <<>>, quote |-> "none", escaped |-> FALSE, piped |-> FALSE]

Opposite(quote, kind) == IF quote = kind THEN "none" ELSE kind

EscapeTurn(m, c) ==
  LET result == Append(m.result, c)
  IN  IF m.piped THEN [m EXCEPT !.result = result]
      ELSE IF m.escaped THEN [m EXCEPT !.result = result, !.escaped = FALSE]
      ELSE IF c = "\\" THEN [m EXCEPT !.result = result, !.escaped = TRUE]
      ELSE IF c = "double" /\ m.quote # "single"
        THEN [m EXCEPT !.result = result, !.quote = Opposite(m.quote, c)]
      ELSE IF c = "single" /\ m.quote # "double"
        THEN [m EXCEPT !.result = result, !.quote = Opposite(m.quote, c)]
      ELSE IF m.quote # "none" THEN [m EXCEPT !.result = result]
      ELSE IF c \in {"*", "?"} THEN [m EXCEPT !.result = m.result \o <<"\\", c>>]
      ELSE [m EXCEPT !.result = result, !.piped = c \in {"|", ">"}]

escape_params(text) ==
  LET after[n \in 0 .. Len(text)] ==
        IF n = 0 THEN Unescaped ELSE EscapeTurn(after[n - 1], text[n])
  IN  after[Len(text)].result
=============================================================================
