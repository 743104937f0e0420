------------------------------ MODULE Config001 ------------------------------
(***************************************************************************)
(* cfg_parse() of release 0.0.1, which reads the same configuration file   *)
(* as trunk's: a line is collected in buf, and taken apart when its end    *)
(* is read.  buf is not emptied in between, so behind a line there is what *)
(* a longer one has left.                                                  *)
(*                                                                         *)
(* The function has no state but its local variables, so its meaning is a  *)
(* function of the file: the machine after the file's characters.          *)
(***************************************************************************)
EXTENDS Integers, Sequences, SequencesExt

CONSTANTS
  Options001,    \* options[].name
  BufSize,       \* 1023, the length of buf
  Zero           \* '\0'

(* The local variables when the loop begins; line counts the lines. *)
Begins ==
  [buf |-> <<>>, x |-> 0, typing |-> FALSE, comment |-> FALSE, line |-> 1,
   failed |-> FALSE, overrun |-> FALSE, options |-> [o \in {} |-> <<>>]]

(* buf[i] = c, where bytes that were never written are zero. *)
Store(buf, i, c) ==
  [k \in 1 .. (IF Len(buf) < i + 1 THEN i + 1 ELSE Len(buf)) |->
     IF k = i + 1 THEN c ELSE IF k <= Len(buf) THEN buf[k] ELSE Zero]

(* The string at buf + i. *)
StringAt(buf, i) ==
  LET rest == SubSeq(buf, i + 1, Len(buf))
      end == SelectInSeq(rest, LAMBDA c : c = Zero)
  IN  IF end = 0 THEN rest ELSE SubSeq(rest, 1, end - 1)

(* trim() allocates a string and forgets the '\0' behind it: what there is *)
(* in the memory becomes part of it.                                       *)
trim(src, behind) ==
  LET letters == {k \in DOMAIN src : src[k] # "blank"}
  IN  IF letters = {} THEN <<>> ELSE SubSeq(src, Min(letters), Max(letters)) \o behind

cfg_set(options, name, value) ==
  IF name \in Options001
  THEN [o \in DOMAIN options \cup {name} |-> IF o = name THEN value ELSE options[o]]
  ELSE options

(* A line is complete.  Without a '=', i is the line's length, and the     *)
(* value whatever is behind the line.                                      *)
Assign(m, behind) ==
  LET buf == Store(m.buf, m.x, Zero)
      line == StringAt(buf, 0)
      equals == SelectInSeq(line, LAMBDA c : c = "=")
      i == IF equals = 0 THEN Len(line) ELSE equals - 1
      name == trim(SubSeq(line, 1, i), behind)
  IN  IF name = <<>> THEN m.options ELSE cfg_set(m.options, name, StringAt(buf, i + 1))

(* The end of a line: buf[0] and x are cleared.  A line as long as buf has *)
(* its '\0' behind it.                                                     *)
TakeLine(m, behind) ==
  [m EXCEPT !.options = IF m.comment THEN m.options ELSE Assign(m, behind),
            !.overrun = m.overrun \/ m.x >= BufSize,
            !.buf = Store(IF m.comment THEN m.buf ELSE Store(m.buf, m.x, Zero), 0, Zero),
            !.x = 0, !.typing = FALSE, !.line = m.line + 1]

(* A faulty variant: a comment goes on over the end of its line. *)
EndLineCommenting(m, behind) == TakeLine(m, behind)
EndLine(m, behind) == [TakeLine(m, behind) EXCEPT !.comment = FALSE]

(* One turn of the loop.  dirty are the lines whose name trim() leaves     *)
(* with something behind it.                                               *)
Turn001(m, r, dirty) ==
  IF \/ m.failed
     \/ m.comment /\ r # "newline"
     \/ ~m.typing /\ r = "blank" THEN m
  ELSE IF ~m.typing /\ r = "#" THEN [m EXCEPT !.comment = TRUE]
  ELSE IF r = "newline"
    THEN EndLine(m, IF m.line \in dirty THEN <<"garbage">> ELSE <<>>)
  ELSE IF m.x > BufSize - 1
    THEN [m EXCEPT !.typing = TRUE, !.failed = TRUE]
  ELSE [m EXCEPT !.typing = TRUE, !.buf = Store(m.buf, m.x, r), !.x = m.x + 1]

(* cfg_parse() of a file, after each of its characters and at its end.     *)
(* What follows its last newline is ignored.                               *)
After(file, dirty) ==
  LET after[n \in 0 .. Len(file)] ==
        IF n = 0 THEN Begins ELSE Turn001(after[n - 1], file[n], dirty)
  IN  after
Parsed001(file, dirty) == After(file, dirty)[Len(file)]
=============================================================================
