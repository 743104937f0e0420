---------------------------- MODULE ConfigParse ----------------------------
(***************************************************************************)
(* cfg_parse(): the configuration file read character by character through *)
(* a machine of stages, into two buffers of Limit + 2 bytes that share one *)
(* index, and cfg_set(), which stores what a line assigns.                 *)
(*                                                                         *)
(* A buffer with its index is the sequence of what has been put into it.   *)
(* Only options of type STR are set here, whose values are copied as they  *)
(* are.  Files are text: the only NUL is one that an escape stands for.    *)
(***************************************************************************)
EXTENDS Integers, FiniteSets, Sequences

CONSTANTS
  Files,          \* the files that may be read
  Plain,          \* characters without a meaning of their own
  HexDigit,       \* hex_accepted
  Known,          \* names of options
  Limit,          \* the 1022 both buffers are checked against
  Nul,            \* the character '\0'
  Decoded(_, _)   \* the character of two hexadecimal digits

Char == {"newline", "blank", "#", "=", "\\", "x"} \cup Plain \cup HexDigit
EOF == "end of file"
Byte == Char \cup {Decoded(h, l) : h, l \in HexDigit}

ASSUME FilesAssumption ==
  /\ Files \subseteq Seq(Char)
  /\ EOF \notin Char
  /\ "x" \notin HexDigit
  /\ "newline" \notin HexDigit
  /\ Limit \in Nat \ {0}

VARIABLES
  file,      \* the file
  pos,       \* how much of it fgetc() has returned
  pc,        \* "loop", "comment", "closed" (it returns 0), "failed" (1)
  stage,     \* 0 nothing yet, 1 a name, 3 a value; nothing sets 2
  text,      \* the buffer being filled, x characters of it
  name,      \* buf, when the name is complete
  settings   \* the options set so far

vars == <<file, pos, pc, stage, text, name, settings>>

Init ==
  /\ file \in Files
  /\ pos = 0
  /\ pc = "loop"
  /\ stage = 0
  /\ text = <<>>
  /\ name = <<>>
  /\ settings = [o \in {} |-> <<>>]

-----------------------------------------------------------------------------
(* What the k-th fgetc() from here returns. *)
Ahead(k) == IF pos + k <= Len(file) THEN file[pos + k] ELSE EOF

Read(k) ==
  /\ pos' = IF pos + k <= Len(file) THEN pos + k ELSE Len(file)
  /\ UNCHANGED file

Put(chars) == text' = text \o chars /\ UNCHANGED <<pc, name, settings>>

(* A faulty variant: the stage is left as it was. *)
ResetIndex == text' = <<>> /\ UNCHANGED <<pc, stage, name>>
Reset == stage' = 0 /\ text' = <<>> /\ UNCHANGED <<pc, name>>

(* cfg_set() copies a string up to its '\0', and refuses unknown names.    *)
(* Its result is ignored.                                                  *)
CString(s) ==
  SubSeq(s, 1, Cardinality({i \in 1 .. Len(s) : \A j \in 1 .. i : s[j] # Nul}))

Set(n, value) ==
  IF n \in Known
  THEN [o \in DOMAIN settings \cup {n} |->
          IF o = n THEN CString(value) ELSE settings[o]]
  ELSE settings

-----------------------------------------------------------------------------
(* The turns of the loop, by the character they start with. *)

EndOfFile ==
  /\ pc = "loop" /\ Ahead(1) = EOF
  /\ pc' = "closed"
  /\ UNCHANGED <<file, pos, stage, text, name, settings>>

EndLine ==
  /\ pc = "loop" /\ Ahead(1) = "newline"
  /\ Read(1)
  /\ settings' = IF stage = 3 THEN Set(name, text) ELSE settings
  /\ Reset

(* A faulty variant: comments may also start inside a line. *)
AtHash == Ahead(1) = "#"
AtComment == Ahead(1) = "#" /\ stage = 0

StartComment ==
  /\ pc = "loop" /\ AtComment
  /\ Read(1)
  /\ pc' = "comment"
  /\ UNCHANGED <<stage, text, name, settings>>

(* The loop that skips a comment looks for a newline, never for the end of *)
(* the file: there, fgetc() returns EOF again and again.                   *)
SkipComment ==
  /\ pc = "comment"
  /\ Read(1)
  /\ pc' = IF Ahead(1) = "newline" THEN "loop" ELSE "comment"
  /\ UNCHANGED <<stage, text, name, settings>>

EndName ==
  /\ pc = "loop" /\ Ahead(1) = "=" /\ stage = 1
  /\ Read(1)
  /\ name' = text
  /\ text' = <<>>
  /\ stage' = 3
  /\ UNCHANGED <<pc, settings>>

(* The character belongs to a name, or begins one. *)
InName ==
  /\ Ahead(1) \notin {"newline", "blank", EOF}
  /\ \/ stage = 0 /\ ~AtComment
     \/ stage = 1 /\ Ahead(1) # "="

NameChar ==
  /\ pc = "loop" /\ InName /\ Len(text) < Limit
  /\ Read(1)
  /\ stage' = 1
  /\ Put(<<Ahead(1)>>)

(* Blanks count only in values. *)
SkipBlank ==
  /\ pc = "loop" /\ Ahead(1) = "blank" /\ stage # 3
  /\ Read(1)
  /\ UNCHANGED <<pc, stage, text, name, settings>>

(* "Too long variable name." and "Too long value."  What has been set      *)
(* stays set.                                                              *)
TooLong ==
  /\ pc = "loop" /\ Len(text) >= Limit
  /\ \/ InName
     \/ stage = 3 /\ Ahead(1) \notin {"newline", EOF}
  /\ Read(1)
  /\ stage' = IF stage = 3 THEN 3 ELSE 1
  /\ pc' = "failed"
  /\ UNCHANGED <<text, name, settings>>

-----------------------------------------------------------------------------
(* Inside a value. *)

(* A faulty variant: off by one in the check of the index. *)
InValueLoose == pc = "loop" /\ stage = 3 /\ Len(text) <= Limit
InValue == pc = "loop" /\ stage = 3 /\ Len(text) < Limit
Escape == InValue /\ Ahead(1) = "\\"

ValueChar ==
  /\ InValue /\ Ahead(1) \notin {"newline", "\\", EOF}
  /\ Read(1)
  /\ Put(<<Ahead(1)>>)
  /\ UNCHANGED stage

(* \xhl *)
EscapedByte ==
  /\ Escape /\ Ahead(2) = "x" /\ {Ahead(3), Ahead(4)} \subseteq HexDigit
  /\ Read(4)
  /\ Put(<<Decoded(Ahead(3), Ahead(4))>>)
  /\ UNCHANGED stage

(* \x without two digits: what has been read instead is gone, be it the    *)
(* end of the line.                                                        *)
BrokenEscape ==
  /\ Escape /\ Ahead(2) = "x" /\ ~({Ahead(3), Ahead(4)} \subseteq HexDigit)
  /\ Read(IF Ahead(3) \in HexDigit THEN 4 ELSE 3)
  /\ UNCHANGED <<pc, stage, text, name, settings>>

(* A backslash at the end of the line, or of the file, is part of the      *)
(* value, which ends here.                                                 *)
EscapedEnd ==
  /\ Escape /\ Ahead(2) \in {"newline", EOF}
  /\ Read(2)
  /\ settings' = Set(name, text \o <<"\\">>)
  /\ Reset

(* Any other character keeps its backslash: two characters at once, under  *)
(* the check made for one.                                                 *)
Kept == <<"\\", Ahead(2)>>

EscapedChar ==
  /\ Escape /\ Ahead(2) \notin {"x", "newline", EOF}
  /\ Read(2)
  /\ Put(Kept)
  /\ UNCHANGED stage

-----------------------------------------------------------------------------
(* cfg_parse() has returned; main() ignores what. *)
Returned == pc \in {"closed", "failed"} /\ UNCHANGED vars

Turn ==
  \/ EndOfFile \/ EndLine \/ StartComment \/ SkipComment
  \/ EndName \/ NameChar \/ SkipBlank \/ TooLong
  \/ ValueChar \/ EscapedByte \/ BrokenEscape \/ EscapedEnd \/ EscapedChar

Next == Turn \/ Returned

Spec == Init /\ [][Next]_vars

(* One thread, and a file that is there. *)
FairSpec == Spec /\ WF_vars(Turn)

-----------------------------------------------------------------------------
TypeOK ==
  /\ file \in Seq(Char)
  /\ pos \in 0 .. Len(file)
  /\ pc \in {"loop", "comment", "closed", "failed"}
  /\ stage \in {0, 1, 3}
  /\ text \in Seq(Byte)
  /\ name \in Seq(Byte)
  /\ DOMAIN settings \subseteq Known
  /\ \A o \in DOMAIN settings : settings[o] \in Seq(Byte)

(* Neither buffer overflows: with the '\0' behind it, what has been put    *)
(* into one never needs more than its Limit + 2 bytes, and a name, which   *)
(* has a check of its own for each character, never more than Limit + 1.   *)
BuffersSuffice ==
  /\ Len(text) + 1 <= Limit + 2
  /\ stage # 3 => Len(text) <= Limit
  /\ Len(name) <= Limit
=============================================================================
