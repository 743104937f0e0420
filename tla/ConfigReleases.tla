--------------------------- MODULE ConfigReleases ---------------------------
(***************************************************************************)
(* One configuration file read by trunk and by release 0.0.1: what a user  *)
(* who goes from one to the other can count on.                            *)
(***************************************************************************)
EXTENDS ConfigMeaning

CONSTANT BufSize

(* The names of options are words.  What trim() leaves behind one, standing *)
(* for whatever is in the memory, is no part of any of them.               *)
ASSUME ReleasesAssumption ==
  /\ BufSize \in Nat
  /\ Nul \notin Char
  /\ "garbage" \notin Char
  /\ Known \subseteq Seq(Char \ {"newline", "blank", "#", "="})

Old == INSTANCE Config001 WITH Options001 <- Known, Zero <- Nul

Number(e) == Cardinality({d \in Ends : d <= e})

(* What the lines assign, without those whose number is in lost. *)
MeantWithout(lost) ==
  LET left(o) == {e \in Assigning(o) : Number(e) \notin lost}
  IN  [o \in {n \in Known : left(n) # {}} |-> CString(ValueIn(Max(left(o))))]

(* Without escapes, and on every line that is no comment a '=', no blanks  *)
(* within the name, and no more than buf takes.                            *)
Simple(e) ==
  LET line == Start(e) .. e - 1
      letters == Letters(Start(e), e - 1)
  IN  letters # {} /\ ~IsComment(Start(e), e - 1) =>
        /\ \E i \in line : file[i] = "="
        /\ \A i, k \in letters :
             (\A n \in line : n <= k => file[n] # "=") => i .. k \subseteq letters
        /\ e - Min(letters) < BufSize
SimpleFile == (\A i \in DOMAIN file : file[i] # "\\") /\ (\A e \in Ends : Simple(e))

(* A file of simple lines, as 0.0.1's aptsh.conf is one, means the same to  *)
(* both releases, whatever longer lines leave in the buffer: 0.0.1 gives   *)
(* each option the value of its last line, but for the lines whose name    *)
(* trim() has spoilt; such a line is as if it were not there.              *)
ReleasesAgree ==
  pc = "closed" /\ SimpleFile =>
    /\ Old!Parsed001(file, {}).options = settings
    /\ \A lost \in SUBSET {Number(e) : e \in Ends} :
         Old!Parsed001(file, lost).options = MeantWithout(lost)
=============================================================================
