-------------------------- MODULE Index001Invariant --------------------------
(***************************************************************************)
(* The inductive invariant behind the properties of Index001.              *)
(***************************************************************************)
EXTENDS Index001

File == [there : BOOLEAN, lines : Seq(Packages), at : Nat]
Number == [there : BOOLEAN, says : Nat]

TypeOK ==
  /\ now \in Nat
  /\ version \in 1 .. Len(Names)
  /\ updated \in 0 .. now /\ noted \in 1 .. version
  /\ list \in File
  /\ list.at <= now
  /\ count \in Number
  /\ pc \in [Shells -> PCs]
  /\ why \in [Shells -> {"start", "check", "make"}]
  /\ due \in [Shells -> Nat]
  /\ \A s \in Shells : due[s] <= version
  /\ number \in [Shells -> Nat]
  /\ pkgs \in [Shells -> Seq(Packages \cup {Garbage})]
  /\ readers \subseteq Shells
  /\ disturbed \in BOOLEAN

Busy(s) == pc[s] \in Making \cup Reading
Alone == \A s, t \in Shells : s # t => ~Busy(s) \/ ~Busy(t)

(* Who makes the files, and how far it is. *)
Files ==
  /\ \A s \in Shells : pc[s] = "fill" => list.lines = <<>>
  /\ \A s \in Shells : pc[s] = "put" => number[s] = Len(list.lines)
  /\ \A s \in Shells : pc[s] \in {"fill", "wc", "put"} => readers = {}
  /\ (\A s \in Shells : pc[s] \notin {"fill", "wc", "put"}) /\ count.there =>
       count.says = Len(list.lines)

(* A shell that reads them finds both, and as many names as it expects. *)
Reads ==
  \A s \in Shells :
    /\ pc[s] = "count" => count.there
    /\ pc[s] = "list" => number[s] = Len(list.lines)

(* What a shell has, it has whole, and as the list has it that it read. *)
Arrays ==
  \A s \in Shells :
    /\ pc[s] # "crashed"
    /\ \A k \in DOMAIN pkgs[s] : pkgs[s][k] # Garbage
    /\ s \in readers => list.there /\ pkgs[s] = list.lines

(* The list is that of a state of the system, of none that apt's cache did *)
(* not know yet if it is newer than that, and of none before the one a     *)
(* reader has to see.                                                      *)
Dated ==
  /\ list.there /\ (\A s \in Shells : pc[s] # "fill") =>
       \E v \in 1 .. version : /\ list.lines = Names[v]
                               /\ updated < list.at => v >= noted
  /\ \A s \in Shells : pc[s] \in {"wc", "put", "count", "list"} =>
       list.there /\ \E v \in due[s] .. version : list.lines = Names[v]

Orderly == Alone /\ Files /\ Reads /\ Arrays /\ Dated

Inv001 == TypeOK /\ (~disturbed => Orderly)
=============================================================================
