------------------------------- MODULE MCLists -------------------------------
(***************************************************************************)
(* Caches of two packages: every combination of sections and up to two     *)
(* dependencies over two versions each, for orphans; and every combination *)
(* of lists of up to three versions, for toupgrade.                        *)
(***************************************************************************)
EXTENDS ListMeaning

Pkg(v, c, s) == [versions |-> v, current |-> c, section |-> s]
AllCommands == {"orphans", "orphans-all", "toupgrade"}

Dependencies ==
  {d \in [by : 1 .. 2, version : 1 .. 2, on : 1 .. 2, kind : Kinds] :
     d.kind = "Depends" => d.by # d.on}
AtMostTwo(S) == {{}} \cup {{a, b} : a, b \in S}

TwoVersions == {Pkg(<<2, 1>>, c, s) : c \in 0 .. 2, s \in Sections}
DependencyCaches ==
  {[packages |-> <<p, q>>, depends |-> D] :
     p, q \in TwoVersions, D \in AtMostTwo(Dependencies)}

VersionLists ==
  {<<>>, <<1>>, <<2, 1>>, <<3, 2, 1>>, <<1, 1>>, <<2, 1, 1>>, <<2, 2, 1>>}
WithVersions ==
  UNION {{Pkg(v, c, "other") : c \in 0 .. Len(v)} : v \in VersionLists}
VersionCaches ==
  {[packages |-> <<p, q>>, depends |-> {}] : p, q \in WithVersions}

AllCaches == DependencyCaches \cup VersionCaches
=============================================================================
