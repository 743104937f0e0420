----------------------------- MODULE PackageLists -----------------------------
(***************************************************************************)
(* The commands that walk the mapped cache from PkgBegin() to its end and  *)
(* list some of its packages: orphans, orphans-all and toupgrade.          *)
(*                                                                         *)
(* A cache is a sequence of packages, in the order of the walk, and the    *)
(* dependencies between them.  Of a package it holds the versions it knows *)
(* in descending order, which of them is installed (0: none), and a        *)
(* section.  Versions are equal when CmpVersion() says so; the same        *)
(* version may be there twice.                                             *)
(***************************************************************************)
EXTENDS Naturals, Sequences

CONSTANTS
  Caches,        \* the caches there may be
  Commands       \* of orphans, orphans-all and toupgrade, those given

Kinds == {"Depends", "Suggests", "Conflicts"}
Sections == {"libs", "other", "none"}   \* "libs": has libs or libdevel in it

IsPackage(p) ==
  /\ p.versions \in Seq(Nat)
  /\ \A i, j \in DOMAIN p.versions : i <= j => p.versions[i] >= p.versions[j]
  /\ p.current \in 0 .. Len(p.versions)
  /\ p.section \in Sections

ASSUME CachesAssumption ==
  \A c \in Caches :
    /\ c.packages \in Seq({c.packages[i] : i \in DOMAIN c.packages})
    /\ \A i \in DOMAIN c.packages : IsPackage(c.packages[i])
    /\ \A d \in c.depends :
         /\ d.by \in DOMAIN c.packages /\ d.on \in DOMAIN c.packages
         /\ d.version \in DOMAIN c.packages[d.by].versions
         /\ d.kind \in Kinds

VARIABLES
  cache,      \* what m maps
  command,    \* the command
  e,          \* its iterator; one more than there are packages at the end
  listed,     \* the packages listed so far
  pc          \* "walking", "done" or "crashed"

vars == <<cache, command, e, listed, pc>>

Init ==
  /\ cache \in Caches
  /\ command \in Commands
  /\ e = 1
  /\ listed = {}
  /\ pc = "walking"

-----------------------------------------------------------------------------
Package(p) == cache.packages[p]
Installed(p) == Package(p).current # 0

(* A faulty variant: only libraries are passed over. *)
NoLibrary(p) == Package(p).section # "libs"
Sectionless(p) == Package(p).section = "none"
Library(p) == Package(p).section = "libs"

(* RevDependsList() has the dependencies of every version of every package *)
(* on the name of p, those of p itself included.                           *)
Reverse(p) == {d \in cache.depends : d.on = p}

(* A faulty variant: newest versions count.                                *)
HeldByNewest(p) == \E d \in Reverse(p) : Installed(d.by) /\ d.version = 1
Held(p) == \E d \in Reverse(p) : Installed(d.by)

(* IsCritical() *)
Critical(d) == d.kind \in {"Depends", "Conflicts"}
HeldCritically(p) == \E d \in Reverse(p) : Installed(d.by) /\ Critical(d)

(* get_to_upgrade(): the walk for the installed version starts at it, but  *)
(* goes on, taking each version that differs from the one before: it ends  *)
(* with the oldest.  (A faulty variant: it starts at the newest and stays.)*)
InstFirst(p) == Package(p).versions[1]
Inst(p) == Package(p).versions[Len(Package(p).versions)]

(* The last version that differs from that one, or else the first.  (A     *)
(* faulty variant: of those from the installed one on.)                    *)
Others(p) ==
  {i \in DOMAIN Package(p).versions : Package(p).versions[i] # Inst(p)}
LastOf(S) == CHOOSE i \in S : \A j \in S : j <= i
AvailBehind(p) ==
  LET S == {i \in Others(p) : i >= Package(p).current}
  IN  Package(p).versions[IF S = {} THEN Package(p).current ELSE LastOf(S)]
Avail(p) == Package(p).versions[IF Others(p) = {} THEN 1 ELSE LastOf(Others(p))]

ToUpgrade(p) == Installed(p) /\ Inst(p) # Avail(p)

-----------------------------------------------------------------------------
AtPackage(c) == pc = "walking" /\ command = c /\ e <= Len(cache.packages)

(* e++ *)
Advance(found) ==
  /\ listed' = listed \cup {p \in {e} : found}
  /\ e' = e + 1
  /\ UNCHANGED <<cache, command, pc>>

Orphans ==
  /\ AtPackage("orphans")
  /\ ~(Installed(e) /\ Sectionless(e))
  /\ Advance(Installed(e) /\ Library(e) /\ ~Held(e))

(* `continue' in a while loop, in front of e++: nothing changes. *)
OrphansContinues ==
  /\ AtPackage("orphans")
  /\ Installed(e) /\ Sectionless(e)
  /\ UNCHANGED vars

Unheld(p) == Installed(p) /\ ~HeldCritically(p)

OrphansAll ==
  /\ AtPackage("orphans-all")
  /\ ~(Unheld(e) /\ Sectionless(e))
  /\ Advance(Unheld(e))

(* The section is made a string, and a null pointer is none. *)
OrphansAllThrows ==
  /\ AtPackage("orphans-all")
  /\ Unheld(e) /\ Sectionless(e)
  /\ pc' = "crashed"
  /\ UNCHANGED <<cache, command, e, listed>>

Upgrades ==
  /\ AtPackage("toupgrade")
  /\ Advance(ToUpgrade(e))

AtEnd ==
  /\ pc = "walking" /\ e > Len(cache.packages)
  /\ pc' = "done"
  /\ UNCHANGED <<cache, command, e, listed>>

Returned == pc # "walking" /\ UNCHANGED vars

Step ==
  \/ Orphans \/ OrphansContinues \/ OrphansAll \/ OrphansAllThrows
  \/ Upgrades \/ AtEnd

Next == Step \/ Returned

Spec == Init /\ [][Next]_vars

(* One thread that waits for nobody. *)
FairSpec == Spec /\ WF_vars(Step)
=============================================================================
