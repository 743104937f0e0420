----------------------------- MODULE ListsProofs -----------------------------
(***************************************************************************)
(* Proofs about PackageLists, for every cache: what the commands never     *)
(* list, and what a walk that ends has not passed over.                    *)
(***************************************************************************)
EXTENDS ListMeaning, FiniteSetTheorems, WellFoundedInduction, TLAPS

(* What is assumed of caches, for the one at hand. *)
Walked ==
  /\ cache \in Caches
  /\ Len(cache.packages) \in Nat
  /\ DOMAIN cache.packages = 1 .. Len(cache.packages)

(* Everything in front of the iterator has been judged, and rightly.       *)
Judged ==
  /\ Orphaning => \A p \in listed : Installed(p) /\ ~Required(p)
  /\ Orphaning =>
       \A p \in 1 .. e - 1 :
         Unmentioned(p) /\ (command = "orphans" => Library(p)) => p \in listed
  /\ command = "toupgrade" =>
       /\ \A p \in 1 .. e - 1 : ToUpgrade(p) => p \in listed
       /\ \A p \in listed : ToUpgrade(p)
  /\ pc = "done" => e > Len(cache.packages)

LInv == TypeOK /\ Walked /\ Judged

-----------------------------------------------------------------------------
LEMMA CacheLength ==
  ASSUME NEW c \in Caches
  PROVE  Len(c.packages) \in Nat /\ DOMAIN c.packages = 1 .. Len(c.packages)
<1>1. c.packages \in Seq({c.packages[i] : i \in DOMAIN c.packages})
  BY CachesAssumption
<1> DEFINE S == {c.packages[i] : i \in DOMAIN c.packages}
<1> DEFINE s == c.packages
<1>2. s \in Seq(S)
  BY <1>1
<1> HIDE DEF S, s
<1>3. Len(s) \in Nat /\ DOMAIN s = 1 .. Len(s)
  BY <1>2
<1> QED
  BY <1>3 DEF s

LEMMA InitJudged == Init => LInv
<1> SUFFICES ASSUME Init PROVE LInv
  OBVIOUS
<1>1. Walked
  BY CacheLength DEF Init, Walked
<1> QED
  BY <1>1 DEF Init, LInv, TypeOK, Walked, Judged

(* A package that is required is held, whichever of the two tests is made. *)
LEMMA RequiredIsHeld ==
  ASSUME NEW p, Required(p)
  PROVE  Held(p) /\ HeldCritically(p)
  BY DEF Required, Needs, Held, HeldCritically, Reverse, Critical

LEMMA UnmentionedIsNotHeld ==
  ASSUME NEW p, Unmentioned(p)
  PROVE  Installed(p) /\ ~Held(p) /\ ~HeldCritically(p)
  BY DEF Unmentioned, Held, HeldCritically, Reverse

LEMMA AdvanceTyped ==
  ASSUME TypeOK, Walked, e \in 1 .. Len(cache.packages),
         NEW found, Advance(found)
  PROVE  TypeOK' /\ Walked'
<1>1. /\ listed' \subseteq listed \cup {e}
      /\ e' = e + 1 /\ UNCHANGED <<cache, command, pc>>
  BY DEF Advance
<1>2. Walked' /\ Len(cache.packages) \in Nat
  BY <1>1 DEF Walked
<1>3. e \in Nat /\ e' - 1 = e /\ listed \subseteq 1 .. e - 1
  BY <1>1, <1>2 DEF TypeOK
<1>4. listed' \subseteq 1 .. e' - 1
  <2>1. \A p \in listed' : p \in 1 .. e - 1 \/ p = e
    BY <1>1, <1>3
  <2>2. \A p \in listed' : p \in 1 .. e
    BY <2>1, <1>3
  <2> QED
    BY <2>2, <1>3
<1>5. e' \in 1 .. Len(cache'.packages) + 1
  BY <1>1, <1>2
<1> QED
  BY <1>1, <1>2, <1>4, <1>5 DEF TypeOK

LEMMA NextJudged == LInv /\ [Next]_vars => LInv'
<1> SUFFICES ASSUME LInv, [Next]_vars PROVE LInv'
  OBVIOUS
<1>1. CASE Orphans
  <2> DEFINE found == Installed(e) /\ Library(e) /\ ~Held(e)
  <2>1. /\ listed' = listed \cup {p \in {e} : found}
        /\ e' = e + 1 /\ UNCHANGED <<cache, command, pc>>
    BY <1>1 DEF Orphans, Advance
  <2>2. found => ~Required(e)
    BY RequiredIsHeld
  <2>3. Unmentioned(e) /\ Library(e) => found
    BY UnmentionedIsNotHeld
  <2>4. pc = "walking" /\ command = "orphans" /\ e \in 1 .. Len(cache.packages)
    BY <1>1 DEF Orphans, AtPackage, LInv, TypeOK, Walked
  <2>5. \A p : /\ Installed(p)' <=> Installed(p)
               /\ Library(p)' <=> Library(p)
               /\ Required(p)' <=> Required(p)
               /\ Unmentioned(p)' <=> Unmentioned(p)
    BY <2>1 DEF Installed, Library, Package, Required, Needs, Unmentioned
  <2>6. found => Installed(e)
    OBVIOUS
  <2>7. TypeOK' /\ Walked'
    <3>1. Advance(found)
      BY <1>1 DEF Orphans
    <3> HIDE DEF found
    <3> QED
      BY <2>4, <3>1, AdvanceTyped DEF LInv
  <2> HIDE DEF found
  <2>8. Judged'
    BY <2>1, <2>2, <2>3, <2>4, <2>5, <2>6 DEF LInv, Judged, Orphaning, TypeOK, Walked
  <2> QED
    BY <2>7, <2>8 DEF LInv
<1>2. CASE OrphansAll
  <2> DEFINE found == Unheld(e)
  <2>1. /\ listed' = listed \cup {p \in {e} : found}
        /\ e' = e + 1 /\ UNCHANGED <<cache, command, pc>>
    BY <1>2 DEF OrphansAll, Advance
  <2>2. found => Installed(e) /\ ~Required(e)
    BY RequiredIsHeld DEF Unheld
  <2>3. Unmentioned(e) => found
    BY UnmentionedIsNotHeld DEF Unheld
  <2>4. pc = "walking" /\ command = "orphans-all" /\ e \in 1 .. Len(cache.packages)
    BY <1>2 DEF OrphansAll, AtPackage, LInv, TypeOK, Walked
  <2>5. \A p : /\ Installed(p)' <=> Installed(p)
               /\ Library(p)' <=> Library(p)
               /\ Required(p)' <=> Required(p)
               /\ Unmentioned(p)' <=> Unmentioned(p)
    BY <2>1 DEF Installed, Library, Package, Required, Needs, Unmentioned
  <2>7. TypeOK' /\ Walked'
    <3>1. Advance(found)
      BY <1>2 DEF OrphansAll
    <3> HIDE DEF found
    <3> QED
      BY <2>4, <3>1, AdvanceTyped DEF LInv
  <2> HIDE DEF found
  <2>8. Judged'
    BY <2>1, <2>2, <2>3, <2>4, <2>5 DEF LInv, Judged, Orphaning, TypeOK, Walked
  <2> QED
    BY <2>7, <2>8 DEF LInv
<1>3. CASE Upgrades
  <2> DEFINE found == ToUpgrade(e)
  <2>1. /\ listed' = listed \cup {p \in {e} : found}
        /\ e' = e + 1 /\ UNCHANGED <<cache, command, pc>>
    BY <1>3 DEF Upgrades, Advance
  <2>4. pc = "walking" /\ command = "toupgrade" /\ e \in 1 .. Len(cache.packages)
    BY <1>3 DEF Upgrades, AtPackage, LInv, TypeOK, Walked
  <2>5. \A p : ToUpgrade(p)' <=> ToUpgrade(p)
    BY <2>1 DEF ToUpgrade, Installed, Inst, Avail, Others, LastOf, Package
  <2>6. ToUpgrade(e) <=> found
    OBVIOUS
  <2>7. TypeOK' /\ Walked'
    <3>1. Advance(found)
      BY <1>3 DEF Upgrades
    <3> HIDE DEF found
    <3> QED
      BY <2>4, <3>1, AdvanceTyped DEF LInv
  <2> HIDE DEF found
  <2>8. Judged'
    <3>1. /\ command' = "toupgrade" /\ ~Orphaning' /\ pc' # "done"
          /\ \A p \in 1 .. e - 1 : ToUpgrade(p) => p \in listed
          /\ \A p \in listed : ToUpgrade(p)
      BY <2>1, <2>4 DEF LInv, Judged, Orphaning, TypeOK, Walked
    <3> HIDE DEF ToUpgrade
    <3>2. \A p \in listed' : ToUpgrade(p)'
      BY <3>1, <2>1, <2>5, <2>6
    <3>3. \A p \in 1 .. e' - 1 : ToUpgrade(p)' => p \in listed'
      BY <3>1, <2>1, <2>4, <2>5, <2>6 DEF LInv, Walked
    <3> QED
      BY <3>1, <3>2, <3>3 DEF Judged
  <2> QED
    BY <2>7, <2>8 DEF LInv
<1>4. CASE OrphansAllThrows \/ AtEnd \/ UNCHANGED vars
  <2>1. UNCHANGED <<cache, command, e, listed>>
    BY <1>4 DEF OrphansAllThrows, AtEnd, vars
  <2>2. \A p : /\ Installed(p)' <=> Installed(p)
               /\ Library(p)' <=> Library(p)
               /\ Required(p)' <=> Required(p)
               /\ Unmentioned(p)' <=> Unmentioned(p)
               /\ ToUpgrade(p)' <=> ToUpgrade(p)
    BY <2>1
    DEF Installed, Library, Package, Required, Needs, Unmentioned, ToUpgrade,
        Inst, Avail, Others, LastOf
  <2>3. /\ pc' \in {"walking", "done", "crashed"}
        /\ pc' = "done" => e > Len(cache.packages)
    BY <1>4 DEF OrphansAllThrows, AtEnd, vars, LInv, TypeOK, Judged
  <2> QED
    BY <2>1, <2>2, <2>3 DEF LInv, TypeOK, Walked, Judged, Orphaning
<1> QED
  BY <1>1, <1>2, <1>3, <1>4 DEF Next, Step, OrphansContinues, Returned

-----------------------------------------------------------------------------
LEMMA Judging == Spec => []LInv
  BY InitJudged, NextJudged, PTL DEF Spec

(* The walks keep their types, over every cache. *)
THEOREM ListsTyped == Spec => []TypeOK
<1>1. LInv => TypeOK
  BY DEF LInv
<1> QED
  BY <1>1, Judging, PTL

(* No cache makes orphans or orphans-all offer a package that an installed *)
(* one depends on by its name, or one that is not installed.               *)
THEOREM RequiredIsNeverListed == Spec => []NeverListsRequired
<1>1. LInv => NeverListsRequired
  BY DEF LInv, Judged, NeverListsRequired
<1> QED
  BY <1>1, Judging, PTL

(* No cache hides a package nobody mentions from a walk that ends.         *)
THEOREM UnmentionedIsListed == Spec => []ListsUnmentioned
<1>1. LInv => ListsUnmentioned
  BY DEF LInv, Judged, ListsUnmentioned, TypeOK, Walked
<1> QED
  BY <1>1, Judging, PTL

-----------------------------------------------------------------------------
(* What get_to_upgrade() finds. *)

(* The walk's last match is the one behind all others: the larger i is,    *)
(* the fewer matches lie behind it.                                        *)
LEMMA LastIsLargest ==
  ASSUME NEW n \in Nat, NEW S \in SUBSET (1 .. n), S # {}
  PROVE  LastOf(S) \in S /\ \A j \in S : j <= LastOf(S)
<1> DEFINE Behind(i) == {j \in S : j > i}
           T == {Behind(i) : i \in S}
           R == StrictSubsetOrdering(S)
<1>1. IsFiniteSet(S)
  <2>1. IsFiniteSet(1 .. n)
    BY FS_Interval
  <2> QED
    BY <2>1, FS_Subset
<1>2. IsWellFoundedOn(R, SUBSET S)
  BY <1>1, FS_StrictSubsetOrderingWellFounded, FS_FiniteSubsetsOfFinite
<1>3. T \subseteq SUBSET S /\ T # {}
  OBVIOUS
<1>4. PICK X \in T : \A Y \in T : <<Y, X>> \notin R
  <2> HIDE DEF T, R
  <2> QED
    BY <1>2, <1>3, WFMin
<1>5. PICK i \in S : X = Behind(i)
  BY <1>4
<1>6. \A j \in S : j <= i
  <2> SUFFICES ASSUME NEW j \in S, j > i PROVE FALSE
    BY <1>5
  <2>0. S \subseteq Nat /\ i \in Nat /\ j \in Nat
    BY <1>5
  <2>1. Behind(j) \subseteq Behind(i) /\ j \in Behind(i) /\ j \notin Behind(j)
    <3>1. \A k \in S : k > j => k > i
      BY <2>0
    <3>2. ~(j > j)
      BY <2>0
    <3> QED
      BY <3>1, <3>2
  <2>2. <<Behind(j), Behind(i)>> \in R
    BY <2>1 DEF StrictSubsetOrdering
  <2> QED
    BY <1>4, <1>5, <2>2
<1> HIDE DEF Behind, T, R
<1> QED
  BY <1>5, <1>6 DEF LastOf

LEMMA PackageTyped ==
  ASSUME LInv, NEW p \in DOMAIN cache.packages, Installed(p)
  PROVE  LET vs == Package(p).versions
             c  == Package(p).current
         IN  /\ vs \in Seq(Nat) /\ Len(vs) \in Nat /\ c \in 1 .. Len(vs)
             /\ \A i, j \in DOMAIN vs : i <= j => vs[i] >= vs[j]
<1>1. IsPackage(cache.packages[p])
  BY CachesAssumption DEF LInv, Walked
<1> QED
  BY <1>1 DEF IsPackage, Package, Installed

(* The walk for the other version ends at one that differs, if there is    *)
(* one, and at the newest otherwise.                                       *)
LEMMA AvailIsAnother ==
  ASSUME LInv, NEW p \in DOMAIN cache.packages, Installed(p)
  PROVE  /\ \E i \in DOMAIN Package(p).versions : Avail(p) = Package(p).versions[i]
         /\ Others(p) # {} => Avail(p) # Inst(p)
<1> DEFINE vs == Package(p).versions
<1>1. vs \in Seq(Nat) /\ Len(vs) \in Nat \ {0}
  BY PackageTyped
<1>2. CASE Others(p) = {}
  BY <1>1, <1>2 DEF Avail
<1>3. CASE Others(p) # {}
  <2>1. Others(p) \in SUBSET (1 .. Len(vs))
    BY <1>1 DEF Others
  <2>2. LastOf(Others(p)) \in Others(p)
    BY <1>1, <1>3, <2>1, LastIsLargest
  <2> QED
    BY <1>3, <2>2 DEF Avail, Others
<1> QED
  BY <1>2, <1>3

(* Whatever versions a package has and however they repeat, toupgrade      *)
(* lists it when a newer one than the installed is among them.             *)
THEOREM UpgradesAreListed == Spec => []EveryUpgradeListed
<1>1. LInv => EveryUpgradeListed
  <2> SUFFICES ASSUME LInv, command = "toupgrade", pc = "done",
                      NEW p \in DOMAIN cache.packages, Installed(p), Newer(p) # {}
               PROVE  p \in listed
    BY DEF EveryUpgradeListed
  <2> DEFINE vs == Package(p).versions
             c == Package(p).current
  <2>1. /\ vs \in Seq(Nat) /\ Len(vs) \in Nat /\ c \in 1 .. Len(vs)
        /\ \A i, j \in DOMAIN vs : i <= j => vs[i] >= vs[j]
    BY PackageTyped
  <2>2. PICK i \in DOMAIN vs : vs[i] > vs[c]
    BY DEF Newer
  <2>3. vs[c] >= vs[Len(vs)] /\ vs[Len(vs)] \in Nat /\ vs[c] \in Nat /\ vs[i] \in Nat
    BY <2>1
  <2>4. i \in Others(p)
    BY <2>2, <2>3 DEF Others, Inst
  <2>5. ToUpgrade(p)
    BY <2>4, AvailIsAnother DEF ToUpgrade
  <2> QED
    BY <2>5 DEF LInv, Judged, Walked, TypeOK
<1> QED
  BY <1>1, Judging, PTL

(* While no known version is older than the installed one, what toupgrade  *)
(* shows as installed is, and what it shows as available is newer.         *)
THEOREM ColumnsAreTrue == Spec => []ColumnsAreRight
<1>1. LInv => ColumnsAreRight
  <2> SUFFICES ASSUME LInv, command = "toupgrade", NEW p \in listed,
                      \A i \in DOMAIN Package(p).versions :
                        Package(p).versions[i] >= Package(p).versions[Package(p).current]
               PROVE  /\ Inst(p) = Package(p).versions[Package(p).current]
                      /\ Avail(p) > Package(p).versions[Package(p).current]
    BY DEF ColumnsAreRight
  <2> DEFINE vs == Package(p).versions
             c == Package(p).current
  <2>1. p \in DOMAIN cache.packages /\ ToUpgrade(p)
    BY DEF LInv, Judged, Walked, TypeOK
  <2>2. /\ vs \in Seq(Nat) /\ Len(vs) \in Nat /\ c \in 1 .. Len(vs)
        /\ \A i, j \in DOMAIN vs : i <= j => vs[i] >= vs[j]
    BY <2>1, PackageTyped DEF ToUpgrade
  <2>3. Inst(p) = vs[c]
    <3>1. vs[c] >= vs[Len(vs)] /\ vs[Len(vs)] >= vs[c] /\ vs[Len(vs)] \in Nat /\ vs[c] \in Nat
      BY <2>2
    <3> QED
      BY <3>1 DEF Inst
  <2>4. PICK i \in DOMAIN vs : Avail(p) = vs[i]
    BY <2>1, AvailIsAnother DEF ToUpgrade
  <2>5. vs[i] >= vs[c] /\ vs[i] # vs[c] /\ vs[i] \in Nat /\ vs[c] \in Nat
    BY <2>1, <2>2, <2>3, <2>4 DEF ToUpgrade
  <2> QED
    BY <2>3, <2>4, <2>5
<1> QED
  BY <1>1, Judging, PTL
=============================================================================
