------------------------------ MODULE ListMeaning ------------------------------
(***************************************************************************)
(* What orphans, orphans-all and toupgrade have to list, and how far they  *)
(* do.                                                                     *)
(***************************************************************************)
EXTENDS PackageLists

TypeOK ==
  /\ command \in Commands
  /\ e \in 1 .. Len(cache.packages) + 1
  /\ listed \subseteq 1 .. e - 1
  /\ pc \in {"walking", "done", "crashed"}

Orphaning == command \in {"orphans", "orphans-all"}

(* The installed version of q needs the package that is named n. *)
Needs(q, n) ==
  \E d \in cache.depends :
    /\ d.by = q /\ d.version = Package(q).current
    /\ d.on = n /\ d.kind = "Depends"

Required(p) ==
  \E q \in DOMAIN cache.packages : q # p /\ Installed(q) /\ Needs(q, p)

(* No dependency of an installed package mentions p. *)
Unmentioned(p) ==
  Installed(p) /\ \A d \in cache.depends : d.on = p => ~Installed(d.by)

Newer(p) ==
  {i \in DOMAIN Package(p).versions :
     Package(p).versions[i] > Package(p).versions[Package(p).current]}

-----------------------------------------------------------------------------
(* Whatever the versions, the kinds of dependencies and their order, a     *)
(* package that an installed one depends on by its name is never offered   *)
(* as an orphan, and neither is one that is not installed.                 *)
NeverListsRequired ==
  Orphaning => \A p \in listed : Installed(p) /\ ~Required(p)

(* A walk that gets to its end has listed every package that no installed  *)
(* package mentions: what not installed packages say, and where in the     *)
(* cache they are, does not hide an orphan.                                *)
ListsUnmentioned ==
  Orphaning /\ pc = "done" =>
    \A p \in DOMAIN cache.packages :
      Unmentioned(p) /\ (command = "orphans" => Library(p)) => p \in listed

(* Every installed package of which a newer version is known is listed.    *)
EveryUpgradeListed ==
  command = "toupgrade" /\ pc = "done" =>
    \A p \in DOMAIN cache.packages :
      Installed(p) /\ Newer(p) # {} => p \in listed

(* The two columns of toupgrade are the installed version and an upgrade,  *)
(* as long as nothing older than the installed version is known; and with  *)
(* no newer one nothing is listed then.                                    *)
ColumnsAreRight ==
  command = "toupgrade" =>
    \A p \in listed :
      LET versions == Package(p).versions
          installed == versions[Package(p).current]
      IN  (\A i \in DOMAIN versions : versions[i] >= installed)
            => Inst(p) = installed /\ Avail(p) > installed

(* The walks come to their ends, unless an installed package has no        *)
(* section.                                                                *)
Unsorted ==
  \E p \in DOMAIN cache.packages :
    Installed(p) /\ Package(p).section = "none"
EndsWithSections == Unsorted \/ <>(pc = "done")

=============================================================================
