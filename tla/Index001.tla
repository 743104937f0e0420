------------------------------ MODULE Index001 ------------------------------
(***************************************************************************)
(* Release 0.0.1: shells that take the names of the packages from two      *)
(* files in /tmp, a list and the number of its lines.  A shell makes the   *)
(* files anew when they are missing or older than apt's own cache, by      *)
(* running a pipeline of programs, and reads them into an array that is as *)
(* long as the number says.                                                *)
(*                                                                         *)
(* The release keeps a second pair of files for the installed packages,    *)
(* with the same code behind it; one pair is modelled.  Times are in whole *)
(* seconds, as st_mtime is.                                                *)
(***************************************************************************)
EXTENDS Integers, Sequences

CONSTANTS
  Shells,      \* shells that may run at the same time
  Packages,    \* the names a package can have
  Names,       \* the names apt-cache prints, one list for each state of the system
  Garbage,     \* what an array's element holds before it is written
  MaxClock,    \* bound: seconds
  Refresh,     \* CFG_REFRESH_INDEXES or CFG_REFRESH_INDEXES_ALL
  RefreshAll   \* CFG_REFRESH_INDEXES_ALL

ASSUME Assumption001 ==
  /\ MaxClock \in Nat
  /\ Names \in Seq(Seq(Packages))
  /\ Names # <<>>
  /\ Garbage \notin Packages
  /\ {Refresh, RefreshAll} \subseteq BOOLEAN
  /\ RefreshAll => Refresh

VARIABLES
  now,         \* the clock
  version,     \* the state of the system: what apt-cache dump prints
  updated,     \* st_mtime of CFG_UPDATE_FILE, apt's cache
  noted,       \* the state of the system that apt's cache was written for
  list,        \* CFG_PKG_LIST
  count,       \* CFG_PKG_COUNT
  pc,          \* where each shell stands
  why,         \* what made it look at the files: "start", "check" or "make"
  due,         \* the state of the system each shell has to learn of when it
               \* looks at the files; 1, any, if their times cannot tell
  number,      \* what wc has counted, or X2 of read_index1()
  pkgs,        \* each shell's array, hm elements long
  readers,     \* the shells that have read the files since they were made
  disturbed    \* making the files was interrupted, or two shells met there

vars == <<now, version, updated, noted, list, count, pc, why, due, number, pkgs, readers, disturbed>>

Making == {"truncate", "fill", "wc", "put"}
Reading == {"count", "list"}
PCs == {"off", "check", "prompt", "child", "exited", "crashed"} \cup Making \cup Reading

(* Two shells are at the files. *)
Meeting == \E s, t \in Shells : s # t /\ {pc[s], pc[t]} \subseteq Making \cup Reading

-----------------------------------------------------------------------------
Init ==
  /\ now = 1
  /\ version = 1
  /\ updated = 0 /\ noted = 1
  /\ list = [there |-> FALSE, lines |-> <<>>, at |-> 0]
  /\ count = [there |-> FALSE, says |-> 0]
  /\ pc = [s \in Shells |-> "off"]
  /\ why = [s \in Shells |-> "start"]
  /\ due = [s \in Shells |-> 1]
  /\ number = [s \in Shells |-> 0]
  /\ pkgs = [s \in Shells |-> <<>>]
  /\ readers = {}
  /\ disturbed = FALSE

Go(s, label) == pc' = [pc EXCEPT ![s] = label]
Back(s) == Go(s, "prompt") /\ why' = [why EXCEPT ![s] = "check"]
Because(s, reason) == why' = [why EXCEPT ![s] = reason]

Tick ==
  /\ now < MaxClock
  /\ now' = now + 1
  /\ UNCHANGED <<version, updated, noted, list, count, pc, why, due, number, pkgs, readers>>

-----------------------------------------------------------------------------
(* main() and check_a(): are the files there, and not older than apt's?    *)

Start(s) ==
  /\ pc[s] = "off"
  /\ Go(s, "check")
  /\ Because(s, "start")
  /\ UNCHANGED <<now, version, updated, noted, list, count, due, number, pkgs, readers>>

(* A faulty variant: only missing files are made. *)
OutdatedIfMissing == ~list.there \/ ~count.there

Outdated == ~list.there \/ ~count.there \/ updated > list.at

SameSecond == ~Outdated /\ updated = list.at

(* A starting shell reads the files in any case, a running one only those  *)
(* it has made itself.                                                     *)
Check(s) ==
  /\ pc[s] = "check"
  /\ IF Outdated \/ why[s] = "start"
     THEN /\ Go(s, IF Outdated THEN "truncate" ELSE "count")
          /\ due' = [due EXCEPT ![s] =
               IF Outdated THEN version ELSE IF SameSecond THEN 1 ELSE noted]
     ELSE Go(s, "prompt") /\ UNCHANGED due
  /\ UNCHANGED <<now, version, updated, noted, list, count, why, number, pkgs, readers>>

-----------------------------------------------------------------------------
(* generate_index1(): apt-cache dump | grep | cut > list && wc -l list |   *)
(* cut > count, all of it run by system().                                 *)

Truncate(s) ==
  /\ pc[s] = "truncate"
  /\ list' = [there |-> TRUE, lines |-> <<>>, at |-> now]
  /\ readers' = {}
  /\ Go(s, "fill")
  /\ UNCHANGED <<now, version, updated, noted, count, why, due, number, pkgs>>

(* A program of apt's (external) may write its cache when it reads it.     *)
Written == updated' = now /\ noted' = version'
AptLooks == Written \/ UNCHANGED <<updated, noted>>

(* Text written from the beginning of a file that may have grown since it  *)
(* was opened: what is longer stays behind it.                             *)
Over(text, lines) == text \o SubSeq(lines, Len(text) + 1, Len(lines))

Fill(s) ==
  /\ pc[s] = "fill"
  /\ list' = [there |-> TRUE, lines |-> Over(Names[version], list.lines), at |-> now]
  /\ Go(s, "wc")
  /\ UNCHANGED <<now, version, count, why, due, number, pkgs, readers>>
  /\ AptLooks

(* A faulty variant: the list is counted before it is written. *)
WcFirst(s) ==
  /\ pc[s] = "wc"
  /\ number' = [number EXCEPT ![s] = 0]
  /\ count' = [there |-> TRUE, says |-> 0]
  /\ Go(s, "put")
  /\ UNCHANGED <<now, version, updated, noted, list, why, due, pkgs, readers>>

(* The count is opened, and empty, while wc reads the list. *)
Wc(s) ==
  /\ pc[s] = "wc"
  /\ number' = [number EXCEPT ![s] = Len(list.lines)]
  /\ count' = [there |-> TRUE, says |-> 0]
  /\ Go(s, "put")
  /\ UNCHANGED <<now, version, updated, noted, list, why, due, pkgs, readers>>

(* generate-index makes the files and does not read them. *)
AfterMaking(s) ==
  IF why[s] = "make" THEN Back(s) ELSE Go(s, "count") /\ UNCHANGED why

Put(s) ==
  /\ pc[s] = "put"
  /\ count' = [there |-> TRUE, says |-> number[s]]
  /\ AfterMaking(s)
  /\ UNCHANGED <<now, version, updated, noted, list, due, number, pkgs, readers>>

(* ^C ends the programs of the pipeline; the shell waits in system(),      *)
(* which ignores it, and goes on as if they had done their work.           *)
InterruptMaking(s) ==
  /\ pc[s] \in {"fill", "wc", "put"}
  /\ \/ list' = list
     \/ /\ pc[s] = "fill"
        /\ \E k \in 1 .. Len(Names[version]) :
             list' = [there |-> TRUE, lines |-> Over(SubSeq(Names[version], 1, k), list.lines),
                      at |-> now]
  /\ AfterMaking(s)
  /\ UNCHANGED <<now, version, updated, noted, count, due, number, pkgs, readers>>

-----------------------------------------------------------------------------
(* read_index1(). *)

(* No count, no names; an empty one leaves X2 at 0. *)
ReadCount(s) ==
  /\ pc[s] = "count"
  /\ IF count.there
     THEN /\ number' = [number EXCEPT ![s] = count.says]
          /\ Go(s, "list")
          /\ UNCHANGED <<pkgs, why, due>>
     ELSE /\ pkgs' = [pkgs EXCEPT ![s] = <<>>]
          /\ Back(s)
          /\ due' = [due EXCEPT ![s] = 1]
          /\ UNCHANGED number
  /\ UNCHANGED <<now, version, updated, noted, list, count, readers>>

(* Names are read to the end of the list, whatever the array's length is:  *)
(* more of them than it has elements are written behind it.                *)
ReadList(s) ==
  /\ pc[s] = "list"
  /\ IF Len(list.lines) > number[s]
     THEN Go(s, "crashed") /\ UNCHANGED <<pkgs, why>>
     ELSE /\ pkgs' = [pkgs EXCEPT ![s] =
               [k \in 1 .. number[s] |-> IF k <= Len(list.lines) THEN list.lines[k] ELSE Garbage]]
          /\ Back(s)
  /\ readers' = readers \cup {s}
  /\ number' = [number EXCEPT ![s] = 0]
  /\ due' = [due EXCEPT ![s] = 1]
  /\ UNCHANGED <<now, version, updated, noted, list, count>>

-----------------------------------------------------------------------------
(* The user. *)

(* ls, rls and completion walk the array; an element that was never        *)
(* written is no pointer.                                                  *)
WalkNames(s) ==
  /\ pc[s] = "prompt"
  /\ \E k \in DOMAIN pkgs[s] : pkgs[s][k] = Garbage
  /\ Go(s, "crashed")
  /\ UNCHANGED <<now, version, updated, noted, list, count, why, due, number, pkgs, readers>>

RunApt(s) ==
  /\ pc[s] = "prompt"
  /\ Go(s, "child")
  /\ UNCHANGED <<now, version, updated, noted, list, count, why, due, number, pkgs, readers>>

(* apt-get ends; what it changes, it writes to its cache too.  install and *)
(* the like check the files, update makes them anyway, if it is due to.  *)
AptEnds(s) ==
  /\ pc[s] = "child"
  /\ \/ UNCHANGED version /\ AptLooks
     \/ version < Len(Names) /\ version' = version + 1 /\ Written
  /\ \/ Go(s, IF Refresh THEN "check" ELSE "prompt")
     \/ RefreshAll /\ Go(s, "truncate")
     \/ Go(s, "prompt")
  /\ due' = [due EXCEPT ![s] = IF pc'[s] = "truncate" THEN version' ELSE 1]
  /\ UNCHANGED <<now, list, count, why, number, pkgs, readers>>

(* dpkg, and any program on a line with a dot, changes the packages behind *)
(* apt's back, and nothing is checked afterwards.                          *)
Dpkg(s) ==
  /\ pc[s] = "prompt"
  /\ version < Len(Names) /\ version' = version + 1
  /\ UNCHANGED <<now, updated, noted, list, count, pc, why, due, number, pkgs, readers>>

GenerateIndex(s) ==
  /\ pc[s] = "prompt"
  /\ Because(s, "make")
  /\ Go(s, "truncate")
  /\ UNCHANGED <<now, version, updated, noted, list, count, due, number, pkgs, readers>>

(* quit, and ^C, which nothing handles. *)
Leave(s) ==
  /\ pc[s] \in {"prompt", "count", "list"}
  /\ Go(s, "exited")
  /\ UNCHANGED <<now, version, updated, noted, list, count, why, due, number, pkgs, readers>>

-----------------------------------------------------------------------------
Step(s) ==
  \/ Start(s) \/ Check(s) \/ Truncate(s) \/ Fill(s) \/ Wc(s) \/ Put(s)
  \/ ReadCount(s) \/ ReadList(s) \/ WalkNames(s) \/ RunApt(s) \/ AptEnds(s)
  \/ Dpkg(s) \/ GenerateIndex(s) \/ Leave(s)

Next ==
  \/ /\ Tick \/ \E s \in Shells : Step(s)
     /\ disturbed' = (disturbed \/ Meeting')
  \/ /\ \E s \in Shells : InterruptMaking(s)
     /\ disturbed' = TRUE

Spec == Init /\ [][Next]_vars

-----------------------------------------------------------------------------
(* The array's length and its names come from two files written one after  *)
(* the other.  As long as nobody interrupts that, and shells keep out of   *)
(* each other's way, no shell writes past its array, and none is left with *)
(* elements that were never written.                                       *)
NamesFitTheirCount ==
  ~disturbed =>
    /\ \A s \in Shells : pc[s] # "crashed"
    /\ \A s \in Shells : \A k \in DOMAIN pkgs[s] : pkgs[s][k] # Garbage

(* A shell that starts, or runs a command that asks for it, has afterwards *)
(* names no older than what apt's cache knew at that moment (of changes by *)
(* dpkg alone that cache's time tells nothing): unless the files were made *)
(* by another shell or by generate-index, as they are not read again then, *)
(* or in the second in which apt's cache was written last.                 *)
FreshAfterCheck ==
  [][\A s \in Shells : pc'[s] = "prompt" /\ s \in readers' /\ ~disturbed =>
       /\ pc[s] = "list" => \E v \in due[s] .. version : pkgs'[s] = Names[v]
       /\ pc[s] = "check" =>
            SameSecond \/ \E v \in noted .. version : pkgs[s] = Names[v]]_vars
=============================================================================
