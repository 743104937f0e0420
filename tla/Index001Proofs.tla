--------------------------- MODULE Index001Proofs ---------------------------
(***************************************************************************)
(* The safety of Index001 for any number of shells, any names and times.   *)
(***************************************************************************)
EXTENDS Index001Invariant, TLAPS

-----------------------------------------------------------------------------
(* What is written over nothing is what is there. *)
LEMMA OverNothing ==
  ASSUME NEW text \in Seq(Packages)
  PROVE  Over(text, <<>>) = text
  BY DEF Over

LEMMA OverTyped ==
  ASSUME NEW text \in Seq(Packages), NEW lines \in Seq(Packages)
  PROVE  Over(text, lines) \in Seq(Packages)
<1>1. SubSeq(lines, Len(text) + 1, Len(lines)) \in Seq(Packages)
  OBVIOUS
<1> QED
  BY <1>1 DEF Over

LEMMA NamesTyped ==
  ASSUME TypeOK
  PROVE  Names[version] \in Seq(Packages)
  BY Assumption001 DEF TypeOK

LEMMA Labels ==
  /\ {"off", "check", "prompt", "child", "exited", "crashed"} \subseteq PCs
  /\ {"truncate", "fill", "wc", "put", "count", "list"} \subseteq PCs
  BY DEF PCs, Making, Reading

LEMMA GoTyped ==
  ASSUME TypeOK, NEW s \in Shells, NEW label \in PCs, Go(s, label)
  PROVE  pc' \in [Shells -> PCs]
  BY DEF TypeOK, Go

LEMMA DueTyped ==
  ASSUME TypeOK, NEW s \in Shells, NEW v \in {1, noted, version},
         UNCHANGED due \/ due' = [due EXCEPT ![s] = v]
  PROVE  due' \in [Shells -> Nat] /\ \A t \in Shells : due'[t] <= version
<1>1. v \in Nat /\ v <= version
  BY Assumption001 DEF TypeOK
<1> QED
  BY <1>1 DEF TypeOK

LEMMA NothingTyped == <<>> \in Seq(Packages \cup {Garbage})
  OBVIOUS

LEMMA InitInv == Init => Inv001
<1> SUFFICES ASSUME Init PROVE Inv001
  OBVIOUS
<1>1. Len(Names) \in Nat \ {0}
  BY Assumption001
<1>2. TypeOK
  <2>1. pc \in [Shells -> PCs]
    BY Labels DEF Init
  <2>2. /\ now \in Nat /\ version \in 1 .. Len(Names) /\ updated \in 0 .. now
        /\ noted \in 1 .. version /\ list \in File /\ list.at <= now /\ count \in Number
    BY <1>1 DEF Init, File, Number
  <2>3. /\ why \in [Shells -> {"start", "check", "make"}]
        /\ due \in [Shells -> Nat] /\ \A s \in Shells : due[s] <= version
        /\ number \in [Shells -> Nat]
    BY DEF Init
  <2>4. /\ pkgs \in [Shells -> Seq(Packages \cup {Garbage})]
        /\ readers \subseteq Shells /\ disturbed \in BOOLEAN
    BY NothingTyped DEF Init
  <2> QED
    BY <2>1, <2>2, <2>3, <2>4 DEF TypeOK
<1>3. Alone /\ Files /\ Reads /\ Arrays /\ Dated
  BY DEF Init, Alone, Busy, Making, Reading, Files, Reads, Arrays, Dated
<1> QED
  BY <1>2, <1>3 DEF Inv001, Orderly

LEMMA StepTypes ==
  ASSUME TypeOK, NEW s \in Shells, Step(s) \/ InterruptMaking(s), disturbed' \in BOOLEAN
  PROVE  TypeOK'
<1> USE Labels, GoTyped
<1>1. CASE Start(s)
  <2>1. pc' \in [Shells -> PCs]
    BY <1>1 DEF Start
  <2> QED
    BY <1>1, <2>1 DEF Start, Because, TypeOK
<1>2. CASE Check(s)
  <2>1. pc' \in [Shells -> PCs]
    BY <1>2, GoTyped DEF Check
  <2>2. due' \in [Shells -> Nat] /\ \A t \in Shells : due'[t] <= version
    <3> DEFINE v == IF Outdated THEN version ELSE IF SameSecond THEN 1 ELSE noted
    <3>1. UNCHANGED due \/ due' = [due EXCEPT ![s] = v]
      BY <1>2 DEF Check
    <3>2. v \in {1, noted, version}
      OBVIOUS
    <3> HIDE DEF v
    <3> QED
      BY <3>1, <3>2, DueTyped
  <2> QED
    BY <1>2, <2>1, <2>2 DEF Check, TypeOK
<1>4. CASE Truncate(s)
  <2>1. pc' \in [Shells -> PCs]
    BY <1>4 DEF Truncate
  <2> QED
    BY <1>4, <2>1 DEF Truncate, TypeOK, File
<1>5. CASE Fill(s)
  <2>1. pc' \in [Shells -> PCs]
    BY <1>5 DEF Fill
  <2>2. Over(Names[version], list.lines) \in Seq(Packages)
    BY NamesTyped, OverTyped DEF File, TypeOK
  <2>3. list' \in File /\ list'.at <= now'
    BY <1>5, <2>2 DEF Fill, File, TypeOK
  <2>4. updated' \in 0 .. now /\ noted' \in 1 .. version
    BY <1>5 DEF Fill, AptLooks, Written, TypeOK
  <2> QED
    BY <1>5, <2>1, <2>3, <2>4 DEF Fill, TypeOK
<1>6. CASE Wc(s)
  <2>1. pc' \in [Shells -> PCs]
    BY <1>6 DEF Wc
  <2>2. Len(list.lines) \in Nat
    BY DEF File, TypeOK
  <2> QED
    BY <1>6, <2>1, <2>2 DEF Wc, Number, TypeOK
<1>7. CASE AfterMaking(s) /\ UNCHANGED <<now, version, updated, noted, list, due, number, pkgs, readers>>
                /\ count' = [there |-> TRUE, says |-> number[s]]
  <2>1. pc' \in [Shells -> PCs] /\ why' \in [Shells -> {"start", "check", "make"}]
    BY <1>7 DEF AfterMaking, Back, TypeOK
  <2> QED
    BY <1>7, <2>1 DEF Number, TypeOK
<1>8. CASE InterruptMaking(s)
  <2>1. pc' \in [Shells -> PCs] /\ why' \in [Shells -> {"start", "check", "make"}]
    BY <1>8 DEF InterruptMaking, AfterMaking, Back, TypeOK
  <2>2. ASSUME NEW k \in 1 .. Len(Names[version])
        PROVE  Over(SubSeq(Names[version], 1, k), list.lines) \in Seq(Packages)
    <3>1. SubSeq(Names[version], 1, k) \in Seq(Packages)
      BY NamesTyped
    <3> QED
      BY <3>1, OverTyped DEF File, TypeOK
  <2>3. list' \in File /\ list'.at <= now
    <3>1. CASE list' = list
      BY <3>1 DEF TypeOK
    <3>2. CASE \E k \in 1 .. Len(Names[version]) :
                 list' = [there |-> TRUE, lines |-> Over(SubSeq(Names[version], 1, k), list.lines),
                          at |-> now]
      <4>1. PICK lines \in Seq(Packages) : list' = [there |-> TRUE, lines |-> lines, at |-> now]
        BY <2>2, <3>2
      <4> QED
        BY <4>1 DEF File, TypeOK
    <3> QED
      BY <1>8, <3>1, <3>2 DEF InterruptMaking
  <2> QED
    BY <1>8, <2>1, <2>3 DEF InterruptMaking, TypeOK
<1>9. CASE ReadCount(s)
  <2>1. pc' \in [Shells -> PCs] /\ why' \in [Shells -> {"start", "check", "make"}]
    BY <1>9 DEF ReadCount, Back, TypeOK
  <2>2. number' \in [Shells -> Nat]
    BY <1>9 DEF ReadCount, TypeOK, Number
  <2>3. pkgs' \in [Shells -> Seq(Packages \cup {Garbage})]
    BY <1>9, NothingTyped DEF ReadCount, TypeOK
  <2>4. due' \in [Shells -> Nat] /\ \A t \in Shells : due'[t] <= version
    <3>1. UNCHANGED due \/ due' = [due EXCEPT ![s] = 1]
      BY <1>9 DEF ReadCount
    <3> QED
      BY <3>1, DueTyped
  <2> QED
    BY <1>9, <2>1, <2>2, <2>3, <2>4 DEF ReadCount, TypeOK
<1>10. CASE ReadList(s)
  <2>1. pc' \in [Shells -> PCs] /\ why' \in [Shells -> {"start", "check", "make"}]
    BY <1>10 DEF ReadList, Back, TypeOK
  <2>2. pkgs' \in [Shells -> Seq(Packages \cup {Garbage})]
    <3> DEFINE array == [k \in 1 .. number[s] |-> IF k <= Len(list.lines) THEN list.lines[k] ELSE Garbage]
    <3>1. array \in Seq(Packages \cup {Garbage})
      <4>1. number[s] \in Nat /\ list.lines \in Seq(Packages)
        BY DEF File, TypeOK
      <4>2. \A k \in 1 .. number[s] : array[k] \in Packages \cup {Garbage}
        BY <4>1
      <4> QED
        BY <4>1, <4>2
    <3> HIDE DEF array
    <3>2. UNCHANGED pkgs \/ pkgs' = [pkgs EXCEPT ![s] = array]
      BY <1>10 DEF ReadList, array
    <3> QED
      BY <3>1, <3>2 DEF TypeOK
  <2>3. due' \in [Shells -> Nat] /\ \A t \in Shells : due'[t] <= version
    BY <1>10, Assumption001 DEF ReadList, TypeOK
  <2>4. number' \in [Shells -> Nat] /\ readers' \subseteq Shells
    BY <1>10 DEF ReadList, TypeOK
  <2> QED
    BY <1>10, <2>1, <2>2, <2>3, <2>4 DEF ReadList, TypeOK
<1>11. CASE WalkNames(s) \/ RunApt(s) \/ GenerateIndex(s) \/ Leave(s)
  <2>1. pc' \in [Shells -> PCs] /\ why' \in [Shells -> {"start", "check", "make"}]
    BY <1>11 DEF WalkNames, RunApt, GenerateIndex, Leave, Because, TypeOK
  <2> QED
    BY <1>11, <2>1 DEF WalkNames, RunApt, GenerateIndex, Leave, TypeOK
<1>12. CASE AptEnds(s)
  <2>1. pc' \in [Shells -> PCs]
    BY <1>12 DEF AptEnds
  <2>2. /\ version' \in 1 .. Len(Names) /\ version' >= version /\ version' \in Nat
        /\ updated' \in 0 .. now /\ noted' \in 1 .. version'
    BY <1>12, Assumption001 DEF AptEnds, AptLooks, Written, TypeOK
  <2>3. due' \in [Shells -> Nat] /\ \A t \in Shells : due'[t] <= version'
    BY <1>12, <2>2, Assumption001 DEF AptEnds, TypeOK
  <2> QED
    BY <1>12, <2>1, <2>2, <2>3 DEF AptEnds, TypeOK
<1>13. CASE Dpkg(s)
  <2>1. /\ version' \in 1 .. Len(Names) /\ version' >= version /\ version' \in Nat
        /\ noted' \in 1 .. version'
    BY <1>13, Assumption001 DEF Dpkg, TypeOK
  <2> QED
    BY <1>13, <2>1, Assumption001 DEF Dpkg, TypeOK
<1> QED
  BY <1>1, <1>2, <1>4, <1>5, <1>6, <1>7, <1>8, <1>9, <1>10, <1>11, <1>12, <1>13 DEF Step, Put

-----------------------------------------------------------------------------
(* Steps while nothing disturbs. *)

(* A shell goes where the files are not used. *)
LEMMA Aside ==
  ASSUME TypeOK, Orderly, NEW s \in Shells, pc[s] \notin {"fill", "wc", "put"},
         NEW label \in {"check", "prompt", "child", "exited", "truncate"}, Go(s, label),
         UNCHANGED <<version, updated, noted, list, count, number, pkgs, readers>>,
         \A t \in Shells \ {s} : due'[t] = due[t]
  PROVE  Files' /\ Reads' /\ Arrays' /\ Dated'
<1>1. \A t \in Shells : pc'[t] = IF t = s THEN label ELSE pc[t]
  BY DEF Go, TypeOK
<1>2. \A t \in Shells : pc[t] \in {"fill", "wc", "put"} <=> pc'[t] \in {"fill", "wc", "put"}
  BY <1>1
<1>3. \A t \in Shells : pc[t] = "fill" <=> pc'[t] = "fill"
  BY <1>1
<1>4. Files'
  BY <1>1, <1>2 DEF Orderly, Files
<1>5. Reads' /\ Arrays'
  BY <1>1 DEF Orderly, Reads, Arrays
<1>6. Dated'
  BY <1>1, <1>3 DEF Orderly, Dated
<1> QED
  BY <1>4, <1>5, <1>6

LEMMA CheckStep ==
  ASSUME TypeOK, Orderly, NEW s \in Shells, Check(s), Alone'
  PROVE  Files' /\ Reads' /\ Arrays' /\ Dated'
<1>1. /\ pc[s] = "check" /\ UNCHANGED <<now, version, updated, noted, list, count, why, number, pkgs, readers>>
      /\ \A t \in Shells \ {s} : due'[t] = due[t]
  BY DEF Check, TypeOK
<1>2. CASE Outdated \/ why[s] # "start"
  <2>1. Go(s, "truncate") \/ Go(s, "prompt")
    BY <1>2 DEF Check
  <2> QED
    BY <1>1, <2>1, Aside
<1>3. CASE ~Outdated /\ why[s] = "start"
  <2>1. /\ \A t \in Shells : pc'[t] = IF t = s THEN "count" ELSE pc[t]
        /\ due'[s] = IF SameSecond THEN 1 ELSE noted
    BY <1>3 DEF Check, Go, TypeOK
  <2>2. list.there /\ count.there /\ updated <= list.at
    BY <1>3 DEF Outdated, TypeOK, File
  <2>3. \A t \in Shells : pc[t] \notin {"truncate", "fill", "wc", "put"}
    BY <1>1, <2>1 DEF Alone, Busy, Making, Reading
  <2>4. Files' /\ Reads' /\ Arrays'
    BY <1>1, <2>1, <2>2, <2>3 DEF Orderly, Files, Reads, Arrays
  <2>5. PICK v \in 1 .. version : list.lines = Names[v] /\ (updated < list.at => v >= noted)
    BY <2>2, <2>3 DEF Orderly, Dated
  <2>6. v \in due'[s] .. version /\ version \in Nat
    BY <1>3, <2>1, <2>2, <2>5 DEF SameSecond, TypeOK, File
  <2>7. Dated'
    BY <1>1, <2>1, <2>2, <2>5, <2>6 DEF Orderly, Dated
  <2> QED
    BY <2>4, <2>7
<1> QED
  BY <1>2, <1>3

(* Nobody else is at the files while a shell is. *)
LEMMA TheOthers ==
  ASSUME TypeOK, NEW s \in Shells, Busy(s), Alone
  PROVE  \A t \in Shells \ {s} : pc[t] \notin {"truncate", "fill", "wc", "put", "count", "list"}
  BY DEF Alone, Busy, Making, Reading

LEMMA TruncateStep ==
  ASSUME TypeOK, Orderly, NEW s \in Shells, Truncate(s)
  PROVE  Files' /\ Reads' /\ Arrays' /\ Dated'
<1>1. /\ pc[s] = "truncate" /\ list' = [there |-> TRUE, lines |-> <<>>, at |-> now] /\ readers' = {}
      /\ UNCHANGED <<now, version, updated, noted, count, why, due, number, pkgs>>
      /\ \A t \in Shells : pc'[t] = IF t = s THEN "fill" ELSE pc[t]
  BY DEF Truncate, Go, TypeOK
<1>2. \A t \in Shells \ {s} : pc[t] \notin {"truncate", "fill", "wc", "put", "count", "list"}
  BY <1>1, TheOthers DEF Orderly, Busy, Making
<1>3. Files' /\ Reads'
  BY <1>1, <1>2 DEF Files, Reads
<1>4. Arrays'
  BY <1>1 DEF Orderly, Arrays
<1>5. Dated'
  BY <1>1, <1>2 DEF Dated
<1> QED
  BY <1>3, <1>4, <1>5

LEMMA FillStep ==
  ASSUME TypeOK, Orderly, NEW s \in Shells, Fill(s)
  PROVE  Files' /\ Reads' /\ Arrays' /\ Dated'
<1>1. /\ pc[s] = "fill" /\ list' = [there |-> TRUE, lines |-> Names[version], at |-> now]
      /\ UNCHANGED <<now, version, count, why, due, number, pkgs, readers>>
      /\ updated' = now \/ UNCHANGED <<updated, noted>>
      /\ \A t \in Shells : pc'[t] = IF t = s THEN "wc" ELSE pc[t]
  <2>1. pc[s] = "fill" /\ list.lines = <<>>
    BY DEF Fill, Orderly, Files
  <2> QED
    BY <2>1, NamesTyped, OverNothing DEF Fill, AptLooks, Written, Go, TypeOK
<1>2. \A t \in Shells \ {s} : pc[t] \notin {"truncate", "fill", "wc", "put", "count", "list"}
  BY <1>1, TheOthers DEF Orderly, Busy, Making
<1>3. readers = {}
  BY <1>1 DEF Orderly, Files
<1>4. Files' /\ Reads'
  BY <1>1, <1>2, <1>3 DEF Files, Reads
<1>5. Arrays'
  BY <1>1, <1>3 DEF Orderly, Arrays
<1>6. /\ version \in 1 .. version /\ version \in due[s] .. version
      /\ version >= noted /\ ~(now < now)
  BY Assumption001 DEF TypeOK
<1>7. Dated'
  BY <1>1, <1>2, <1>6 DEF Dated
<1> QED
  BY <1>4, <1>5, <1>7

LEMMA WcStep ==
  ASSUME TypeOK, Orderly, NEW s \in Shells, Wc(s)
  PROVE  Files' /\ Reads' /\ Arrays' /\ Dated'
<1>1. /\ pc[s] = "wc" /\ number'[s] = Len(list.lines)
      /\ UNCHANGED <<now, version, updated, noted, list, why, due, pkgs, readers>>
      /\ \A t \in Shells : pc'[t] = IF t = s THEN "put" ELSE pc[t]
  BY DEF Wc, Go, TypeOK
<1>2. \A t \in Shells \ {s} : pc[t] \notin {"truncate", "fill", "wc", "put", "count", "list"}
  BY <1>1, TheOthers DEF Orderly, Busy, Making
<1>3. Files' /\ Reads' /\ Arrays'
  BY <1>1, <1>2 DEF Orderly, Files, Reads, Arrays
<1>4. Dated'
  BY <1>1, <1>2 DEF Orderly, Dated
<1> QED
  BY <1>3, <1>4

LEMMA PutStep ==
  ASSUME TypeOK, Orderly, NEW s \in Shells, Put(s)
  PROVE  Files' /\ Reads' /\ Arrays' /\ Dated'
<1>1. /\ pc[s] = "put" /\ count' = [there |-> TRUE, says |-> number[s]]
      /\ UNCHANGED <<now, version, updated, noted, list, due, number, pkgs, readers>>
      /\ pc'[s] \in {"prompt", "count"}
      /\ \A t \in Shells \ {s} : pc'[t] = pc[t]
  BY DEF Put, AfterMaking, Back, Go, TypeOK
<1>2. \A t \in Shells \ {s} : pc[t] \notin {"truncate", "fill", "wc", "put", "count", "list"}
  BY <1>1, TheOthers DEF Orderly, Busy, Making
<1>3. number[s] = Len(list.lines)
  BY <1>1 DEF Orderly, Files
<1>4. Files' /\ Reads' /\ Arrays'
  BY <1>1, <1>2, <1>3 DEF Orderly, Files, Reads, Arrays
<1>5. Dated'
  BY <1>1, <1>2 DEF Orderly, Dated
<1> QED
  BY <1>4, <1>5

LEMMA ReadCountStep ==
  ASSUME TypeOK, Orderly, NEW s \in Shells, ReadCount(s)
  PROVE  Files' /\ Reads' /\ Arrays' /\ Dated'
<1>1. pc[s] = "count" /\ count.there
  BY DEF ReadCount, Orderly, Reads
<1>2. /\ number'[s] = count.says
      /\ UNCHANGED <<now, version, updated, noted, list, count, why, due, pkgs, readers>>
      /\ \A t \in Shells : pc'[t] = IF t = s THEN "list" ELSE pc[t]
  BY <1>1 DEF ReadCount, Go, TypeOK
<1>3. \A t \in Shells \ {s} : pc[t] \notin {"truncate", "fill", "wc", "put", "count", "list"}
  BY <1>1, TheOthers DEF Orderly, Busy, Reading
<1>4. count.says = Len(list.lines)
  BY <1>1, <1>3 DEF Orderly, Files
<1>5. Files' /\ Reads' /\ Arrays'
  BY <1>1, <1>2, <1>3, <1>4 DEF Orderly, Files, Reads, Arrays
<1>6. Dated'
  BY <1>1, <1>2, <1>3 DEF Orderly, Dated
<1> QED
  BY <1>5, <1>6

LEMMA ReadListStep ==
  ASSUME TypeOK, Orderly, NEW s \in Shells, ReadList(s)
  PROVE  /\ Files' /\ Reads' /\ Arrays' /\ Dated'
         /\ pkgs'[s] = list.lines
<1>1. pc[s] = "list" /\ number[s] = Len(list.lines) /\ list.there
  BY DEF ReadList, Orderly, Reads, Dated
<1>2. Len(list.lines) \in Nat /\ list.lines \in Seq(Packages)
  BY DEF TypeOK, File
<1>3. pkgs'[s] = list.lines
  <2> DEFINE array == [k \in 1 .. number[s] |-> IF k <= Len(list.lines) THEN list.lines[k] ELSE Garbage]
  <2>1. array = list.lines
    BY <1>1, <1>2
  <2> HIDE DEF array
  <2>2. pkgs' = [pkgs EXCEPT ![s] = array]
    BY <1>1, <1>2 DEF ReadList, array
  <2> QED
    BY <2>1, <2>2 DEF TypeOK
<1>4. /\ readers' = readers \cup {s}
      /\ UNCHANGED <<now, version, updated, noted, list, count>>
      /\ \A t \in Shells : pc'[t] = IF t = s THEN "prompt" ELSE pc[t]
      /\ \A t \in Shells \ {s} : pkgs'[t] = pkgs[t] /\ due'[t] = due[t] /\ number'[t] = number[t]
  BY <1>1, <1>2 DEF ReadList, Back, Go, TypeOK
<1>5. \A t \in Shells \ {s} : pc[t] \notin {"truncate", "fill", "wc", "put", "count", "list"}
  BY <1>1, TheOthers DEF Orderly, Busy, Reading
<1>6. Files' /\ Reads'
  BY <1>1, <1>4, <1>5 DEF Orderly, Files, Reads
<1>7. \A k \in DOMAIN list.lines : list.lines[k] # Garbage
  BY <1>2, Assumption001
<1>8. Arrays'
  BY <1>1, <1>3, <1>4, <1>7 DEF Orderly, Arrays
<1>9. Dated'
  BY <1>1, <1>4, <1>5 DEF Orderly, Dated
<1> QED
  BY <1>3, <1>6, <1>8, <1>9

LEMMA AptEndsStep ==
  ASSUME TypeOK, Orderly, NEW s \in Shells, AptEnds(s)
  PROVE  Files' /\ Reads' /\ Arrays' /\ Dated'
<1>1. /\ pc[s] = "child" /\ UNCHANGED <<now, list, count, why, number, pkgs, readers>>
      /\ pc'[s] \in {"check", "prompt", "truncate"}
      /\ \A t \in Shells \ {s} : pc'[t] = pc[t] /\ due'[t] = due[t]
  BY DEF AptEnds, Go, TypeOK
<1>2. Files' /\ Reads' /\ Arrays'
  BY <1>1 DEF Orderly, Files, Reads, Arrays
<1>3. /\ version \in Nat /\ version' \in Nat /\ version <= version'
      /\ UNCHANGED <<version, updated, noted>> \/ updated' = now
  BY Assumption001 DEF AptEnds, AptLooks, Written, TypeOK
<1>4. \A t \in Shells : due[t] \in Nat
  BY DEF TypeOK
<1>5. list.at <= now /\ list.at \in Nat /\ now \in Nat
  BY DEF TypeOK, File
<1>6. /\ list.there /\ (\A t \in Shells : pc'[t] # "fill") =>
           \E v \in 1 .. version' : list.lines = Names[v] /\ (updated' < list.at => v >= noted')
  <2> SUFFICES ASSUME list.there, \A t \in Shells : pc'[t] # "fill"
               PROVE  \E v \in 1 .. version' : list.lines = Names[v] /\ (updated' < list.at => v >= noted')
    OBVIOUS
  <2>1. PICK v \in 1 .. version : list.lines = Names[v] /\ (updated < list.at => v >= noted)
    BY <1>1 DEF Orderly, Dated
  <2> QED
    BY <1>3, <1>5, <2>1
<1>7. \A t \in Shells : pc'[t] \in {"wc", "put", "count", "list"} =>
        list.there /\ \E v \in due'[t] .. version' : list.lines = Names[v]
  <2> SUFFICES ASSUME NEW t \in Shells, pc'[t] \in {"wc", "put", "count", "list"}
               PROVE  list.there /\ \E v \in due'[t] .. version' : list.lines = Names[v]
    OBVIOUS
  <2>1. t # s /\ pc[t] \in {"wc", "put", "count", "list"} /\ due'[t] = due[t]
    BY <1>1
  <2>2. list.there /\ \E v \in due[t] .. version : list.lines = Names[v]
    BY <2>1 DEF Orderly, Dated
  <2> QED
    BY <1>3, <1>4, <2>1, <2>2
<1>8. Dated'
  BY <1>1, <1>6, <1>7 DEF Dated
<1> QED
  BY <1>2, <1>8

LEMMA DpkgStep ==
  ASSUME TypeOK, Orderly, NEW s \in Shells, Dpkg(s)
  PROVE  Files' /\ Reads' /\ Arrays' /\ Dated'
<1>1. /\ UNCHANGED <<now, updated, noted, list, count, pc, why, due, number, pkgs, readers>>
      /\ version \in Nat /\ version' = version + 1
  BY Assumption001 DEF Dpkg, TypeOK
<1>2. Files' /\ Reads' /\ Arrays'
  BY <1>1 DEF Orderly, Files, Reads, Arrays
<1>3. \A v : v \in 1 .. version => v \in 1 .. version'
  BY <1>1
<1>4. \A t \in Shells : \A v : v \in due[t] .. version => v \in due[t] .. version'
  BY <1>1 DEF TypeOK
<1>5. Dated'
  BY <1>1, <1>3, <1>4 DEF Orderly, Dated
<1> QED
  BY <1>2, <1>5

LEMMA OrderlyStep ==
  ASSUME TypeOK, Orderly, NEW s \in Shells, Step(s), Alone'
  PROVE  Orderly'
<1>1. CASE Start(s) \/ RunApt(s) \/ GenerateIndex(s) \/ Leave(s)
  <2>1. /\ pc[s] \notin {"fill", "wc", "put"}
        /\ UNCHANGED <<version, updated, noted, list, count, number, pkgs, readers, due>>
        /\ \E label \in {"check", "prompt", "child", "exited", "truncate"} : Go(s, label)
    BY <1>1 DEF Start, RunApt, GenerateIndex, Leave
  <2> QED
    BY <2>1, Aside DEF Orderly
<1>2. CASE WalkNames(s)
  BY <1>2 DEF WalkNames, Orderly, Arrays
<1> QED
  BY <1>1, <1>2, CheckStep, TruncateStep, FillStep, WcStep, PutStep, ReadCountStep, ReadListStep,
     AptEndsStep, DpkgStep DEF Step, Orderly

-----------------------------------------------------------------------------
LEMMA NextInv == Inv001 /\ [Next]_vars => Inv001'
<1> SUFFICES ASSUME Inv001, [Next]_vars PROVE Inv001'
  OBVIOUS
<1>1. CASE UNCHANGED vars
  <2>1. TypeOK'
    BY <1>1 DEF Inv001, TypeOK, vars
  <2>2. Orderly => Orderly'
    BY <1>1 DEF Orderly, Alone, Busy, Files, Reads, Arrays, Dated, vars
  <2> QED
    BY <1>1, <2>1, <2>2 DEF Inv001, vars
<1>2. CASE \E s \in Shells : InterruptMaking(s) /\ disturbed' = TRUE
  BY <1>2, StepTypes DEF Inv001
<1>3. ASSUME Tick, disturbed' = (disturbed \/ Meeting') PROVE Inv001'
  <2>1. disturbed' \in BOOLEAN /\ (~disturbed' => ~disturbed)
    BY <1>3, Zenon
  <2>2. TypeOK'
    <3>1. now' \in Nat /\ updated' \in 0 .. now' /\ list'.at <= now'
      BY <1>3 DEF Inv001, TypeOK, File, Tick
    <3> QED
      BY <1>3, <2>1, <3>1 DEF Inv001, TypeOK, Tick
  <2>3. Orderly => Orderly'
    BY <1>3 DEF Orderly, Alone, Busy, Files, Reads, Arrays, Dated, Tick
  <2> QED
    BY <2>1, <2>2, <2>3 DEF Inv001
<1>4. ASSUME NEW s \in Shells, Step(s), disturbed' = (disturbed \/ Meeting') PROVE Inv001'
  <2>1. disturbed' \in BOOLEAN /\ (~disturbed' => ~disturbed /\ ~Meeting')
    BY <1>4, Zenon
  <2>2. TypeOK'
    BY <1>4, <2>1, StepTypes DEF Inv001
  <2>3. ~Meeting' => Alone'
    BY DEF Meeting, Alone, Busy
  <2> QED
    BY <1>4, <2>1, <2>2, <2>3, OrderlyStep DEF Inv001
<1> QED
  BY <1>1, <1>2, <1>3, <1>4 DEF Next

(* The files' consistency and age, and what each shell's array holds. *)
THEOREM Invariance001 == Spec => []Inv001
  BY InitInv, NextInv, PTL DEF Spec

(* Any number of shells: if nobody interrupts the making of the files and  *)
(* no two meet there, none writes past its array or keeps elements that    *)
(* were never written.                                                     *)
THEOREM NamesFit == Spec => []NamesFitTheirCount
<1>1. Inv001 => NamesFitTheirCount
  BY DEF Inv001, Orderly, Arrays, NamesFitTheirCount
<1> QED
  BY <1>1, Invariance001, PTL

LEMMA FreshStep ==
  ASSUME Inv001, Next, NEW s \in Shells, pc'[s] = "prompt", s \in readers', ~disturbed
  PROVE  /\ pc[s] = "list" => \E v \in due[s] .. version : pkgs'[s] = Names[v]
         /\ pc[s] = "check" =>
              SameSecond \/ \E v \in noted .. version : pkgs[s] = Names[v]
<1> USE DEF Inv001
<1>1. CASE pc[s] = "list" \/ pc[s] = "check"
  <2>1. pc'[s] # pc[s]
    BY <1>1
  <2>2. PICK t \in Shells : Step(t) \/ InterruptMaking(t)
    BY <2>1 DEF Next, Tick
  <2>3. t = s
    BY <2>1, <2>2 DEF Step, InterruptMaking, Start, Check, Truncate, Fill, Wc, Put, AfterMaking,
         ReadCount, ReadList, WalkNames, RunApt, AptEnds, Dpkg, GenerateIndex, Leave, Back, Go, TypeOK
  <2>4. (pc[s] = "list" /\ ReadList(s)) \/ (pc[s] = "check" /\ Check(s))
    BY <1>1, <2>2, <2>3 DEF Step, InterruptMaking, Start, Check, Truncate, Fill, Wc, Put,
         ReadCount, ReadList, WalkNames, RunApt, AptEnds, Dpkg, GenerateIndex, Leave, Go, TypeOK
  <2>5. CASE pc[s] = "list" /\ ReadList(s)
    BY <2>5, ReadListStep DEF Orderly, Dated
  <2>6. CASE pc[s] = "check" /\ Check(s)
    <3>1. ~Outdated /\ s \in readers
      BY <2>6, Labels DEF Check, Go, TypeOK
    <3>2. list.there /\ pkgs[s] = list.lines
      BY <3>1 DEF Orderly, Arrays
    <3>3. \A u \in Shells : pc[u] # "fill"
      BY <3>1 DEF Orderly, Files
    <3>4. updated < list.at => \E v \in noted .. version : list.lines = Names[v]
      BY <3>2, <3>3, Assumption001 DEF Orderly, Dated, TypeOK
    <3>5. updated <= list.at /\ updated \in Nat /\ list.at \in Nat
      BY <3>1 DEF Outdated, TypeOK, File
    <3> QED
      BY <2>6, <3>1, <3>2, <3>4, <3>5 DEF SameSecond
  <2> QED
    BY <2>4, <2>5, <2>6
<1> QED
  BY <1>1

(* Any number of shells, any course of the clock: a shell that has checked *)
(* the files has names no older than what apt's cache knew at that moment, *)
(* unless they were made by somebody else or in the second in which that   *)
(* was written.                                                            *)
THEOREM CheckedIsFresh == Spec => FreshAfterCheck
<1>1. Inv001 /\ [Next]_vars =>
        [\A s \in Shells : pc'[s] = "prompt" /\ s \in readers' /\ ~disturbed =>
           /\ pc[s] = "list" => \E v \in due[s] .. version : pkgs'[s] = Names[v]
           /\ pc[s] = "check" =>
                SameSecond \/ \E v \in noted .. version : pkgs[s] = Names[v]]_vars
  BY FreshStep
<1> QED
  BY <1>1, Invariance001, PTL DEF Spec, FreshAfterCheck
=============================================================================
