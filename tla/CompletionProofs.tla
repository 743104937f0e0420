--------------------------- MODULE CompletionProofs ---------------------------
(***************************************************************************)
(* Proofs about the completion of commands and of arguments, whatever was  *)
(* completed before and for every table of commands, options and lines     *)
(* that meets the assumptions of Completion, WordsMeaning and              *)
(* Completion006, that trunk shows for a command what release 0.0.6        *)
(* showed, and chooses alike for dpkg where their tables agree, and that   *)
(* the words of such a line are read as they are meant; and that           *)
(* escape_params keeps the wildcards of any text.                          *)
(***************************************************************************)
EXTENDS Completion006, FiniteSetTheorems, SequenceTheorems,
        WellFoundedInduction, TLAPS

(* The commands that cpl_main shows for a text, among the first ones.      *)
ShownBefore(n) ==
  {k \in Table :
     /\ k < n
     /\ Fits(line.text, Commands[k].name)
     /\ Shows(display, group_master, k)}

(* While cpl_main is called and when it has returned NULL, its statics are *)
(* those of the text, and readline has what is shown of the commands up to *)
(* the iterator; at NULL the iterator is at the end of the table.          *)
Statics ==
  /\ display = DisplayFor(line.text)
  /\ \A k \in Table : FittingRoots(line.text) = {k} => group_master = k
Given == matches = {Shown(display, k) : k \in ShownBefore(at["cpl_main"])}
MainInv ==
  /\ pc \in {"typing", "first", "more"}
  /\ DOMAIN at = Iterating /\ at["cpl_main"] \in Nat \ {0}
  /\ line.text \in Seq(STRING)
  /\ pc = "first" => matches = {}
  /\ generator = "cpl_main" /\ pc # "first" => Statics /\ Given
  /\ generator = "cpl_main" /\ pc = "typing" =>
       at["cpl_main"] = Len(Commands) + 1

-----------------------------------------------------------------------------
(* Prefixes.                                                               *)

LEMMA FitsTransitive ==
  ASSUME NEW r \in Seq(STRING), NEW s \in Seq(STRING), NEW t \in Seq(STRING),
         Fits(r, s), Fits(s, t)
  PROVE  Fits(r, t)
BY DEF Fits

LEMMA FitsLinear ==
  ASSUME NEW r \in Seq(STRING), NEW s \in Seq(STRING), NEW t \in Seq(STRING),
         Fits(r, t), Fits(s, t)
  PROVE  IF Len(r) <= Len(s) THEN Fits(r, s) ELSE Fits(s, r) /\ ~Fits(r, s)
<1>1. Len(r) \in Nat /\ Len(s) \in Nat
  OBVIOUS
<1>2. CASE Len(r) <= Len(s)
  BY <1>1, <1>2 DEF Fits
<1>3. CASE ~(Len(r) <= Len(s))
  BY <1>1, <1>3 DEF Fits
<1> QED
  BY <1>2, <1>3

LEMMA TableFacts ==
  /\ Table = 1 .. Len(Commands) /\ Len(Commands) \in Nat
  /\ \A k \in Table :
       /\ Commands[k].name \in Seq(STRING)
       /\ Commands[k].master \in Nat
       /\ Commands[k].has_slaves \in BOOLEAN
<1>1. Commands \in Seq(Entry)
  BY TableAssumption
<1>2. Table = 1 .. Len(Commands) /\ Len(Commands) \in Nat
  BY <1>1 DEF Table
<1>3. \A k \in Table : Commands[k] \in Entry
  BY <1>1, <1>2
<1> QED
  BY <1>2, <1>3 DEF Entry

(* A text that fits a slave fits its master too, or no other root.         *)
LEMMA SlaveFits ==
  ASSUME NEW text \in Seq(STRING), NEW k \in Table,
         Commands[k].master # 0, Fits(text, Commands[k].name)
  PROVE  LET m == Commands[k].master
         IN  /\ m \in Table /\ Commands[m].has_slaves /\ Commands[m].master = 0
             /\ \/ m \in FittingRoots(text)
                \/ FittingRoots(text) = {}
<1> DEFINE m == Commands[k].master
<1>1. m \in Table /\ Commands[m].master = 0
      /\ Fits(Commands[m].name, Commands[k].name)
  BY TableAssumption DEF SlavesHaveMasters
<1>2. Commands[m].has_slaves
  BY <1>1, TableAssumption DEF SlavesHaveMasters, Slaves
<1>3. CASE Fits(text, Commands[m].name)
  BY <1>1, <1>2, <1>3 DEF FittingRoots
<1>4. CASE ~Fits(text, Commands[m].name)
  <2>1. Fits(Commands[m].name, text)
    BY <1>1, <1>4, FitsLinear, TableFacts
  <2>2. ASSUME NEW r \in FittingRoots(text) PROVE FALSE
    <3>1. r \in Table /\ Commands[r].master = 0 /\ Fits(text, Commands[r].name)
      BY DEF FittingRoots
    <3>2. Fits(Commands[m].name, Commands[r].name)
      BY <2>1, <3>1, <1>1, FitsTransitive, TableFacts
    <3>3. r = m
      BY <1>1, <1>2, <3>1, <3>2, TableAssumption DEF MastersStandAlone
    <3> QED
      BY <3>1, <3>3, <1>4
  <2> QED
    BY <1>1, <1>2, <2>2
<1> QED
  BY <1>3, <1>4

(* With the whole name of a master typed, no other root fits.              *)
LEMMA MasterAlone ==
  ASSUME NEW m \in Table, Commands[m].has_slaves
  PROVE  FittingRoots(Commands[m].name) = {m}
<1>1. Commands[m].master = 0
  <2>1. PICK j \in Table : Commands[j].master = m
    BY TableAssumption DEF SlavesHaveMasters, Slaves
  <2>2. m # 0
    BY TableFacts
  <2> QED
    BY <2>1, <2>2, TableAssumption DEF SlavesHaveMasters
<1>2. Fits(Commands[m].name, Commands[m].name)
  BY TableFacts DEF Fits
<1> QED
  BY <1>1, <1>2, TableAssumption DEF FittingRoots, MastersStandAlone

(* Nothing that is shown of another command starts with a starred name.    *)
LEMMA StarApart ==
  ASSUME NEW k \in Table, NEW r \in Table, r # k, NEW d,
         Fits(Append(Commands[k].name, "*"), Shown(d, r))
  PROVE  FALSE
<1> DEFINE s == Commands[k].name
           t == Commands[r].name
<1>1. s \in Seq(STRING) /\ t \in Seq(STRING) /\ s # t
  BY TableFacts, TableAssumption DEF NamesDiffer
<1>2. \A n \in 1 .. Len(t) : t[n] # "*"
  BY <1>1, TableAssumption DEF NamesDiffer
<1>3. /\ Len(Append(s, "*")) = Len(s) + 1
      /\ Append(s, "*")[Len(s) + 1] = "*"
      /\ \A n \in 1 .. Len(s) : Append(s, "*")[n] = s[n]
  BY <1>1
<1>4. Len(s) \in Nat /\ Len(t) \in Nat
  BY <1>1
<1>5. CASE Shown(d, r) = t
  <2>1. Len(s) + 1 <= Len(t) /\ t[Len(s) + 1] = "*"
    BY <1>3, <1>4, <1>5 DEF Fits
  <2> QED
    BY <1>2, <1>4, <2>1
<1>6. CASE Shown(d, r) = Append(t, "*")
  <2>1. /\ Len(Append(t, "*")) = Len(t) + 1
        /\ Append(t, "*")[Len(t) + 1] = "*"
        /\ \A n \in 1 .. Len(t) : Append(t, "*")[n] = t[n]
    BY <1>1
  <2>2. Len(s) <= Len(t)
    BY <1>3, <1>4, <1>6, <2>1 DEF Fits
  <2>3. \A n \in 1 .. Len(s) + 1 : Append(t, "*")[n] = Append(s, "*")[n]
    BY <1>3, <1>4, <1>6 DEF Fits
  <2>4. Len(s) = Len(t)
    <3> SUFFICES ASSUME Len(s) < Len(t) PROVE FALSE
      BY <1>4, <2>2
    <3>1. t[Len(s) + 1] = "*"
      BY <2>1, <2>3, <1>3, <1>4
    <3> QED
      BY <3>1, <1>2, <1>4
  <2>5. \A n \in 1 .. Len(s) : t[n] = s[n]
    BY <2>1, <2>3, <2>4, <1>3, <1>4
  <2> QED
    BY <2>4, <2>5, <1>1
<1> QED
  BY <1>5, <1>6 DEF Shown

-----------------------------------------------------------------------------
LEMMA InitMain == Init => MainInv
BY DEF Init, MainInv, Iterating, NoLine

LEMMA NextMain == MainInv /\ [Next]_vars => MainInv'
<1> SUFFICES ASSUME MainInv, [Next]_vars PROVE MainInv'
  OBVIOUS
<1>1. CASE UNCHANGED vars
  BY <1>1 DEF MainInv, vars, Statics, Given, ShownBefore, FittingRoots,
     DisplayFor, OneMaster
<1>2. CASE Tab
  BY <1>2, LinesAssumption DEF MainInv, Tab
<1>3. CASE Run
  BY <1>3 DEF MainInv, Run, NoLine
<1>4. CASE CallNone
  BY <1>4 DEF MainInv, CallNone
<1>5. CASE Call /\ generator # "cpl_main"
  <2>1. /\ generator' = generator /\ line' = line /\ pc' \in {"typing", "more"}
        /\ \E n : at' = [at EXCEPT ![generator] = n]
    BY <1>5 DEF Call
  <2>2. DOMAIN at' = Iterating /\ at'["cpl_main"] = at["cpl_main"]
    BY <2>1, <1>5 DEF MainInv
  <2> QED
    BY <2>1, <2>2, <1>5 DEF MainInv
<1>6. CASE Call /\ generator = "cpl_main"
  <2> DEFINE n == Begin("cpl_main")
             fitting(a, b) == {k \in Table :
               /\ a <= k /\ k < b
               /\ Fits(line.text, Commands[k].name)
               /\ Shows(display', group_master', k)}
  <2>1. /\ line' = line /\ generator' = "cpl_main"
        /\ display' = IF pc = "first" THEN DisplayFor(line.text) ELSE display
        /\ group_master' = IF pc = "first" THEN MasterFor(line.text)
                                          ELSE group_master
        /\ pc \in {"first", "more"}
    BY <1>6 DEF Call, Starts
  <2>2. display' = DisplayFor(line.text)
    BY <2>1, <1>6 DEF MainInv, Statics
  <2>3. \A k \in Table : FittingRoots(line.text) = {k} => group_master' = k
    <3>1. ASSUME NEW k \in Table, FittingRoots(line.text) = {k}
          PROVE  MasterFor(line.text) = k
      BY <3>1 DEF MasterFor, Min
    <3> QED
      BY <2>1, <3>1, <1>6 DEF MainInv, Statics
  <2>4. n \in Nat \ {0}
    BY <1>6 DEF MainInv, Begin, Iterating
  <2>5. matches = {Shown(display', k) : k \in fitting(1, n)}
    <3>1. CASE pc = "first"
      <4>1. matches = {} /\ n = 1
        BY <3>1 DEF MainInv, Begin
      <4>2. fitting(1, n) = {}
        BY <4>1, TableFacts
      <4> QED
        BY <4>1, <4>2
    <3>2. CASE pc = "more"
      <4>1. n = at["cpl_main"] /\ display' = display /\ group_master' = group_master
        BY <3>2, <2>1 DEF Begin
      <4>2. matches = {Shown(display, k) : k \in ShownBefore(n)}
        BY <3>2, <4>1, <1>6 DEF MainInv, Given
      <4>3. ShownBefore(n) = fitting(1, n)
        BY <4>1, TableFacts DEF ShownBefore
      <4> QED
        BY <4>1, <4>2, <4>3
    <3> QED
      BY <3>1, <3>2, <2>1
  <2>6. Rest("cpl_main", display', group_master') = fitting(n, Len(Commands) + 1)
    BY TableFacts, <2>4 DEF Rest, Source, Name, Accepts, Table
  <2>7. \/ /\ Rest("cpl_main", display', group_master') = {}
           /\ at' = [at EXCEPT !["cpl_main"] = Len(Commands) + 1]
           /\ pc' = "typing" /\ matches' = matches
        \/ \E k \in Rest("cpl_main", display', group_master') :
             /\ \A j \in Rest("cpl_main", display', group_master') : k <= j
             /\ at' = [at EXCEPT !["cpl_main"] = k + 1]
             /\ pc' = "more"
             /\ matches' = matches \cup {Shown(display', k)}
    BY <1>6 DEF Call, Source, Returned
  <2>8. /\ pc' \in {"typing", "more"} /\ DOMAIN at' = Iterating
        /\ at'["cpl_main"] \in Nat \ {0}
        /\ pc' = "typing" => at'["cpl_main"] = Len(Commands) + 1
    BY <2>6, <2>7, TableFacts DEF MainInv, Iterating
  <2>9. matches' = {Shown(display', k) : k \in fitting(1, at'["cpl_main"])}
    <3>1. CASE Rest("cpl_main", display', group_master') = {}
      <4>1. at'["cpl_main"] = Len(Commands) + 1 /\ matches' = matches
        BY <3>1, <2>7 DEF MainInv, Iterating
      <4>2. fitting(1, Len(Commands) + 1) = fitting(1, n)
        BY <3>1, <2>6, <2>4, TableFacts
      <4> QED
        BY <4>1, <4>2, <2>5
    <3>2. ASSUME NEW k \in Rest("cpl_main", display', group_master'),
                 \A j \in Rest("cpl_main", display', group_master') : k <= j,
                 at' = [at EXCEPT !["cpl_main"] = k + 1],
                 matches' = matches \cup {Shown(display', k)}
          PROVE  matches' = {Shown(display', j) : j \in fitting(1, at'["cpl_main"])}
      <4>1. at'["cpl_main"] = k + 1
        BY <3>2 DEF MainInv, Iterating
      <4>2. k \in fitting(n, Len(Commands) + 1)
        BY <2>6
      <4>3. fitting(1, k + 1) = fitting(1, n) \cup {k}
        BY <3>2, <4>2, <2>6, <2>4, TableFacts
      <4> QED
        BY <3>2, <4>1, <4>3, <2>5
    <3> QED
      BY <3>1, <3>2, <2>7
  <2>10. Statics' /\ Given'
    <3>1. Statics'
      BY <2>1, <2>2, <2>3 DEF Statics, DisplayFor, FittingRoots, OneMaster
    <3>2. ShownBefore(at["cpl_main"])' = fitting(1, at'["cpl_main"])
      BY <2>1, TableFacts DEF ShownBefore, Shows
    <3> QED
      BY <3>1, <3>2, <2>9 DEF Given
  <2> QED
    BY <2>1, <2>8, <2>10 DEF MainInv
<1> QED
  BY <1>1, <1>2, <1>3, <1>4, <1>5, <1>6 DEF Next

-----------------------------------------------------------------------------
LEMMA HidesNothing == MainInv => NothingHidden
<1> SUFFICES ASSUME MainInv, Listed, generator = "cpl_main", NEW k \in Table,
                    Fits(line.text, Commands[k].name)
             PROVE  \/ Commands[k].name \in matches
                    \/ Append(Commands[k].name, "*") \in matches
                    \/ /\ Commands[k].master # 0
                       /\ Append(Commands[Commands[k].master].name, "*") \in matches
  BY DEF NothingHidden
<1> DEFINE roots == FittingRoots(line.text)
<1>1. /\ matches = {Shown(display, j) : j \in ShownBefore(Len(Commands) + 1)}
      /\ display = DisplayFor(line.text)
      /\ \A j \in Table : roots = {j} => group_master = j
  BY DEF MainInv, Listed, Statics, Given
<1>2. \A j \in Table :
        Fits(line.text, Commands[j].name) /\ Shows(display, group_master, j) =>
          Shown(display, j) \in matches
  BY <1>1, TableFacts DEF ShownBefore
<1>3. CASE Shows(display, group_master, k)
  BY <1>2, <1>3 DEF Shown
<1>4. CASE ~Shows(display, group_master, k)
  <2>1. roots # {} /\ display \in {"ROOTS", "GROUP"}
    BY <1>1, <1>4 DEF Shows, DisplayFor
  <2>2. Commands[k].master # 0
    <3>1. CASE display = "ROOTS"
      BY <3>1, <1>4 DEF Shows
    <3>2. CASE display = "GROUP"
      <4>1. PICK j \in roots : roots = {j}
        BY <3>2, <1>1 DEF DisplayFor, OneMaster
      <4>2. k # j
        BY <4>1, <1>1, <1>4, <3>2 DEF Shows, FittingRoots
      <4> QED
        BY <4>1, <4>2 DEF FittingRoots
    <3> QED
      BY <2>1, <3>1, <3>2
  <2> DEFINE m == Commands[k].master
  <2>3. m \in roots /\ m \in Table /\ Commands[m].has_slaves /\ Commands[m].master = 0
    BY <2>1, <2>2, SlaveFits DEF MainInv
  <2>4. CASE display = "ROOTS"
    <3>1. Shown(display, m) \in matches
      BY <1>2, <2>3, <2>4 DEF Shows, FittingRoots
    <3> QED
      BY <2>2, <2>3, <2>4, <3>1 DEF Shown
  <2>5. CASE display = "GROUP"
    <3>1. PICK j \in roots : roots = {j}
      BY <2>5, <1>1 DEF DisplayFor, OneMaster
    <3>2. group_master = m
      BY <3>1, <2>3, <1>1
    <3> QED
      BY <3>2, <1>4, <2>5 DEF Shows
  <2> QED
    BY <2>1, <2>4, <2>5
<1> QED
  BY <1>3, <1>4

LEMMA ShowsGroup == MainInv => MasterTypedShowsGroup
<1> SUFFICES ASSUME MainInv, Listed, generator = "cpl_main", NEW k \in Table,
                    Commands[k].has_slaves, line.text = Commands[k].name
             PROVE  matches = {Commands[j].name : j \in Slaves(k) \cup {k}}
  BY DEF MasterTypedShowsGroup
<1>1. FittingRoots(line.text) = {k}
  BY MasterAlone
<1>2. display = "GROUP" /\ group_master = k
  BY <1>1 DEF MainInv, Listed, Statics, DisplayFor, OneMaster
<1>3. matches = {Commands[j].name : j \in ShownBefore(Len(Commands) + 1)}
  BY <1>2 DEF MainInv, Listed, Given, Shown
<1>4. \A j \in Slaves(k) \cup {k} :
        j \in Table /\ Fits(line.text, Commands[j].name)
  <2>1. Fits(Commands[k].name, Commands[k].name)
    BY TableFacts DEF Fits
  <2>2. k # 0
    BY TableFacts
  <2> QED
    BY <2>1, <2>2, TableAssumption DEF SlavesHaveMasters, Slaves
<1>5. ShownBefore(Len(Commands) + 1) = Slaves(k) \cup {k}
  BY <1>2, <1>4, TableFacts DEF ShownBefore, Shows, Slaves
<1> QED
  BY <1>3, <1>5

LEMMA StarsStayOut == MainInv => StarNeverInserted
<1> SUFFICES ASSUME MainInv, Listed, generator = "cpl_main", NEW match \in matches,
                    \A other \in matches : Fits(match, other)
             PROVE  \E k \in Table : Commands[k].name = match
  BY DEF StarNeverInserted
<1> DEFINE roots == FittingRoots(line.text)
<1>1. /\ matches = {Shown(display, j) : j \in ShownBefore(Len(Commands) + 1)}
      /\ display = DisplayFor(line.text)
  BY DEF MainInv, Listed, Statics, Given
<1>2. PICK k \in ShownBefore(Len(Commands) + 1) : match = Shown(display, k)
  BY <1>1
<1>3. k \in Table /\ Fits(line.text, Commands[k].name)
  BY <1>2 DEF ShownBefore
<1>4. CASE ~(display = "ROOTS" /\ Commands[k].has_slaves)
  BY <1>2, <1>3, <1>4 DEF Shown
<1>5. CASE display = "ROOTS" /\ Commands[k].has_slaves
  <2>1. k \in roots
    BY <1>2, <1>3, <1>5 DEF ShownBefore, Shows, FittingRoots
  <2>2. PICK r \in roots : r # k
    BY <2>1, <1>1, <1>5 DEF DisplayFor, OneMaster
  <2>3. r \in Table /\ r \in ShownBefore(Len(Commands) + 1)
    BY <1>5, TableFacts DEF FittingRoots, ShownBefore, Shows
  <2>4. Fits(Append(Commands[k].name, "*"), Shown(display, r))
    BY <2>3, <1>1, <1>2, <1>5 DEF Shown
  <2>5. FALSE
    BY <2>2, <2>3, <2>4, <1>3, StarApart
  <2> QED
    BY <2>5
<1> QED
  BY <1>4, <1>5

-----------------------------------------------------------------------------
(* Arguments.  What has been said of cpl_main's iterator holds of those of *)
(* the other generators too.                                               *)

(* What a generator other than cpl_main returns, among the first things it *)
(* goes through.                                                           *)
Fitting(g, k) ==
  Fits(line.text, Name(g, k)) /\ Accepts(g, display, group_master, k)
OfferedBefore(g, n) == {k \in DOMAIN Source(g) : k < n /\ Fitting(g, k)}
Offered == {Name(generator, k) : k \in OfferedBefore(generator, at[generator])}

ArgInv ==
  /\ world \in Worlds
  /\ line.text \in Seq(STRING) /\ line.words \in Seq(Seq(STRING))
  /\ pc \in {"typing", "first", "more"}
  /\ DOMAIN at = Iterating /\ \A g \in Iterating : at[g] \in Nat \ {0}
  /\ HasGenerator(line) => generator = Chosen(line)
  /\ pc = "first" => matches = {}
  /\ generator \in Iterating \ {"cpl_main"} =>
       /\ pc # "first" => matches = Offered
       /\ pc = "typing" => at[generator] = Len(Source(generator)) + 1

LEMMA SourceTypes ==
  ASSUME world \in Worlds, NEW g \in Iterating
  PROVE  Len(Source(g)) \in Nat /\ DOMAIN Source(g) = 1 .. Len(Source(g))
<1>1. /\ Commands \in Seq(Entry) /\ Options \in Seq(Option)
      /\ world.packages \in Seq([name : Seq(STRING), installed : BOOLEAN])
      /\ world.files \in Seq([name : Seq(STRING), kind : STRING])
  BY TableAssumption, OptionsAssumption, WorldsAssumption
<1>2. \/ Source(g) = Commands \/ Source(g) = Options
      \/ Source(g) = world.packages \/ Source(g) = world.files
  BY DEF Source, Iterating
<1> QED
  BY <1>1, <1>2

LEMMA InitArguments == Init => ArgInv
<1> SUFFICES ASSUME Init PROVE ArgInv
  OBVIOUS
<1>1. /\ line = NoLine /\ generator = "cpl_none" /\ pc = "typing" /\ world \in Worlds
      /\ at = [g \in Iterating |-> 1]
  BY DEF Init
<1>2. ~HasGenerator(line)
  BY <1>1 DEF HasGenerator, NoLine
<1>3. generator \notin Iterating
  BY <1>1 DEF Iterating
<1>4. line.text \in Seq(STRING) /\ line.words \in Seq(Seq(STRING))
  BY <1>1 DEF NoLine
<1> QED
  BY <1>1, <1>2, <1>3, <1>4 DEF ArgInv

LEMMA TabArguments == ArgInv /\ Tab => ArgInv'
<1> SUFFICES ASSUME ArgInv, Tab PROVE ArgInv'
  OBVIOUS
<1>1. PICK l \in Lines :
        /\ line' = l
        /\ IF HasGenerator(l)
           THEN generator' = Chosen(l) /\ pc' = "first"
           ELSE generator' = "cpl_none" /\ pc' = "typing"
  BY DEF Tab
<1>2. line'.text \in Seq(STRING) /\ line'.words \in Seq(Seq(STRING))
  BY <1>1, LinesAssumption
<1>3. HasGenerator(line)' <=> HasGenerator(l)
  BY <1>1 DEF HasGenerator
<1>4. Chosen(line)' = Chosen(l)
  BY <1>1 DEF Chosen
<1>5. matches' = {} /\ UNCHANGED <<world, at>>
  BY DEF Tab
<1>6. "cpl_none" \notin Iterating
  BY DEF Iterating
<1>7. /\ HasGenerator(line)' => generator' = Chosen(line)'
      /\ generator' \in Iterating => pc' = "first"
      /\ pc' \in {"typing", "first"}
  BY <1>1, <1>3, <1>4, <1>6
<1> QED
  BY <1>2, <1>5, <1>7 DEF ArgInv

LEMMA RunArguments == ArgInv /\ Run => ArgInv'
<1> SUFFICES ASSUME ArgInv, Run PROVE ArgInv'
  OBVIOUS
<1>1. /\ line' = NoLine /\ generator' = "cpl_none" /\ pc' = "typing" /\ world' \in Worlds
      /\ UNCHANGED at
  BY DEF Run
<1>2. ~HasGenerator(line)'
  BY <1>1 DEF HasGenerator, NoLine
<1>3. generator' \notin Iterating
  BY <1>1 DEF Iterating
<1>4. line'.text \in Seq(STRING) /\ line'.words \in Seq(Seq(STRING))
  BY <1>1 DEF NoLine
<1> QED
  BY <1>1, <1>2, <1>3, <1>4 DEF ArgInv

LEMMA CallMainArguments ==
  ASSUME ArgInv, generator = "cpl_main", Call
  PROVE  ArgInv'
<1>1. /\ UNCHANGED <<world, line, generator>>
      /\ pc' \in {"typing", "more"}
      /\ \E n \in Nat \ {0} : at' = [at EXCEPT ![generator] = n]
  <2>1. generator \in Iterating /\ world \in Worlds
    BY DEF ArgInv, Iterating
  <2>2. Len(Source(generator)) + 1 \in Nat \ {0}
    BY <2>1, SourceTypes
  <2>3. \A k \in DOMAIN Source(generator) : k + 1 \in Nat \ {0}
    BY <2>1, SourceTypes
  <2> QED
    BY <2>2, <2>3 DEF Call, Rest
<1>2. HasGenerator(line)' = HasGenerator(line) /\ Chosen(line)' = Chosen(line)
  BY <1>1 DEF HasGenerator, Chosen
<1>3. DOMAIN at' = Iterating /\ \A g \in Iterating : at'[g] \in Nat \ {0}
  BY <1>1 DEF ArgInv
<1> QED
  BY <1>1, <1>2, <1>3 DEF ArgInv

LEMMA CallArguments ==
  ASSUME ArgInv, generator # "cpl_main", Call
  PROVE  ArgInv'
<1> DEFINE g == generator
           N == Len(Source(g))
           n == Begin(g)
           found(a, b) == {k \in DOMAIN Source(g) : a <= k /\ k < b /\ Fitting(g, k)}
           rest == Rest(g, display, group_master)
<1>1. /\ g \in Iterating \ {"cpl_main"} /\ pc \in {"first", "more"}
      /\ UNCHANGED <<world, line, generator, display, group_master>>
  BY DEF Call, Starts
<1>2. N \in Nat /\ DOMAIN Source(g) = 1 .. N
  BY <1>1, SourceTypes DEF ArgInv
<1>3. n \in Nat \ {0}
  BY <1>1 DEF ArgInv, Begin
<1>4. rest = found(n, N + 1)
  <2>1. rest = {k \in DOMAIN Source(g) : k >= n /\ Fitting(g, k)}
    BY DEF Rest, Fitting
  <2> HIDE DEF rest, N, n, g
  <2> QED
    BY <1>2, <1>3, <2>1
<1>5. \/ /\ rest = {} /\ pc' = "typing" /\ matches' = matches
         /\ at' = [at EXCEPT ![g] = N + 1]
      \/ \E k \in rest : /\ \A j \in rest : k <= j
                        /\ at' = [at EXCEPT ![g] = k + 1]
                        /\ pc' = "more"
                        /\ matches' = matches \cup {Name(g, k)}
  BY <1>1 DEF Call, Starts, Returned
<1>6. matches = {Name(g, k) : k \in found(1, n)}
  <2>1. CASE pc = "first"
    <3>1. matches = {} /\ n = 1
      BY <2>1 DEF ArgInv, Begin
    <3>2. found(1, n) = {}
      <4> HIDE DEF N, g
      <4> QED
        BY <1>2, <3>1
    <3> QED
      BY <3>1, <3>2
  <2>2. CASE pc = "more"
    <3>1. n = at[g] /\ matches = Offered
      BY <1>1, <2>2 DEF ArgInv, Begin
    <3>2. OfferedBefore(g, n) = found(1, n)
      <4>1. \A k \in DOMAIN Source(g) : 1 <= k
        <5> HIDE DEF N, g
        <5> QED
          BY <1>2
      <4> QED
        BY <4>1 DEF OfferedBefore
    <3> QED
      BY <3>1, <3>2 DEF Offered
  <2> QED
    BY <1>1, <2>1, <2>2
<1>7. g' = g /\ Source(g)' = Source(g) /\ N' = N
  BY <1>1 DEF Source
<1>8. \A k : Fitting(g, k)' <=> Fitting(g, k)
  BY <1>1 DEF Fitting, Accepts, Name, Source
<1>9. \A k : Name(g, k)' = Name(g, k)
  BY <1>1 DEF Name, Source
<1>10. HasGenerator(line)' = HasGenerator(line) /\ Chosen(line)' = Chosen(line)
  BY <1>1 DEF HasGenerator, Chosen
<1>11. PICK m \in Nat \ {0} :
         /\ at' = [at EXCEPT ![g] = m]
         /\ matches' = {Name(g, k) : k \in found(1, m)}
         /\ pc' \in {"typing", "more"} /\ (pc' = "typing" => m = N + 1)
  <2>1. CASE rest = {}
    <3>1. found(1, N + 1) = found(1, n)
      <4> HIDE DEF rest, N, n, g
      <4> QED
        BY <1>2, <1>3, <1>4, <2>1
    <3>2. N + 1 \in Nat \ {0}
      BY <1>2
    <3> HIDE DEF rest, N, n, g, found
    <3> QED
      BY <1>5, <1>6, <2>1, <3>1, <3>2
  <2>2. CASE rest # {}
    <3>1. PICK k \in rest : /\ \A j \in rest : k <= j
                            /\ at' = [at EXCEPT ![g] = k + 1]
                            /\ pc' = "more"
                            /\ matches' = matches \cup {Name(g, k)}
      BY <1>5, <2>2
    <3>2. k \in found(n, N + 1) /\ k + 1 \in Nat \ {0}
      BY <1>2, <1>4
    <3>3. found(1, k + 1) = found(1, n) \cup {k}
      <4> HIDE DEF rest, N, n, g
      <4> QED
        BY <1>2, <1>3, <1>4, <3>1, <3>2
    <3>4. matches' = {Name(g, j) : j \in found(1, k + 1)}
      <4> HIDE DEF rest, N, n, g, found
      <4> QED
        BY <1>6, <3>1, <3>3
    <3> QED
      BY <3>1, <3>2, <3>4
  <2> QED
    BY <2>1, <2>2
<1>12. /\ DOMAIN at' = Iterating /\ at'[g] = m
       /\ \A h \in Iterating : at'[h] \in Nat \ {0}
  BY <1>1, <1>11 DEF ArgInv
<1>13. Offered' = {Name(g, k) : k \in found(1, m)}
  <2>1. \A k \in DOMAIN Source(g) : 1 <= k
    <3> HIDE DEF N, g
    <3> QED
      BY <1>2
  <2>2. OfferedBefore(g, m)' = found(1, m)
    BY <1>7, <1>8, <2>1 DEF OfferedBefore
  <2> QED
    BY <1>1, <1>9, <1>12, <2>2 DEF Offered
<1> QED
  BY <1>1, <1>7, <1>10, <1>11, <1>12, <1>13 DEF ArgInv

LEMMA NextArguments == ArgInv /\ [Next]_vars => ArgInv'
<1> SUFFICES ASSUME ArgInv, [Next]_vars PROVE ArgInv'
  OBVIOUS
<1>1. CASE CallNone
  BY <1>1 DEF ArgInv, CallNone, HasGenerator, Chosen, Iterating
<1>2. CASE UNCHANGED vars
  <2>1. Offered' = Offered /\ Source(generator)' = Source(generator)
    BY <1>2 DEF vars, Offered, OfferedBefore, Fitting, Accepts, Name, Source
  <2>2. HasGenerator(line)' = HasGenerator(line) /\ Chosen(line)' = Chosen(line)
    BY <1>2 DEF vars, HasGenerator, Chosen
  <2> QED
    BY <1>2, <2>1, <2>2 DEF ArgInv, vars
<1> QED
  BY <1>1, <1>2, TabArguments, RunArguments, CallMainArguments, CallArguments DEF Next

(* Which option a word spells. *)
LEMMA OneSpelled ==
  ASSUME NEW word, NEW o \in Spelled(word)
  PROVE  Spelled(word) = {o}
<1>1. o \in DOMAIN Options /\ Options \in Seq(Option)
  BY OptionsAssumption DEF Spelled
<1> SUFFICES ASSUME NEW p \in Spelled(word) PROVE o = p
  OBVIOUS
<1>2. CASE StartsWith(word, <<"-", "-">>)
  BY <1>2, OptionsAssumption DEF Spelled
<1>3. CASE ~StartsWith(word, <<"-", "-">>)
  <2>1. StartsWith(word, <<"-">>) /\ Options[o].name_short = word /\ Options[p].name_short = word
    BY <1>3 DEF Spelled
  <2>2. word # <<>>
    BY <2>1 DEF StartsWith, Fits
  <2> QED
    BY <2>1, <2>2, OptionsAssumption DEF Spelled
<1> QED
  BY <1>2, <1>3

LEMMA DashFirst ==
  ASSUME NEW word, StartsWith(word, <<"-", "-">>)
  PROVE  StartsWith(word, <<"-">>)
<1>1. Len(<<"-", "-">>) = 2 /\ Len(<<"-">>) = 1
  OBVIOUS
<1>2. 2 <= Len(word) /\ \A n \in 1 .. 2 : word[n] = <<"-", "-">>[n]
  BY <1>1 DEF StartsWith, Fits
<1>3. word[1] = "-"
  BY <1>2
<1> QED
  BY <1>1, <1>2, <1>3 DEF StartsWith, Fits

(* For a command that takes installed packages, or dpkg behind an option   *)
(* that does, cpl_pkg_i is the generator.                                  *)
LEMMA InstalledAreOffered ==
  ASSUME ArgInv, Listed, InstalledWanted
  PROVE  generator = "cpl_pkg_i"
<1> DEFINE completion == Commands[Locate(Head(line.words))].completion
           last == line.words[Len(line.words)]
           before == OptionWords(line.words)
<1>1. generator = Chosen(line)
  BY DEF ArgInv, Listed
<1>2. line.words # <<>> /\ ~StartsWith(line.text, <<"-">>) /\ ~StartsWith(line.text, <<"-", "-">>)
  BY DashFirst DEF InstalledWanted
<1>3. CASE completion = "cpl_pkg_i"
  BY <1>1, <1>2, <1>3 DEF Chosen
<1>4. CASE completion = "by option" /\ completion # "cpl_pkg_i"
  <2>1. generator = ByOption(line.words, line.text)
    BY <1>1, <1>2, <1>4 DEF Chosen
  <2>2. PICK o \in DOMAIN Options :
          Options[o].completion = "cpl_pkg_i" /\ last = Options[o].name_long
    BY <1>4 DEF InstalledWanted
  <2>3. Spelled(last) = {o}
    <3>1. o \in Spelled(last)
      BY <2>2, OptionsAssumption DEF Spelled
    <3> QED
      BY <3>1, OneSpelled
  <2>4. Len(line.words) \in before /\ \A n \in before : n \in Int /\ n <= Len(line.words)
    <3>1. line.words \in Seq(Seq(STRING)) /\ Len(line.words) \in Nat \ {0}
      BY <1>2, EmptySeq DEF ArgInv
    <3>2. DOMAIN line.words = 1 .. Len(line.words)
      BY <3>1
    <3>3. Len(line.words) \in DOMAIN line.words
      BY <3>1, <3>2
    <3>4. \A n \in before : n \in DOMAIN line.words
      BY DEF OptionWords
    <3>5. Len(line.words) \in before
      BY <2>3, <3>3 DEF OptionWords
    <3> HIDE DEF before
    <3> QED
      BY <3>1, <3>2, <3>4, <3>5
  <2>5. Max(before) = Len(line.words)
    <3> HIDE DEF before
    <3> QED
      BY <2>4 DEF Max
  <2>6. Min({o}) = o
    <3>1. o \in Nat
      BY OptionsAssumption
    <3> QED
      BY <3>1 DEF Min
  <2>7. generator = Options[Min(Spelled(line.words[Max(before)]))].completion
    BY <1>2, <2>1, <2>4 DEF ByOption
  <2> QED
    BY <2>2, <2>3, <2>5, <2>6, <2>7
<1> QED
  BY <1>3, <1>4 DEF InstalledWanted

LEMMA ArgumentsShown == ArgInv => ArgumentsAreCurrent
<1> SUFFICES ASSUME ArgInv, Listed PROVE ArgumentsAreCurrent
  BY DEF ArgumentsAreCurrent
<1> DEFINE packages == {world.packages[k] : k \in DOMAIN world.packages}
           fitting(S) == {p.name : p \in {q \in S : Fits(line.text, q.name)}}
<1>1. ASSUME generator \in Iterating \ {"cpl_main"}
      PROVE  matches = {Name(generator, k) : k \in {j \in DOMAIN Source(generator) :
                                                     Fitting(generator, j)}}
  <2>1. matches = Offered /\ at[generator] = Len(Source(generator)) + 1
    BY <1>1 DEF ArgInv, Listed
  <2>2. Len(Source(generator)) \in Nat /\ DOMAIN Source(generator) = 1 .. Len(Source(generator))
    BY <1>1, SourceTypes DEF ArgInv
  <2>3. \A k \in DOMAIN Source(generator) : k < at[generator]
    BY <2>1, <2>2
  <2>4. OfferedBefore(generator, at[generator]) =
          {j \in DOMAIN Source(generator) : Fitting(generator, j)}
    BY <2>3 DEF OfferedBefore
  <2> QED
    BY <2>1, <2>4 DEF Offered
<1>2. ASSUME generator = "cpl_pkg" PROVE matches = fitting(packages)
  <2>1. /\ Source(generator) = world.packages
        /\ \A k : Name(generator, k) = world.packages[k].name
        /\ \A k : Fitting(generator, k) <=> Fits(line.text, world.packages[k].name)
    BY <1>2 DEF Source, Name, Fitting, Accepts
  <2>2. matches = {world.packages[k].name : k \in {j \in DOMAIN world.packages :
                                                     Fits(line.text, world.packages[j].name)}}
    BY <1>1, <1>2, <2>1 DEF Iterating
  <2> QED
    BY <2>2
<1>3. ASSUME generator = "cpl_pkg_i" PROVE matches = fitting({p \in packages : p.installed})
  <2>1. /\ Source(generator) = world.packages
        /\ \A k : Name(generator, k) = world.packages[k].name
        /\ \A k : Fitting(generator, k) <=> /\ Fits(line.text, world.packages[k].name)
                                           /\ world.packages[k].installed
    BY <1>3 DEF Source, Name, Fitting, Accepts
  <2>2. matches = {world.packages[k].name : k \in {j \in DOMAIN world.packages :
                                                     /\ Fits(line.text, world.packages[j].name)
                                                     /\ world.packages[j].installed}}
    BY <1>1, <1>3, <2>1 DEF Iterating
  <2> QED
    BY <2>2
<1>4. ASSUME generator = "cpl_fs_deb"
      PROVE  matches \subseteq {world.files[k].name : k \in DOMAIN world.files}
  <2>1. Source(generator) = world.files /\ \A k : Name(generator, k) = world.files[k].name
    BY <1>4 DEF Source, Name
  <2> QED
    BY <1>1, <1>4, <2>1 DEF Iterating
<1>5. InstalledWanted => matches = fitting({p \in packages : p.installed})
  BY <1>3, InstalledAreOffered
<1> QED
  BY <1>2, <1>4, <1>5 DEF ArgumentsAreCurrent

(* Whatever the packages, the files, the options and the lines, and        *)
(* however the generators were left by what was completed before: an       *)
(* argument is completed from what there is when Tab is pressed.           *)
THEOREM ArgumentsAreFresh == Spec => []ArgumentsAreCurrent
BY InitArguments, NextArguments, ArgumentsShown, PTL DEF Spec

-----------------------------------------------------------------------------
(* Release 0.0.6.  It looks for the name of a slave's master somewhere in  *)
(* the text; by the order of the table it is found in front or not at all. *)

LEMMA FitsFront ==
  ASSUME NEW s \in Seq(STRING), NEW t \in Seq(STRING)
  PROVE  Fits(t, s) => Contains(s, t)
<1>1. SubSeq(s, 1, Len(s)) = s
  BY SubSeqFull
<1>2. 0 \in 0 .. Len(s) /\ 0 + 1 = 1
  OBVIOUS
<1>3. SubSeq(s, 0 + 1, Len(s)) = s
  BY <1>1, <1>2, Zenon
<1> QED
  BY <1>2, <1>3, Zenon DEF Contains

LEMMA ContainsNoLonger ==
  ASSUME NEW s \in Seq(STRING), NEW t \in Seq(STRING), Contains(s, t), Len(s) <= Len(t)
  PROVE  Fits(t, s)
<1> DEFINE part(n) == SubSeq(s, n + 1, Len(s))
<1>1. PICK n \in 0 .. Len(s) : Fits(t, part(n))
  BY DEF Contains
<1>2. Len(s) \in Nat /\ Len(t) \in Nat
  OBVIOUS
<1>3. Len(part(n)) = Len(s) - n
  <2>1. \A i \in n + 1 .. Len(s) : s[i] \in STRING
    OBVIOUS
  <2>2. Len(part(n)) = IF n + 1 <= Len(s) THEN Len(s) - (n + 1) + 1 ELSE 0
    BY <1>2, <2>1, SubSeqProperties
  <2> HIDE DEF part
  <2> QED
    BY <1>2, <2>2
<1>4. Len(t) <= Len(part(n))
  BY <1>1 DEF Fits
<1>5. n = 0
  <2> HIDE DEF part
  <2> QED
    BY <1>2, <1>3, <1>4
<1>6. part(0) = s
  BY SubSeqFull
<1> QED
  BY <1>1, <1>5, <1>6

LEMMA SameSize ==
  ASSUME NEW s \in Seq(STRING), NEW t \in Seq(STRING), Fits(s, t), Fits(t, s)
  PROVE  s = t
<1>1. Len(s) \in Nat /\ Len(t) \in Nat
  OBVIOUS
<1>2. Len(s) = Len(t) /\ \A n \in 1 .. Len(s) : s[n] = t[n]
  BY <1>1 DEF Fits
<1> QED
  BY <1>2, SeqEqual

(* What the two loops of release 0.0.6 show, as trunk says it. *)
LEMMA LoopsShow ==
  ASSUME NEW text \in Seq(STRING), NEW m,
         \A k \in Table : FittingRoots(text) = {k} => m = k
  PROVE  cpl_main(text) =
           {Shown(DisplayFor(text), k) :
              k \in {j \in Table : /\ Fits(text, Commands[j].name)
                                  /\ Shows(DisplayFor(text), m, j)}}
<1> DEFINE roots == FittingRoots(text)
           slaves == FittingSlaves(text)
           shown(d) == {Shown(d, k) : k \in {j \in Table : /\ Fits(text, Commands[j].name)
                                                         /\ Shows(d, m, j)}}
<1>1. ASSUME NEW k \in slaves
      PROVE  LET r == Commands[k].master
             IN  /\ k \in Table /\ Fits(text, Commands[k].name) /\ r # 0
                 /\ r \in Table /\ Commands[r].has_slaves
                 /\ Fits(Commands[r].name, Commands[k].name)
                 /\ (r \in roots \/ roots = {})
  <2>1. k \in Table /\ Fits(text, Commands[k].name) /\ Commands[k].master # 0
    BY DEF FittingSlaves
  <2> QED
    BY <2>1, SlaveFits, TableAssumption DEF SlavesHaveMasters
<1>2. \A k \in roots : k \in Table /\ Fits(text, Commands[k].name) /\ Commands[k].master = 0
  BY DEF FittingRoots
<1>3. {j \in Table : Fits(text, Commands[j].name)} = roots \cup slaves
  BY DEF FittingRoots, FittingSlaves
<1>4. IsFiniteSet(roots) /\ Cardinality(roots) \in Nat
  <2>1. IsFiniteSet(1 .. Len(Commands))
    <3>1. Len(Commands) \in Int
      BY TableFacts
    <3> QED
      BY <3>1, FS_Interval
  <2> QED
    BY <2>1, TableFacts, FS_Subset, FS_CardinalityType DEF FittingRoots
<1>5. CASE roots = {}
  <2>1. DisplayFor(text) = "ALL"
    BY <1>5 DEF DisplayFor
  <2>2. shown("ALL") = {Commands[k].name : k \in slaves}
    BY <1>3, <1>5 DEF Shows, Shown
  <2>3. ASSUME NEW k \in slaves PROVE Contains(text, Master(k).name)
    <3> DEFINE r == Commands[k].master
    <3>1. r \in Table /\ Fits(Commands[r].name, Commands[k].name) /\ Commands[r].master = 0
      BY <1>1, TableAssumption DEF SlavesHaveMasters
    <3>2. ~Fits(text, Commands[r].name)
      BY <1>5, <3>1 DEF FittingRoots
    <3>3. Fits(Commands[r].name, text)
      BY <1>1, <3>1, <3>2, FitsLinear, TableFacts
    <3> QED
      BY <3>1, <3>3, FitsFront, TableFacts DEF Master
  <2>4. FirstLoop(text) = {Commands[k].name : k \in slaves}
    BY <1>5, <2>3 DEF FirstLoop
  <2>5. SecondLoop(text) = {}
    BY <1>5, FS_EmptySet DEF SecondLoop
  <2> QED
    BY <2>1, <2>2, <2>4, <2>5 DEF cpl_main
<1>6. ASSUME NEW r, roots = {r} PROVE cpl_main(text) = shown(DisplayFor(text))
  <2>1. /\ Cardinality(roots) = 1 /\ Alone(text)
        /\ r \in Table /\ m = r /\ Commands[r].master = 0 /\ Fits(text, Commands[r].name)
    <3>1. Cardinality({r}) = 1
      BY FS_Singleton
    <3> QED
      BY <1>2, <1>6, <3>1 DEF Alone
  <2>2. SecondLoop(text) = {Commands[k].name : k \in slaves}
    BY <2>1 DEF SecondLoop
  <2>3. FirstLoop(text) \subseteq {Commands[r].name} \cup SecondLoop(text)
    BY <1>6, <2>1, <2>2 DEF FirstLoop
  <2>4. Commands[r].name \in FirstLoop(text)
    BY <1>6, <2>1 DEF FirstLoop
  <2>5. cpl_main(text) = {Commands[k].name : k \in slaves \cup {r}}
    BY <2>2, <2>3, <2>4 DEF cpl_main
  <2>6. \A k \in slaves : Commands[k].master = r /\ Commands[r].has_slaves
    BY <1>1, <1>6
  <2>7. CASE Commands[r].has_slaves
    <3>1. DisplayFor(text) = "GROUP"
      BY <1>6, <2>7 DEF DisplayFor, OneMaster
    <3>2. {j \in Table : Fits(text, Commands[j].name) /\ Shows("GROUP", m, j)} = slaves \cup {r}
      BY <1>3, <1>6, <2>1, <2>6 DEF Shows
    <3> QED
      BY <2>5, <3>1, <3>2 DEF Shown
  <2>8. CASE ~Commands[r].has_slaves
    <3>1. DisplayFor(text) = "ROOTS" /\ slaves = {}
      BY <1>6, <2>6, <2>8 DEF DisplayFor, OneMaster
    <3>2. {j \in Table : Fits(text, Commands[j].name) /\ Shows("ROOTS", m, j)} = {r}
      BY <1>3, <1>6, <2>1, <3>1 DEF Shows
    <3> QED
      BY <2>5, <2>8, <3>1, <3>2 DEF Shown
  <2> QED
    BY <2>7, <2>8
<1>7. CASE roots # {} /\ \A r : roots # {r}
  <2>1. ~Alone(text) /\ Cardinality(roots) # 1
    <3>1. Cardinality(roots) # 0
      BY <1>4, <1>7, FS_EmptySet
    <3>2. Cardinality(roots) # 1
      BY <1>4, <1>7, FS_Singleton
    <3> QED
      BY <1>4, <3>1, <3>2 DEF Alone
  <2>2. DisplayFor(text) = "ROOTS"
    BY <1>7 DEF DisplayFor, OneMaster
  <2>3. ASSUME NEW k \in slaves PROVE ~Contains(text, Master(k).name)
    <3> DEFINE r == Commands[k].master
    <3>1. r \in roots /\ r \in Table /\ Commands[r].has_slaves
      BY <1>1, <1>7
    <3>2. Fits(text, Commands[r].name) /\ Commands[r].name \in Seq(STRING)
      BY <1>2, <3>1, TableFacts
    <3> SUFFICES ASSUME Contains(text, Commands[r].name) PROVE FALSE
      BY DEF Master
    <3>3. Fits(Commands[r].name, text)
      BY <3>2, ContainsNoLonger DEF Fits
    <3>4. text = Commands[r].name
      BY <3>2, <3>3, SameSize
    <3> QED
      BY <1>7, <3>1, <3>4, MasterAlone
  <2>4. cpl_main(text) = {IF Commands[k].has_slaves THEN Append(Commands[k].name, "*")
                          ELSE Commands[k].name : k \in roots}
    BY <2>1, <2>3 DEF cpl_main, FirstLoop, SecondLoop
  <2>5. {j \in Table : Fits(text, Commands[j].name) /\ Shows("ROOTS", m, j)} = roots
    BY DEF Shows, FittingRoots
  <2> QED
    BY <2>2, <2>4, <2>5 DEF Shown
<1> QED
  BY <1>5, <1>6, <1>7

LEMMA CommandsAlike ==
  ASSUME MainInv, ArgInv, Listed, line.words = <<>>
  PROVE  matches = cpl_main(line.text)
<1>1. generator = "cpl_main"
  BY DEF ArgInv, Listed, Chosen
<1>2. /\ line.text \in Seq(STRING) /\ Statics /\ Given
      /\ at["cpl_main"] = Len(Commands) + 1
  BY <1>1 DEF MainInv, Listed
<1>3. \A k \in Table : k < Len(Commands) + 1
  BY TableFacts
<1>4. ShownBefore(at["cpl_main"]) =
        {k \in Table : /\ Fits(line.text, Commands[k].name)
                       /\ Shows(DisplayFor(line.text), group_master, k)}
  BY <1>2, <1>3 DEF ShownBefore, Statics
<1>5. matches = {Shown(DisplayFor(line.text), k) : k \in ShownBefore(at["cpl_main"])}
  BY <1>2 DEF Given, Statics
<1>6. \A k \in Table : FittingRoots(line.text) = {k} => group_master = k
  BY <1>2 DEF Statics
<1> QED
  BY <1>2, <1>4, <1>5, <1>6, LoopsShow

(* Some number is the largest of those up to n. *)
LEMMA LargestNumber ==
  ASSUME NEW n \in Nat, NEW S \in SUBSET (0 .. n), S # {}
  PROVE  \E x \in S : \A y \in S : x >= y
<1> DEFINE R == {ss \in Nat \X Nat : ss[1] < ss[2]}
           below == {n - x : x \in S}
<1>1. IsWellFoundedOn(R, Nat)
  BY NatLessThanWellFounded DEF OpToRel
<1>2. below \subseteq Nat /\ below # {}
  <2>1. ASSUME NEW x \in S PROVE n - x \in Nat
    BY <2>1
  <2> QED
    BY <2>1
<1>3. PICK d \in below : \A e \in below : <<e, d>> \notin R
  <2> HIDE DEF R, below
  <2> QED
    BY <1>1, <1>2, WFMin
<1>4. PICK x \in S : d = n - x
  OBVIOUS
<1>5. ASSUME NEW y \in S PROVE x >= y
  <2>1. n - y \in below /\ n - y \in Nat /\ d \in Nat
    BY <1>2
  <2>2. ~(n - y < d)
    BY <1>3, <2>1
  <2> QED
    BY <1>4, <2>2
<1> QED
  BY <1>5

(* If the tables agree on the words of the line, the last option on it     *)
(* decides in both releases.                                               *)
LEMMA OptionsAlike ==
  ASSUME ArgInv, TablesAgree
  PROVE  ByOption(line.words, line.text) = dpkg_complete(line.words, line.text)
<1> DEFINE words == line.words
           before == OptionWords(words)
           last == words[Max(before)]
<1>1. before = DecidingWords(words)
  BY DEF OptionWords, DecidingWords, TablesAgree
<1>2. CASE before = {}
  BY <1>1, <1>2 DEF ByOption, dpkg_complete, last_decision
<1>3. CASE before # {}
  <2>1. Max(before) \in before
    <3>1. words \in Seq(Seq(STRING)) /\ Len(words) \in Nat
      BY DEF ArgInv
    <3>2. before \subseteq 0 .. Len(words)
      BY <3>1 DEF OptionWords
    <3>3. PICK x \in before : \A y \in before : x >= y
      <4> HIDE DEF before
      <4> QED
        BY <1>3, <3>1, <3>2, LargestNumber
    <3> QED
      BY <3>3 DEF Max
  <2>2. Options[Min(Spelled(last))].completion = Decision(last)
    BY <2>1 DEF OptionWords, TablesAgree
  <2>3. last_decision(words) = Decision(last)
    BY <1>1, <1>3 DEF last_decision
  <2> QED
    BY <1>3, <2>2, <2>3 DEF ByOption, dpkg_complete
<1> QED
  BY <1>2, <1>3

LEMMA HeadOfOne == ASSUME NEW x PROVE Head(<<x>>) = x
OBVIOUS

LEMMA ArgumentsAlike ==
  ASSUME ArgInv, Listed, line.words # <<>>, TablesAgree,
         Commands[Locate(Head(line.words))].completion = "by option",
         Kinds006[Locate(Head(line.words))] = "DPKG"
  PROVE  Choosable(line) = {generator}
<1>1. generator = Chosen(line) /\ ~line.shell /\ Located(Head(line.words)) # {}
  BY DEF ArgInv, Listed, HasGenerator
<1>2. ASSUME line.words = <<Separator>> PROVE FALSE
  <2>1. Head(line.words) = Separator
    BY <1>2, HeadOfOne, Zenon
  <2>2. PICK k \in Table : Commands[k].name = Separator
    BY <1>1, <2>1 DEF Located
  <2> QED
    BY <2>2, SeparatorAssumption
<1>3. line.words \notin {<<>>, <<Separator>>}
  BY <1>2
<1>4. generator = ByOption(line.words, line.text)
  BY <1>1 DEF Chosen
<1>5. Choosable(line) = {ByKind("DPKG", line)}
  BY <1>1, <1>3 DEF Choosable
<1> QED
  BY <1>4, <1>5, OptionsAlike DEF ByKind

-----------------------------------------------------------------------------
(* The words of a line: numbers, and definitions by recursion.             *)

(* Some number is the least of a set. *)
LEMMA LeastNumber ==
  ASSUME NEW S \in SUBSET Nat, S # {}
  PROVE  \E n \in S : \A y \in S : n <= y
<1> DEFINE R == {ss \in Nat \X Nat : ss[1] < ss[2]}
<1>1. IsWellFoundedOn(R, Nat)
  BY NatLessThanWellFounded DEF OpToRel
<1>2. PICK n \in S : \A y \in S : <<y, n>> \notin R
  <2> HIDE DEF R
  <2> QED
    BY <1>1, WFMin
<1>3. ASSUME NEW y \in S PROVE n <= y
  <2>1. n \in Nat /\ y \in Nat
    OBVIOUS
  <2>2. ~(y < n)
    BY <1>2, <2>1
  <2> QED
    BY <2>1, <2>2
<1> QED
  BY <1>3

(* Induction over numbers, with the set of those for which a fact holds in *)
(* the place of the fact: from all smaller numbers to the next.            *)
LEMMA StrongInduction ==
  ASSUME NEW G, \A k \in Nat : (\A j \in Nat : j < k => j \in G) => k \in G
  PROVE  Nat \subseteq G
<1> DEFINE Others == Nat \ G
<1> SUFFICES ASSUME Others # {} PROVE FALSE
  OBVIOUS
<1>1. PICK n \in Others : \A y \in Others : n <= y
  <2>1. Others \in SUBSET Nat
    OBVIOUS
  <2> HIDE DEF Others
  <2> QED
    BY <2>1, LeastNumber
<1>2. ASSUME NEW j \in Nat, j < n PROVE j \in G
  BY <1>1, <1>2
<1> QED
  BY <1>2

Chains(f, D, stop, last, pre, next) ==
  \A k \in D : f[k] = IF k \in stop THEN last ELSE pre[k] \o f[next[k]]

(* A recursive definition that goes from each argument to one of smaller   *)
(* rank, and puts something in front of what is there, has a solution.     *)
LEMMA ChainExists ==
  ASSUME NEW D, NEW S, NEW N \in Nat, NEW stop, NEW last \in Seq(S),
         NEW pre \in [D -> Seq(S)], NEW next \in [D -> D], NEW rank \in [D -> 0 .. N],
         \A k \in D : k \notin stop => rank[next[k]] < rank[k]
  PROVE  \E f \in [D -> Seq(S)] : Chains(f, D, stop, last, pre, next)
<1> DEFINE Value(f, k) == IF k \in stop THEN last ELSE pre[k] \o f[next[k]]
           Good(f, n) == f \in [D -> Seq(S)] /\ \A k \in D : rank[k] < n => f[k] = Value(f, k)
           G == {n \in Nat : \E f : Good(f, n)}
<1>1. ASSUME NEW k \in Nat, \A j \in Nat : j < k => j \in G PROVE k \in G
  <2>1. CASE k = 0
    <3> DEFINE f == [d \in D |-> last]
    <3>1. f \in [D -> Seq(S)]
      OBVIOUS
    <3> HIDE DEF f
    <3>2. ASSUME NEW d \in D PROVE ~(rank[d] < 0)
      <4>1. rank[d] \in 0 .. N
        OBVIOUS
      <4> QED
        BY <4>1
    <3>3. Good(f, 0)
      BY <3>1, <3>2
    <3> HIDE DEF Good
    <3> QED
      BY <2>1, <3>3
  <2>2. CASE k # 0
    <3>1. k - 1 \in Nat /\ k - 1 < k
      BY <2>2
    <3>2. PICK f : Good(f, k - 1)
      BY <1>1, <3>1
    <3> DEFINE g == [d \in D |-> IF rank[d] < k - 1 THEN f[d] ELSE Value(f, d)]
    <3>3. f \in [D -> Seq(S)] /\ \A d \in D : rank[d] < k - 1 => f[d] = Value(f, d)
      BY <3>2
    <3>4. ASSUME NEW d \in D PROVE Value(f, d) \in Seq(S)
      <4>1. CASE d \in stop
        BY <4>1
      <4>2. CASE d \notin stop
        <5>1. pre[d] \in Seq(S) /\ f[next[d]] \in Seq(S)
          BY <3>3
        <5>2. pre[d] \o f[next[d]] \in Seq(S)
          BY <5>1, ConcatProperties
        <5> QED
          BY <4>2, <5>2
      <4> QED
        BY <4>1, <4>2
    <3>5. g \in [D -> Seq(S)]
      <4> HIDE DEF Value
      <4> QED
        BY <3>3, <3>4
    <3>6. ASSUME NEW d \in D PROVE g[d] = Value(f, d)
      <4> HIDE DEF Value
      <4> QED
        BY <3>3
    <3>7. ASSUME NEW d \in D, rank[d] < k PROVE Value(g, d) = Value(f, d)
      <4>1. CASE d \in stop
        BY <4>1
      <4>2. CASE d \notin stop
        <5>1. next[d] \in D /\ rank[next[d]] < rank[d] /\ rank[d] \in Nat /\ rank[next[d]] \in Nat
          BY <4>2
        <5>2. rank[next[d]] < k - 1
          BY <3>7, <5>1
        <5>3. g[next[d]] = f[next[d]]
          <6> HIDE DEF Value
          <6> QED
            BY <5>1, <5>2
        <5> HIDE DEF g
        <5> QED
          BY <4>2, <5>3
      <4> QED
        BY <4>1, <4>2
    <3>8. Good(g, k)
      <4> HIDE DEF g, Value
      <4> QED
        BY <3>5, <3>6, <3>7
    <3> HIDE DEF Good, g
    <3> QED
      BY <3>8
  <2> QED
    BY <2>1, <2>2
<1>2. Nat \subseteq G
  <2> HIDE DEF G
  <2> QED
    BY <1>1, StrongInduction
<1>3. PICK f : Good(f, N + 1)
  <2>1. N + 1 \in G
    <3> HIDE DEF G
    <3> QED
      BY <1>2
  <2> HIDE DEF Good
  <2> QED
    BY <2>1
<1>4. ASSUME NEW d \in D PROVE f[d] = Value(f, d)
  <2>1. rank[d] \in 0 .. N
    OBVIOUS
  <2>2. rank[d] < N + 1
    BY <2>1
  <2> QED
    BY <1>3, <2>2
<1> QED
  BY <1>3, <1>4 DEF Chains

(* A least number of a set is its first, a largest one its last. *)
LEMMA MinIs ==
  ASSUME NEW S \in SUBSET Int, NEW m \in S, \A y \in S : m <= y
  PROVE  Text!Min(S) = m
<1>1. ASSUME NEW x \in S, \A y \in S : x <= y PROVE x = m
  <2>1. x \in Int /\ m \in Int /\ x <= m /\ m <= x
    BY <1>1
  <2> QED
    BY <2>1
<1> QED
  BY <1>1 DEF Text!Min

LEMMA MaxIs ==
  ASSUME NEW S \in SUBSET Int, NEW m \in S, \A y \in S : m >= y
  PROVE  Text!Max(S) = m
<1>1. ASSUME NEW x \in S, \A y \in S : x >= y PROVE x = m
  <2>1. x \in Int /\ m \in Int /\ x >= m /\ m >= x
    BY <1>1
  <2> QED
    BY <2>1
<1> QED
  BY <1>1 DEF Text!Max

-----------------------------------------------------------------------------
(* A line at the prompt. *)
Typeable == Letters \cup {"blank"}

LEMMA CharIs ==
  ASSUME NEW s \in Seq(Typeable), NEW k \in 0 .. Len(s) + 1
  PROVE  /\ Len(s) \in Nat
         /\ k \in 1 .. Len(s) => s[k] \in Typeable /\ Text!Char(s, k) = s[k]
         /\ k \notin 1 .. Len(s) => Text!Char(s, k) = "NUL"
         /\ Text!Char(s, k) \in Typeable \cup {"NUL"}
         /\ Text!Separates(Text!Char(s, k)) <=> Text!Char(s, k) \in {"blank", "NUL"}
BY DEF Text!Char, Text!Separates, Typeable, Letters

(* The word in front ends before the first blank, or where the text does. *)
LEMMA FirstWordIs ==
  ASSUME NEW s \in Seq(Typeable), NEW z \in 1 .. Len(s) + 1,
         \A k \in 1 .. z - 1 : s[k] # "blank", z <= Len(s) => s[z] = "blank"
  PROVE  Text!first_word(s) = SubSeq(s, 1, z - 1)
<1> DEFINE I == {k \in 1 .. Len(s) + 1 : Text!Char(s, k) \in {"blank", "NUL"}}
<1>1. Text!first_word(s) = SubSeq(s, 1, Text!Min(I) - 1)
  BY Zenon DEF Text!first_word, Text!Up
<1>2. Len(s) \in Nat
  OBVIOUS
<1>3. z \in I
  <2>1. CASE z <= Len(s)
    <3>1. z \in 1 .. Len(s) /\ z \in 0 .. Len(s) + 1
      BY <1>2, <2>1
    <3> QED
      BY <2>1, <3>1, CharIs
  <2>2. CASE ~(z <= Len(s))
    <3>1. z \notin 1 .. Len(s) /\ z \in 0 .. Len(s) + 1
      BY <1>2, <2>2
    <3> QED
      BY <3>1, CharIs
  <2> QED
    BY <2>1, <2>2
<1>4. ASSUME NEW k \in I PROVE k \in Int /\ z <= k
  <2>1. k \in 1 .. Len(s) + 1 /\ k \in 0 .. Len(s) + 1
    BY <1>2
  <2>2. CASE k < z
    <3>1. k \in 1 .. Len(s) /\ k \in 1 .. z - 1
      BY <1>2, <2>1, <2>2
    <3>2. s[k] # "blank" /\ s[k] \in Typeable /\ Text!Char(s, k) = s[k]
      BY <2>1, <3>1, CharIs
    <3> QED
      BY <3>2 DEF Typeable, Letters
  <2> QED
    BY <1>2, <2>1, <2>2
<1> HIDE DEF I
<1>5. Text!Min(I) = z
  BY <1>3, <1>4, MinIs
<1> QED
  BY <1>1, <1>5

(* Trimming ends at the first character that is no blank. *)
LEMMA TrimLeftIs ==
  ASSUME NEW s \in Seq(Typeable), NEW z \in 1 .. Len(s) + 1,
         \A k \in 1 .. z - 1 : s[k] = "blank", z <= Len(s) => s[z] # "blank"
  PROVE  Text!trimleft(s) = SubSeq(s, z, Len(s))
<1> DEFINE I == {k \in 1 .. Len(s) + 1 : Text!Char(s, k) # "blank"}
<1>1. Text!trimleft(s) = SubSeq(s, Text!Min(I), Len(s))
  BY Zenon DEF Text!trimleft, Text!Up
<1>2. Len(s) \in Nat
  OBVIOUS
<1>3. z \in I
  <2>1. CASE z <= Len(s)
    <3>1. z \in 1 .. Len(s) /\ z \in 0 .. Len(s) + 1
      BY <1>2, <2>1
    <3> QED
      BY <2>1, <3>1, CharIs
  <2>2. CASE ~(z <= Len(s))
    <3>1. z \notin 1 .. Len(s) /\ z \in 0 .. Len(s) + 1
      BY <1>2, <2>2
    <3> QED
      BY <3>1, CharIs
  <2> QED
    BY <2>1, <2>2
<1>4. ASSUME NEW k \in I PROVE k \in Int /\ z <= k
  <2>1. k \in 1 .. Len(s) + 1 /\ k \in 0 .. Len(s) + 1
    BY <1>2
  <2>2. CASE k < z
    <3>1. k \in 1 .. Len(s) /\ k \in 1 .. z - 1
      BY <1>2, <2>1, <2>2
    <3>2. s[k] = "blank" /\ Text!Char(s, k) = s[k]
      BY <2>1, <3>1, CharIs
    <3> QED
      BY <3>2
  <2> QED
    BY <1>2, <2>1, <2>2
<1> HIDE DEF I
<1>5. Text!Min(I) = z
  BY <1>3, <1>4, MinIs
<1> QED
  BY <1>1, <1>5

(* The end of what is an end.                                              *)
LEMMA EndOfEnd ==
  ASSUME NEW s \in Seq(Typeable), NEW i \in 1 .. Len(s), NEW m \in 1 .. Len(s) - i + 1
  PROVE  SubSeq(SubSeq(s, i, Len(s)), m, Len(s) - i + 1) = SubSeq(s, i + m - 1, Len(s))
<1>1. Len(s) \in 1 .. Len(s) /\ Len(s) - i + 1 \in 1 .. Len(s) - i + 1
  OBVIOUS
<1>2. PICK j \in 1 .. Len(s) : j = Len(s)
  BY <1>1
<1>3. PICK n \in 1 .. j - i + 1 : n = j - i + 1
  BY <1>1, <1>2
<1>4. SubSeq(SubSeq(s, i, j), m, n) = SubSeq(s, i + m - 1, i + n - 1)
  <2>1. m \in 1 .. j - i + 1
    BY <1>2
  <2> QED
    BY <2>1, SubSeqOfSubSeq
<1>5. i + n - 1 = j
  BY <1>3
<1> QED
  BY <1>2, <1>3, <1>4, <1>5

(* One turn of word_iterator: a word ends before z, and y is the next      *)
(* character behind it that is no blank.                                   *)
Turns(s, z, y) ==
  /\ z \in 1 .. Len(s) + 1 /\ y \in z .. Len(s) + 1
  /\ \A k \in 1 .. z - 1 : s[k] # "blank"
  /\ \A k \in z .. y - 1 : s[k] = "blank"
  /\ z <= Len(s) => s[z] = "blank"
  /\ y <= Len(s) => s[y] # "blank"

LEMMA TurnIs ==
  ASSUME NEW s \in Seq(Typeable), NEW z, NEW y, Turns(s, z, y)
  PROVE  /\ Text!next_word(s).word = SubSeq(s, 1, z - 1)
         /\ Text!next_word(s).rest = SubSeq(s, y, Len(s))
         /\ Len(SubSeq(s, 1, z - 1)) = z - 1
         /\ Len(SubSeq(s, y, Len(s))) = Len(s) - y + 1
<1> DEFINE word == SubSeq(s, 1, z - 1)
           behind == SubSeq(s, z, Len(s))
<1>1. /\ Len(s) \in Nat /\ z \in Nat /\ y \in Nat
      /\ 1 <= z /\ z <= y /\ y <= Len(s) + 1
  BY DEF Turns
<1>2. Text!first_word(s) = word
  BY FirstWordIs DEF Turns
<1>3. Len(word) = z - 1
  <2>1. \A i \in 1 .. z - 1 : s[i] \in Typeable
    BY <1>1
  <2>2. z - 1 \in Int /\ (1 <= z - 1 => z - 1 - 1 + 1 = z - 1) /\ (~(1 <= z - 1) => z - 1 = 0)
    BY <1>1
  <2>3. Len(word) = IF 1 <= z - 1 THEN z - 1 - 1 + 1 ELSE 0
    BY <2>1, <2>2, SubSeqProperties
  <2> QED
    BY <2>2, <2>3
<1>4. \A m \in 1 .. Len(s) + 1 :
        /\ SubSeq(s, m, Len(s)) \in Seq(Typeable)
        /\ Len(SubSeq(s, m, Len(s))) = Len(s) - m + 1
        /\ \A i \in 1 .. Len(s) - m + 1 : SubSeq(s, m, Len(s))[i] = s[m + i - 1]
  <2> SUFFICES ASSUME NEW m \in 1 .. Len(s) + 1
               PROVE  /\ SubSeq(s, m, Len(s)) \in Seq(Typeable)
                      /\ Len(SubSeq(s, m, Len(s))) = Len(s) - m + 1
                      /\ \A i \in 1 .. Len(s) - m + 1 : SubSeq(s, m, Len(s))[i] = s[m + i - 1]
    OBVIOUS
  <2>1. \A i \in m .. Len(s) : s[i] \in Typeable
    BY <1>1
  <2>2. m \in Int /\ Len(s) \in Int /\ (~(m <= Len(s)) => Len(s) - m + 1 = 0)
    BY <1>1
  <2>3. /\ SubSeq(s, m, Len(s)) \in Seq(Typeable)
        /\ Len(SubSeq(s, m, Len(s))) = IF m <= Len(s) THEN Len(s) - m + 1 ELSE 0
        /\ \A i \in 1 .. Len(s) - m + 1 : SubSeq(s, m, Len(s))[i] = s[m + i - 1]
    BY <2>1, <2>2, SubSeqProperties
  <2> QED
    BY <2>2, <2>3
<1>5. /\ behind \in Seq(Typeable) /\ Len(behind) = Len(s) - z + 1
      /\ \A i \in 1 .. Len(s) - z + 1 : behind[i] = s[z + i - 1]
  BY <1>1, <1>4
<1>6. Text!next_word(s) = [word |-> word, rest |-> Text!trimleft(behind)]
  <2>1. Text!next_word(s)
          = [word |-> Text!first_word(s),
             rest |-> Text!trimleft(SubSeq(s, Len(Text!first_word(s)) + 1, Len(s)))]
    BY Zenon DEF Text!next_word
  <2>2. z - 1 + 1 = z
    BY <1>1
  <2> QED
    BY <1>2, <1>3, <2>1, <2>2
<1> HIDE DEF word, behind
<1>7. Text!trimleft(behind) = SubSeq(behind, y - z + 1, Len(behind))
  <2>1. y - z + 1 \in 1 .. Len(behind) + 1
    BY <1>1, <1>5
  <2>2. ASSUME NEW k \in 1 .. (y - z + 1) - 1 PROVE behind[k] = "blank"
    <3>1. z + k - 1 \in z .. y - 1 /\ k \in 1 .. Len(s) - z + 1
      BY <1>1
    <3> QED
      BY <1>5, <3>1 DEF Turns
  <2>3. ASSUME y - z + 1 <= Len(behind) PROVE behind[y - z + 1] # "blank"
    <3>1. z + (y - z + 1) - 1 = y /\ y - z + 1 \in 1 .. Len(s) - z + 1 /\ y <= Len(s)
      BY <1>1, <1>5, <2>3
    <3> QED
      BY <1>5, <3>1 DEF Turns
  <2> QED
    BY <1>5, <2>1, <2>2, <2>3, TrimLeftIs
<1>8. SubSeq(behind, y - z + 1, Len(behind)) = SubSeq(s, y, Len(s))
  <2>1. CASE y = Len(s) + 1
    <3>1. y - z + 1 = Len(behind) + 1 /\ Len(behind) \in Nat
      BY <1>1, <1>5, <2>1
    <3>2. SubSeq(behind, y - z + 1, Len(behind)) = <<>>
      BY <3>1, SubSeqEmpty
    <3>3. SubSeq(s, y, Len(s)) = <<>>
      BY <1>1, <2>1, SubSeqEmpty
    <3> QED
      BY <3>2, <3>3
  <2>2. CASE y # Len(s) + 1
    <3>1. z \in 1 .. Len(s) /\ y - z + 1 \in 1 .. Len(s) - z + 1 /\ z + (y - z + 1) - 1 = y
      BY <1>1, <2>2
    <3>2. SubSeq(SubSeq(s, z, Len(s)), y - z + 1, Len(s) - z + 1) = SubSeq(s, z + (y - z + 1) - 1, Len(s))
      BY <3>1, EndOfEnd
    <3> QED
      BY <1>5, <3>1, <3>2 DEF behind
  <2> QED
    BY <2>1, <2>2
<1>9. Len(SubSeq(s, y, Len(s))) = Len(s) - y + 1
  BY <1>1, <1>4
<1>10. Text!next_word(s).word = word /\ Text!next_word(s).rest = SubSeq(s, y, Len(s))
  <2>1. \A v, w : [word |-> v, rest |-> w].word = v /\ [word |-> v, rest |-> w].rest = w
    OBVIOUS
  <2>2. Text!trimleft(behind) = SubSeq(s, y, Len(s))
    BY <1>7, <1>8
  <2> QED
    BY <1>6, <2>1, <2>2
<1> QED
  BY <1>3, <1>9, <1>10 DEF word

(* There is always such a turn. *)
LEMMA TurnExists ==
  ASSUME NEW s \in Seq(Typeable)
  PROVE  \E z, y \in 1 .. Len(s) + 1 : Turns(s, z, y)
<1>1. Len(s) \in Nat
  OBVIOUS
<1> DEFINE Z == {k \in 1 .. Len(s) + 1 : k <= Len(s) => s[k] = "blank"}
<1>2. PICK z \in Z : \A k \in Z : z <= k
  <2>1. Z \in SUBSET Nat /\ Len(s) + 1 \in Z
    BY <1>1
  <2> HIDE DEF Z
  <2> QED
    BY <2>1, LeastNumber
<1> DEFINE Y == {k \in z .. Len(s) + 1 : k <= Len(s) => s[k] # "blank"}
<1>3. z \in 1 .. Len(s) + 1 /\ (z <= Len(s) => s[z] = "blank")
  OBVIOUS
<1>4. PICK y \in Y : \A k \in Y : y <= k
  <2>1. Y \in SUBSET Nat /\ Len(s) + 1 \in Y
    BY <1>1, <1>3
  <2> HIDE DEF Y
  <2> QED
    BY <2>1, LeastNumber
<1>5. y \in z .. Len(s) + 1 /\ (y <= Len(s) => s[y] # "blank")
  OBVIOUS
<1>6. ASSUME NEW k \in 1 .. z - 1 PROVE s[k] # "blank"
  <2>1. k \in 1 .. Len(s) + 1 /\ ~(z <= k)
    BY <1>1, <1>3
  <2> QED
    BY <1>2, <2>1
<1>7. ASSUME NEW k \in z .. y - 1 PROVE s[k] = "blank"
  <2>1. k \in z .. Len(s) + 1 /\ ~(y <= k)
    BY <1>1, <1>3, <1>5
  <2> QED
    BY <1>4, <2>1
<1>8. y \in 1 .. Len(s) + 1
  BY <1>1, <1>3, <1>5
<1> QED
  BY <1>3, <1>5, <1>6, <1>7, <1>8 DEF Turns

-----------------------------------------------------------------------------
(* A text within another. *)
LEMMA PieceIs ==
  ASSUME NEW S, NEW s \in Seq(S), NEW r \in Seq(S), NEW a \in Nat \ {0},
         a + Len(r) - 1 <= Len(s), \A i \in 1 .. Len(r) : s[a + i - 1] = r[i]
  PROVE  SubSeq(s, a, a + Len(r) - 1) = r
<1>1. Len(r) \in Nat /\ Len(s) \in Nat
  OBVIOUS
<1>2. PICK b \in Int : b = a + Len(r) - 1
  <2>1. a + Len(r) - 1 \in Int
    BY <1>1
  <2> QED
    BY <2>1
<1>3. CASE r = <<>>
  <2>1. b < a
    BY <1>2, <1>3
  <2>2. SubSeq(s, a, b) = <<>>
    BY <1>2, <2>1, SubSeqEmpty
  <2> QED
    BY <1>2, <1>3, <2>2
<1>4. CASE r # <<>>
  <2>1. Len(r) >= 1
    BY <1>4, <1>1
  <2>2. /\ b - a + 1 = Len(r) /\ a <= b
        /\ \A i \in a .. b : i \in 1 .. Len(s)
    BY <1>1, <1>2, <2>1
  <2>3. \A i \in a .. b : s[i] \in S
    BY <2>2
  <2>4. /\ SubSeq(s, a, b) \in Seq(S)
        /\ Len(SubSeq(s, a, b)) = IF a <= b THEN b - a + 1 ELSE 0
        /\ \A i \in 1 .. b - a + 1 : SubSeq(s, a, b)[i] = s[a + i - 1]
    BY <1>2, <2>3, SubSeqProperties
  <2> DEFINE p == SubSeq(s, a, b)
  <2>5. p \in Seq(S) /\ Len(p) = Len(r) /\ \A i \in 1 .. Len(r) : p[i] = r[i]
    BY <2>2, <2>4
  <2> HIDE DEF p
  <2>6. p = r
    BY <2>5, SeqEqual
  <2> QED
    BY <1>2, <2>6 DEF p
<1> QED
  BY <1>3, <1>4

(* A text that ends with another. *)
Closes(s, r) ==
  /\ s \in Seq(Typeable) /\ r \in Seq(Typeable) /\ Len(r) <= Len(s)
  /\ \A i \in 1 .. Len(r) : s[Len(s) - Len(r) + i] = r[i]

(* What ends a text is cut from its end.                                   *)
LEMMA ClosingPart ==
  ASSUME NEW s, NEW r, Closes(s, r)
  PROVE  SubSeq(s, Len(s) - Len(r) + 1, Len(s)) = r
<1>1. s \in Seq(Typeable) /\ r \in Seq(Typeable) /\ Len(r) <= Len(s)
      /\ Len(r) \in Nat /\ Len(s) \in Nat
  BY DEF Closes
<1>2. PICK a \in Nat \ {0} : a = Len(s) - Len(r) + 1
  BY <1>1
<1>3. a + Len(r) - 1 = Len(s)
  BY <1>1, <1>2
<1>4. ASSUME NEW i \in 1 .. Len(r) PROVE s[a + i - 1] = r[i]
  <2>1. a + i - 1 = Len(s) - Len(r) + i
    BY <1>1, <1>2
  <2> QED
    BY <2>1 DEF Closes
<1>5. SubSeq(s, a, a + Len(r) - 1) = r
  BY <1>1, <1>3, <1>4, PieceIs
<1> QED
  BY <1>2, <1>3, <1>5

(* And what ends that ends the text.                                       *)
LEMMA ClosesInTurn ==
  ASSUME NEW s, NEW r, NEW q, Closes(s, r), Closes(r, q)
  PROVE  Closes(s, q)
<1>1. /\ s \in Seq(Typeable) /\ r \in Seq(Typeable) /\ q \in Seq(Typeable)
      /\ Len(q) <= Len(r) /\ Len(r) <= Len(s)
      /\ Len(q) \in Nat /\ Len(r) \in Nat /\ Len(s) \in Nat
  BY DEF Closes
<1>2. ASSUME NEW i \in 1 .. Len(q) PROVE s[Len(s) - Len(q) + i] = q[i]
  <2>1. /\ Len(r) - Len(q) + i \in 1 .. Len(r)
        /\ Len(s) - Len(r) + (Len(r) - Len(q) + i) = Len(s) - Len(q) + i
    BY <1>1
  <2>2. r[Len(r) - Len(q) + i] = q[i]
    BY DEF Closes
  <2>3. s[Len(s) - Len(r) + (Len(r) - Len(q) + i)] = r[Len(r) - Len(q) + i]
    BY <2>1 DEF Closes
  <2> QED
    BY <2>1, <2>2, <2>3
<1>3. Len(q) <= Len(s)
  BY <1>1
<1> QED
  BY <1>1, <1>2, <1>3 DEF Closes

(* Blanks, and what follows them. *)
LEMMA Indented ==
  ASSUME NEW n \in Nat \ {0}, NEW r \in Seq(Typeable)
  PROVE  /\ Blanks(n) \in Seq(Typeable) /\ Len(Blanks(n)) = n
         /\ \A i \in 1 .. n : Blanks(n)[i] = "blank"
         /\ Len(Blanks(n) \o r) = n + Len(r)
         /\ \A i \in 1 .. n : (Blanks(n) \o r)[i] = "blank"
         /\ Closes(Blanks(n) \o r, r)
<1>1. /\ Blanks(n) \in Seq(Typeable) /\ Len(Blanks(n)) = n
      /\ \A i \in 1 .. n : Blanks(n)[i] = "blank"
  BY DEF Blanks, Typeable
<1> DEFINE s == Blanks(n) \o r
<1>2. /\ s \in Seq(Typeable) /\ Len(s) = Len(Blanks(n)) + Len(r)
      /\ \A i \in 1 .. Len(Blanks(n)) + Len(r) :
           s[i] = IF i <= Len(Blanks(n)) THEN Blanks(n)[i] ELSE r[i - Len(Blanks(n))]
  BY <1>1, ConcatProperties
<1> HIDE DEF s
<1>3. Len(s) = n + Len(r) /\ Len(r) \in Nat
  BY <1>1, <1>2
<1>4. \A i \in 1 .. n : s[i] = "blank"
  BY <1>1, <1>2, <1>3
<1>5. ASSUME NEW i \in 1 .. Len(r) PROVE s[Len(s) - Len(r) + i] = r[i]
  <2>1. Len(s) - Len(r) + i = n + i /\ n + i \in 1 .. n + Len(r) /\ ~(n + i <= n) /\ n + i - n = i
    BY <1>3
  <2> QED
    BY <1>1, <1>2, <2>1
<1>6. Closes(s, r)
  BY <1>2, <1>3, <1>5 DEF Closes
<1> QED
  BY <1>1, <1>3, <1>4, <1>6 DEF s

(* A word, blanks, and what follows them. *)
Joins(s, w, n, r) ==
  /\ Closes(s, r) /\ Len(s) = Len(w) + n + Len(r)
  /\ s[1] \in Letters /\ s[Len(s) - Len(r)] = "blank"
  /\ Turns(s, Len(w) + 1, Len(w) + n + 1)
  /\ SubSeq(s, 1, Len(w)) = w

LEMMA Joined ==
  ASSUME NEW w \in Seq(Letters), w # <<>>, NEW n \in Nat \ {0}, NEW r \in Seq(Typeable),
         r # <<>> => r[1] \in Letters
  PROVE  Joins(w \o Blanks(n) \o r, w, n, r)
<1> DEFINE b == Blanks(n)
           v == w \o b
           s == v \o r
<1>1. b \in Seq(Typeable) /\ Len(b) = n /\ \A i \in 1 .. n : b[i] = "blank"
  BY Indented
<1>2. w \in Seq(Typeable) /\ Len(w) \in Nat /\ Len(w) >= 1 /\ Len(r) \in Nat
      /\ \A i \in 1 .. Len(w) : w[i] \in Letters
  <2>1. Letters \subseteq Typeable
    BY DEF Typeable
  <2>2. w \in Seq(Typeable)
    BY <2>1, SeqMonotonic
  <2> QED
    BY <2>2
<1> HIDE DEF b
<1>3. /\ v \in Seq(Typeable) /\ Len(v) = Len(w) + Len(b)
      /\ \A i \in 1 .. Len(w) + Len(b) : v[i] = IF i <= Len(w) THEN w[i] ELSE b[i - Len(w)]
  BY <1>1, <1>2, ConcatProperties
<1> HIDE DEF v
<1>4. /\ s \in Seq(Typeable) /\ Len(s) = Len(v) + Len(r)
      /\ \A i \in 1 .. Len(v) + Len(r) : s[i] = IF i <= Len(v) THEN v[i] ELSE r[i - Len(v)]
  BY <1>3, ConcatProperties
<1> HIDE DEF s
<1>5. PICK m \in Nat \ {0} : m = Len(w)
  BY <1>2
<1>6. Len(v) = m + n /\ Len(s) = m + n + Len(r) /\ Len(s) \in Nat
  BY <1>1, <1>2, <1>3, <1>4, <1>5
<1>7. ASSUME NEW i \in 1 .. m PROVE s[i] = w[i] /\ s[i] \in Letters
  <2>1. i <= Len(v) /\ i \in 1 .. Len(v) + Len(r) /\ i <= Len(w) /\ i \in 1 .. Len(w) + Len(b)
        /\ i \in 1 .. Len(w)
    BY <1>1, <1>2, <1>5, <1>6
  <2> QED
    BY <1>2, <1>3, <1>4, <2>1
<1>8. ASSUME NEW i \in m + 1 .. m + n PROVE s[i] = "blank"
  <2>1. i <= Len(v) /\ i \in 1 .. Len(v) + Len(r) /\ ~(i <= Len(w)) /\ i \in 1 .. Len(w) + Len(b)
        /\ i - Len(w) \in 1 .. n
    BY <1>1, <1>2, <1>5, <1>6
  <2> QED
    BY <1>1, <1>3, <1>4, <2>1
<1>9. ASSUME NEW i \in 1 .. Len(r) PROVE s[m + n + i] = r[i]
  <2>1. /\ ~(m + n + i <= Len(v)) /\ m + n + i \in 1 .. Len(v) + Len(r)
        /\ m + n + i - Len(v) = i
    BY <1>2, <1>6
  <2> QED
    BY <1>4, <2>1
<1>10. Closes(s, r)
  <2>1. Len(s) - Len(r) = m + n /\ Len(r) <= Len(s)
    BY <1>2, <1>6
  <2> QED
    BY <1>4, <1>9, <2>1 DEF Closes
<1>11. s[1] \in Letters /\ s[Len(s) - Len(r)] = "blank"
  <2>1. 1 \in 1 .. m /\ Len(s) - Len(r) \in m + 1 .. m + n
    BY <1>2, <1>6
  <2> QED
    BY <1>7, <1>8, <2>1
<1>12. Turns(s, m + 1, m + n + 1)
  <2>1. m + 1 \in 1 .. Len(s) + 1 /\ m + n + 1 \in m + 1 .. Len(s) + 1
    BY <1>2, <1>6
  <2>2. \A k \in 1 .. m + 1 - 1 : s[k] # "blank"
    <3>1. \A k \in 1 .. m : s[k] # "blank"
      BY <1>7 DEF Letters
    <3>2. m + 1 - 1 = m
      OBVIOUS
    <3> QED
      BY <3>1, <3>2
  <2>3. \A k \in m + 1 .. m + n + 1 - 1 : s[k] = "blank"
    <3>1. m + n + 1 - 1 = m + n
      OBVIOUS
    <3> QED
      BY <1>8, <3>1
  <2>4. s[m + 1] = "blank"
    <3>1. m + 1 \in m + 1 .. m + n
      OBVIOUS
    <3> QED
      BY <1>8, <3>1
  <2>5. ASSUME m + n + 1 <= Len(s) PROVE s[m + n + 1] # "blank"
    <3>1. 1 \in 1 .. Len(r) /\ r # <<>>
      BY <1>2, <1>6, <2>5
    <3>2. s[m + n + 1] = r[1]
      BY <1>9, <3>1
    <3> QED
      BY <3>1, <3>2 DEF Letters
  <2> QED
    BY <2>1, <2>2, <2>3, <2>4, <2>5 DEF Turns
<1>13. SubSeq(s, 1, m) = w
  <2>1. 1 + Len(w) - 1 = m /\ 1 + Len(w) - 1 <= Len(s)
    BY <1>2, <1>5, <1>6
  <2>2. \A i \in 1 .. Len(w) : s[1 + i - 1] = w[i]
    <3>1. \A i \in 1 .. Len(w) : 1 + i - 1 = i /\ i \in 1 .. m
      BY <1>5
    <3> QED
      BY <1>7, <3>1
  <2>3. SubSeq(s, 1, 1 + Len(w) - 1) = w
    BY <1>2, <1>4, <2>1, <2>2, PieceIs
  <2> QED
    BY <2>1, <2>3
<1>14. Joins(s, w, n, r)
  BY <1>5, <1>6, <1>10, <1>11, <1>12, <1>13 DEF Joins
<1> QED
  BY <1>14 DEF s, v, b

-----------------------------------------------------------------------------
(* The line at the prompt, from each of its words on. *)
LineParts ==
  /\ line.text \in Seq(Letters) /\ line.words \in Seq(Seq(Letters))
  /\ \A k \in 1 .. Len(line.words) : line.words[k] # <<>>

Spaced(f, n) ==
  /\ f[Len(line.words) + 1] = line.text
  /\ \A k \in 1 .. Len(line.words) : f[k] = line.words[k] \o Blanks(n) \o f[k + 1]

LEMMA BufferIs ==
  ASSUME LineParts, NEW n \in Nat \ {0}
  PROVE  \E f : Spaced(f, n) /\ Buffer(n) = f[1]
<1> DEFINE K == Len(line.words)
           D == 1 .. K + 1
           Defines(g) ==
             g = [k \in 1 .. Len(line.words) + 1 |->
                    IF k > Len(line.words) THEN line.text
                    ELSE line.words[k] \o Blanks(n) \o g[k + 1]]
           pre == [k \in D |-> IF k \in 1 .. K THEN line.words[k] \o Blanks(n) ELSE <<>>]
           next == [k \in D |-> IF k \in 1 .. K THEN k + 1 ELSE k]
           rank == [k \in D |-> K + 1 - k]
<1>1. K \in Nat /\ line.text \in Seq(Typeable) /\ <<>> \in Seq(Typeable)
  <2>1. Letters \subseteq Typeable
    BY DEF Typeable
  <2>2. line.text \in Seq(Typeable)
    BY <2>1, SeqMonotonic DEF LineParts
  <2> QED
    BY <2>2 DEF LineParts
<1>2. pre \in [D -> Seq(Typeable)]
  <2>1. ASSUME NEW k \in 1 .. K PROVE line.words[k] \o Blanks(n) \in Seq(Typeable)
    <3>1. line.words[k] \in Seq(Letters) /\ Letters \subseteq Typeable
      BY DEF LineParts, Typeable
    <3>2. line.words[k] \in Seq(Typeable)
      BY <3>1, SeqMonotonic
    <3>3. Blanks(n) \in Seq(Typeable)
      BY <1>1, Indented
    <3> QED
      BY <3>2, <3>3, ConcatProperties
  <2> QED
    BY <1>1, <2>1
<1>3. next \in [D -> D]
  BY <1>1
<1>4. rank \in [D -> 0 .. K]
  BY <1>1
<1>5. ASSUME NEW k \in D, k \notin {K + 1} PROVE rank[next[k]] < rank[k]
  <2>1. k \in 1 .. K /\ next[k] = k + 1 /\ k + 1 \in D
    BY <1>1, <1>5
  <2>2. rank[next[k]] = K + 1 - (k + 1) /\ rank[k] = K + 1 - k
    BY <2>1
  <2> QED
    BY <1>1, <2>1, <2>2
<1>6. \A k \in D : /\ k \in 1 .. K => pre[k] = line.words[k] \o Blanks(n) /\ next[k] = k + 1
                   /\ k \in 1 .. K <=> ~(k > K)
                   /\ k \notin 1 .. K <=> k = K + 1
  BY <1>1
<1> HIDE DEF pre, next, rank
<1>7. PICK f \in [D -> Seq(Typeable)] : \A k \in D :
        f[k] = IF k \in {K + 1} THEN line.text ELSE pre[k] \o f[next[k]]
  <2> HIDE DEF D, K
  <2>1. PICK f \in [D -> Seq(Typeable)] : Chains(f, D, {K + 1}, line.text, pre, next)
    BY <1>1, <1>2, <1>3, <1>4, <1>5, ChainExists
  <2> QED
    BY <2>1 DEF Chains
<1>8. Defines(f)
  <2>1. ASSUME NEW k \in D
        PROVE  f[k] = IF k > K THEN line.text ELSE line.words[k] \o Blanks(n) \o f[k + 1]
    BY <1>6, <1>7
  <2> QED
    BY <1>7, <2>1
<1> DEFINE F == CHOOSE g : Defines(g)
<1>9. Buffer(n) = F[1]
  BY Zenon DEF Buffer
<1>10. Defines(F)
  BY <1>8
<1>11. ASSUME NEW k \in D
       PROVE  F[k] = IF k > K THEN line.text ELSE line.words[k] \o Blanks(n) \o F[k + 1]
  <2> HIDE DEF F
  <2> QED
    BY <1>10
<1> HIDE DEF F
<1>12. Spaced(F, n)
  <2>1. K + 1 \in D /\ K + 1 > K
    BY <1>1
  <2>2. \A k \in 1 .. K : k \in D /\ ~(k > K)
    BY <1>1
  <2> QED
    BY <1>11, <2>1, <2>2 DEF Spaced
<1> QED
  BY <1>9, <1>12

(* What is typed from the k-th word on. *)
Typed(s) ==
  /\ Closes(s, line.text)
  /\ s # <<>> => s[1] \in Letters
  /\ Len(s) > Len(line.text) => s[Len(s) - Len(line.text)] = "blank"

(* A part in front of what is typed behind it, and so every part.          *)
LEMMA TypedStep ==
  ASSUME LineParts, NEW n \in Nat \ {0}, NEW k \in 1 .. Len(line.words), NEW r, Typed(r)
  PROVE  /\ Joins(line.words[k] \o Blanks(n) \o r, line.words[k], n, r)
         /\ Typed(line.words[k] \o Blanks(n) \o r)
<1>1. r \in Seq(Typeable) /\ line.words[k] \in Seq(Letters) /\ line.words[k] # <<>>
      /\ (r # <<>> => r[1] \in Letters)
  BY DEF LineParts, Typed, Closes
<1> DEFINE s == line.words[k] \o Blanks(n) \o r
<1>2. Joins(s, line.words[k], n, r)
  BY <1>1, Joined
<1> HIDE DEF s
<1>3. Closes(s, r) /\ Closes(r, line.text) /\ s[1] \in Letters /\ s[Len(s) - Len(r)] = "blank"
  BY <1>2 DEF Joins, Typed
<1>4. Closes(s, line.text)
  BY <1>3, ClosesInTurn
<1>5. ASSUME Len(s) > Len(line.text) PROVE s[Len(s) - Len(line.text)] = "blank"
  <2>1. /\ Len(r) \in Nat /\ Len(s) \in Nat /\ Len(line.text) \in Nat
        /\ Len(line.text) <= Len(r) /\ Len(r) <= Len(s)
    BY <1>3 DEF Closes
  <2>2. CASE Len(r) = Len(line.text)
    BY <1>3, <2>2
  <2>3. CASE Len(r) # Len(line.text)
    <3> DEFINE i == Len(r) - Len(line.text)
    <3>1. i \in 1 .. Len(r) /\ Len(s) - Len(r) + i = Len(s) - Len(line.text)
          /\ Len(r) > Len(line.text)
      BY <2>1, <2>3
    <3>2. s[Len(s) - Len(r) + i] = r[i]
      <4> HIDE DEF i
      <4> QED
        BY <1>3, <3>1 DEF Closes
    <3>3. r[i] = "blank"
      BY <3>1 DEF Typed
    <3> HIDE DEF i
    <3> QED
      BY <3>1, <3>2, <3>3
  <2> QED
    BY <2>2, <2>3
<1>6. Typed(s)
  BY <1>3, <1>4, <1>5 DEF Typed
<1> QED
  BY <1>2, <1>6 DEF s

LEMMA TypedLine ==
  ASSUME LineParts, NEW n \in Nat \ {0}, NEW f, Spaced(f, n)
  PROVE  /\ f[Len(line.words) + 1] = line.text
         /\ \A k \in 1 .. Len(line.words) + 1 : Typed(f[k])
         /\ \A k \in 1 .. Len(line.words) : Joins(f[k], line.words[k], n, f[k + 1])
<1> DEFINE K == Len(line.words)
           G == {d \in Nat : d <= K => Typed(f[K + 1 - d])}
<1>1. K \in Nat /\ line.text \in Seq(Letters)
  BY DEF LineParts
<1>2. Typed(line.text)
  <2>1. Letters \subseteq Typeable
    BY DEF Typeable
  <2>2. line.text \in Seq(Typeable)
    BY <1>1, <2>1, SeqMonotonic
  <2>3. Closes(line.text, line.text)
    <3>1. Len(line.text) \in Nat
      BY <1>1
    <3>2. \A i \in 1 .. Len(line.text) : Len(line.text) - Len(line.text) + i = i
      BY <3>1
    <3> QED
      BY <2>2, <3>1, <3>2 DEF Closes
  <2>4. line.text # <<>> => line.text[1] \in Letters
    BY <1>1
  <2>5. ~(Len(line.text) > Len(line.text))
    BY <1>1
  <2> QED
    BY <2>3, <2>4, <2>5 DEF Typed
<1>3. ASSUME NEW d \in Nat, \A j \in Nat : j < d => j \in G PROVE d \in G
  <2> SUFFICES ASSUME d <= K PROVE Typed(f[K + 1 - d])
    OBVIOUS
  <2>1. CASE d = 0
    <3>1. K + 1 - d = K + 1
      BY <1>1, <2>1
    <3> QED
      BY <1>2, <3>1 DEF Spaced
  <2>2. CASE d # 0
    <3> DEFINE k == K + 1 - d
    <3>1. k \in 1 .. K /\ k + 1 = K + 1 - (d - 1) /\ d - 1 \in Nat /\ d - 1 < d /\ d - 1 <= K
      BY <1>1, <2>2
    <3>2. Typed(f[k + 1])
      BY <1>3, <3>1
    <3> HIDE DEF k
    <3>3. f[k] = line.words[k] \o Blanks(n) \o f[k + 1]
      BY <3>1 DEF Spaced
    <3>4. Typed(f[k])
      BY <3>1, <3>2, <3>3, TypedStep
    <3> QED
      BY <3>4 DEF k
  <2> QED
    BY <2>1, <2>2
<1>4. Nat \subseteq G
  <2> HIDE DEF G
  <2> QED
    BY <1>3, StrongInduction
<1>5. ASSUME NEW k \in 1 .. K + 1 PROVE Typed(f[k])
  <2>1. K + 1 - k \in Nat /\ K + 1 - k <= K /\ K + 1 - (K + 1 - k) = k
    BY <1>1
  <2> QED
    BY <1>4, <2>1
<1>6. ASSUME NEW k \in 1 .. K PROVE Joins(f[k], line.words[k], n, f[k + 1])
  <2>1. k + 1 \in 1 .. K + 1
    BY <1>1
  <2>2. Typed(f[k + 1])
    BY <1>5, <2>1
  <2>3. f[k] = line.words[k] \o Blanks(n) \o f[k + 1]
    BY DEF Spaced
  <2> QED
    BY <2>2, <2>3, TypedStep
<1> QED
  BY <1>5, <1>6 DEF Spaced

-----------------------------------------------------------------------------
(* What word_iterator returns for each end of a text. *)
Iterates(w, t) ==
  \A m \in 0 .. Len(t) :
    LET turn == Text!next_word(SubSeq(t, Len(t) - m + 1, Len(t)))
    IN  w[m] = IF turn.word = <<>> THEN <<>> ELSE <<turn.word>> \o w[Len(turn.rest)]

LEMMA IteratorIs ==
  ASSUME NEW t \in Seq(Typeable)
  PROVE  \E w : Iterates(w, t) /\ Text!word_iterator(t) = w[Len(Text!trimleft(t))]
<1> DEFINE N == Len(t)
           D == 0 .. N
           Turn(m) == Text!next_word(SubSeq(t, N - m + 1, N))
           Defines(g) ==
             g = [n \in 0 .. N |->
                    LET turn == Text!next_word(SubSeq(t, N - n + 1, N))
                    IN  IF turn.word = <<>> THEN <<>> ELSE <<turn.word>> \o g[Len(turn.rest)]]
           S == {Turn(m).word : m \in D}
           stop == {m \in D : Turn(m).word = <<>>}
           pre == [m \in D |-> <<Turn(m).word>>]
           next == [m \in D |-> Len(Turn(m).rest)]
           rank == [m \in D |-> m]
<1>1. N \in Nat
  OBVIOUS
<1>2. ASSUME NEW m \in D
      PROVE  Len(Turn(m).rest) \in 0 .. m /\ (Turn(m).word # <<>> => Len(Turn(m).rest) < m)
  <2> DEFINE s == SubSeq(t, N - m + 1, N)
  <2>1. s \in Seq(Typeable) /\ Len(s) = m
    <3>1. /\ N - m + 1 \in Int /\ N \in Int /\ (N - m + 1 <= N => N - (N - m + 1) + 1 = m)
          /\ (~(N - m + 1 <= N) => m = 0) /\ \A i \in N - m + 1 .. N : i \in 1 .. N
      BY <1>1
    <3>2. \A i \in N - m + 1 .. N : t[i] \in Typeable
      BY <3>1
    <3>3. /\ s \in Seq(Typeable)
          /\ Len(s) = IF N - m + 1 <= N THEN N - (N - m + 1) + 1 ELSE 0
      BY <3>1, <3>2, SubSeqProperties
    <3> QED
      BY <3>1, <3>3
  <2> HIDE DEF s
  <2>2. PICK z \in 1 .. Len(s) + 1, y \in 1 .. Len(s) + 1 : Turns(s, z, y)
    BY <2>1, TurnExists
  <2>3. /\ Text!next_word(s).word = SubSeq(s, 1, z - 1)
        /\ Text!next_word(s).rest = SubSeq(s, y, Len(s))
        /\ Len(SubSeq(s, y, Len(s))) = Len(s) - y + 1
    BY <2>1, <2>2, TurnIs
  <2>4. z <= y /\ (z = 1 => SubSeq(s, 1, z - 1) = <<>>)
    <3>1. z <= y
      BY <2>1, <2>2 DEF Turns
    <3>2. ASSUME z = 1 PROVE SubSeq(s, 1, z - 1) = <<>>
      BY <3>2, SubSeqEmpty
    <3> QED
      BY <3>1, <3>2
  <2>5. Turn(m) = Text!next_word(s)
    BY DEF s
  <2> HIDE DEF Turn
  <2> QED
    BY <1>1, <2>1, <2>2, <2>3, <2>4, <2>5
<1> HIDE DEF Turn
<1>3. pre \in [D -> Seq(S)] /\ <<>> \in Seq(S)
  <2>1. ASSUME NEW m \in D PROVE <<Turn(m).word>> \in Seq(S)
    <3>1. Turn(m).word \in S
      OBVIOUS
    <3> HIDE DEF S
    <3> QED
      BY <3>1
  <2> HIDE DEF S
  <2> QED
    BY <2>1
<1>4. next \in [D -> D] /\ rank \in [D -> 0 .. N]
  <2>1. ASSUME NEW m \in D PROVE Len(Turn(m).rest) \in D
    BY <1>1, <1>2
  <2> QED
    BY <2>1
<1>5. ASSUME NEW m \in D, m \notin stop PROVE rank[next[m]] < rank[m]
  <2>1. next[m] \in D /\ next[m] = Len(Turn(m).rest) /\ Turn(m).word # <<>>
    BY <1>4, <1>5
  <2> QED
    BY <1>2, <2>1
<1>6. \A m \in D : /\ m \in stop <=> Turn(m).word = <<>>
                   /\ pre[m] = <<Turn(m).word>> /\ next[m] = Len(Turn(m).rest)
  OBVIOUS
<1> HIDE DEF pre, next, rank, stop, S
<1>7. PICK f \in [D -> Seq(S)] : \A m \in D :
        f[m] = IF m \in stop THEN <<>> ELSE pre[m] \o f[next[m]]
  <2> HIDE DEF D, N
  <2>1. PICK f \in [D -> Seq(S)] : Chains(f, D, stop, <<>>, pre, next)
    BY <1>1, <1>3, <1>4, <1>5, ChainExists
  <2> QED
    BY <2>1 DEF Chains
<1>8. Defines(f)
  <2>1. \A m \in D : f[m] = IF Turn(m).word = <<>> THEN <<>> ELSE <<Turn(m).word>> \o f[Len(Turn(m).rest)]
    BY <1>6, <1>7
  <2>2. f = [n \in D |-> IF Turn(n).word = <<>> THEN <<>> ELSE <<Turn(n).word>> \o f[Len(Turn(n).rest)]]
    BY <1>7, <2>1
  <2> QED
    BY <2>2, Zenon DEF Turn
<1> DEFINE W == CHOOSE g : Defines(g)
<1>9. Text!word_iterator(t) = W[Len(Text!trimleft(t))]
  BY Zenon DEF Text!word_iterator
<1>10. Defines(W)
  <2> HIDE DEF Defines
  <2> QED
    BY <1>8
<1> HIDE DEF W
<1>11. Iterates(W, t)
  <2>1. W = [n \in D |-> IF Turn(n).word = <<>> THEN <<>> ELSE <<Turn(n).word>> \o W[Len(Turn(n).rest)]]
    BY <1>10, Zenon DEF Turn
  <2>2. \A m \in D : W[m] = IF Turn(m).word = <<>> THEN <<>> ELSE <<Turn(m).word>> \o W[Len(Turn(m).rest)]
    BY <2>1, Zenon
  <2> QED
    BY <2>2, Zenon DEF Iterates, Turn
<1> QED
  BY <1>9, <1>11

GoesOn(w, r, z, y) ==
  w[Len(r)] = IF SubSeq(r, 1, z - 1) = <<>> THEN <<>>
              ELSE <<SubSeq(r, 1, z - 1)>> \o w[Len(r) - y + 1]

(* One step of it, where a turn is known, and the end.                     *)
LEMMA IterateAt ==
  ASSUME NEW t, NEW w, Iterates(w, t), NEW r, Closes(t, r), NEW z, NEW y, Turns(r, z, y)
  PROVE  GoesOn(w, r, z, y)
<1>1. r \in Seq(Typeable) /\ Len(r) \in 0 .. Len(t)
  BY DEF Closes
<1>2. SubSeq(t, Len(t) - Len(r) + 1, Len(t)) = r
  BY ClosingPart
<1>3. /\ Text!next_word(r).word = SubSeq(r, 1, z - 1)
      /\ Len(Text!next_word(r).rest) = Len(r) - y + 1
  BY <1>1, TurnIs
<1>4. w[Len(r)] = IF Text!next_word(r).word = <<>> THEN <<>>
                  ELSE <<Text!next_word(r).word>> \o w[Len(Text!next_word(r).rest)]
  BY <1>1, <1>2 DEF Iterates
<1> QED
  BY <1>3, <1>4 DEF GoesOn

LEMMA NothingLeft ==
  ASSUME NEW t \in Seq(Typeable), NEW w, Iterates(w, t)
  PROVE  w[0] = <<>>
<1>1. PICK r \in Seq(Typeable) : r = <<>>
  BY EmptySeq
<1>2. Len(r) = 0 /\ Len(t) \in Nat
  BY <1>1
<1>3. Closes(t, r)
  BY <1>2 DEF Closes
<1>4. PICK z \in Nat : z = 1
  OBVIOUS
<1>5. Turns(r, z, z)
  BY <1>2, <1>4 DEF Turns
<1>6. GoesOn(w, r, z, z)
  BY <1>3, <1>5, IterateAt
<1>7. SubSeq(r, 1, z - 1) = <<>>
  BY <1>4, SubSeqEmpty
<1> QED
  BY <1>2, <1>6, <1>7 DEF GoesOn

(* The parts that are not empty. *)
AllParts == IF line.text = <<>> THEN line.words ELSE Append(line.words, line.text)

LEMMA PartsAre ==
  ASSUME LineParts
  PROVE  /\ AllParts \in Seq(Seq(Letters))
         /\ Len(AllParts) = IF line.text = <<>> THEN Len(line.words) ELSE Len(line.words) + 1
         /\ \A k \in 1 .. Len(line.words) : AllParts[k] = line.words[k]
         /\ line.text # <<>> => AllParts[Len(line.words) + 1] = line.text
<1>1. line.words \in Seq(Seq(Letters)) /\ line.text \in Seq(Letters)
  BY DEF LineParts
<1>2. /\ Append(line.words, line.text) \in Seq(Seq(Letters))
      /\ Len(Append(line.words, line.text)) = Len(line.words) + 1
      /\ \A k \in 1 .. Len(line.words) : Append(line.words, line.text)[k] = line.words[k]
      /\ Append(line.words, line.text)[Len(line.words) + 1] = line.text
  BY <1>1, AppendProperties
<1> QED
  BY <1>1, <1>2 DEF AllParts

(* Each of them ends the line.                                             *)
LEMMA EndsOfLine ==
  ASSUME LineParts, NEW n \in Nat \ {0}, NEW f, Spaced(f, n), NEW t, Closes(t, f[1])
  PROVE  \A k \in 1 .. Len(line.words) + 1 : Closes(t, f[k])
<1> DEFINE K == Len(line.words)
           G == {k \in Nat : k \in 1 .. K + 1 => Closes(t, f[k])}
<1>1. K \in Nat
  BY DEF LineParts
<1>2. ASSUME NEW k \in Nat, \A j \in Nat : j < k => j \in G PROVE k \in G
  <2> SUFFICES ASSUME k \in 1 .. K + 1 PROVE Closes(t, f[k])
    OBVIOUS
  <2>1. CASE k = 1
    BY <2>1
  <2>2. CASE k # 1
    <3>1. k - 1 \in Nat /\ k - 1 < k /\ k - 1 \in 1 .. K + 1 /\ k - 1 \in 1 .. K /\ k - 1 + 1 = k
      BY <1>1, <2>2
    <3>2. Closes(t, f[k - 1])
      BY <1>2, <3>1
    <3>3. Joins(f[k - 1], line.words[k - 1], n, f[k - 1 + 1])
      BY <3>1, TypedLine
    <3>4. Closes(f[k - 1], f[k])
      BY <3>1, <3>3 DEF Joins
    <3> QED
      BY <3>2, <3>4, ClosesInTurn
  <2> QED
    BY <2>1, <2>2
<1>3. Nat \subseteq G
  <2> HIDE DEF G
  <2> QED
    BY <1>2, StrongInduction
<1> QED
  BY <1>1, <1>3

(* The iterator finds the parts in order. *)
LEMMA WordsInOrder ==
  ASSUME LineParts, NEW n \in Nat \ {0}, NEW f, Spaced(f, n), NEW t, Closes(t, f[1]),
         NEW w, Iterates(w, t)
  PROVE  w[Len(f[1])] = AllParts
<1> DEFINE K == Len(line.words)
           P == AllParts
           G == {d \in Nat : d <= K => w[Len(f[K + 1 - d])] = SubSeq(P, K + 1 - d, Len(P))}
<1>1. K \in Nat /\ line.text \in Seq(Letters) /\ line.words \in Seq(Seq(Letters))
      /\ \A k \in 1 .. K : line.words[k] # <<>>
  BY DEF LineParts
<1>2. /\ P \in Seq(Seq(Letters)) /\ Len(P) = IF line.text = <<>> THEN K ELSE K + 1
      /\ \A k \in 1 .. K : P[k] = line.words[k]
      /\ line.text # <<>> => P[K + 1] = line.text
  BY PartsAre
<1> HIDE DEF P
<1>3. w[Len(line.text)] = SubSeq(P, K + 1, Len(P))
  <2>1. Closes(t, line.text)
    <3>1. K + 1 \in 1 .. K + 1 /\ f[K + 1] = line.text
      BY <1>1 DEF Spaced
    <3> QED
      BY <3>1, EndsOfLine
  <2>2. w[Len(line.text)] = IF line.text = <<>> THEN <<>> ELSE <<line.text>> \o w[0]
    <3> DEFINE e == Len(line.text) + 1
    <3>1. e - 1 = Len(line.text) /\ Len(line.text) - e + 1 = 0 /\ Len(line.text) \in Nat
      BY <1>1
    <3>2. Turns(line.text, e, e)
      <4>1. \A k \in 1 .. e - 1 : line.text[k] # "blank"
        BY <1>1, <3>1 DEF Letters
      <4>2. e \in 1 .. Len(line.text) + 1 /\ e \in e .. Len(line.text) + 1
            /\ ~(e <= Len(line.text)) /\ \A k \in e .. e - 1 : FALSE
        BY <3>1
      <4> QED
        BY <4>1, <4>2 DEF Turns
    <3>3. SubSeq(line.text, 1, e - 1) = line.text
      BY <1>1, <3>1, SubSeqFull
    <3> HIDE DEF e
    <3>4. GoesOn(w, line.text, e, e)
      BY <2>1, <3>2, IterateAt
    <3> QED
      BY <3>1, <3>3, <3>4 DEF GoesOn
  <2>3. w[0] = <<>>
    <3>1. t \in Seq(Typeable)
      BY <2>1 DEF Closes
    <3> QED
      BY <3>1, NothingLeft
  <2>4. CASE line.text = <<>>
    <3>1. Len(P) = K /\ K < K + 1
      BY <1>1, <1>2, <2>4
    <3>2. SubSeq(P, K + 1, Len(P)) = <<>>
      BY <1>1, <3>1, SubSeqEmpty
    <3> QED
      BY <2>2, <2>4, <3>2
  <2>5. CASE line.text # <<>>
    <3>1. Len(P) = K + 1 /\ K + 1 \in 1 .. Len(P) /\ K + 1 \in K + 1 .. Len(P) /\ K + 1 < K + 1 + 1
      BY <1>1, <1>2, <2>5
    <3>2. SubSeq(P, K + 1, K + 1) = <<P[K + 1]>> \o SubSeq(P, K + 1 + 1, K + 1)
      BY <1>2, <3>1, SubSeqRecursiveFirst
    <3>3. SubSeq(P, K + 1 + 1, K + 1) = <<>>
      BY <1>1, <3>1, SubSeqEmpty
    <3> QED
      BY <1>2, <2>2, <2>3, <2>5, <3>1, <3>2, <3>3
  <2> QED
    BY <2>4, <2>5
<1>4. ASSUME NEW d \in Nat, \A j \in Nat : j < d => j \in G PROVE d \in G
  <2> SUFFICES ASSUME d <= K PROVE w[Len(f[K + 1 - d])] = SubSeq(P, K + 1 - d, Len(P))
    OBVIOUS
  <2>1. CASE d = 0
    <3>1. K + 1 - d = K + 1
      BY <1>1, <2>1
    <3> QED
      BY <1>3, <3>1 DEF Spaced
  <2>2. CASE d # 0
    <3> DEFINE k == K + 1 - d
    <3>1. k \in 1 .. K /\ k + 1 = K + 1 - (d - 1) /\ d - 1 \in Nat /\ d - 1 < d /\ d - 1 <= K
          /\ k \in 1 .. K + 1
      BY <1>1, <2>2
    <3>2. w[Len(f[k + 1])] = SubSeq(P, k + 1, Len(P))
      BY <1>4, <3>1
    <3> HIDE DEF k
    <3>3. Joins(f[k], line.words[k], n, f[k + 1]) /\ Closes(t, f[k])
      BY <3>1, TypedLine, EndsOfLine
    <3> DEFINE r == f[k]
               e == Len(line.words[k])
    <3>4. /\ Turns(r, e + 1, e + n + 1) /\ SubSeq(r, 1, e) = line.words[k]
          /\ Len(r) = e + n + Len(f[k + 1]) /\ Len(f[k + 1]) \in Nat /\ e \in Nat
      <4>1. line.words[k] \in Seq(Letters) /\ f[k + 1] \in Seq(Typeable)
        BY <1>1, <3>1, <3>3 DEF Joins, Closes
      <4> QED
        BY <3>3, <4>1 DEF Joins
    <3> HIDE DEF r, e
    <3> DEFINE z == e + 1
               y == e + n + 1
    <3>6. Closes(t, r) /\ Turns(r, z, y)
      BY <3>3, <3>4 DEF r
    <3>7. w[Len(r)] = <<line.words[k]>> \o w[Len(f[k + 1])]
      <4>1. z - 1 = e /\ Len(r) - y + 1 = Len(f[k + 1])
        BY <3>4
      <4> HIDE DEF z, y
      <4>2. GoesOn(w, r, z, y)
        BY <3>6, IterateAt
      <4> QED
        BY <1>1, <3>1, <3>4, <4>1, <4>2 DEF GoesOn
    <3>8. SubSeq(P, k, Len(P)) = <<P[k]>> \o SubSeq(P, k + 1, Len(P))
      <4>1. k \in 1 .. Len(P) /\ Len(P) \in k .. Len(P)
        BY <1>1, <1>2, <3>1
      <4> QED
        BY <1>2, <4>1, SubSeqRecursiveFirst
    <3>9. w[Len(f[k])] = SubSeq(P, k, Len(P))
      BY <1>2, <3>1, <3>2, <3>7, <3>8 DEF r
    <3> QED
      BY <3>9 DEF k
  <2> QED
    BY <2>1, <2>2
<1>5. Nat \subseteq G
  <2> HIDE DEF G
  <2> QED
    BY <1>4, StrongInduction
<1>6. K + 1 - K = 1
  BY <1>1
<1>7. w[Len(f[1])] = SubSeq(P, 1, Len(P))
  <2>1. K \in G
    <3> HIDE DEF G
    <3> QED
      BY <1>1, <1>5
  <2>2. w[Len(f[K + 1 - K])] = SubSeq(P, K + 1 - K, Len(P))
    BY <1>1, <2>1
  <2> QED
    BY <1>6, <2>2
<1>8. SubSeq(P, 1, Len(P)) = P
  BY <1>2, SubSeqFull
<1> QED
  BY <1>7, <1>8 DEF P

(* The word at the end of a line. *)
LEMMA PointAtEnd ==
  ASSUME NEW s, Typed(s), line.text \in Seq(Letters)
  PROVE  Text!word_at_point(s, Len(s) + 1) = line.text
<1> DEFINE N == Len(s)
           L == Len(line.text)
           I == {0} \cup {k \in 0 .. N + 1 : Text!Char(s, k) = "blank"}
           J == {k \in N + 1 .. N + 1 : Text!Char(s, k) \in {"blank", "NUL"}}
<1>1. /\ s \in Seq(Typeable) /\ Closes(s, line.text) /\ N \in Nat /\ L \in Nat /\ L <= N
      /\ \A i \in 1 .. L : line.text[i] \in Letters
  <2>1. Closes(s, line.text)
    BY DEF Typed
  <2>2. s \in Seq(Typeable) /\ L <= N
    BY <2>1 DEF Closes
  <2> QED
    BY <2>1, <2>2
<1>2. Text!Char(s, N + 1) = "NUL"
  <2>1. N + 1 \in 0 .. N + 1 /\ N + 1 \notin 1 .. N
    BY <1>1
  <2> QED
    BY <1>1, <2>1, CharIs
<1>3. Text!word_at_point(s, N + 1)
        = IF Text!Char(s, N + 1) = "blank" THEN <<"blank">>
          ELSE SubSeq(s, Text!Max(I) + 1, Text!Min(J) - 1)
  BY Zenon DEF Text!word_at_point, Text!Down, Text!Up
<1>4. Text!Min(J) = N + 1
  <2>1. N + 1 \in J /\ \A k \in J : k \in Int /\ N + 1 <= k
    BY <1>1, <1>2
  <2> HIDE DEF J
  <2> QED
    BY <2>1, MinIs
<1>5. Text!Max(I) = N - L
  <2>1. N - L \in I
    <3>1. CASE N - L = 0
      BY <3>1
    <3>2. CASE N - L # 0
      <4>1. N - L \in 1 .. N /\ N - L \in 0 .. N + 1 /\ N > L
        BY <1>1, <3>2
      <4>2. s[N - L] = "blank"
        BY <4>1 DEF Typed
      <4>3. Text!Char(s, N - L) = "blank"
        BY <1>1, <4>1, <4>2, CharIs
      <4> QED
        BY <4>1, <4>3
    <3> QED
      BY <3>1, <3>2
  <2>2. ASSUME NEW k \in I PROVE k \in Int /\ N - L >= k
    <3>1. k = 0 \/ (k \in 0 .. N + 1 /\ Text!Char(s, k) = "blank")
      OBVIOUS
    <3>2. k \in Int
      BY <1>1, <3>1
    <3>3. CASE k > N - L
      <4>1. k \in 0 .. N + 1 /\ Text!Char(s, k) = "blank" /\ k # N + 1
        BY <1>1, <1>2, <3>1, <3>3
      <4>2. k \in 1 .. N /\ k - (N - L) \in 1 .. L /\ N - L + (k - (N - L)) = k
        <5> HIDE DEF N, L, I, J
        <5> QED
          BY <1>1, <3>2, <3>3, <4>1
      <4>3. s[k] = "blank"
        BY <1>1, <4>1, <4>2, CharIs
      <4>4. s[N - L + (k - (N - L))] = line.text[k - (N - L)]
        BY <1>1, <4>2 DEF Closes
      <4>5. line.text[k - (N - L)] \in Letters
        BY <1>1, <4>2
      <4> QED
        BY <4>2, <4>3, <4>4, <4>5 DEF Letters
    <3> QED
      BY <1>1, <3>2, <3>3
  <2> HIDE DEF I
  <2> QED
    BY <2>1, <2>2, MaxIs
<1> HIDE DEF I, J, N, L
<1>6. SubSeq(s, N - L + 1, N) = line.text
  BY <1>1, ClosingPart DEF N, L
<1>7. N + 1 - 1 = N
  BY <1>1
<1>8. Text!word_at_point(s, N + 1) = line.text
  <2>1. Text!word_at_point(s, N + 1) = SubSeq(s, Text!Max(I) + 1, Text!Min(J) - 1)
    BY <1>2, <1>3
  <2>2. Text!Max(I) + 1 = N - L + 1
    BY <1>5
  <2>3. Text!Min(J) - 1 = N
    BY <1>1, <1>4
  <2> QED
    BY <1>6, <2>1, <2>2, <2>3
<1> QED
  BY <1>8 DEF N

(* What is found from the front and at the cursor. *)
LEMMA FrontIsRead ==
  ASSUME LineParts, NEW n \in Nat \ {0}
  PROVE  /\ Buffer(n) \in Seq(Typeable)
         /\ Text!word_iterator(Blanks(n) \o Buffer(n)) = AllParts
         /\ AllParts # <<>> => Text!first_word(Text!trimleft(Blanks(n) \o Buffer(n))) = Head(AllParts)
         /\ Text!word_at_point(Buffer(n), Len(Buffer(n)) + 1) = line.text
<1>1. PICK f : Spaced(f, n) /\ Buffer(n) = f[1]
  BY BufferIs
<1> DEFINE K == Len(line.words)
           r == f[1]
           s == Blanks(n) \o r
<1>2. K \in Nat /\ line.text \in Seq(Letters) /\ line.words \in Seq(Seq(Letters))
      /\ 1 \in 1 .. K + 1
  BY DEF LineParts
<1>3. Typed(r) /\ Closes(r, line.text) /\ r \in Seq(Typeable) /\ Len(r) \in Nat
  <2>1. Typed(r)
    BY <1>1, <1>2, TypedLine
  <2>2. Closes(r, line.text)
    BY <2>1 DEF Typed
  <2> HIDE DEF r
  <2>3. r \in Seq(Typeable)
    BY <2>2 DEF Closes
  <2> QED
    BY <2>1, <2>2, <2>3
<1>4. r # <<>> => r[1] \in Letters
  BY <1>3 DEF Typed
<1> HIDE DEF r
<1>5. /\ s \in Seq(Typeable) /\ Len(s) = n + Len(r) /\ Closes(s, r)
      /\ \A i \in 1 .. n : s[i] = "blank"
  <2>1. /\ Len(s) = n + Len(r) /\ Closes(s, r)
        /\ \A i \in 1 .. n : s[i] = "blank"
    BY <1>3, Indented
  <2> QED
    BY <2>1 DEF Closes
<1> HIDE DEF s
<1>6. Text!trimleft(s) = r
  <2>1. n + 1 \in 1 .. Len(s) + 1
    BY <1>3, <1>5
  <2>2. \A k \in 1 .. n + 1 - 1 : s[k] = "blank"
    <3>1. n + 1 - 1 = n
      OBVIOUS
    <3> QED
      BY <1>5, <3>1
  <2>3. ASSUME n + 1 <= Len(s) PROVE s[n + 1] # "blank"
    <3>1. 1 \in 1 .. Len(r) /\ Len(s) - Len(r) + 1 = n + 1 /\ r # <<>>
      BY <1>3, <1>5, <2>3
    <3>2. s[Len(s) - Len(r) + 1] = r[1]
      BY <1>5, <3>1 DEF Closes
    <3> QED
      BY <1>4, <3>1, <3>2 DEF Letters
  <2>4. Text!trimleft(s) = SubSeq(s, n + 1, Len(s))
    BY <1>5, <2>1, <2>2, <2>3, TrimLeftIs
  <2>5. Len(s) - Len(r) + 1 = n + 1
    BY <1>3, <1>5
  <2>6. SubSeq(s, Len(s) - Len(r) + 1, Len(s)) = r
    BY <1>5, ClosingPart
  <2> QED
    BY <2>4, <2>5, <2>6
<1>7. Text!word_iterator(s) = AllParts
  <2>1. PICK w : Iterates(w, s) /\ Text!word_iterator(s) = w[Len(Text!trimleft(s))]
    BY <1>5, IteratorIs
  <2>2. w[Len(r)] = AllParts
    BY <1>1, <1>5, <2>1, WordsInOrder DEF r
  <2> QED
    BY <1>6, <2>1, <2>2
<1>8. ASSUME AllParts # <<>> PROVE Text!first_word(r) = Head(AllParts)
  <2>1. /\ AllParts \in Seq(Seq(Letters))
        /\ Len(AllParts) = IF line.text = <<>> THEN K ELSE K + 1
        /\ \A k \in 1 .. K : AllParts[k] = line.words[k]
        /\ line.text # <<>> => AllParts[K + 1] = line.text
    BY PartsAre
  <2>2. Head(AllParts) = AllParts[1]
    BY <1>8, <2>1
  <2>3. CASE K = 0
    <3>1. line.text # <<>> /\ AllParts[1] = line.text
      <4>1. Len(AllParts) # 0
        BY <1>8, <2>1
      <4> QED
        BY <2>1, <2>3, <4>1
    <3>2. r = line.text
      BY <1>1, <2>3 DEF Spaced, r
    <3> DEFINE z == Len(r) + 1
    <3>3. z \in 1 .. Len(r) + 1 /\ ~(z <= Len(r)) /\ z - 1 = Len(r)
      BY <1>3
    <3>4. \A k \in 1 .. z - 1 : r[k] # "blank"
      BY <1>2, <3>2, <3>3 DEF Letters
    <3>5. SubSeq(r, 1, z - 1) = r
      BY <1>3, <3>3, SubSeqFull
    <3> HIDE DEF z
    <3>6. Text!first_word(r) = SubSeq(r, 1, z - 1)
      BY <1>3, <3>3, <3>4, FirstWordIs
    <3> QED
      BY <2>2, <3>1, <3>2, <3>5, <3>6
  <2>4. CASE K # 0
    <3>1. 1 \in 1 .. K
      BY <1>2, <2>4
    <3>2. Joins(r, line.words[1], n, f[1 + 1])
      BY <1>1, <3>1, TypedLine DEF r
    <3> DEFINE e == Len(line.words[1])
               z == e + 1
    <3>3. Turns(r, z, e + n + 1) /\ SubSeq(r, 1, e) = line.words[1]
      BY <3>2 DEF Joins
    <3>4. z - 1 = e
      <4>1. line.words[1] \in Seq(Letters)
        BY <1>2, <3>1
      <4> QED
        BY <4>1
    <3> HIDE DEF z, e
    <3>5. Text!first_word(r) = SubSeq(r, 1, z - 1)
      BY <1>3, <3>3, FirstWordIs DEF Turns
    <3> QED
      BY <2>1, <2>2, <3>1, <3>3, <3>4, <3>5
  <2> QED
    BY <2>3, <2>4
<1>9. Text!word_at_point(r, Len(r) + 1) = line.text
  BY <1>2, <1>3, PointAtEnd
<1> QED
  BY <1>1, <1>3, <1>6, <1>7, <1>8, <1>9 DEF r, s

-----------------------------------------------------------------------------
(* Going backwards over blanks, and over what is none. *)
Gap(t, k) == Text!Separates(Text!Char(t, k))
LastGap(t, i, low) == Text!Max({low} \cup {k \in low .. i : Gap(t, k)})
LastLetter(t, i, low) == Text!Max({low} \cup {k \in low .. i : ~Gap(t, k)})

(* Where going backwards stops: there and nowhere behind.                  *)
LEMMA LastOf ==
  ASSUME NEW low \in Nat, NEW i \in Nat, low <= i, NEW S \in SUBSET (low .. i)
  PROVE  /\ Text!Max({low} \cup S) \in low .. i
         /\ Text!Max({low} \cup S) = low \/ Text!Max({low} \cup S) \in S
         /\ \A k \in S : k <= Text!Max({low} \cup S)
<1> DEFINE M == {low} \cup S
<1>1. M \subseteq low .. i /\ M \subseteq 0 .. i /\ M # {}
  OBVIOUS
<1> HIDE DEF M
<1>2. PICK m \in M : \A k \in M : m >= k
  BY <1>1, LargestNumber
<1>3. Text!Max(M) = m
  <2>1. M \in SUBSET Int
    BY <1>1
  <2> QED
    BY <1>2, <2>1, MaxIs
<1>4. m \in low .. i /\ (m = low \/ m \in S) /\ \A k \in S : k <= m
  <2>1. m \in low .. i
    BY <1>1
  <2>2. m = low \/ m \in S
    BY DEF M
  <2>3. ASSUME NEW k \in S PROVE k <= m
    <3>1. m >= k
      BY <1>2 DEF M
    <3> QED
      BY <2>1, <3>1
  <2> QED
    BY <2>1, <2>2, <2>3
<1> QED
  BY <1>3, <1>4 DEF M

LEMMA LastGapIs ==
  ASSUME NEW t, NEW low \in Nat, NEW i \in Nat, low <= i
  PROVE  /\ LastGap(t, i, low) \in low .. i
         /\ LastGap(t, i, low) = low \/ Gap(t, LastGap(t, i, low))
         /\ \A k \in low .. i : k > LastGap(t, i, low) => ~Gap(t, k)
<1> DEFINE S == {k \in low .. i : Gap(t, k)}
<1>1. S \in SUBSET (low .. i) /\ \A k \in low .. i : k \in S <=> Gap(t, k)
  OBVIOUS
<1>2. LastGap(t, i, low) = Text!Max({low} \cup S)
  BY DEF LastGap
<1> HIDE DEF S
<1>3. PICK m : m = LastGap(t, i, low)
  OBVIOUS
<1>4. m \in low .. i /\ (m = low \/ m \in S) /\ \A k \in S : k <= m
  BY <1>1, <1>2, <1>3, LastOf
<1>5. ASSUME NEW k \in low .. i, k > m PROVE ~Gap(t, k)
  <2>1. ~(k <= m)
    BY <1>4, <1>5
  <2> QED
    BY <1>1, <1>4, <2>1
<1> QED
  BY <1>1, <1>3, <1>4, <1>5

LEMMA LastLetterIs ==
  ASSUME NEW t, NEW low \in Nat, NEW i \in Nat, low <= i
  PROVE  /\ LastLetter(t, i, low) \in low .. i
         /\ LastLetter(t, i, low) = low \/ ~Gap(t, LastLetter(t, i, low))
         /\ \A k \in low .. i : k > LastLetter(t, i, low) => Gap(t, k)
<1> DEFINE S == {k \in low .. i : ~Gap(t, k)}
<1>1. S \in SUBSET (low .. i) /\ \A k \in low .. i : k \in S <=> ~Gap(t, k)
  OBVIOUS
<1>2. LastLetter(t, i, low) = Text!Max({low} \cup S)
  BY DEF LastLetter
<1> HIDE DEF S
<1>3. PICK m : m = LastLetter(t, i, low)
  OBVIOUS
<1>4. m \in low .. i /\ (m = low \/ m \in S) /\ \A k \in S : k <= m
  BY <1>1, <1>2, <1>3, LastOf
<1>5. ASSUME NEW k \in low .. i, k > m PROVE Gap(t, k)
  <2>1. ~(k <= m)
    BY <1>4, <1>5
  <2> QED
    BY <1>1, <1>4, <2>1
<1> QED
  BY <1>1, <1>3, <1>4, <1>5

(* In a line a gap is a blank, or beside the line.                         *)
LEMMA GapIs ==
  ASSUME NEW t \in Seq(Typeable)
  PROVE  /\ Len(t) \in Nat /\ Gap(t, 0) /\ Gap(t, Len(t) + 1)
         /\ \A k \in 0 .. Len(t) + 1 : Gap(t, k) <=> Text!Char(t, k) \in {"blank", "NUL"}
         /\ \A k \in 1 .. Len(t) : Gap(t, k) <=> t[k] = "blank"
<1>1. Len(t) \in Nat
  OBVIOUS
<1>2. \A k \in 0 .. Len(t) + 1 : Gap(t, k) <=> Text!Char(t, k) \in {"blank", "NUL"}
  BY CharIs DEF Gap
<1>3. /\ 0 \in 0 .. Len(t) + 1 /\ 0 \notin 1 .. Len(t)
      /\ Len(t) + 1 \in 0 .. Len(t) + 1 /\ Len(t) + 1 \notin 1 .. Len(t)
  BY <1>1
<1>4. Text!Char(t, 0) = "NUL" /\ Text!Char(t, Len(t) + 1) = "NUL"
  BY <1>3, CharIs
<1>5. ASSUME NEW k \in 1 .. Len(t) PROVE Gap(t, k) <=> t[k] = "blank"
  <2>1. k \in 0 .. Len(t) + 1
    BY <1>1
  <2>2. Text!Char(t, k) = t[k] /\ t[k] \in Typeable
    BY <2>1, CharIs
  <2> QED
    BY <1>2, <2>1, <2>2 DEF Typeable, Letters
<1> QED
  BY <1>1, <1>2, <1>3, <1>4, <1>5

-----------------------------------------------------------------------------
(* Words as runs without a blank. *)
Span(a, b) == [from |-> a, to |-> b]
IsRun(t, a, b) ==
  /\ a \in 1 .. Len(t) /\ b \in 1 .. Len(t) /\ a <= b
  /\ \A k \in a .. b : ~Gap(t, k)
  /\ Gap(t, a - 1) /\ Gap(t, b + 1)

LEMMA RunsAre ==
  ASSUME NEW t \in Seq(Typeable)
  PROVE  /\ \A r \in Runs(t) : IsRun(t, r.from, r.to) /\ r = Span(r.from, r.to)
         /\ \A a, b : IsRun(t, a, b) => Span(a, b) \in Runs(t)
<1>1. DOMAIN t = 1 .. Len(t) /\ Len(t) \in Nat
  OBVIOUS
<1>2. ASSUME NEW a \in 1 .. Len(t), NEW b \in 1 .. Len(t)
      PROVE  Span(a, b) \in Runs(t) <=> IsRun(t, a, b)
  <2>1. a - 1 \in 0 .. Len(t) + 1 /\ b + 1 \in 0 .. Len(t) + 1
        /\ \A k \in a .. b : k \in 1 .. Len(t)
    BY <1>1
  <2>2. /\ Gap(t, a - 1) <=> Text!Char(t, a - 1) \in {"blank", "NUL"}
        /\ Gap(t, b + 1) <=> Text!Char(t, b + 1) \in {"blank", "NUL"}
        /\ \A k \in a .. b : Gap(t, k) <=> t[k] = "blank"
    BY <2>1, GapIs
  <2>3. /\ Span(a, b) \in [from : DOMAIN t, to : DOMAIN t]
        /\ Span(a, b).from = a /\ Span(a, b).to = b
    BY <1>1 DEF Span
  <2>4. Span(a, b) \in Runs(t)
          <=> /\ a <= b /\ \A k \in a .. b : t[k] # "blank"
              /\ {Text!Char(t, a - 1), Text!Char(t, b + 1)} \subseteq {"blank", "NUL"}
    BY <2>3 DEF Runs
  <2> QED
    BY <2>2, <2>4 DEF IsRun
<1>3. ASSUME NEW r \in Runs(t) PROVE IsRun(t, r.from, r.to) /\ r = Span(r.from, r.to)
  <2>1. r \in [from : 1 .. Len(t), to : 1 .. Len(t)]
    BY <1>1 DEF Runs
  <2>2. r.from \in 1 .. Len(t) /\ r.to \in 1 .. Len(t) /\ r = Span(r.from, r.to)
    BY <2>1 DEF Span
  <2> QED
    BY <1>2, <2>2
<1>4. ASSUME NEW a, NEW b, IsRun(t, a, b) PROVE Span(a, b) \in Runs(t)
  BY <1>2, <1>4 DEF IsRun
<1> QED
  BY <1>3, <1>4

(* Of two runs one is in front of the other.                               *)
LEMMA RunsApart ==
  ASSUME NEW t \in Seq(Typeable), NEW q \in Runs(t), NEW r \in Runs(t), q.to <= r.to
  PROVE  q = r \/ q.to < r.from
<1>1. /\ IsRun(t, q.from, q.to) /\ q = Span(q.from, q.to)
      /\ IsRun(t, r.from, r.to) /\ r = Span(r.from, r.to)
  BY RunsAre
<1>2. PICK a \in Nat, b \in Nat : a = q.from /\ b = q.to
  BY <1>1 DEF IsRun
<1>3. PICK c \in Nat, d \in Nat : c = r.from /\ d = r.to
  BY <1>1 DEF IsRun
<1>4. /\ 1 <= a /\ a <= b /\ 1 <= c /\ c <= d /\ b <= d
      /\ \A k \in a .. b : ~Gap(t, k)
      /\ \A k \in c .. d : ~Gap(t, k)
      /\ Gap(t, a - 1) /\ Gap(t, b + 1) /\ Gap(t, c - 1)
  BY <1>1, <1>2, <1>3 DEF IsRun
<1>5. SUFFICES ASSUME ~(b < c) PROVE a = c /\ b = d
  BY <1>1, <1>2, <1>3
<1>6. b = d
  <2>1. b + 1 \notin c .. d
    BY <1>4
  <2> QED
    BY <1>4, <1>5, <2>1
<1>7. a - 1 \notin c .. d /\ c - 1 \notin a .. b
  BY <1>4
<1> QED
  BY <1>4, <1>5, <1>6, <1>7

-----------------------------------------------------------------------------
(* What backward_word_iterator returns from each position on. *)
Before(t, c) == LastLetter(t, LastGap(t, c, 0), 0)
Retraces(w, t) ==
  \A c \in 0 .. Len(t) + 1 :
    w[c] = IF c <= 1 THEN <<>>
           ELSE <<SubSeq(t, LastGap(t, c, 0) + 1, c)>> \o w[Before(t, c)]

(* It goes to the front, and so it is well-defined.                        *)
LEMMA BeforeIsLess ==
  ASSUME NEW t \in Seq(Typeable), NEW c \in 1 .. Len(t) + 1
  PROVE  Before(t, c) \in 0 .. c - 1
<1> DEFINE b == LastGap(t, c, 0)
           d == LastLetter(t, b, 0)
<1>1. c \in Nat /\ 0 <= c /\ 0 \in Nat /\ Len(t) \in Nat
  OBVIOUS
<1>2. b \in 0 .. c /\ (b = 0 \/ Gap(t, b))
  BY <1>1, LastGapIs
<1> HIDE DEF b
<1>3. b \in Nat /\ 0 <= b
  BY <1>2
<1>4. d \in 0 .. b /\ (d = 0 \/ ~Gap(t, d))
  BY <1>1, <1>3, LastLetterIs
<1> HIDE DEF d
<1>5. Gap(t, b)
  BY <1>2, GapIs
<1>6. d \in 0 .. c - 1
  BY <1>1, <1>2, <1>4, <1>5
<1> QED
  BY <1>6 DEF Before, b, d

LEMMA BackwardIs ==
  ASSUME NEW t \in Seq(Typeable), NEW point
  PROVE  \E w : /\ Retraces(w, t)
                /\ Text!backward_word_iterator(t, point) = w[Text!back_from(t, point)]
<1> DEFINE N == Len(t)
           D == 0 .. N + 1
           LG(c) == Text!Max({0} \cup {k \in 0 .. c : Text!Separates(Text!Char(t, k))})
           LL(i) == Text!Max({0} \cup {k \in 0 .. i : ~Text!Separates(Text!Char(t, k))})
           Defines(g) ==
             g = [cur \in 0 .. N + 1 |->
                    IF cur <= 1 THEN <<>>
                    ELSE <<SubSeq(t, LG(cur) + 1, cur)>> \o g[LL(LG(cur))]]
           Word(c) == SubSeq(t, LastGap(t, c, 0) + 1, c)
           S == {Word(c) : c \in D}
           stop == {0, 1}
           pre == [c \in D |-> <<Word(c)>>]
           next == [c \in D |-> IF c = 0 THEN 0 ELSE Before(t, c)]
           rank == [c \in D |-> c]
<1>1. N \in Nat /\ N + 1 \in Nat
  OBVIOUS
<1>2. \A c : LG(c) = LastGap(t, c, 0) /\ LL(LG(c)) = Before(t, c)
  BY Zenon DEF LastGap, LastLetter, Before, Gap
<1>3. pre \in [D -> Seq(S)] /\ <<>> \in Seq(S)
  <2>1. ASSUME NEW c \in D PROVE <<Word(c)>> \in Seq(S)
    <3>1. Word(c) \in S
      OBVIOUS
    <3> HIDE DEF S
    <3> QED
      BY <3>1
  <2> HIDE DEF S
  <2> QED
    BY <2>1
<1>4. ASSUME NEW c \in D, c # 0 PROVE Before(t, c) \in D /\ Before(t, c) < c
  <2>1. c \in 1 .. N + 1
    BY <1>1, <1>4
  <2>2. Before(t, c) \in 0 .. c - 1
    BY <2>1, BeforeIsLess
  <2> QED
    BY <1>1, <2>1, <2>2
<1>5. next \in [D -> D] /\ rank \in [D -> 0 .. N + 1]
  <2>1. 0 \in D
    BY <1>1
  <2> QED
    BY <1>4, <2>1
<1>6. ASSUME NEW c \in D, c \notin stop PROVE rank[next[c]] < rank[c]
  <2>1. c # 0 /\ next[c] = Before(t, c) /\ next[c] \in D
    BY <1>5, <1>6
  <2> QED
    BY <1>4, <2>1
<1>7. \A c \in D : /\ c \in stop <=> c <= 1
                   /\ pre[c] = <<Word(c)>> /\ (c \notin stop => next[c] = Before(t, c))
  BY <1>1
<1> HIDE DEF pre, next, rank, stop, S, LG, LL
<1>8. PICK f \in [D -> Seq(S)] : \A c \in D :
        f[c] = IF c \in stop THEN <<>> ELSE pre[c] \o f[next[c]]
  <2> HIDE DEF D, N
  <2>1. PICK m \in Nat : m = N + 1
    BY <1>1
  <2>2. rank \in [D -> 0 .. m]
    BY <1>5, <2>1
  <2>3. PICK f \in [D -> Seq(S)] : Chains(f, D, stop, <<>>, pre, next)
    BY <1>3, <1>5, <1>6, <2>2, ChainExists
  <2> QED
    BY <2>3 DEF Chains
<1>9. Defines(f)
  <2>1. \A c \in D : f[c] = IF c <= 1 THEN <<>> ELSE <<Word(c)>> \o f[Before(t, c)]
    BY <1>7, <1>8
  <2>2. f = [c \in D |-> IF c <= 1 THEN <<>> ELSE <<Word(c)>> \o f[Before(t, c)]]
    BY <1>8, <2>1
  <2>3. [c \in D |-> IF c <= 1 THEN <<>> ELSE <<Word(c)>> \o f[Before(t, c)]]
          = [c \in D |-> IF c <= 1 THEN <<>> ELSE <<SubSeq(t, LG(c) + 1, c)>> \o f[LL(LG(c))]]
    BY <1>2, Zenon
  <2> QED
    BY <2>2, <2>3
<1> DEFINE W == CHOOSE g : Defines(g)
<1>10. Text!backward_word_iterator(t, point) = W[Text!back_from(t, point)]
  BY Zenon DEF Text!backward_word_iterator, Text!Down, LG, LL
<1>11. Defines(W)
  <2> HIDE DEF Defines
  <2> QED
    BY <1>9
<1> HIDE DEF W
<1>12. \A c \in D : W[c] = IF c <= 1 THEN <<>> ELSE <<SubSeq(t, LG(c) + 1, c)>> \o W[LL(LG(c))]
  BY <1>11, Zenon
<1>13. Retraces(W, t)
  BY <1>2, <1>12 DEF Retraces
<1> QED
  BY <1>10, <1>13

-----------------------------------------------------------------------------
(* The words that end at c or before, but for a first one of one letter. *)
Behind(t, c) == {r \in Runs(t) : r.to <= c /\ r.to # 1}
NotBefore(R, r) == {q \in R : q.from >= r.from}
Found(w, t, c) ==
  /\ IsFiniteSet(Behind(t, c))
  /\ w[c] \in Seq(Seq(Typeable)) /\ Len(w[c]) = Cardinality(Behind(t, c))
  /\ \A r \in Behind(t, c) :
       /\ Cardinality(NotBefore(Behind(t, c), r)) \in 1 .. Len(w[c])
       /\ w[c][Cardinality(NotBefore(Behind(t, c), r))] = SubSeq(t, r.from, r.to)
EndOfRun(t, c) == c \in 1 .. Len(t) /\ ~Gap(t, c) /\ Gap(t, c + 1)

(* At the beginning there are none. *)
LEMMA FoundNone ==
  ASSUME NEW t \in Seq(Typeable), NEW w, Retraces(w, t), NEW c \in 0 .. 1
  PROVE  Found(w, t, c)
<1>1. Behind(t, c) = {}
  <2>1. ASSUME NEW r \in Runs(t) PROVE ~(r.to <= c /\ r.to # 1)
    <3>1. r.to \in 1 .. Len(t)
      BY RunsAre DEF IsRun
    <3> QED
      BY <3>1
  <2> QED
    BY <2>1 DEF Behind
<1>2. w[c] = <<>>
  <2>1. c \in 0 .. Len(t) + 1 /\ c <= 1
    OBVIOUS
  <2> QED
    BY <2>1 DEF Retraces
<1>3. <<>> \in Seq(Seq(Typeable)) /\ Len(<<>>) = 0
  OBVIOUS
<1> QED
  BY <1>1, <1>2, <1>3, FS_EmptySet DEF Found

(* The last word that ends at c, and those before it. *)
LEMMA LastWord ==
  ASSUME NEW t \in Seq(Typeable), NEW c, EndOfRun(t, c)
  PROVE  /\ Span(LastGap(t, c, 0) + 1, c) \in Runs(t)
         /\ Before(t, c) \in 0 .. c - 1
         /\ Before(t, c) = 0 \/ EndOfRun(t, Before(t, c))
         /\ c # 1 => Behind(t, c) = Behind(t, Before(t, c)) \cup {Span(LastGap(t, c, 0) + 1, c)}
         /\ \A r \in Behind(t, Before(t, c)) : r.from < LastGap(t, c, 0) + 1
<1> DEFINE N == Len(t)
           b == LastGap(t, c, 0)
           d == Before(t, c)
           last == Span(b + 1, c)
<1>1. /\ N \in Nat /\ c \in 1 .. N /\ c \in Nat /\ 0 <= c /\ 0 \in Nat
      /\ ~Gap(t, c) /\ Gap(t, c + 1) /\ Gap(t, 0)
  BY GapIs DEF EndOfRun
<1>2. b \in 0 .. c /\ (b = 0 \/ Gap(t, b)) /\ \A k \in 0 .. c : k > b => ~Gap(t, k)
  BY <1>1, LastGapIs
<1>3. d = LastLetter(t, b, 0)
  BY DEF Before
<1> HIDE DEF b, d
<1>4. b \in Nat /\ b < c /\ 0 <= b /\ Gap(t, b)
  <2>1. Gap(t, b)
    BY <1>1, <1>2
  <2>2. b # c
    BY <1>1, <2>1
  <2> QED
    BY <1>1, <1>2, <2>1, <2>2
<1>5. d \in 0 .. b /\ (d = 0 \/ ~Gap(t, d)) /\ \A k \in 0 .. b : k > d => Gap(t, k)
  BY <1>1, <1>3, <1>4, LastLetterIs
<1>6. IsRun(t, b + 1, c)
  <2>1. b + 1 \in 1 .. N /\ b + 1 <= c /\ b + 1 - 1 = b
    BY <1>1, <1>4
  <2>2. \A k \in b + 1 .. c : ~Gap(t, k)
    BY <1>1, <1>2, <1>4
  <2> QED
    BY <1>1, <1>4, <2>1, <2>2 DEF IsRun
<1>7. last \in Runs(t) /\ last.from = b + 1 /\ last.to = c
  BY <1>6, RunsAre DEF Span
<1>8. d \in 0 .. c - 1
  BY <1>1, <1>4, <1>5
<1>9. ASSUME d # 0 PROVE EndOfRun(t, d)
  <2>1. d \in 1 .. N /\ ~Gap(t, d) /\ d # b
    BY <1>1, <1>4, <1>5, <1>9
  <2>2. d + 1 \in 0 .. b /\ d + 1 > d
    BY <1>4, <1>5, <2>1
  <2>3. Gap(t, d + 1)
    BY <1>5, <2>2
  <2> QED
    BY <2>1, <2>3 DEF EndOfRun
<1> HIDE DEF last, N
<1>10. ASSUME NEW r \in Runs(t), r.to <= c, r # last PROVE r.to <= d
  <2>1. IsRun(t, r.from, r.to)
    BY RunsAre
  <2>2. PICK e \in Nat : e = r.to
    BY <2>1 DEF IsRun
  <2>3. ~Gap(t, e)
    <3>1. e \in r.from .. r.to
      BY <2>1, <2>2 DEF IsRun
    <3> QED
      BY <2>1, <3>1 DEF IsRun
  <2>4. e < b + 1
    BY <1>7, <1>10, <2>2, RunsApart
  <2> QED
    BY <1>4, <1>5, <2>2, <2>3, <2>4
<1>11. ASSUME c # 1 PROVE Behind(t, c) = Behind(t, d) \cup {last}
  <2>1. ASSUME NEW r \in Runs(t), r.to <= d PROVE r.to <= c
    <3>1. r.to \in Nat
      BY RunsAre DEF IsRun
    <3> QED
      BY <1>1, <1>8, <2>1, <3>1
  <2>2. last \in Behind(t, c)
    BY <1>1, <1>7, <1>11 DEF Behind
  <2> QED
    BY <1>10, <2>1, <2>2 DEF Behind
<1>12. ASSUME NEW r \in Behind(t, d) PROVE r.from < b + 1
  <2>1. r \in Runs(t) /\ r.to <= d
    BY DEF Behind
  <2>2. IsRun(t, r.from, r.to)
    BY <2>1, RunsAre
  <2>3. r.from \in Nat /\ r.to \in Nat /\ r.from <= r.to
    BY <2>2 DEF IsRun
  <2> QED
    BY <1>4, <1>5, <2>1, <2>3
<1> QED
  BY <1>7, <1>8, <1>9, <1>11, <1>12 DEF last, b, d

(* A word put in front of those before it. *)
LEMMA FoundOneMore ==
  ASSUME NEW t \in Seq(Typeable), NEW w, Retraces(w, t), NEW c, EndOfRun(t, c), c # 1,
         Found(w, t, Before(t, c))
  PROVE  Found(w, t, c)
<1> DEFINE b == LastGap(t, c, 0)
           d == Before(t, c)
           last == Span(b + 1, c)
           B == Behind(t, d)
           word == SubSeq(t, b + 1, c)
           V == Seq(Typeable)
<1>1. /\ last \in Runs(t) /\ Behind(t, c) = B \cup {last}
      /\ \A r \in B : r.from < b + 1
  BY LastWord
<1>2. /\ c \in 1 .. Len(t) /\ Len(t) \in Nat /\ last.from = b + 1 /\ last.to = c
      /\ b + 1 \in 1 .. Len(t)
  <2>1. c \in 1 .. Len(t) /\ last.from = b + 1 /\ last.to = c
    BY DEF EndOfRun, Span
  <2>2. IsRun(t, last.from, last.to)
    BY <1>1, RunsAre
  <2> HIDE DEF last
  <2> QED
    BY <2>1, <2>2 DEF IsRun
<1>3. w[c] = <<word>> \o w[d]
  <2>1. c \in 0 .. Len(t) + 1 /\ ~(c <= 1)
    BY <1>2
  <2> QED
    BY <2>1 DEF Retraces
<1>4. /\ IsFiniteSet(B) /\ w[d] \in Seq(V) /\ Len(w[d]) = Cardinality(B)
      /\ \A r \in B : /\ Cardinality(NotBefore(B, r)) \in 1 .. Len(w[d])
                      /\ w[d][Cardinality(NotBefore(B, r))] = SubSeq(t, r.from, r.to)
  BY DEF Found
<1>5. ASSUME NEW r \in B PROVE r.from \in Nat
  <2>1. r \in Runs(t)
    BY DEF Behind
  <2> QED
    BY <2>1, RunsAre DEF IsRun
<1>6. word \in V
  <2>1. \A k \in b + 1 .. c : t[k] \in Typeable
    BY <1>2
  <2> QED
    BY <1>2, <2>1, SubSeqProperties
<1>7. word = SubSeq(t, last.from, last.to)
  BY <1>2
<1>8. PICK a \in Nat : a = last.from
  BY <1>2
<1>9. \A r \in B : r.from < a
  BY <1>1, <1>2, <1>8
<1> HIDE DEF last, B, d, b, word, V
<1>10. last \notin B
  BY <1>8, <1>9
<1>11. PICK v \in Seq(V) : v = w[d]
  BY <1>4
<1>12. PICK u \in Seq(V) : u = <<word>> /\ Len(u) = 1 /\ u[1] = word
  <2>1. <<word>> \in Seq(V)
    BY <1>6
  <2>2. Len(<<word>>) = 1 /\ <<word>>[1] = word
    OBVIOUS
  <2> QED
    BY <2>1, <2>2
<1>13. /\ u \o v \in Seq(V) /\ Len(u \o v) = Len(u) + Len(v)
       /\ \A i \in 1 .. Len(u) + Len(v) : (u \o v)[i] = IF i <= Len(u) THEN u[i] ELSE v[i - Len(u)]
  BY ConcatProperties
<1>14. PICK x \in Seq(V) : x = w[c] /\ x = u \o v
  BY <1>3, <1>11, <1>12, <1>13
<1>15. Len(v) \in Nat /\ Len(x) = Len(v) + 1 /\ x[1] = word /\ \A i \in 1 .. Len(v) : x[i + 1] = v[i]
  <2>1. Len(v) \in Nat
    OBVIOUS
  <2>2. \A i \in 1 .. Len(v) : i + 1 \in 1 .. Len(u) + Len(v) /\ ~(i + 1 <= Len(u)) /\ i + 1 - Len(u) = i
    BY <1>12, <2>1
  <2>3. 1 \in 1 .. Len(u) + Len(v) /\ 1 <= Len(u)
    BY <1>12, <2>1
  <2> QED
    BY <1>12, <1>13, <1>14, <2>1, <2>2, <2>3
<1>16. /\ IsFiniteSet(Behind(t, c)) /\ Cardinality(Behind(t, c)) = Cardinality(B) + 1
  BY <1>1, <1>4, <1>10, FS_AddElement
<1>17. ASSUME NEW r \in Behind(t, c)
       PROVE  /\ Cardinality(NotBefore(Behind(t, c), r)) \in 1 .. Len(x)
              /\ x[Cardinality(NotBefore(Behind(t, c), r))] = SubSeq(t, r.from, r.to)
  <2>1. CASE r = last
    <3>1. NotBefore(Behind(t, c), r) = {last}
      <4>1. ASSUME NEW q \in B PROVE ~(q.from >= last.from)
        <5>1. q.from \in Nat /\ q.from < a
          BY <1>5, <1>9
        <5> QED
          BY <1>8, <5>1
      <4>2. last.from >= last.from
        BY <1>8
      <4> QED
        BY <1>1, <2>1, <4>1, <4>2 DEF NotBefore
    <3>2. Cardinality(NotBefore(Behind(t, c), r)) = 1
      BY <3>1, FS_Singleton
    <3> QED
      BY <1>7, <1>15, <2>1, <3>2
  <2>2. CASE r \in B
    <3> DEFINE R == NotBefore(B, r)
    <3>1. NotBefore(Behind(t, c), r) = R \cup {last}
      <4>1. last.from >= r.from
        <5>1. r.from \in Nat /\ r.from < a
          BY <1>5, <1>9, <2>2
        <5> QED
          BY <1>8, <5>1
      <4> QED
        BY <1>1, <4>1 DEF NotBefore
    <3>2. R \subseteq B
      BY DEF NotBefore
    <3> HIDE DEF R
    <3>3. IsFiniteSet(R) /\ last \notin R
      BY <1>4, <1>10, <3>2, FS_Subset
    <3>4. Cardinality(NotBefore(Behind(t, c), r)) = Cardinality(R) + 1
      BY <3>1, <3>3, FS_AddElement
    <3>5. PICK m \in 1 .. Len(v) : m = Cardinality(R) /\ v[m] = SubSeq(t, r.from, r.to)
      BY <1>4, <1>11, <2>2 DEF R
    <3>6. Cardinality(NotBefore(Behind(t, c), r)) = m + 1 /\ m + 1 \in 1 .. Len(x)
      BY <1>15, <3>4, <3>5
    <3> QED
      BY <1>15, <3>5, <3>6
  <2> QED
    BY <1>1, <2>1, <2>2
<1>18. w[c] \in Seq(Seq(Typeable)) /\ Len(w[c]) = Cardinality(Behind(t, c))
  BY <1>4, <1>11, <1>14, <1>15, <1>16 DEF V
<1> QED
  BY <1>14, <1>16, <1>17, <1>18 DEF Found

(* So every word is found from the end of any word.                        *)
LEMMA FoundAll ==
  ASSUME NEW t \in Seq(Typeable), NEW w, Retraces(w, t)
  PROVE  \A c \in Nat : c = 0 \/ EndOfRun(t, c) => Found(w, t, c)
<1> DEFINE G == {c \in Nat : c = 0 \/ EndOfRun(t, c) => Found(w, t, c)}
<1>1. ASSUME NEW c \in Nat, \A j \in Nat : j < c => j \in G PROVE c \in G
  <2> SUFFICES ASSUME c = 0 \/ EndOfRun(t, c) PROVE Found(w, t, c)
    OBVIOUS
  <2>1. CASE c \in 0 .. 1
    BY <2>1, FoundNone
  <2>2. CASE c \notin 0 .. 1
    <3>1. EndOfRun(t, c) /\ c # 1
      BY <2>2
    <3>2. Before(t, c) \in 0 .. c - 1 /\ (Before(t, c) = 0 \/ EndOfRun(t, Before(t, c)))
      BY <3>1, LastWord
    <3>3. Before(t, c) \in Nat /\ Before(t, c) < c
      BY <3>2
    <3>4. Found(w, t, Before(t, c))
      BY <1>1, <3>2, <3>3
    <3> QED
      BY <3>1, <3>4, FoundOneMore
  <2> QED
    BY <2>1, <2>2
<1>2. Nat \subseteq G
  <2> HIDE DEF G
  <2> QED
    BY <1>1, StrongInduction
<1> QED
  BY <1>2

(* Where the iterator starts: behind the cursor's own word. *)
LEMMA StartIs ==
  ASSUME NEW t \in Seq(Typeable), NEW point \in 1 .. Len(t) + 1, NEW c, c = Text!back_from(t, point)
  PROVE  /\ c = 1 \/ EndOfRun(t, c)
         /\ \A r \in Runs(t) : r.to # 1 => (r.to < point <=> r.to <= c)
<1> DEFINE N == Len(t)
           g == LastGap(t, point, 1)
<1>1. N \in Nat /\ point \in Nat /\ 1 \in Nat /\ 1 <= point /\ point <= N + 1 /\ Gap(t, N + 1)
  BY GapIs
<1>2. c = LastLetter(t, g, 1)
  BY Zenon DEF Text!back_from, Text!Down, LastLetter, LastGap, Gap
<1>3. g \in 1 .. point /\ (g = 1 \/ Gap(t, g)) /\ \A k \in 1 .. point : k > g => ~Gap(t, k)
  BY <1>1, LastGapIs
<1> HIDE DEF g
<1>4. g \in Nat /\ 1 <= g
  BY <1>3
<1>5. c \in 1 .. g /\ (c = 1 \/ ~Gap(t, c)) /\ \A k \in 1 .. g : k > c => Gap(t, k)
  BY <1>1, <1>2, <1>4, LastLetterIs
<1>6. ASSUME c # 1 PROVE EndOfRun(t, c)
  <2>1. ~Gap(t, c) /\ g # 1 /\ Gap(t, g) /\ c # g
    BY <1>3, <1>5, <1>6
  <2>2. c \in 1 .. N /\ c + 1 \in 1 .. g /\ c + 1 > c
    BY <1>1, <1>3, <1>5, <2>1
  <2>3. Gap(t, c + 1)
    BY <1>5, <2>2
  <2> QED
    BY <2>1, <2>2, <2>3 DEF EndOfRun
<1>7. ASSUME NEW r \in Runs(t), r.to # 1 PROVE r.to < point <=> r.to <= c
  <2>1. IsRun(t, r.from, r.to)
    BY RunsAre
  <2>2. PICK e \in 1 .. N : e = r.to
    BY <2>1 DEF IsRun
  <2>3. ~Gap(t, e) /\ Gap(t, e + 1)
    <3>1. e \in r.from .. r.to
      BY <2>1, <2>2 DEF IsRun
    <3> QED
      BY <2>1, <2>2, <3>1 DEF IsRun
  <2>4. ASSUME e < point PROVE e <= c
    <3>1. e + 1 \in 1 .. point
      BY <1>1, <2>2, <2>4
    <3>2. e + 1 <= g
      BY <1>3, <2>3, <3>1
    <3>3. e \in 1 .. g
      BY <1>4, <2>2, <3>2
    <3> QED
      BY <1>5, <2>2, <2>3, <3>3
  <2>5. ASSUME e <= c PROVE e < point
    <3>1. e # 1 /\ c # 1
      BY <1>5, <1>7, <2>2, <2>5
    <3>2. Gap(t, g) /\ ~Gap(t, c)
      BY <1>3, <1>5, <3>1
    <3>3. c # g
      BY <3>2
    <3> QED
      BY <1>1, <1>3, <1>5, <2>2, <2>5, <3>3
  <2> QED
    BY <2>2, <2>4, <2>5
<1> QED
  BY <1>6, <1>7

-----------------------------------------------------------------------------
(* The backward iterator from any place of the cursor. *)
Earlier(t, point) == {r \in Runs(t) : r.to < point /\ r.to # 1}
Lists(back, before, t) ==
  /\ Len(back) = Cardinality(before)
  /\ \A r \in before :
       back[Cardinality({q \in before : q.from >= r.from})] = SubSeq(t, r.from, r.to)

LEMMA BackIsRead ==
  ASSUME NEW t \in Seq(Typeable), NEW point \in 1 .. Len(t) + 1
  PROVE  Lists(Text!backward_word_iterator(t, point), Earlier(t, point), t)
<1> DEFINE before == Earlier(t, point)
           back == Text!backward_word_iterator(t, point)
<1>1. PICK c : c = Text!back_from(t, point)
  OBVIOUS
<1>2. PICK w : Retraces(w, t) /\ back = w[c]
  BY <1>1, BackwardIs
<1>3. /\ c = 1 \/ EndOfRun(t, c)
      /\ \A r \in Runs(t) : r.to # 1 => (r.to < point <=> r.to <= c)
  BY <1>1, StartIs
<1>4. before = Behind(t, c)
  BY <1>3 DEF Behind, Earlier
<1> HIDE DEF before, back
<1>5. Found(w, t, c)
  <2>1. CASE c = 1
    BY <1>2, <2>1, FoundNone
  <2>2. CASE EndOfRun(t, c)
    <3>1. c \in Nat
      BY <2>2 DEF EndOfRun
    <3> QED
      BY <1>2, <2>2, <3>1, FoundAll
  <2> QED
    BY <1>3, <2>1, <2>2
<1>6. ASSUME NEW r \in before
      PROVE  back[Cardinality({q \in before : q.from >= r.from})] = SubSeq(t, r.from, r.to)
  <2>1. NotBefore(before, r) = {q \in before : q.from >= r.from}
    BY DEF NotBefore
  <2>2. back[Cardinality(NotBefore(before, r))] = SubSeq(t, r.from, r.to)
    BY <1>2, <1>4, <1>5 DEF Found
  <2> QED
    BY <2>1, <2>2
<1>7. Len(back) = Cardinality(before)
  BY <1>2, <1>4, <1>5 DEF Found
<1>8. Lists(back, before, t)
  BY Zenon, <1>6, <1>7 DEF Lists
<1> QED
  BY Zenon, <1>8 DEF before, back

(* The line is read as it is meant, whatever its parts. *)
LEMMA PartsAreRead == LineParts => LineIsRead
<1> SUFFICES ASSUME LineParts, NEW n \in 1 .. 2
             PROVE  LET text == Buffer(n)
                        parts == IF line.text = <<>> THEN line.words
                                 ELSE Append(line.words, line.text)
                    IN  /\ Text!word_iterator(Blanks(n) \o text) = parts
                        /\ parts # <<>> =>
                             Text!first_word(Text!trimleft(Blanks(n) \o text)) = Head(parts)
                        /\ Text!word_at_point(text, Len(text) + 1) = line.text
                        /\ \A point \in DOMAIN text \cup {Len(text) + 1} :
                             LET before == {r \in Runs(text) : r.to < point /\ r.to # 1}
                                 back == Text!backward_word_iterator(text, point)
                             IN  /\ Len(back) = Cardinality(before)
                                 /\ \A r \in before :
                                      back[Cardinality({q \in before : q.from >= r.from})] =
                                        SubSeq(text, r.from, r.to)
  BY Zenon DEF LineIsRead
<1>1. n \in Nat \ {0}
  OBVIOUS
<1> DEFINE text == Buffer(n)
<1>2. /\ text \in Seq(Typeable)
      /\ Text!word_iterator(Blanks(n) \o text) = AllParts
      /\ AllParts # <<>> => Text!first_word(Text!trimleft(Blanks(n) \o text)) = Head(AllParts)
      /\ Text!word_at_point(text, Len(text) + 1) = line.text
  BY <1>1, FrontIsRead
<1>3. DOMAIN text \cup {Len(text) + 1} = 1 .. Len(text) + 1
  <2>1. DOMAIN text = 1 .. Len(text) /\ Len(text) \in Nat
    BY <1>2
  <2> QED
    BY <2>1
<1>4. ASSUME NEW point \in DOMAIN text \cup {Len(text) + 1}
      PROVE  LET before == {r \in Runs(text) : r.to < point /\ r.to # 1}
                 back == Text!backward_word_iterator(text, point)
             IN  /\ Len(back) = Cardinality(before)
                 /\ \A r \in before :
                      back[Cardinality({q \in before : q.from >= r.from})] =
                        SubSeq(text, r.from, r.to)
  <2>1. point \in 1 .. Len(text) + 1
    BY <1>3
  <2> HIDE DEF text
  <2>2. Lists(Text!backward_word_iterator(text, point), Earlier(text, point), text)
    BY <1>2, <2>1, BackIsRead
  <2> QED
    BY Zenon, <2>2 DEF Lists, Earlier
<1>5. AllParts = IF line.text = <<>> THEN line.words ELSE Append(line.words, line.text)
  BY Zenon DEF AllParts
<1> QED
  BY Zenon, <1>2, <1>4, <1>5

(* Only a line that Tab was pressed at, or none, is completed. *)
LineInv == line \in Lines \cup {NoLine}

LEMMA LineInvariance == Spec => []LineInv
<1>1. Init => LineInv
  BY DEF Init, LineInv
<1>2. LineInv /\ [Next]_vars => LineInv'
  BY DEF LineInv, Next, Tab, Call, CallNone, Run, vars
<1> QED
  BY <1>1, <1>2, PTL DEF Spec

(* A sequence that has all its elements in a set.                          *)
LEMMA SeqOf ==
  ASSUME NEW S, NEW T, NEW s \in Seq(S), \A k \in 1 .. Len(s) : s[k] \in T
  PROVE  s \in Seq(T)
<1>1. Len(s) \in Nat /\ s = [k \in 1 .. Len(s) |-> s[k]]
  OBVIOUS
<1> QED
  BY <1>1

(* Such a line has parts like those that are typed.                        *)
LEMMA LinesHaveParts == LineInv => LineParts
<1> SUFFICES ASSUME LineInv PROVE LineParts
  OBVIOUS
<1>1. CASE line = NoLine
  BY <1>1 DEF NoLine, LineParts
<1>2. CASE line \in Lines
  <2>1. /\ line.text \in Seq(Letters) /\ line.words \in Seq(Seq(STRING))
        /\ \A k \in DOMAIN line.words : line.words[k] \in Seq(Letters) /\ line.words[k] # <<>>
    BY <1>2, PartsAssumption, LinesAssumption
  <2>2. DOMAIN line.words = 1 .. Len(line.words) /\ Len(line.words) \in Nat
    BY <2>1
  <2>3. PICK words \in Seq(Seq(STRING)) : words = line.words
    BY <2>1
  <2>4. \A k \in 1 .. Len(words) : words[k] \in Seq(Letters)
    BY <2>1, <2>2, <2>3
  <2>5. words \in Seq(Seq(Letters))
    BY <2>4, SeqOf
  <2> QED
    BY <2>1, <2>2, <2>3, <2>5 DEF LineParts
<1> QED
  BY <1>1, <1>2 DEF LineInv

-----------------------------------------------------------------------------
(* Functions that start with z and go on with step. *)
Goes(g, n, T, z, step) ==
  /\ g \in [0 .. n -> T]
  /\ g[0] = z
  /\ \A k \in 1 .. n : g[k] = step[k][g[k - 1]]

LEMMA GoingExists ==
  ASSUME NEW T, NEW z \in T, NEW step \in [Nat -> [T -> T]]
  PROVE  \A n \in Nat : \E g : Goes(g, n, T, z, step)
<1> DEFINE G == {n \in Nat : \E g : Goes(g, n, T, z, step)}
<1>1. ASSUME NEW n \in Nat, \A j \in Nat : j < n => j \in G PROVE n \in G
  <2>1. CASE n = 0
    <3>1. Goes([k \in 0 .. 0 |-> z], 0, T, z, step)
      BY DEF Goes
    <3> QED
      BY <2>1, <3>1
  <2>2. CASE n # 0
    <3>1. PICK g : Goes(g, n - 1, T, z, step)
      <4>1. n - 1 \in Nat /\ n - 1 < n
        BY <2>2
      <4> QED
        BY <1>1, <4>1
    <3>2. g \in [0 .. n - 1 -> T] /\ g[0] = z /\ n - 1 \in 0 .. n - 1 /\ 0 \in 0 .. n - 1
      BY <2>2, <3>1 DEF Goes
    <3> DEFINE h == [k \in 0 .. n |-> IF k = n THEN step[n][g[n - 1]] ELSE g[k]]
    <3>3. h \in [0 .. n -> T] /\ h[0] = z
      <4>1. step[n][g[n - 1]] \in T
        BY <3>2
      <4>2. \A k \in 0 .. n : k # n => g[k] \in T
        BY <3>2
      <4> QED
        BY <2>2, <3>2, <4>1, <4>2
    <3>4. ASSUME NEW k \in 1 .. n PROVE h[k] = step[k][h[k - 1]]
      <4>1. k - 1 \in 0 .. n /\ k - 1 # n /\ h[k - 1] = g[k - 1]
        BY <3>2
      <4>2. k # n => k \in 1 .. n - 1
        OBVIOUS
      <4>3. h[k] = IF k = n THEN step[n][g[n - 1]] ELSE g[k]
        OBVIOUS
      <4>4. k # n => g[k] = step[k][g[k - 1]]
        BY <3>1, <4>2 DEF Goes
      <4> QED
        BY <4>1, <4>3, <4>4
    <3>5. Goes(h, n, T, z, step)
      <4> HIDE DEF h
      <4> QED
        BY <3>3, <3>4 DEF Goes
    <3> QED
      BY <3>5
  <2> QED
    BY <2>1, <2>2
<1>2. Nat \subseteq G
  <2> HIDE DEF G
  <2> QED
    BY <1>1, StrongInduction
<1> QED
  BY <1>2

(* What escape_params has after each character, and the shell.             *)
Symbol == STRING \cup {"\\"}
Quote == {"none", "single", "double"}
Escapes ==
  [result : Seq(Symbol), quote : Quote, escaped : BOOLEAN, piped : BOOLEAN]
Readings ==
  [quote : Quote, escaped : BOOLEAN, piped : BOOLEAN, wild : BOOLEAN, odd : BOOLEAN]
EscapesTo(g, s) ==
  /\ g[0] = Text!Unescaped
  /\ \A k \in 1 .. Len(s) : g[k] = Text!EscapeTurn(g[k - 1], s[k])
ShellReads(g, s) ==
  /\ g[0] = Reading
  /\ \A k \in 1 .. Len(s) : g[k] = ShellTurn(g[k - 1], s[k])

(* A turn keeps the type.                                                  *)
LEMMA EscapeTurnIs ==
  ASSUME NEW m \in Escapes, NEW c \in Symbol
  PROVE  Text!EscapeTurn(m, c) \in Escapes
<1>1. /\ Append(m.result, c) \in Seq(Symbol)
      /\ m.result \o <<"\\", c>> \in Seq(Symbol)
  <2>1. m.result \in Seq(Symbol) /\ "\\" \in Symbol
    BY DEF Escapes, Symbol
  <2>2. <<"\\", c>> \in Seq(Symbol)
    BY <2>1
  <2> QED
    BY <2>1, <2>2
<1> DEFINE longer == Append(m.result, c)
           much == m.result \o <<"\\", c>>
<1>2. longer \in Seq(Symbol) /\ much \in Seq(Symbol)
  BY <1>1
<1>3. Text!Opposite(m.quote, c) \in Quote \cup {c}
  BY DEF Text!Opposite, Quote
<1>4. c \in {"double", "single"} => Text!Opposite(m.quote, c) \in Quote
  BY <1>3 DEF Quote
<1> HIDE DEF longer, much
<1>5. Text!EscapeTurn(m, c) =
        IF m.piped THEN [m EXCEPT !.result = longer]
        ELSE IF m.escaped THEN [m EXCEPT !.result = longer, !.escaped = FALSE]
        ELSE IF c = "\\" THEN [m EXCEPT !.result = longer, !.escaped = TRUE]
        ELSE IF c = "double" /\ m.quote # "single"
          THEN [m EXCEPT !.result = longer, !.quote = Text!Opposite(m.quote, c)]
        ELSE IF c = "single" /\ m.quote # "double"
          THEN [m EXCEPT !.result = longer, !.quote = Text!Opposite(m.quote, c)]
        ELSE IF m.quote # "none" THEN [m EXCEPT !.result = longer]
        ELSE IF c \in {"*", "?"} THEN [m EXCEPT !.result = much]
        ELSE [m EXCEPT !.result = longer, !.piped = c \in {"|", ">"}]
  BY Zenon DEF Text!EscapeTurn, longer, much
<1>6. (c \in {"|", ">"}) \in BOOLEAN
  OBVIOUS
<1> QED
  BY <1>2, <1>4, <1>5, <1>6 DEF Escapes

LEMMA ShellTurnIs ==
  ASSUME NEW m \in Readings, NEW c
  PROVE  ShellTurn(m, c) \in Readings
BY DEF ShellTurn, Readings, Text!Opposite, Quote

(* Both recursions have a solution, and so define what they say.           *)
LEMMA EscapesAre ==
  ASSUME NEW s \in Seq(STRING)
  PROVE  \E g \in [0 .. Len(s) -> Escapes] :
           EscapesTo(g, s) /\ Text!escape_params(s) = g[Len(s)].result
<1> DEFINE N == Len(s)
           step == [k \in Nat |-> [m \in Escapes |->
                      IF k \in 1 .. N THEN Text!EscapeTurn(m, s[k]) ELSE m]]
           Defines(g) == g = [n \in 0 .. Len(s) |->
                                IF n = 0 THEN Text!Unescaped
                                ELSE Text!EscapeTurn(g[n - 1], s[n])]
<1>1. N \in Nat /\ \A k \in 1 .. N : s[k] \in Symbol
  BY DEF Symbol
<1>2. Text!Unescaped \in Escapes
  BY DEF Text!Unescaped, Escapes, Quote
<1>3. step \in [Nat -> [Escapes -> Escapes]]
  BY <1>1, EscapeTurnIs
<1>4. PICK g : Goes(g, N, Escapes, Text!Unescaped, step)
  <2> HIDE DEF N, step
  <2> QED
    BY <1>1, <1>2, <1>3, GoingExists
<1>5. g \in [0 .. N -> Escapes] /\ g[0] = Text!Unescaped
  BY <1>4 DEF Goes
<1>6. ASSUME NEW k \in 1 .. N PROVE g[k] = Text!EscapeTurn(g[k - 1], s[k])
  <2>1. k \in Nat /\ g[k - 1] \in Escapes
    BY <1>1, <1>5
  <2> QED
    BY <1>4, <2>1 DEF Goes
<1>7. Defines(g)
  <2>1. \A k \in 0 .. N : k # 0 => k \in 1 .. N
    BY <1>1
  <2> QED
    BY <1>5, <1>6, <2>1
<1> DEFINE W == CHOOSE h : Defines(h)
<1>8. Text!escape_params(s) = W[N].result
  BY Zenon DEF Text!escape_params
<1>9. Defines(W)
  <2> HIDE DEF Defines
  <2> QED
    BY <1>7
<1> HIDE DEF W
<1>10. \A k \in 0 .. N : W[k] = IF k = 0 THEN Text!Unescaped ELSE Text!EscapeTurn(W[k - 1], s[k])
  BY <1>9, Zenon
<1>11. 0 \in 0 .. N /\ \A k \in 1 .. N : k \in 0 .. N /\ k - 1 \in 0 .. N /\ k # 0
  BY <1>1
<1>12. EscapesTo(W, s)
  BY <1>10, <1>11 DEF EscapesTo
<1>13. W \in [0 .. N -> Escapes]
  <2> DEFINE H == {k \in Nat : k \in 0 .. N => W[k] \in Escapes}
  <2>1. ASSUME NEW k \in Nat, \A j \in Nat : j < k => j \in H PROVE k \in H
    <3>1. CASE k = 0
      BY <1>2, <1>10, <3>1
    <3>2. CASE k \in 1 .. N
      <4>1. k - 1 \in Nat /\ k - 1 < k /\ k - 1 \in 0 .. N
        BY <1>11, <3>2
      <4>2. W[k - 1] \in Escapes
        BY <2>1, <4>1
      <4> QED
        BY <1>1, <1>10, <1>11, <3>2, <4>2, EscapeTurnIs
    <3> QED
      BY <3>1, <3>2
  <2>2. Nat \subseteq H
    <3> HIDE DEF H
    <3> QED
      BY <2>1, StrongInduction
  <2>3. W = [k \in 0 .. N |-> W[k]]
    BY <1>9, Zenon
  <2> QED
    BY <2>2, <2>3
<1> QED
  BY <1>8, <1>12, <1>13

(* The same of the shell.                                                  *)
LEMMA ReadingsAre ==
  ASSUME NEW s \in Seq(Symbol)
  PROVE  \E g \in [0 .. Len(s) -> Readings] :
           ShellReads(g, s) /\ ReadByShell(s) = g[Len(s)]
<1> DEFINE N == Len(s)
           step == [k \in Nat |-> [m \in Readings |-> ShellTurn(m, s[k])]]
           Defines(g) == g = [n \in 0 .. Len(s) |->
                                IF n = 0 THEN Reading ELSE ShellTurn(g[n - 1], s[n])]
<1>1. N \in Nat
  OBVIOUS
<1>2. Reading \in Readings
  BY DEF Reading, Readings, Quote
<1>3. step \in [Nat -> [Readings -> Readings]]
  BY ShellTurnIs
<1>4. PICK g : Goes(g, N, Readings, Reading, step)
  <2> HIDE DEF N, step
  <2> QED
    BY <1>1, <1>2, <1>3, GoingExists
<1>5. g \in [0 .. N -> Readings] /\ g[0] = Reading
  BY <1>4 DEF Goes
<1>6. ASSUME NEW k \in 1 .. N PROVE g[k] = ShellTurn(g[k - 1], s[k])
  <2>1. k \in Nat /\ g[k - 1] \in Readings
    BY <1>1, <1>5
  <2> QED
    BY <1>4, <2>1 DEF Goes
<1>7. Defines(g)
  <2>1. \A k \in 0 .. N : k # 0 => k \in 1 .. N
    BY <1>1
  <2> QED
    BY <1>5, <1>6, <2>1
<1> DEFINE W == CHOOSE h : Defines(h)
<1>8. ReadByShell(s) = W[N]
  BY Zenon DEF ReadByShell
<1>9. Defines(W)
  <2> HIDE DEF Defines
  <2> QED
    BY <1>7
<1> HIDE DEF W
<1>10. \A k \in 0 .. N : W[k] = IF k = 0 THEN Reading ELSE ShellTurn(W[k - 1], s[k])
  BY <1>9, Zenon
<1>11. 0 \in 0 .. N /\ \A k \in 1 .. N : k \in 0 .. N /\ k - 1 \in 0 .. N /\ k # 0
  BY <1>1
<1>12. ShellReads(W, s)
  BY <1>10, <1>11 DEF ShellReads
<1>13. W \in [0 .. N -> Readings]
  <2> DEFINE H == {k \in Nat : k \in 0 .. N => W[k] \in Readings}
  <2>1. ASSUME NEW k \in Nat, \A j \in Nat : j < k => j \in H PROVE k \in H
    <3>1. CASE k = 0
      BY <1>2, <1>10, <3>1
    <3>2. CASE k \in 1 .. N
      <4>1. k - 1 \in Nat /\ k - 1 < k /\ k - 1 \in 0 .. N
        BY <1>11, <3>2
      <4>2. W[k - 1] \in Readings
        BY <2>1, <4>1
      <4> QED
        BY <1>10, <1>11, <3>2, <4>2, ShellTurnIs
    <3> QED
      BY <3>1, <3>2
  <2>2. Nat \subseteq H
    <3> HIDE DEF H
    <3> QED
      BY <2>1, StrongInduction
  <2>3. W = [k \in 0 .. N |-> W[k]]
    BY <1>9, Zenon
  <2> QED
    BY <2>2, <2>3
<1> QED
  BY <1>8, <1>12, <1>13

(* One character more is one turn more. *)
LEMMA ReadOn ==
  ASSUME NEW s \in Seq(Symbol), NEW c \in Symbol
  PROVE  /\ ReadByShell(s) \in Readings
         /\ ReadByShell(Append(s, c)) = ShellTurn(ReadByShell(s), c)
<1>1. PICK t \in Seq(Symbol) : t = Append(s, c)
  BY AppendProperties
<1>2. /\ Len(s) \in Nat /\ Len(t) = Len(s) + 1
      /\ t[Len(s) + 1] = c /\ \A k \in 1 .. Len(s) : t[k] = s[k]
  BY <1>1
<1>3. PICK g \in [0 .. Len(s) -> Readings] : ShellReads(g, s) /\ ReadByShell(s) = g[Len(s)]
  BY ReadingsAre
<1>4. PICK h \in [0 .. Len(t) -> Readings] : ShellReads(h, t) /\ ReadByShell(t) = h[Len(t)]
  BY ReadingsAre
<1> DEFINE G == {k \in Nat : k <= Len(s) => h[k] = g[k]}
<1>5. ASSUME NEW k \in Nat, \A j \in Nat : j < k => j \in G PROVE k \in G
  <2> SUFFICES ASSUME k <= Len(s) PROVE h[k] = g[k]
    OBVIOUS
  <2>1. CASE k = 0
    BY <1>3, <1>4, <2>1 DEF ShellReads
  <2>2. CASE k # 0
    <3>1. k \in 1 .. Len(s) /\ k \in 1 .. Len(t) /\ k - 1 \in Nat /\ k - 1 < k
      BY <1>2, <2>2
    <3>2. h[k - 1] = g[k - 1] /\ t[k] = s[k]
      BY <1>2, <1>5, <3>1
    <3> QED
      BY <1>3, <1>4, <3>1, <3>2 DEF ShellReads
  <2> QED
    BY <2>1, <2>2
<1>6. Nat \subseteq G
  <2> HIDE DEF G
  <2> QED
    BY <1>5, StrongInduction
<1>7. h[Len(s)] = g[Len(s)] /\ Len(s) \in 0 .. Len(s)
  BY <1>2, <1>6
<1>8. h[Len(s) + 1] = ShellTurn(h[Len(s)], c)
  <2>1. Len(s) + 1 \in 1 .. Len(t) /\ Len(s) + 1 - 1 = Len(s)
    BY <1>2
  <2> QED
    BY <1>2, <1>4, <2>1 DEF ShellReads
<1> QED
  BY <1>1, <1>2, <1>3, <1>4, <1>7, <1>8

(* Each way through a turn of the shell. *)
LEMMA ShellTurnWays ==
  ASSUME NEW r \in Readings, NEW c
  PROVE  /\ r.piped => ShellTurn(r, c) = r
         /\ ~r.piped /\ r.escaped => ShellTurn(r, c) = [r EXCEPT !.escaped = FALSE]
         /\ ~r.piped /\ ~r.escaped /\ c = "\\" /\ r.quote # "single" =>
              ShellTurn(r, c) = [r EXCEPT !.escaped = TRUE]
         /\ ~r.piped /\ ~r.escaped /\ c \in {"double", "single"} /\ r.quote \in {"none", c} =>
              ShellTurn(r, c) = [r EXCEPT !.quote = Text!Opposite(r.quote, c)]
         /\ /\ ~r.piped /\ ~r.escaped /\ ~(c = "\\" /\ r.quote # "single")
            /\ ~(c \in {"double", "single"} /\ r.quote \in {"none", c})
            => ShellTurn(r, c) =
                 [r EXCEPT !.piped = r.quote = "none" /\ c \in {"|", ">"},
                           !.wild = r.wild \/ (r.quote = "none" /\ c \in {"*", "?"}),
                           !.odd = r.odd \/ c = "\\"]
BY Zenon DEF ShellTurn

(* A backslash between single quotes is not forgotten.                     *)
LEMMA OddStays ==
  ASSUME NEW r \in Readings, NEW c, r.odd
  PROVE  ShellTurn(r, c).odd
<1> DEFINE b == r.odd \/ c = "\\"
           p == r.quote = "none" /\ c \in {"|", ">"}
           w == r.wild \/ (r.quote = "none" /\ c \in {"*", "?"})
           z == [r EXCEPT !.piped = p, !.wild = w, !.odd = b]
<1>1. b = TRUE /\ r.odd = TRUE
  BY DEF Readings
<1>2. ShellTurn(r, c) \in {r, [r EXCEPT !.escaped = FALSE], [r EXCEPT !.escaped = TRUE],
                            [r EXCEPT !.quote = Text!Opposite(r.quote, c)], z}
  BY Zenon DEF ShellTurn
<1> HIDE DEF b, p, w
<1>3. z.odd = b
  BY DEF Readings
<1> HIDE DEF z
<1> QED
  BY <1>1, <1>2, <1>3 DEF Readings

(* The shell has read what escape_params has written, and is where that    *)
(* is, unless there was a backslash between single quotes.                 *)
Follows(r, m) ==
  r.odd \/ /\ r.quote = m.quote /\ r.escaped = m.escaped /\ r.piped = m.piped
           /\ ~r.wild

(* A turn of escape_params is one or two of the shell.                     *)
LEMMA FollowsOn ==
  ASSUME NEW m \in Escapes, NEW c \in Symbol, Follows(ReadByShell(m.result), m)
  PROVE  Follows(ReadByShell(Text!EscapeTurn(m, c).result), Text!EscapeTurn(m, c))
<1>1. PICK s \in Seq(Symbol) : s = m.result
  BY DEF Escapes
<1>2. "\\" \in Symbol
  BY DEF Symbol
<1>3. PICK r \in Readings : r = ReadByShell(s)
  BY ReadOn, <1>2
<1>4. ReadByShell(Append(s, c)) = ShellTurn(r, c)
  BY <1>3, ReadOn
<1>5. ReadByShell(m.result \o <<"\\", c>>) = ShellTurn(ShellTurn(r, "\\"), c)
  <2>1. PICK u \in Seq(Symbol) : u = Append(s, "\\")
    BY <1>2, AppendProperties
  <2>2. ReadByShell(u) = ShellTurn(r, "\\")
    BY <1>2, <1>3, <2>1, ReadOn
  <2>3. ReadByShell(Append(u, c)) = ShellTurn(ShellTurn(r, "\\"), c)
    BY <2>2, ReadOn
  <2>4. m.result \o <<"\\", c>> = Append(u, c)
    BY <1>1, <1>2, <2>1
  <2> QED
    BY <2>3, <2>4
<1> DEFINE longer == Append(m.result, c)
           much == m.result \o <<"\\", c>>
<1>6. ReadByShell(longer) = ShellTurn(r, c) /\ ReadByShell(much) = ShellTurn(ShellTurn(r, "\\"), c)
  BY <1>1, <1>4, <1>5
<1> HIDE DEF longer, much
<1>7. Text!EscapeTurn(m, c) =
        IF m.piped THEN [m EXCEPT !.result = longer]
        ELSE IF m.escaped THEN [m EXCEPT !.result = longer, !.escaped = FALSE]
        ELSE IF c = "\\" THEN [m EXCEPT !.result = longer, !.escaped = TRUE]
        ELSE IF c = "double" /\ m.quote # "single"
          THEN [m EXCEPT !.result = longer, !.quote = Text!Opposite(m.quote, c)]
        ELSE IF c = "single" /\ m.quote # "double"
          THEN [m EXCEPT !.result = longer, !.quote = Text!Opposite(m.quote, c)]
        ELSE IF m.quote # "none" THEN [m EXCEPT !.result = longer]
        ELSE IF c \in {"*", "?"} THEN [m EXCEPT !.result = much]
        ELSE [m EXCEPT !.result = longer, !.piped = c \in {"|", ">"}]
  BY Zenon DEF Text!EscapeTurn, longer, much
<1>8. Follows(r, m)
  BY <1>1, <1>3
<1> DEFINE e == Text!EscapeTurn(m, c)
<1>9. CASE r.odd
  <2>1. ShellTurn(r, c).odd /\ ShellTurn(r, "\\") \in Readings /\ ShellTurn(r, "\\").odd
    BY <1>9, ShellTurnIs, OddStays
  <2>2. ShellTurn(ShellTurn(r, "\\"), c).odd
    BY <2>1, OddStays
  <2>3. e.result \in {longer, much}
    BY <1>7 DEF Escapes
  <2> QED
    BY <1>6, <2>1, <2>2, <2>3 DEF Follows
<1>10. CASE ~r.odd
  <2>1. r.quote = m.quote /\ r.escaped = m.escaped /\ r.piped = m.piped /\ ~r.wild
    BY <1>8, <1>10 DEF Follows
  <2>2. CASE c \in {"*", "?"} /\ ~m.piped /\ ~m.escaped /\ m.quote = "none"
    <3>1. e = [m EXCEPT !.result = much]
      BY <1>7, <2>2
    <3>2. ShellTurn(r, "\\") = [r EXCEPT !.escaped = TRUE]
      BY <2>1, <2>2 DEF ShellTurn, Readings
    <3>3. ShellTurn([r EXCEPT !.escaped = TRUE], c) = r
      BY <2>1, <2>2 DEF ShellTurn, Readings
    <3>4. /\ e.result = much /\ e.quote = m.quote
          /\ e.escaped = m.escaped /\ e.piped = m.piped
      BY <3>1 DEF Escapes
    <3>5. ReadByShell(e.result) = r
      BY <1>6, <3>2, <3>3, <3>4
    <3> HIDE DEF e
    <3>6. r.quote = e.quote /\ r.escaped = e.escaped /\ r.piped = e.piped /\ ~r.wild
      BY <2>1, <3>4
    <3>7. Follows(r, e)
      BY Zenon, <3>6 DEF Follows
    <3>8. Follows(ReadByShell(e.result), e)
      BY Zenon, <3>5, <3>7
    <3> QED
      BY Zenon, <3>8 DEF e
  <2>3. CASE ~(c \in {"*", "?"} /\ ~m.piped /\ ~m.escaped /\ m.quote = "none")
    <3>1. e.result = longer
      BY <1>7, <2>3 DEF Escapes
    <3>2. Follows(ShellTurn(r, c), e)
      <4>1. CASE m.piped
        <5>1. e = [m EXCEPT !.result = longer] /\ ShellTurn(r, c) = r
          BY <1>7, <2>1, <4>1, ShellTurnWays
        <5> QED
          BY <2>1, <5>1 DEF Follows, Escapes
      <4>2. CASE ~m.piped /\ m.escaped
        <5>1. /\ e = [m EXCEPT !.result = longer, !.escaped = FALSE]
              /\ ShellTurn(r, c) = [r EXCEPT !.escaped = FALSE]
          BY <1>7, <2>1, <4>2, ShellTurnWays
        <5> QED
          BY <2>1, <5>1 DEF Follows, Escapes, Readings
      <4>3. CASE ~m.piped /\ ~m.escaped /\ c = "\\" /\ m.quote # "single"
        <5>1. /\ e = [m EXCEPT !.result = longer, !.escaped = TRUE]
              /\ ShellTurn(r, c) = [r EXCEPT !.escaped = TRUE]
          BY <1>7, <2>1, <4>3, ShellTurnWays
        <5> QED
          BY <2>1, <5>1 DEF Follows, Escapes, Readings
      <4>4. CASE ~m.piped /\ ~m.escaped /\ c \in {"double", "single"} /\ m.quote \in {"none", c}
        <5>1. c # "\\" /\ (c = "double" => m.quote # "single") /\ (c = "single" => m.quote # "double")
          BY <4>4
        <5>2. e = [m EXCEPT !.result = longer, !.quote = Text!Opposite(m.quote, c)]
          BY <1>7, <4>4, <5>1
        <5>3. ShellTurn(r, c) = [r EXCEPT !.quote = Text!Opposite(m.quote, c)]
          <6>1. ~r.piped /\ ~r.escaped /\ c \in {"double", "single"} /\ r.quote \in {"none", c}
            BY <2>1, <4>4
          <6>2. ShellTurn(r, c) = [r EXCEPT !.quote = Text!Opposite(r.quote, c)]
            BY <6>1, ShellTurnWays
          <6> QED
            BY Zenon, <2>1, <6>2
        <5>4. PICK q : q = Text!Opposite(m.quote, c)
          OBVIOUS
        <5>5. e = [m EXCEPT !.result = longer, !.quote = q] /\ ShellTurn(r, c) = [r EXCEPT !.quote = q]
          BY Zenon, <5>2, <5>3, <5>4
        <5> HIDE DEF e
        <5> QED
          BY <2>1, <5>5 DEF Follows, Escapes, Readings
      <4>5. CASE /\ ~m.piped /\ ~m.escaped /\ ~(c = "\\" /\ m.quote # "single")
                 /\ ~(c \in {"double", "single"} /\ m.quote \in {"none", c})
        <5> DEFINE b == r.odd \/ c = "\\"
                   p == r.quote = "none" /\ c \in {"|", ">"}
                   w == r.wild \/ (r.quote = "none" /\ c \in {"*", "?"})
        <5>1. ShellTurn(r, c) = [r EXCEPT !.piped = p, !.wild = w, !.odd = b]
          <6>1. /\ ~r.piped /\ ~r.escaped /\ ~(c = "\\" /\ r.quote # "single")
                /\ ~(c \in {"double", "single"} /\ r.quote \in {"none", c})
            BY <2>1, <4>5
          <6> QED
            BY Zenon, <6>1 DEF ShellTurn
        <5>2. b \in BOOLEAN /\ p \in BOOLEAN /\ w \in BOOLEAN /\ (c = "\\" => b = TRUE)
          BY DEF Readings
        <5>3. w = FALSE
          BY <2>1, <2>3, <4>5
        <5> HIDE DEF b, w
        <5>4. CASE c = "\\"
          <6>1. b = TRUE
            BY <5>2, <5>4
          <6> HIDE DEF p
          <6> QED
            BY <5>1, <5>2, <6>1 DEF Follows, Readings
        <5>5. CASE c # "\\" /\ m.quote # "none"
          <6>1. e = [m EXCEPT !.result = longer]
            BY <1>7, <4>5, <5>5 DEF Escapes, Quote
          <6>2. p = FALSE
            BY <2>1, <5>5
          <6> HIDE DEF p
          <6> QED
            BY <2>1, <4>5, <5>1, <5>3, <6>1, <6>2 DEF Follows, Readings, Escapes
        <5>6. CASE c # "\\" /\ m.quote = "none"
          <6>1. c \notin {"double", "single", "*", "?", "\\"}
            BY <2>3, <4>5, <5>6
          <6>2. e = [m EXCEPT !.result = longer, !.piped = c \in {"|", ">"}]
            BY <1>7, <4>5, <5>6, <6>1
          <6>3. (c \in {"|", ">"}) = p
            BY <2>1, <5>6
          <6>4. e = [m EXCEPT !.result = longer, !.piped = p]
            BY Zenon, <6>2, <6>3
          <6> HIDE DEF p
          <6> QED
            BY <2>1, <4>5, <5>1, <5>2, <5>3, <6>4 DEF Follows, Readings, Escapes
        <5> QED
          BY <5>4, <5>5, <5>6
      <4> QED
        BY <4>1, <4>2, <4>3, <4>4, <4>5
    <3> QED
      BY <1>6, <3>1, <3>2
  <2> QED
    BY <2>2, <2>3
<1> QED
  BY <1>9, <1>10

-----------------------------------------------------------------------------
LEMMA MainInvariance == Spec => []MainInv
BY InitMain, NextMain, PTL DEF Spec

(* Whatever table, text and completions before: no command that fits is    *)
(* hidden by the grouping of commands.                                     *)
THEOREM NoCommandHidden == Spec => []NothingHidden
BY MainInvariance, HidesNothing, PTL

(* A typed master is completed with exactly the members of its group.      *)
THEOREM GroupShown == Spec => []MasterTypedShowsGroup
BY MainInvariance, ShowsGroup, PTL

(* What all matches have in common never has the star of a master.         *)
THEOREM StarStaysOut == Spec => []StarNeverInserted
BY MainInvariance, StarsStayOut, PTL

(* Trunk rewrote the completion of commands, and the choice of a generator *)
(* for dpkg's arguments.  For every table of commands it shows for a       *)
(* command what release 0.0.6 showed; and for dpkg's argument, whatever    *)
(* the two tables of options, it chooses the same generator as long as     *)
(* they agree on the words of the line.                                    *)
THEOREM ReleasesShowTheSame == Spec => []ReleasesCompleteAlike
<1>1. MainInv /\ ArgInv => ReleasesCompleteAlike
  BY CommandsAlike, ArgumentsAlike DEF ReleasesCompleteAlike
<1> QED
  BY <1>1, InitArguments, NextArguments, MainInvariance, PTL DEF Spec

(* However the parts of a line are spaced and wherever the cursor is, the  *)
(* functions of string_utils.cc read from it what completion takes it for, *)
(* for every set of lines whose parts have no blanks.                      *)
THEOREM LinesAreRead == Spec => []LineIsRead
BY LineInvariance, LinesHaveParts, PartsAreRead, PTL

(* No wildcard that is typed for ls or rls is expanded, in any text, but   *)
(* for a backslash between single quotes.                                  *)
THEOREM WildcardsStay ==
  ASSUME NEW text \in Seq(STRING)
  PROVE  WildcardsAreKept(text)
<1>1. PICK g \in [0 .. Len(text) -> Escapes] :
        EscapesTo(g, text) /\ Text!escape_params(text) = g[Len(text)].result
  BY EscapesAre
<1> DEFINE N == Len(text)
           G == {k \in Nat : k <= N => Follows(ReadByShell(g[k].result), g[k])}
<1>2. N \in Nat
  OBVIOUS
<1>3. ASSUME NEW k \in Nat, \A j \in Nat : j < k => j \in G PROVE k \in G
  <2> SUFFICES ASSUME k <= N PROVE Follows(ReadByShell(g[k].result), g[k])
    OBVIOUS
  <2>1. CASE k = 0
    <3>1. g[0] = Text!Unescaped /\ g[0].result = <<>>
      BY <1>1 DEF EscapesTo, Text!Unescaped
    <3>2. ReadByShell(<<>>) = Reading
      <4>1. <<>> \in Seq(Symbol) /\ Len(<<>>) = 0
        OBVIOUS
      <4> QED
        BY <4>1, ReadingsAre DEF ShellReads
    <3>3. Follows(Reading, Text!Unescaped)
      BY DEF Follows, Reading, Text!Unescaped
    <3> QED
      BY <2>1, <3>1, <3>2, <3>3
  <2>2. CASE k # 0
    <3>1. k \in 1 .. N /\ k - 1 \in Nat /\ k - 1 < k /\ k - 1 \in 0 .. N /\ k - 1 <= N
      BY <1>2, <2>2
    <3>2. PICK m \in Escapes : m = g[k - 1]
      BY <3>1
    <3>3. Follows(ReadByShell(m.result), m)
      BY <1>3, <3>1, <3>2
    <3>4. g[k] = Text!EscapeTurn(m, text[k]) /\ text[k] \in Symbol
      BY <1>1, <3>1, <3>2 DEF EscapesTo, Symbol
    <3> QED
      BY <3>3, <3>4, FollowsOn
  <2> QED
    BY <2>1, <2>2
<1>4. Nat \subseteq G
  <2> HIDE DEF G
  <2> QED
    BY <1>3, StrongInduction
<1>5. Follows(ReadByShell(g[N].result), g[N])
  BY <1>2, <1>4
<1> QED
  BY <1>1, <1>5 DEF WildcardsAreKept, Follows
=============================================================================
