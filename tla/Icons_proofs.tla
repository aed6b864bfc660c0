---------------------------- MODULE Icons_proofs ----------------------------
(***************************************************************************)
(* Proofs about Icons, for any number of requests, files and revisions,    *)
(* and any way to name the icons of the revisions.                         *)
(***************************************************************************)
EXTENDS Icons, WellFoundedInduction, TLAPS

\* What a file may hold beside an icon is no revision.
LEMMA Marks == /\ Absent \notin Revisions /\ Torn \notin Revisions /\ Absent # Torn
               /\ Absent \in 0..Torn /\ Torn \in 0..Torn
               /\ \A n \in Revisions : n \in 0..Torn
               /\ 1 \in Revisions
  BY SMT, FilesAssumption DEF Revisions, Absent, Torn

LEMMA Named == \A n \in Revisions : FileOf[n] \in Files
  BY FilesAssumption

\* The name tryLocateCachedIconForSnap takes is one of those it found.
LEMMA FirstFound ==
  ASSUME NEW found \in SUBSET Revisions, found # {}
  PROVE  (CHOOSE n \in found : \A m \in found : n <= m) \in found
<1> DEFINE less == {ss \in Nat \X Nat : ss[1] < ss[2]}
<1>1. IsWellFoundedOn(less, Nat)
  BY NatLessThanWellFounded DEF OpToRel, IsWellFoundedOn
<1>2. found \subseteq Nat
  BY FilesAssumption DEF Revisions
<1>3. PICK first \in found : \A m \in found : ~ (<<m, first>> \in less)
  <2> HIDE DEF less
  <2> QED  BY <1>1, <1>2, WFMin
<1>4. ASSUME NEW m \in found PROVE first <= m
  <2>1. m \in Nat /\ first \in Nat /\ <<m, first>> \notin less
    BY <1>2, <1>3
  <2> QED
    BY <2>1
<1> QED
  BY <1>3, <1>4, Zenon

-----------------------------------------------------------------------------
(* The type invariant of the requests and the files.                       *)

LEMMA InitTyped == Init => TypeOK
  BY Marks, FilesAssumption DEF Init, TypeOK

LEMMA IconTyped ==
  ASSUME TypeOK, NEW r \in Requests, Icon(r)
  PROVE  TypeOK'
  BY DEF TypeOK, Icon, Goto, Answer

LEMMA StatTyped ==
  ASSUME TypeOK, NEW r \in Requests, Stat(r)
  PROVE  TypeOK'
<1>1. FileOf[icon[r]] \in Files
  BY Named DEF TypeOK
<1> QED
  BY <1>1 DEF TypeOK, Stat, Goto, Answer

LEMMA OpenTyped ==
  ASSUME TypeOK, NEW r \in Requests, OpenIcon(r)
  PROVE  TypeOK'
<1>1. FileOf[icon[r]] \in Files
  BY Named DEF TypeOK
<1> QED
  BY <1>1, Marks DEF TypeOK, OpenIcon, Goto, Answer

LEMMA WriteTyped ==
  ASSUME TypeOK, NEW r \in Requests, WriteIcon(r)
  PROVE  TypeOK'
<1> DEFINE f == FileOf[icon[r]]
<1>1. f \in Files /\ icon[r] \in 0..Torn
  BY Named, Marks DEF TypeOK
<1>2. content' \in [Files -> 0..Torn]
  BY <1>1, Marks DEF TypeOK, WriteIcon
<1>3. cut' \subseteq Files /\ raced' \subseteq Files
  BY <1>1 DEF TypeOK, WriteIcon
<1>4. pc' \in [Requests -> {"idle", "stat", "open", "write", "glob"}]
  BY DEF TypeOK, WriteIcon, Goto, Answer
<1>5. answer' \in [Requests -> Files \cup {NoIcon}]
  BY <1>1 DEF TypeOK, WriteIcon, Answer
<1> QED
  BY <1>2, <1>3, <1>4, <1>5 DEF TypeOK, WriteIcon

LEMMA GlobTyped ==
  ASSUME TypeOK, NEW r \in Requests, Glob(r)
  PROVE  TypeOK'
<1> DEFINE found == {n \in Revisions : content[FileOf[n]] # Absent}
           first == CHOOSE n \in found : \A m \in found : n <= m
<1>1. found # {} => first \in Revisions
  BY FirstFound, Zenon
<1>2. found # {} => FileOf[first] \in Files
  BY <1>1, Named
<1>3. \/ found # {} /\ Answer(r, FileOf[first])
      \/ Answer(r, NoIcon)
  BY Zenon DEF Glob
<1> HIDE DEF found, first
<1> QED
  BY <1>2, <1>3 DEF TypeOK, Glob, Goto, Answer

LEMMA NextTyped == TypeOK /\ [Next]_vars => TypeOK'
<1> SUFFICES ASSUME TypeOK, [Next]_vars PROVE TypeOK'
  OBVIOUS
<1>1. CASE \E r \in Requests : localIconPath(r) \/ Glob(r)
  BY <1>1, IconTyped, StatTyped, OpenTyped, WriteTyped, GlobTyped DEF localIconPath
<1>2. CASE Refresh
  BY <1>2, FilesAssumption DEF Refresh, TypeOK, Revisions
<1>3. CASE Restart
  BY <1>3 DEF Restart, TypeOK
<1>4. CASE UNCHANGED vars
  BY <1>4 DEF vars, TypeOK
<1> QED
  BY <1>1, <1>2, <1>3, <1>4 DEF Next

\* The requests and the files keep to their types, whatever the names of the
\* icons (icon.go).
THEOREM TypeCorrect == Spec => []TypeOK
  BY InitTyped, NextTyped, PTL DEF Spec

-----------------------------------------------------------------------------
(* Whose icon a file holds.                                                *)

LEMMA NextNamed == TypeOK /\ IconHasItsName /\ [Next]_vars => IconHasItsName'
<1> SUFFICES ASSUME TypeOK, IconHasItsName, [Next]_vars PROVE IconHasItsName'
  OBVIOUS
<1>1. ASSUME NEW r \in Requests, OpenIcon(r)
      PROVE  IconHasItsName'
  BY <1>1, Named, Marks DEF OpenIcon, IconHasItsName, TypeOK
<1>2. ASSUME NEW r \in Requests, WriteIcon(r)
      PROVE  IconHasItsName'
  BY <1>2, Named, Marks DEF WriteIcon, IconHasItsName, TypeOK
<1>3. ASSUME UNCHANGED content
      PROVE  IconHasItsName'
  BY <1>3 DEF IconHasItsName
<1> QED
  BY <1>1, <1>2, <1>3 DEF Next, localIconPath, Icon, Stat, Glob, Refresh, Restart, vars

\* An icon is never written under the name of another revision's, although the
\* snap may be refreshed between the answer of snapd and the write
\* (localIconPath, icon.go).
THEOREM RightName == Spec => []IconHasItsName
<1>1. Init => IconHasItsName
  BY Marks DEF Init, IconHasItsName
<1> QED
  BY <1>1, TypeCorrect, NextNamed, PTL DEF Spec

-----------------------------------------------------------------------------
(* When a file is whole.                                                   *)

\* Whatever a step does elsewhere, a torn file is one that is being written or
\* that history knows of.
LEMMA NextTorn == TypeOK /\ IconTornOnlyByCutOrRace /\ [Next]_vars => IconTornOnlyByCutOrRace'
<1> SUFFICES ASSUME TypeOK, IconTornOnlyByCutOrRace, [Next]_vars,
                    NEW f \in Files, content'[f] = Torn
             PROVE  f \in cut' \cup raced' \/ Writing(f)' # {}
  BY DEF IconTornOnlyByCutOrRace
<1>1. ASSUME NEW r \in Requests, OpenIcon(r)
      PROVE  f \in cut' \cup raced' \/ Writing(f)' # {}
  <2>1. CASE FileOf[icon[r]] = f /\ pc'[r] = "write"
    BY <1>1, <2>1 DEF OpenIcon, Writing
  <2>2. CASE ~ (FileOf[icon[r]] = f /\ pc'[r] = "write")
    <3>1. content[f] = Torn
      BY <1>1, <2>2, Named DEF OpenIcon, Goto, TypeOK
    <3>2. Writing(f) \subseteq Writing(f)'
      BY <1>1, <2>2 DEF OpenIcon, Goto, Answer, Writing, TypeOK
    <3> QED
      BY <1>1, <3>1, <3>2 DEF OpenIcon, IconTornOnlyByCutOrRace
  <2> QED
    BY <2>1, <2>2
<1>2. ASSUME NEW r \in Requests, WriteIcon(r)
      PROVE  f \in cut' \cup raced' \/ Writing(f)' # {}
  <2>1. CASE FileOf[icon[r]] = f
    BY <1>2, <2>1, Marks DEF WriteIcon, TypeOK
  <2>2. CASE FileOf[icon[r]] # f
    <3>1. content[f] = Torn /\ cut \subseteq cut' /\ raced \subseteq raced'
      BY <1>2, <2>2, Named DEF WriteIcon, TypeOK
    <3>2. Writing(f) \subseteq Writing(f)'
      BY <1>2, <2>2 DEF WriteIcon, Goto, Answer, Writing, TypeOK
    <3> QED
      BY <3>1, <3>2 DEF IconTornOnlyByCutOrRace
  <2> QED
    BY <2>1, <2>2
<1>3. ASSUME NEW r \in Requests, Icon(r) \/ Stat(r) \/ Glob(r)
      PROVE  f \in cut' \cup raced' \/ Writing(f)' # {}
  <2>1. pc[r] # "write" /\ UNCHANGED <<content, cut, raced>>
    BY <1>3 DEF Icon, Stat, Glob
  <2>2. \A q \in Requests : pc[q] = "write" => pc'[q] = "write" /\ icon'[q] = icon[q]
    BY <1>3, <2>1 DEF Icon, Stat, Glob, Goto, Answer, TypeOK
  <2> QED
    BY <2>1, <2>2 DEF Writing, IconTornOnlyByCutOrRace
<1>4. CASE Restart
  BY <1>4 DEF Restart, IconTornOnlyByCutOrRace
<1>5. CASE Refresh \/ UNCHANGED vars
  BY <1>5 DEF Refresh, vars, Writing, IconTornOnlyByCutOrRace
<1> QED
  BY <1>1, <1>2, <1>3, <1>4, <1>5 DEF Next, localIconPath

\* A file that nobody is writing is whole but for a write that was cut short
\* and for two requests that wrote it at once, however many there are
\* (ioutil.WriteFile in localIconPath).
THEOREM TornOnly == Spec => []IconTornOnlyByCutOrRace
<1>1. Init => IconTornOnlyByCutOrRace
  BY Marks DEF Init, IconTornOnlyByCutOrRace
<1> QED
  BY <1>1, TypeCorrect, NextTorn, PTL DEF Spec

=============================================================================
