------------------------------- MODULE Icons -------------------------------
(***************************************************************************)
(* The icon of an installed snap (snappy/app/icon.go, converge.go): each   *)
(* request that lists the snap asks snapd for its icon and, unless a file  *)
(* of that name is there, writes it in a directory that is served as it    *)
(* is.  Requests are concurrent, and the directory outlives the service.   *)
(***************************************************************************)
EXTENDS Naturals

CONSTANTS Requests,    \* listings, which may be made again
          Files,       \* names of icon files of this snap
          FileOf,      \* the name of the icon of each revision
          MaxRevision  \* revisions of the snap

Revisions == 1..MaxRevision

ASSUME FilesAssumption ==
    /\ MaxRevision \in Nat \ {0}
    /\ FileOf \in [Revisions -> Files]

VARIABLES revision,   \* the revision that is installed
          content,    \* what each file holds: a revision's icon, or one of these
          pc,         \* where each request is
          icon,       \* the revision whose icon it got from snapd
          answer,     \* the path it answered, or NoIcon
          cut,        \* history: the files a write of which was cut short
          raced       \* history: the files written by two requests at once
vars == <<revision, content, pc, icon, answer, cut, raced>>

Absent == 0
Torn == MaxRevision + 1
NoIcon == "no icon"

Writing(f) == {r \in Requests : pc[r] = "write" /\ FileOf[icon[r]] = f}

TypeOK ==
    /\ revision \in Revisions
    /\ content \in [Files -> 0..Torn]
    /\ pc \in [Requests -> {"idle", "stat", "open", "write", "glob"}]
    /\ icon \in [Requests -> Revisions]
    /\ answer \in [Requests -> Files \cup {NoIcon}]
    /\ {cut, raced} \subseteq SUBSET Files

Init ==
    /\ revision = 1
    /\ content = [f \in Files |-> Absent]
    /\ pc = [r \in Requests |-> "idle"] /\ icon = [r \in Requests |-> 1]
    /\ answer = [r \in Requests |-> NoIcon]
    /\ cut = {} /\ raced = {}

-----------------------------------------------------------------------------

Goto(r, l) == pc' = [pc EXCEPT ![r] = l]

Answer(r, path) ==
    /\ Goto(r, "idle")
    /\ answer' = [answer EXCEPT ![r] = path]

\* A variant that answers localIconPath's first result though it is an error's
\* text.
IconUnchecked(r) ==
    /\ pc[r] = "idle"
    /\ \/ icon' = [icon EXCEPT ![r] = revision] /\ Goto(r, "stat") /\ UNCHANGED answer
       \/ UNCHANGED icon /\ Answer(r, "no such snap")
    /\ UNCHANGED <<revision, content, cut, raced>>

\* localIconPath asks snapd.  An error, as while the snap is being removed,
\* makes the payload look for any icon of that snap; a snap that is not
\* installed gets none.
Icon(r) ==
    /\ pc[r] = "idle"
    /\ \/ icon' = [icon EXCEPT ![r] = revision] /\ Goto(r, "stat") /\ UNCHANGED answer
       \/ UNCHANGED icon /\ Goto(r, "glob") /\ UNCHANGED answer
       \/ UNCHANGED icon /\ Answer(r, NoIcon)
    /\ UNCHANGED <<revision, content, cut, raced>>

Stat(r) ==
    /\ pc[r] = "stat"
    /\ LET f == FileOf[icon[r]] IN
          \/ content[f] # Absent /\ Answer(r, f)
          \/ content[f] = Absent /\ Goto(r, "open") /\ UNCHANGED answer
          \/ Answer(r, NoIcon)         \* no directory for icons
    /\ UNCHANGED <<revision, content, icon, cut, raced>>

\* tryLocateCachedIconForSnap takes the first name; the names are ordered here
\* by the revision that had them first.
Glob(r) ==
    /\ pc[r] = "glob"
    /\ LET found == {n \in Revisions : content[FileOf[n]] # Absent} IN
          \/ /\ found # {}
             /\ LET first == CHOOSE n \in found : \A m \in found : n <= m
                IN  Answer(r, FileOf[first])
          \/ Answer(r, NoIcon)         \* none found, or no directory
    /\ UNCHANGED <<revision, content, icon, cut, raced>>

\* ioutil.WriteFile creates or truncates the file ...
OpenIcon(r) ==
    /\ pc[r] = "open"
    /\ LET f == FileOf[icon[r]] IN
          \/ /\ content' = [content EXCEPT ![f] = Torn] /\ Goto(r, "write")
             /\ UNCHANGED answer
          \/ Answer(r, NoIcon) /\ UNCHANGED content
    /\ UNCHANGED <<revision, icon, cut, raced>>

\* Variants that write what is installed by now, or leave the last part out.
WriteNewest(r) ==
    /\ pc[r] = "write"
    /\ LET f == FileOf[icon[r]] IN
          content' = [content EXCEPT ![f] = revision] /\ Answer(r, f)
    /\ UNCHANGED <<revision, icon, cut, raced>>
WriteNoLength(r) ==
    /\ pc[r] = "write"
    /\ Answer(r, FileOf[icon[r]])
    /\ UNCHANGED <<revision, content, icon, cut, raced>>

\* ... and writes it from the start.  Over another icon, which may be longer,
\* it leaves the other's end.
WriteIcon(r) ==
    /\ pc[r] = "write"
    /\ LET f == FileOf[icon[r]] IN
          \/ /\ content' = [content EXCEPT ![f] = icon[r]]
             /\ raced' = IF content[f] # Torn \/ Writing(f) # {r} THEN raced \cup {f} ELSE raced
             /\ Answer(r, f)
             /\ UNCHANGED cut
          \/ /\ content[f] \notin {Torn, icon[r]}
             /\ content' = [content EXCEPT ![f] = Torn]
             /\ raced' = raced \cup {f}
             /\ Answer(r, f)
             /\ UNCHANGED cut
          \/ /\ Answer(r, NoIcon)      \* the disk is full
             /\ cut' = cut \cup {f}
             /\ UNCHANGED <<content, raced>>
    /\ UNCHANGED <<revision, icon>>

localIconPath(r) == Icon(r) \/ Stat(r) \/ OpenIcon(r) \/ WriteIcon(r)

-----------------------------------------------------------------------------

\* snapd refreshes the snap.
Refresh ==
    /\ revision < MaxRevision
    /\ revision' = revision + 1
    /\ UNCHANGED <<content, pc, icon, answer, cut, raced>>

\* The service dies with its requests and is started again.
Restart ==
    /\ \E r \in Requests : pc[r] # "idle"
    /\ pc' = [r \in Requests |-> "idle"]
    /\ answer' = [r \in Requests |-> NoIcon]
    /\ cut' = cut \cup {f \in Files : Writing(f) # {}}
    /\ UNCHANGED <<revision, content, icon, raced>>

Next == (\E r \in Requests : localIconPath(r) \/ Glob(r)) \/ Refresh \/ Restart

Spec == Init /\ [][Next]_vars

-----------------------------------------------------------------------------
(* Properties                                                              *)

\* A file that nobody is writing holds a whole icon, unless a write of it was
\* cut short or two requests wrote it at once.
IconTornOnlyByCutOrRace ==
    \A f \in Files : content[f] = Torn => f \in cut \cup raced \/ Writing(f) # {}

\* What a file holds is an icon that has this file's name: nothing is ever
\* written under the name of another revision's.
IconHasItsName ==
    \A f \in Files : content[f] \in Revisions => FileOf[content[f]] = f

-----------------------------------------------------------------------------
(* What the documentation says and the code does not keep *)

\* "if we already have the icon, return" (icon.go:75): a file that is found is
\* an icon.
IconWeHaveIsWhole ==
    [][\A r \in Requests :
          pc[r] = "stat" /\ pc'[r] = "idle" /\ answer'[r] # NoIcon => content[answer'[r]] # Torn]_vars

=============================================================================
