-------------------------------- MODULE Home --------------------------------
(***************************************************************************)
(* The home page (www/src/js/controllers/home.js, views/home.js) on top of *)
(* the packages API.  The page sends two requests at once, for the tracked *)
(* and for the installed snaps; they are served independently of each      *)
(* other and of what other clients do, and once both are answered the page *)
(* joins them.  If one fails the page is not drawn.                        *)
(*                                                                         *)
(* The history variables, which the program does not have, record what was *)
(* true of the snaps since the first of the two requests was served.       *)
(***************************************************************************)
EXTENDS SnapOps

CONSTANTS TrackedFetch,    \* the request for the tracked snaps
          InstalledFetch,  \* the request for the installed snaps
          Polls            \* requests of the models that are in a passing status

Fetches == {TrackedFetch, InstalledFetch}

ASSUME HomeAssumption ==
    /\ Fetches \cup Polls \subseteq Requests
    /\ TrackedFetch # InstalledFetch
    /\ Fetches \cap Polls = {}

VARIABLES fetched,  \* the models made from each fetch, status by snap, or None
          asker,    \* the list whose model sent each poll, or None
          present,  \* history: snaps installed or tracked as installing all the time
          moved,    \* history: snaps that were installed or removed meanwhile
          brokeOff  \* history: a lookup ended the listing of tracked snaps

homeVars == <<vars, fetched, asker, present, moved, brokeOff>>

Installed == {n \in Snaps : isInstalled(local[n])}
Tracked   == {n \in Snaps : states[n] # None /\ states[n].status = "installing"}

HomeTypeOK ==
    /\ TypeOK
    /\ fetched \in [Fetches -> [Snaps -> PayloadStatus \cup {"none"}] \cup {None}]
    /\ asker \in [Polls -> Fetches \cup {None}]
    /\ {present, moved} \subseteq SUBSET Snaps
    /\ brokeOff \in BOOLEAN

HomeInit ==
    /\ Init
    /\ fetched = [r \in Fetches |-> None]
    /\ asker = [p \in Polls |-> None]
    /\ present = Installed \cup Tracked /\ moved = {} /\ brokeOff = FALSE

-----------------------------------------------------------------------------

\* $.when has both answers.
Drawn == \A r \in Fetches : fetched[r] # None

Begins(r) == pc[r] = "idle" /\ pc'[r] # "idle"

\* Each list has models of its own, which poll for themselves.
Asked ==
    \/ UNCHANGED asker
    \/ \E p \in Polls, f \in Fetches : Begins(p) /\ asker' = [asker EXCEPT ![p] = f]

\* The kinds of the requests that index sends, and of those that a model of a
\* list sends while its status is a passing one.
Routed ==
    \A r \in Fetches \cup Polls : Begins(r) =>
        \/ r = TrackedFetch   /\ kind'[r] = "tracked"
        \/ r = InstalledFetch /\ kind'[r] = "list"
        \/ /\ r \in Polls /\ kind'[r] = "get"
           /\ \E f \in Fetches : /\ asker'[r] = f /\ fetched[f] # None
                                /\ fetched[f][name'[r]] \in Operation

\* A poll of the model of n in the list f that is answered in this step.
Answers(p, f, n) == asker[p] = f /\ name[p] = n /\ SendPayload(p)

\* What is in a list: the answer to its fetch and, until the page is drawn from
\* copies, the answers to the polls of its models.  An error changes nothing.
Fetched(f) ==
    IF SendPayload(f) THEN reply[f]
    ELSE IF fetched[f] = None \/ Drawn THEN fetched[f]
    ELSE [n \in Snaps |->
            IF fetched[f][n] \in Operation /\ \E p \in Polls : Answers(p, f, n)
              THEN reply[CHOOSE p \in Polls : Answers(p, f, n)][n]
              ELSE fetched[f][n]]

\* Nothing of the page is in flight yet.
NotAsked == \A r \in Fetches : pc[r] = "idle"

\* The listing of tracked snaps went on to its payload without the snap, or
\* the blank name, that it looked up last.
BreaksOff ==
    /\ pc[TrackedFetch] \in {"snap", "findone"}
    /\ pc'[TrackedFetch] = "state"
    /\ seen'[TrackedFetch] = seen[TrackedFetch]

Remember ==
    /\ present'  = IF NotAsked' THEN (Installed \cup Tracked)'
                   ELSE present \cap (Installed \cup Tracked)'
    /\ moved'    = IF NotAsked' THEN {}
                   ELSE moved \cup {n \in Snaps : (n \in Installed) # (n \in Installed')}
    /\ brokeOff' = (brokeOff \/ BreaksOff)

HomeNext ==
    /\ Next
    /\ Asked /\ Routed
    /\ fetched' = [f \in Fetches |-> Fetched(f)]
    /\ Remember

HomeSpec == HomeInit /\ [][HomeNext]_homeVars

-----------------------------------------------------------------------------
(* The page *)

\* A page that takes every tracked snap out of the installed ones.
CardOfUntracked(n) ==
    IF fetched[TrackedFetch][n] = "none"    THEN fetched[InstalledFetch][n]
    ELSE IF fetched[TrackedFetch][n] = "installing" THEN "installing" ELSE "none"

\* A page that takes its tracked snaps from the list of installed ones too.
CardOfListed(n) == fetched[InstalledFetch][n]

\* The status a card is made from: of a snap that is in both lists Backbone
\* keeps the first model, and the tracked snaps that are being installed come
\* first.
Card(n) ==
    IF fetched[TrackedFetch][n] = "installing" THEN "installing"
    ELSE fetched[InstalledFetch][n]

\* The snaps that are drawn: as a card, or in the table of system snaps.
OnPage == {n \in Snaps : Card(n) # "none"}

-----------------------------------------------------------------------------
(* What holds *)

\* A snap that was installed all the time is on the home page, whatever the
\* tracker and the store said of it: also when the listing of tracked snaps
\* broke off, or when an operation on the snap is tracked.
InstalledIsOnPage ==
    Drawn => Installed \ moved \subseteq OnPage

\* A snap that was installed or shown as installing at each moment is on the
\* page, unless it went from one to the other between the two answers, neither
\* of which then has it, or the listing of tracked snaps broke off.
MissedOnlyInPassing ==
    Drawn /\ ~brokeOff => present \subseteq OnPage \cup moved

-----------------------------------------------------------------------------
(* What one would expect and the code does not keep *)

\* A snap that was installed or shown as installing at each moment is on the
\* page.
PresentIsOnPage ==
    Drawn => present \subseteq OnPage

=============================================================================
