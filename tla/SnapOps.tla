------------------------------- MODULE SnapOps ------------------------------
(***************************************************************************)
(* The packages API (snappy/app/handlers.go and converge.go) on top of the *)
(* state tracker and of snapd.  net/http serves every request in its own   *)
(* goroutine, so the steps of requests interleave: a step below is what a  *)
(* goroutine does from one call of snapd, or one access to the tracker's   *)
(* map, to the next.                                                       *)
(*                                                                         *)
(* Each element of Requests is one HTTP request, served at most once.  The *)
(* process may die at any moment (snapcraft.yaml runs it as a service that *)
(* is started again), which loses the tracker and every request in flight  *)
(* but nothing in snapd.                                                   *)
(***************************************************************************)
EXTENDS Naturals, FiniteSets, Snapd, StateTracker

CONSTANTS Kinds,  \* the kinds of requests clients send
          Flaky,  \* whether calls of snapd can fail for reasons of their own
          Rank    \* the order sort.Strings, or snapd, puts names in

\* Operation a request asks for, by kind of request.
OpOf == [install |-> "installing", remove  |-> "uninstalling",
         enable  |-> "enabling",   disable |-> "disabling"]
Operators == {"install", "remove", "enable", "disable"}
Listings  == {"list", "find", "tracked"}
AllKinds  == Operators \cup Listings \cup {"get", "cancel", "other"}

ASSUME SnapOpsAssumption ==
    /\ Kinds \subseteq AllKinds
    /\ Flaky \in BOOLEAN
    /\ IsFiniteSet(Snaps)
    /\ Rank \in [Snaps -> Nat]
    /\ \A m, n \in Snaps : Rank[m] = Rank[n] => m = n

VARIABLES pc,      \* where each request is
          kind,    \* what it asks for
          name,    \* for which snap
          todo,    \* names it has yet to look up or to put in the payload
          blanks,  \* slots AllTrackedSnaps allots, then those left blank
          seen,    \* the status of each snap as snapd answered it, or "none"
          chg,     \* the change ID it got from snapd or from the tracker
          failed,  \* whether the call that starts the operation failed
          reply,   \* the status of each snap in the payload, or "none"
          code     \* the HTTP status it was answered with, 0 before and without

requestVars == <<pc, kind, name, todo, blanks, seen, chg, failed, reply, code>>
vars == <<snapdVars, trackerVars, requestVars>>

PC == {"idle", "query", "count", "names", "snap", "findone", "call", "check",
       "track", "store", "abort", "untrack", "state", "change", "done"}

Nothing == [n \in Snaps |-> "none"]

TypeOK ==
    /\ SnapdTypeOK
    /\ TrackerTypeOK
    /\ pc \in [Requests -> PC]
    /\ kind \in [Requests -> AllKinds]
    /\ name \in [Requests -> Snaps]
    /\ todo \in [Requests -> SUBSET Snaps]
    /\ blanks \in [Requests -> Nat]
    /\ seen \in [Requests -> [Snaps -> SnapdStatus \cup {"none"}]]
    /\ chg \in [Requests -> Requests \cup {None}]
    /\ failed \in [Requests -> BOOLEAN]
    /\ reply \in [Requests -> [Snaps -> PayloadStatus \cup {"none"}]]
    /\ code \in [Requests -> {0, 200, 202, 404, 500}]

Init ==
    /\ SnapdInit
    /\ TrackerInit
    /\ pc = [r \in Requests |-> "idle"]
    /\ kind = [r \in Requests |-> "other"]
    /\ name \in {[r \in Requests |-> n] : n \in Snaps}
    /\ todo = [r \in Requests |-> {}]
    /\ blanks = [r \in Requests |-> 0]
    /\ seen = [r \in Requests |-> Nothing]
    /\ chg = [r \in Requests |-> None]
    /\ failed = [r \in Requests |-> FALSE]
    /\ reply = [r \in Requests |-> Nothing]
    /\ code = [r \in Requests |-> 0]

-----------------------------------------------------------------------------
(* Helpers *)

Goto(r, l) == pc' = [pc EXCEPT ![r] = l]

First(S) == CHOOSE n \in S : \A m \in S : Rank[n] <= Rank[m]

\* The request is over; what the goroutine held is garbage.
Done(r, c) ==
    /\ Goto(r, "done")
    /\ code' = [code EXCEPT ![r] = c]
    /\ todo' = [todo EXCEPT ![r] = {}]
    /\ blanks' = [blanks EXCEPT ![r] = 0]
    /\ seen' = [seen EXCEPT ![r] = Nothing]
    /\ chg' = [chg EXCEPT ![r] = None]
    /\ failed' = [failed EXCEPT ![r] = FALSE]
    /\ reply' = [reply EXCEPT ![r] = Nothing]
    /\ UNCHANGED <<kind, name>>

\* A response that reads as accepted whatever happened.
alwaysAccepted(r, err) == Done(r, 202)

snapOperationResponse(r, err) == Done(r, IF err THEN 500 ELSE 202)

\* Error a read handler answers with: a single snap is "not found".
ReadError(k) == IF k = "get" THEN 404 ELSE 500

SnapsSeen(s) == {n \in Snaps : s[n] # "none"}

-----------------------------------------------------------------------------
(* Dispatch *)

FirstStep(k) == IF k \in {"list", "find"} THEN "query"
                ELSE IF k = "tracked" THEN "count"
                ELSE IF k = "other" THEN "check" ELSE "snap"

\* A request comes in and is routed to its handler.
Arrive(r) ==
    /\ pc[r] = "idle"
    /\ \E k \in Kinds, n \in Snaps :
          /\ k \in Listings => n = name[r]
          /\ kind' = [kind EXCEPT ![r] = k]
          /\ name' = [name EXCEPT ![r] = n]
          /\ todo' = [todo EXCEPT ![r] = IF k \in Listings THEN {} ELSE {n}]
          /\ Goto(r, FirstStep(k))
    /\ UNCHANGED <<blanks, seen, chg, failed, reply, code, snapdVars, trackerVars>>

\* update with a status it does not know is accepted, and does nothing; a body
\* it cannot decode is an error.
UpdateOther(r) ==
    /\ pc[r] = "check" /\ kind[r] = "other"
    /\ \E err \in BOOLEAN : snapOperationResponse(r, err)
    /\ UNCHANGED <<snapdVars, trackerVars>>

-----------------------------------------------------------------------------
(* Listings: what allPackages asks for *)

\* List: every installed snap, in one answer.
ListInstalled(r) ==
    /\ pc[r] = "query" /\ kind[r] = "list"
    /\ LET found == {n \in Snaps : isInstalled(local[n])} IN
          /\ seen' = [seen EXCEPT ![r] =
                         [n \in Snaps |-> IF n \in found THEN local[n] ELSE "none"]]
          /\ todo' = [todo EXCEPT ![r] = found]
    /\ Goto(r, "state")
    /\ UNCHANGED <<kind, name, blanks, chg, failed, reply, code, snapdVars, trackerVars>>

\* Find: some snaps of the store, installed or not.
FindInStore(r) ==
    /\ pc[r] = "query" /\ kind[r] = "find"
    /\ \E found \in SUBSET Snaps, s \in [Snaps -> StoreStatus] :
          /\ seen' = [seen EXCEPT ![r] =
                         [n \in Snaps |-> IF n \in found THEN s[n] ELSE "none"]]
          /\ todo' = [todo EXCEPT ![r] = found]
    /\ Goto(r, "state")
    /\ UNCHANGED <<kind, name, blanks, chg, failed, reply, code, snapdVars, trackerVars>>

QueryFails(r) ==
    /\ pc[r] = "query" /\ Flaky
    /\ Done(r, 500)
    /\ UNCHANGED <<snapdVars, trackerVars>>

\* AllTrackedSnaps allots a slot for each entry ...
CountTracked(r) ==
    /\ pc[r] = "count"
    /\ \E names \in TrackedNames :
          blanks' = [blanks EXCEPT ![r] = Cardinality(names)]
    /\ Goto(r, "names")
    /\ UNCHANGED <<kind, name, todo, seen, chg, failed, reply, code, snapdVars, trackerVars>>

\* A second pass that does not mind the number of slots.
CollectOverruns(r) ==
    /\ pc[r] = "names"
    /\ \E names \in TrackedNames :
          /\ todo' = [todo EXCEPT ![r] = names]
          /\ blanks' = [blanks EXCEPT ![r] = @ - Cardinality(names)]
          /\ Goto(r, IF names = {} THEN "state" ELSE "snap")
    /\ UNCHANGED <<kind, name, seen, chg, failed, reply, code, snapdVars, trackerVars>>

\* ... and fills the slots in a second pass over the map, which may have
\* changed: slots stay blank, and sort.Strings puts these first.
CollectTracked(r) ==
    /\ pc[r] = "names"
    /\ \E names \in TrackedNames :
          /\ Cardinality(names) <= blanks[r]
          /\ todo' = [todo EXCEPT ![r] = names]
          /\ blanks' = [blanks EXCEPT ![r] = @ - Cardinality(names)]
          /\ Goto(r, IF blanks'[r] = 0 /\ names = {} THEN "state" ELSE "snap")
    /\ UNCHANGED <<kind, name, seen, chg, failed, reply, code, snapdVars, trackerVars>>

\* A map that grew in between overruns the slice: the goroutine panics, and
\* net/http closes the connection without an answer.
CollectPanics(r) ==
    /\ pc[r] = "names"
    /\ \E names \in TrackedNames : Cardinality(names) > blanks[r]
    /\ Done(r, 0)
    /\ UNCHANGED <<snapdVars, trackerVars>>

\* getSnap("") fails, which ends the loop, or finds some unrelated snap.
LookUpBlank(r) ==
    /\ pc[r] = "snap" /\ blanks[r] > 0
    /\ \/ /\ todo' = [todo EXCEPT ![r] = {}]
          /\ blanks' = [blanks EXCEPT ![r] = 0]
          /\ Goto(r, "state")
       \/ /\ blanks' = [blanks EXCEPT ![r] = @ - 1]
          /\ Goto(r, IF blanks[r] = 1 /\ todo[r] = {} THEN "state" ELSE "snap")
          /\ UNCHANGED todo
    /\ UNCHANGED <<kind, name, seen, chg, failed, reply, code, snapdVars, trackerVars>>

-----------------------------------------------------------------------------
(* getSnap, for the first name left *)

\* What a request does with the snap it wanted.
AfterGetSnap(k) == IF k = "get" THEN "state" ELSE IF k = "cancel" THEN "check" ELSE "call"

\* snapd answered with status s.  A listing goes on with the next name, and
\* makes the payload when there is none.
GotSnap(r, n, s) ==
    /\ seen' = [seen EXCEPT ![r][n] = s]
    /\ IF kind[r] = "tracked"
         THEN IF todo[r] = {n}
                THEN /\ Goto(r, "state")
                     /\ todo' = [todo EXCEPT ![r] = SnapsSeen(seen'[r])]
                ELSE /\ Goto(r, "snap")
                     /\ todo' = [todo EXCEPT ![r] = @ \ {n}]
         ELSE Goto(r, AfterGetSnap(kind[r])) /\ UNCHANGED todo
    /\ UNCHANGED <<kind, name, blanks, chg, failed, reply, code>>

\* A listing of tracked snaps that goes on with the names it looked for.
NotFoundKeepsNames(r) ==
    IF kind[r] = "tracked"
      THEN /\ Goto(r, "state")
           /\ UNCHANGED <<kind, name, todo, blanks, seen, chg, failed, reply, code>>
      ELSE Done(r, ReadError(kind[r]))

\* Neither snapd nor the store knows the snap, or both fail.  The listing of
\* tracked snaps goes on with the snaps before it.
NotFound(r) ==
    IF kind[r] = "tracked"
      THEN /\ todo' = [todo EXCEPT ![r] = SnapsSeen(seen[r])]
           /\ Goto(r, "state")
           /\ UNCHANGED <<kind, name, blanks, seen, chg, failed, reply, code>>
      ELSE Done(r, ReadError(kind[r]))

\* Snap finds installed snaps only, and any error of it is taken for "not
\* installed".
GetLocalSnap(r) ==
    /\ pc[r] = "snap" /\ blanks[r] = 0
    /\ LET n == First(todo[r]) IN
          \/ isInstalled(local[n]) /\ GotSnap(r, n, local[n])
          \/ /\ Flaky \/ ~isInstalled(local[n])
             /\ Goto(r, "findone")
             /\ UNCHANGED <<kind, name, todo, blanks, seen, chg, failed, reply, code>>
    /\ UNCHANGED <<snapdVars, trackerVars>>

\* FindOne reports what the store sells, not what is installed.
GetStoreSnap(r) ==
    /\ pc[r] = "findone"
    /\ LET n == First(todo[r]) IN
          \/ \E s \in StoreStatus : GotSnap(r, n, s)
          \/ NotFound(r)
    /\ UNCHANGED <<snapdVars, trackerVars>>

-----------------------------------------------------------------------------
(* installPackage, removePackage, enable, disable *)

Seen(r) == seen[r][name[r]]

\* enable and disable insist on a snap that is the other way around.
Allowed(k, s) == /\ k = "enable"  => s = "installed"
                 /\ k = "disable" => s = "active"

Refuse(r) ==
    /\ pc[r] = "call"
    /\ ~Allowed(kind[r], Seen(r))
    /\ snapOperationResponse(r, TRUE)
    /\ UNCHANGED <<snapdVars, trackerVars>>

\* snapd starts a change and answers with its ID.
CallAccepted(r) ==
    /\ pc[r] = "call"
    /\ Allowed(kind[r], Seen(r))
    /\ StartChange(r, name[r], OpOf[kind[r]])
    /\ chg' = [chg EXCEPT ![r] = r]
    /\ Goto(r, "check")
    /\ UNCHANGED <<kind, name, todo, blanks, seen, failed, reply, code, trackerVars>>

\* enable and disable go on to track the operation as well.
TrackAfterFailedCall(r) ==
    /\ failed' = [failed EXCEPT ![r] = TRUE]
    /\ Goto(r, "check")
    /\ UNCHANGED <<kind, name, todo, blanks, seen, chg, reply, code>>

\* After an error enable and disable give up, install and remove go on to
\* track an operation without a change ID.
AfterFailedCall(r) ==
    IF kind[r] \in {"enable", "disable"}
      THEN snapOperationResponse(r, TRUE)
      ELSE /\ failed' = [failed EXCEPT ![r] = TRUE]
           /\ Goto(r, "check")
           /\ UNCHANGED <<kind, name, todo, blanks, seen, chg, reply, code>>

\* snapd refuses, cannot be reached, or starts the change but its answer is lost.
CallFails(r) ==
    /\ pc[r] = "call"
    /\ Allowed(kind[r], Seen(r))
    /\ \/ /\ Flaky \/ ~Startable(name[r], OpOf[kind[r]])
          /\ UNCHANGED snapdVars
       \/ Flaky /\ StartChange(r, name[r], OpOf[kind[r]])
    /\ AfterFailedCall(r)
    /\ UNCHANGED trackerVars

\* The status the snap must have had for its operation to be tracked.
Trackable(k, s) == IF k = "install" THEN ~isInstalled(s) ELSE isInstalled(s)

\* TrackInstall, TrackUninstall, TrackEnable, TrackDisable: nothing to track ...
TrackNothing(r) ==
    /\ pc[r] = "check" /\ kind[r] \in Operators
    /\ \/ ~Trackable(kind[r], Seen(r))
       \/ \E entry \in Entries(name[r]) : IsRunning(entry, Seen(r))
    /\ snapOperationResponse(r, failed[r])
    /\ UNCHANGED <<snapdVars, trackerVars>>

\* ... or the check, without the mutex, finds no running operation ...
TrackChecked(r) ==
    /\ pc[r] = "check" /\ kind[r] \in Operators
    /\ Trackable(kind[r], Seen(r))
    /\ \E entry \in Entries(name[r]) : ~IsRunning(entry, Seen(r))
    /\ Goto(r, "track")
    /\ UNCHANGED <<kind, name, todo, blanks, seen, chg, failed, reply, code,
                   snapdVars, trackerVars>>

\* ... and trackOperation follows, mutex first.
TrackLocks(r) ==
    /\ pc[r] = "track"
    /\ LockForTracking(r, name[r], OpOf[kind[r]], chg[r])
    /\ Goto(r, "store")
    /\ UNCHANGED <<kind, name, todo, blanks, seen, chg, failed, reply, code, snapdVars>>

TrackStores(r) ==
    /\ pc[r] = "store"
    /\ trackOperation(r)
    /\ snapOperationResponse(r, failed[r])
    /\ UNCHANGED snapdVars

-----------------------------------------------------------------------------
(* abortRunningOperation *)

\* A cancel that takes the running operation of some snap or other.
CancelTakesAny(r) ==
    /\ pc[r] = "check" /\ kind[r] = "cancel"
    /\ \E n \in Snaps : \E entry \in Entries(n) :
          IF IsRunning(entry, Seen(r))
            THEN /\ chg' = [chg EXCEPT ![r] = entry.changeID]
                 /\ Goto(r, "abort")
                 /\ UNCHANGED <<kind, name, todo, blanks, seen, failed, reply, code>>
            ELSE snapOperationResponse(r, TRUE)
    /\ UNCHANGED <<snapdVars, trackerVars>>

CancelChecks(r) ==
    /\ pc[r] = "check" /\ kind[r] = "cancel"
    /\ \E entry \in Entries(name[r]) :
          IF IsRunning(entry, Seen(r))
            THEN /\ chg' = [chg EXCEPT ![r] = entry.changeID]
                 /\ Goto(r, "abort")
                 /\ UNCHANGED <<kind, name, todo, blanks, seen, failed, reply, code>>
            ELSE snapOperationResponse(r, TRUE)
    /\ UNCHANGED <<snapdVars, trackerVars>>

CancelAborts(r) ==
    /\ pc[r] = "abort"
    /\ AbortChange(chg[r])
    /\ Goto(r, "untrack")
    /\ UNCHANGED <<kind, name, todo, blanks, seen, chg, failed, reply, code, trackerVars>>

\* The change is over, has no ID, snapd is away, or its answer is lost.
CancelFails(r) ==
    /\ pc[r] = "abort"
    /\ \/ /\ Flaky \/ ~Running(chg[r])
          /\ UNCHANGED snapdVars
       \/ Flaky /\ AbortChange(chg[r])
    /\ snapOperationResponse(r, TRUE)
    /\ UNCHANGED trackerVars

CancelUntracks(r) ==
    /\ pc[r] = "untrack"
    /\ CancelTrackingFor(name[r])
    /\ snapOperationResponse(r, FALSE)
    /\ UNCHANGED snapdVars

-----------------------------------------------------------------------------
(* snapToPayload, for each snap found *)

\* The payload of snap n says status s.
Put(r, n, s) ==
    /\ reply' = [reply EXCEPT ![r][n] = s]
    /\ todo' = [todo EXCEPT ![r] = @ \ {n}]
    /\ Goto(r, "state")
    /\ UNCHANGED <<kind, name, blanks, seen, chg, failed, code>>

PayloadOfUntracked(r) ==
    /\ pc[r] = "state" /\ todo[r] # {}
    /\ LET n == First(todo[r]) IN
          /\ \/ StateOfUntracked(n)
             \/ StateOfCompleted(n, seen[r][n])
          /\ Put(r, n, translateStatus(seen[r][n]))
    /\ UNCHANGED snapdVars

PayloadAsksSnapd(r) ==
    /\ pc[r] = "state" /\ todo[r] # {}
    /\ LET n == First(todo[r]) IN StateAsksSnapd(r, n, seen[r][n])
    /\ Goto(r, "change")
    /\ UNCHANGED <<kind, name, todo, blanks, seen, chg, failed, reply, code, snapdVars>>

PayloadOfTracked(r) ==
    /\ pc[r] = "change"
    /\ StateReturns(r)
    /\ Put(r, First(todo[r]), held.entry.status)
    /\ UNCHANGED snapdVars

\* All snaps are in the payload.
SendPayload(r) ==
    /\ pc[r] = "state" /\ todo[r] = {}
    /\ Done(r, 200)
    /\ UNCHANGED <<snapdVars, trackerVars>>

-----------------------------------------------------------------------------
(* The environment *)

\* The process dies, at will or because the Go runtime caught an unlocked read
\* of the map during a write; the requests in flight get no answer.
Restart ==
    /\ TrackerLost
    /\ pc' = [r \in Requests |-> IF pc[r] = "idle" THEN "idle" ELSE "done"]
    /\ todo' = [r \in Requests |-> {}]
    /\ blanks' = [r \in Requests |-> 0]
    /\ seen' = [r \in Requests |-> Nothing]
    /\ chg' = [r \in Requests |-> None]
    /\ failed' = [r \in Requests |-> FALSE]
    /\ reply' = [r \in Requests |-> Nothing]
    /\ UNCHANGED <<kind, name, code, snapdVars>>

SnapdStep ==
    /\ \/ \E c \in Requests : FinishChange(c)
       \/ \E n \in Snaps : OtherClient(n)
    /\ UNCHANGED <<trackerVars, requestVars>>

TimerStep(r) ==
    /\ Expire(r)
    /\ UNCHANGED <<snapdVars, requestVars>>

-----------------------------------------------------------------------------

Listing(r) ==
    \/ ListInstalled(r) \/ FindInStore(r) \/ QueryFails(r)
    \/ CountTracked(r) \/ CollectTracked(r) \/ CollectPanics(r) \/ LookUpBlank(r)

GetSnap(r) == GetLocalSnap(r) \/ GetStoreSnap(r)

Operate(r) ==
    \/ UpdateOther(r) \/ Refuse(r) \/ CallAccepted(r) \/ CallFails(r)
    \/ TrackNothing(r) \/ TrackChecked(r) \/ TrackLocks(r) \/ TrackStores(r)

Cancel(r) ==
    CancelChecks(r) \/ CancelAborts(r) \/ CancelFails(r) \/ CancelUntracks(r)

Payload(r) ==
    \/ PayloadOfUntracked(r) \/ PayloadAsksSnapd(r)
    \/ PayloadOfTracked(r) \/ SendPayload(r)

\* What the goroutine that serves r does next.
Serve(r) == Listing(r) \/ GetSnap(r) \/ Operate(r) \/ Cancel(r) \/ Payload(r)

Next ==
    \/ \E r \in Requests : Arrive(r) \/ Serve(r) \/ TimerStep(r)
    \/ SnapdStep
    \/ Restart

Spec == Init /\ [][Next]_vars

\* Goroutines are scheduled, timers fire and snapd answers; nothing makes a
\* client send a request, a change end, or the process die.
FairSpec ==
    /\ Spec
    /\ \A r \in Requests : WF_vars(Serve(r)) /\ WF_vars(TimerStep(r))

-----------------------------------------------------------------------------
(* What holds *)

\* The goroutine that will drop an entry is the one its own trackOperation
\* started, and it is still to come: no entry can stay for good, whatever
\* other operations on the same snap have done to the map in between.
OwnTimerArmed ==
    \A n \in Snaps : states[n] # None => timers[states[n].by] = n

\* The change an entry names, which State polls and cancel aborts, is the
\* running or finished operation the entry shows, on the same snap; enabling
\* and disabling always name one, since enable and disable track nothing
\* after an error.
EntryNamesItsChange ==
    \A n \in Snaps : states[n] # None =>
        LET entry == states[n] IN
        /\ entry.changeID # None =>
              /\ changes[entry.changeID] # None
              /\ changes[entry.changeID].snap = n
              /\ changes[entry.changeID].op = entry.status
        /\ entry.status \in {"enabling", "disabling"} => entry.changeID # None

\* The copy of the entry that State returns after asking snapd for the change
\* is still what the map holds: nobody replaced or dropped it meanwhile.
HeldCopyIsCurrent ==
    held # None /\ ~held.writes => states[held.snap] = held.entry

\* A request that has read which change to abort and calls snapd.
CancelsNow(r) == kind[r] = "cancel" /\ pc[r] = "abort"

\* The mutex is held by a request that is storing an entry or is waiting for
\* snapd inside State, and by no other: none ends without unlocking it.
LockHeldByItsUser ==
    \A r \in Requests : lock = r <=> pc[r] \in {"store", "change"}

\* A request to change a snap that was answered 202 did start that change,
\* also when it was not the one to be tracked.
AcceptedMeansStarted ==
    \A r \in Requests : code[r] = 202 /\ kind[r] \in Operators =>
        /\ changes[r] # None
        /\ changes[r].snap = name[r]
        /\ changes[r].op = OpOf[kind[r]]

\* A change is aborted only by a request to cancel what runs on its own snap:
\* the entry that names the change is read without the mutex, it can be a mix
\* of two entries and it can be gone by the time of the call, but it never
\* leads to the change of another snap.
AbortedOnRequest ==
    [][\A c \in Requests :
          changes[c] # None /\ changes[c].state # "aborting" /\ changes'[c].state = "aborting"
            => \E r \in Requests : CancelsNow(r) /\ name[r] = changes[c].snap]_vars

\* A payload never shows an operation that snapd's answer for that snap, taken
\* earlier and without the mutex, shows to be over; and when it shows no
\* operation it shows that answer.
ReplyFits(r) ==
    \A n \in Snaps : reply[r][n] # "none" =>
        IF reply[r][n] \in Operation
          THEN ~hasOperationCompleted(reply[r][n], seen[r][n])
          ELSE reply[r][n] = translateStatus(seen[r][n])

\* The above, for every request.
ReplyFitsSnapshot == \A r \in Requests : ReplyFits(r)

\* Every snap a request found is in its payload or about to be put there, and
\* never both, also when the lookups of a tracked listing broke off.
PayloadComplete ==
    \A r \in Requests : pc[r] \in {"state", "change"} =>
        /\ todo[r] \cup SnapsSeen(reply[r]) = SnapsSeen(seen[r])
        /\ todo[r] \cap SnapsSeen(reply[r]) = {}

\* Every request is answered or cut off: a request that waits for the mutex is
\* not left waiting for one that waits for snapd.
EveryRequestAnswered ==
    \A r \in Requests : (pc[r] # "idle") ~> (pc[r] = "done")

\* No operation is shown forever, whether it failed, was aborted, or was never
\* started (statetracker_test.go: "don't track indefinitely if operation
\* fails").
EveryEntryExpires ==
    \A n \in Snaps : (states[n] # None) ~> (states[n] = None)

-----------------------------------------------------------------------------
(* What the documentation says and the code does not keep *)

\* "Make sure that recalling install is a no-op" (statetracker_test.go): an
\* entry is not replaced by one for the same operation.
RecallIsNoOp ==
    [][\A n \in Snaps :
          states[n] # None /\ states'[n] # None /\ states'[n].status = states[n].status
            => states'[n] = states[n]]_vars

\* A snap marked as installing remains so until snapd reports it installed
\* (statetracker.go) or its own two minutes are over: the goroutine left by an
\* operation of another kind does not end it.
TimerDropsOwnEntry ==
    [][\A r \in Requests :
          TimerStep(r) => LET entry == states[timers[r]]
                          IN  entry = None \/ entry.status = OpOf[kind[r]]]_vars

\* What is tracked is a "long running snap operation" (statetracker.go): snapd
\* started it, and the entry knows its change.
TrackedMeansStarted ==
    \A n \in Snaps : states[n] # None => states[n].changeID # None

\* AllTrackedSnaps "returns the list of snap names that are currently being
\* tracked" (statetracker.go): all of what it returns are names.
TrackedNamesAreNames ==
    \A r \in Requests : pc[r] = "snap" => blanks[r] = 0

\* A snap marked as installing or uninstalling remains so until "it's status as
\* provided by snapd" shows the operation is over (statetracker.go).
DroppedMeansCompleted ==
    [][\A r \in Requests, n \in Snaps :
          PayloadOfUntracked(r) /\ states[n] # None /\ states'[n] = None
            => hasOperationCompleted(states[n].status, local[n])]_vars

=============================================================================
