---------------------------- MODULE StateTracker ----------------------------
(***************************************************************************)
(* statetracker/statetracker.go: the map from snap names to the operation  *)
(* that is running on them, the mutex that guards its writers, and the     *)
(* goroutine trackOperation leaves behind to drop the entry after two      *)
(* minutes.                                                                *)
(*                                                                         *)
(* Of a SnapState the model keeps the status and the change ID; LocalSize  *)
(* and TaskSummary are progress texts that nothing branches on.  The field *)
(* by is not in the code: it remembers which call wrote the entry, for the *)
(* properties.                                                             *)
(*                                                                         *)
(* IsTrackedForRunningOperation and AllTrackedSnaps read the map without   *)
(* the mutex.  Entries(n) and TrackedNames are what such a read can        *)
(* return, also while trackOperation is writing.                           *)
(***************************************************************************)
EXTENDS SnapStatus

VARIABLES states,  \* states[n]: the entry of snap n, or None
          timers,  \* timers[r]: the snap the goroutine started by r will drop
          lock,    \* the request that holds the mutex, or None
          held     \* the entry the holder of the mutex works on, or None

trackerVars == <<states, timers, lock, held>>

\* changeID is None for the empty string.
Entry == [status : Operation, changeID : Requests \cup {None}, by : Requests]
Held  == [snap : Snaps, entry : Entry, writes : BOOLEAN]

ASSUME TrackerAssumption == None \notin Requests \cup Snaps \cup Entry \cup Held

TrackerTypeOK ==
    /\ states \in [Snaps -> Entry \cup {None}]
    /\ timers \in [Requests -> Snaps \cup {None}]
    /\ lock \in Requests \cup {None}
    /\ held \in Held \cup {None}

TrackerInit ==
    /\ states = [n \in Snaps |-> None]
    /\ timers = [r \in Requests |-> None]
    /\ lock = None
    /\ held = None

-----------------------------------------------------------------------------
(* Reads without the mutex *)

Writing(n) == held # None /\ held.writes /\ held.snap = n

\* What is in the slot of n while trackOperation fills it: a new key starts
\* out with the zero value, and the two fields are not written together.
Torn(n) ==
    LET old == IF states[n] = None THEN [status |-> "", changeID |-> None]
                                   ELSE states[n]
        new == held.entry
    IN  [status   : {old.status, new.status},
         changeID : {old.changeID, new.changeID}]

\* The values a read of s.states[n] without the mutex can return.
Entries(n) ==
    {states[n]} \cup (IF Writing(n) THEN Torn(n) ELSE {})

\* A reading that forgets to ask whether the operation is over.
IsPresent(entry, s) == entry # None

\* The first result of IsTrackedForRunningOperation, for the value read.
IsRunning(entry, s) == entry # None /\ ~hasOperationCompleted(entry.status, s)

\* The names an iteration over the map can see.
TrackedNames ==
    LET written == {n \in Snaps : states[n] # None}
    IN  {written, written \cup {n \in Snaps : Writing(n)}}

-----------------------------------------------------------------------------
(* Operations *)

\* trackOperation takes the mutex ...
LockForTracking(r, n, op, id) ==
    /\ lock = None
    /\ lock' = r
    /\ held' = [snap   |-> n, writes |-> TRUE,
                entry  |-> [status |-> op, changeID |-> id, by |-> r]]
    /\ UNCHANGED <<states, timers>>

\* A trackOperation that does not start the goroutine.
StoreWithoutTimer(r) ==
    /\ lock = r /\ held # None /\ held.writes
    /\ states' = [states EXCEPT ![held.snap] = held.entry]
    /\ lock' = None
    /\ held' = None
    /\ UNCHANGED timers

\* A trackOperation that leaves the mutex locked.
StoreForgetsUnlock(r) ==
    /\ lock = r /\ held # None /\ held.writes
    /\ states' = [states EXCEPT ![held.snap] = held.entry]
    /\ timers' = [timers EXCEPT ![r] = held.snap]
    /\ held' = None
    /\ UNCHANGED lock

\* ... and stores the entry, whatever is there, and starts the goroutine,
\* which knows the name only.
trackOperation(r) ==
    /\ lock = r /\ held # None /\ held.writes
    /\ states' = [states EXCEPT ![held.snap] = held.entry]
    /\ timers' = [timers EXCEPT ![r] = held.snap]
    /\ lock' = None
    /\ held' = None

\* A goroutine that drops the entry without taking the mutex.
ExpireWithoutLock(r) ==
    /\ timers[r] # None
    /\ states' = [states EXCEPT ![timers[r]] = None]
    /\ timers' = [timers EXCEPT ![r] = None]
    /\ UNCHANGED <<lock, held>>

\* The goroutine started by r wakes up and gets the mutex.
Expire(r) ==
    /\ timers[r] # None
    /\ lock = None
    /\ states' = [states EXCEPT ![timers[r]] = None]
    /\ timers' = [timers EXCEPT ![r] = None]
    /\ UNCHANGED <<lock, held>>

CancelTrackingFor(n) ==
    /\ lock = None
    /\ states' = [states EXCEPT ![n] = None]
    /\ UNCHANGED <<timers, lock, held>>

\* State, for a snap that is not tracked.
StateOfUntracked(n) ==
    /\ lock = None
    /\ states[n] = None
    /\ UNCHANGED trackerVars

\* State, when snapd's answer s shows that the operation is over.
StateOfCompleted(n, s) ==
    /\ lock = None
    /\ states[n] # None
    /\ hasOperationCompleted(states[n].status, s)
    /\ states' = [states EXCEPT ![n] = None]
    /\ UNCHANGED <<timers, lock, held>>

\* State, for a running operation: it copies the entry and asks snapd for the
\* change, keeping the mutex over the call ...
StateAsksSnapd(r, n, s) ==
    /\ lock = None
    /\ IsRunning(states[n], s)
    /\ lock' = r
    /\ held' = [snap |-> n, writes |-> FALSE, entry |-> states[n]]
    /\ UNCHANGED <<states, timers>>

\* ... and returns the copy whatever the call answers: s is the same snap, so
\* the operation is still not over.
StateReturns(r) ==
    /\ lock = r /\ held # None /\ ~held.writes
    /\ lock' = None
    /\ held' = None
    /\ UNCHANGED <<states, timers>>

\* The process dies: the map, the goroutines and the mutex are in memory only.
TrackerLost ==
    /\ states' = [n \in Snaps |-> None]
    /\ timers' = [r \in Requests |-> None]
    /\ lock' = None
    /\ held' = None

=============================================================================
