--------------------------- MODULE OperationMarks ---------------------------
(***************************************************************************)
(* What the state tracker promises, without mutex, timers or snapd: a      *)
(* request marks at most one snap, once; a mark that is gone does not come *)
(* back; and no snap is marked forever.                                    *)
(***************************************************************************)

CONSTANTS Snaps, Requests, None

VARIABLES mark,  \* mark[n]: the request that marked snap n, or None
          spent  \* the requests that will mark no snap any more

marksVars == <<mark, spent>>

TypeOK ==
    /\ mark \in [Snaps -> Requests \cup {None}]
    /\ spent \subseteq Requests

Init ==
    /\ mark = [n \in Snaps |-> None]
    /\ spent = {}

\* Marking replaces the mark there is, and is the last thing r does.
Mark(r, n) ==
    /\ r \notin spent
    /\ mark' = [mark EXCEPT ![n] = r]
    /\ spent' = spent \cup {r}

Retire(r) ==
    /\ spent' = spent \cup {r}
    /\ UNCHANGED mark

Drop(n) ==
    /\ mark[n] # None
    /\ mark' = [mark EXCEPT ![n] = None]
    /\ UNCHANGED spent

\* The requests in flight end without a mark and all marks are lost.
Reset ==
    /\ mark' = [n \in Snaps |-> None]
    /\ spent' \in SUBSET Requests
    /\ spent \subseteq spent'

\* Dropping the mark is also the last thing a cancelling request does.
DropAndRetire(r, n) ==
    /\ mark' = [mark EXCEPT ![n] = None]
    /\ spent' = spent \cup {r}

Next ==
    \/ \E r \in Requests : Retire(r)
    \/ \E n \in Snaps : Drop(n)
    \/ \E r \in Requests, n \in Snaps : Mark(r, n) \/ DropAndRetire(r, n)
    \/ Reset

Spec == Init /\ [][Next]_marksVars

FairSpec == Spec /\ \A n \in Snaps : WF_marksVars(Drop(n))

=============================================================================
