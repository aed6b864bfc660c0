------------------------------- MODULE Snapd --------------------------------
(***************************************************************************)
(* snapd, as snapweb uses it through snapdclient.SnapdClient: which snaps  *)
(* are installed and the changes (asynchronous operations) it runs.  snapd *)
(* is not part of the repository; this module states what the code in      *)
(* src/snappy relies on.                                                   *)
(*                                                                         *)
(* A change is named by the request that started it, which is what a fresh *)
(* change ID is good for: the ID a request is given was never given before.*)
(***************************************************************************)
EXTENDS SnapStatus

VARIABLES local,     \* local[n]: status of n on this system, or "absent"
          changes    \* changes[c]: the change with ID c, None before it exists

snapdVars == <<local, changes>>

ChangeState == {"doing", "aborting", "ready"}
Change == [snap : Snaps, op : Operation, state : ChangeState]

\* None is an element of no other set of the models.
ASSUME SnapdAssumption == None \notin Requests \cup Snaps \cup Change

SnapdTypeOK ==
    /\ local \in [Snaps -> LocalStatus \cup {"absent"}]
    /\ changes \in [Requests -> Change \cup {None}]

SnapdInit ==
    /\ local \in [Snaps -> LocalStatus \cup {"absent"}]
    /\ changes = [c \in Requests |-> None]

\* The statuses each operation starts from, and the one it leaves.
From == [installing   |-> {"absent"},    uninstalling |-> LocalStatus,
         enabling     |-> {"installed"}, disabling    |-> {"active"}]
To   == [installing   |-> "active",      uninstalling |-> "absent",
         enabling     |-> "active",      disabling    |-> "installed"]

\* The change with ID c is not ready; c may be the empty string.
Running(c) == c # None /\ changes[c] # None /\ changes[c].state # "ready"
Busy(n) == \E c \in Requests : Running(c) /\ changes[c].snap = n

\* snapd runs one change of a snap at a time and only operations that make
\* sense for it.
Startable(n, op) == ~Busy(n) /\ local[n] \in From[op]

\* Install, Remove, Enable or Disable is accepted.
StartChange(c, n, op) ==
    /\ changes[c] = None
    /\ Startable(n, op)
    /\ changes' = [changes EXCEPT ![c] = [snap |-> n, op |-> op, state |-> "doing"]]
    /\ UNCHANGED local

\* The change, in another state.
InState(change, state) == [snap |-> change.snap, op |-> change.op, state |-> state]

\* Abort is accepted for a change that is not ready.
AbortChange(c) ==
    /\ Running(c)
    /\ changes' = [changes EXCEPT ![c] = InState(@, "aborting")]
    /\ UNCHANGED local

\* A change ends: it took effect, or it failed or was undone without a trace.
FinishChange(c) ==
    /\ Running(c)
    /\ changes' = [changes EXCEPT ![c] = InState(@, "ready")]
    /\ \/ UNCHANGED local
       \/ /\ changes[c].state = "doing"
          /\ local' = [local EXCEPT ![changes[c].snap] = To[changes[c].op]]

\* Another client of snapd, the snap command say, changes a snap.
OtherClient(n) ==
    /\ ~Busy(n)
    /\ \E s \in LocalStatus \cup {"absent"} : local' = [local EXCEPT ![n] = s]
    /\ UNCHANGED changes

=============================================================================
