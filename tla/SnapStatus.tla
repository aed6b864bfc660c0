----------------------------- MODULE SnapStatus -----------------------------
(***************************************************************************)
(* What the modules about snap operations share: names, the statuses a     *)
(* snap can have and the pure functions of statetracker/statetracker.go    *)
(* over them.  A client.Snap is represented by its Status, the only field  *)
(* of it these functions read.                                             *)
(***************************************************************************)

CONSTANTS Snaps,        \* names of snaps
          Requests,     \* HTTP requests to snapweb
          StoreStatus,  \* what a store search can report for a snap
          None          \* the empty string, the nil pointer, the free lock

\* The store reports a snap as free ("available") or to be bought ("priced").
ASSUME StoreStatusAssumption ==
    StoreStatus # {} /\ StoreStatus \subseteq {"available", "priced"}

LocalStatus == {"installed", "active"}   \* installed but disabled, or enabled
SnapdStatus == LocalStatus \cup StoreStatus

\* The long running operations the tracker knows.
Operation == {"installing", "uninstalling", "enabling", "disabling"}

\* What translateStatus can answer, and what a payload can carry.
RestStatus == LocalStatus \cup {"priced", "uninstalled"}
PayloadStatus == RestStatus \cup Operation

isInstalled(s) == s \in LocalStatus

translateStatus(s) ==
    IF s \in LocalStatus \cup {"priced"} THEN s ELSE "uninstalled"

\* The statuses snapd reports once the operation is over.
hasOperationCompleted(op, s) ==
    \/ op = "installing" /\ isInstalled(s)
    \/ op = "enabling"   /\ s = "active"
    \/ op = "disabling"  /\ s = "installed"
    \/ op \notin {"installing", "enabling", "disabling"} /\ ~isInstalled(s)

=============================================================================
