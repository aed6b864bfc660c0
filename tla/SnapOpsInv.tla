---------------------------- MODULE SnapOpsInv ------------------------------
(***************************************************************************)
(* The inductive invariant of SnapOps, in named parts: what is true of a   *)
(* request at each point of its handler, and how the handler, the mutex    *)
(* and the tracker's map fit together.                                     *)
(***************************************************************************)
EXTENDS SnapOps

\* Which handlers pass through which points.
KindFits(r) ==
    /\ pc[r] \in {"call", "track", "store"} => kind[r] \in Operators
    /\ pc[r] \in {"abort", "untrack"} => kind[r] = "cancel"
    /\ pc[r] = "query" => kind[r] \in {"list", "find"}
    /\ pc[r] \in {"count", "names"} => kind[r] = "tracked"
    /\ pc[r] \in {"state", "change"} => kind[r] \in Listings \cup {"get"}
    /\ pc[r] \in {"snap", "findone"} => kind[r] \notin {"list", "find", "other"}
    /\ blanks[r] # 0 => kind[r] = "tracked" /\ pc[r] \in {"names", "snap"}

\* A lookup has a name to look up, and the payload comes after all lookups.
TodoFits(r) ==
    /\ pc[r] = "snap" /\ blanks[r] = 0 => todo[r] # {}
    /\ pc[r] \in {"findone", "change"} => todo[r] # {}
    /\ pc[r] \notin {"state", "change"} => reply[r] = Nothing

\* A request has not left an entry or a goroutine behind before its last step,
\* and has no HTTP status.
NothingLeftBehind ==
    \A r \in Requests : pc[r] # "done" => timers[r] = None /\ code[r] = 0

\* A change of the snap a request is about.
NamesItsSnap(r, c) == changes[c] # None /\ changes[c].snap = name[r]

\* The change an operator works with is its own, and only a failed one has none.
OwnChange(r) ==
    /\ chg[r] = r
    /\ changes[r] # None
    /\ changes[r].snap = name[r]
    /\ changes[r].op = OpOf[kind[r]]

ChangeFits(r) ==
    /\ chg[r] # None => pc[r] \in {"check", "track", "store", "abort", "untrack"}
    /\ failed[r] => kind[r] \in Operators /\ pc[r] \in {"check", "track", "store"}
    /\ kind[r] \in Operators /\ pc[r] \in {"check", "track", "store"} =>
          \/ OwnChange(r) /\ ~failed[r]
          \/ chg[r] = None /\ failed[r] /\ kind[r] \in {"install", "remove"}
    /\ pc[r] \in {"abort", "untrack"} /\ chg[r] # None => NamesItsSnap(r, chg[r])

RequestFits(r) == KindFits(r) /\ TodoFits(r) /\ ChangeFits(r)

\* Who holds the mutex works on an entry: the one its request will store, or
\* the one in the map, which snapd's answer does not show to be over.
HeldFits ==
    /\ lock = None <=> held = None
    /\ \A r \in Requests :
        /\ lock = r <=> pc[r] \in {"store", "change"}
        /\ pc[r] = "store" =>
              /\ held.writes
              /\ held.snap = name[r]
              /\ held.entry = [status |-> OpOf[kind[r]], changeID |-> chg[r], by |-> r]
        /\ pc[r] = "change" =>
              /\ ~held.writes
              /\ held.snap = First(todo[r])
              /\ states[held.snap] = held.entry
              /\ ~hasOperationCompleted(held.entry.status, seen[r][held.snap])

\* All of it.  The last four parts are properties checked for their own sake.
IInv ==
    /\ TypeOK
    /\ \A r \in Requests : RequestFits(r)
    /\ NothingLeftBehind
    /\ HeldFits
    /\ OwnTimerArmed
    /\ EntryNamesItsChange
    /\ AcceptedMeansStarted
    /\ ReplyFitsSnapshot

=============================================================================
