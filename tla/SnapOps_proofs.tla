---------------------------- MODULE SnapOps_proofs --------------------------
(***************************************************************************)
(* Proofs about SnapOps, for any sets of snaps and requests.               *)
(***************************************************************************)
EXTENDS SnapOpsInv, SnapMarks, SnapViews, FiniteSetTheorems, WellFoundedInduction, TLAPS

USE StoreStatusAssumption, SnapdAssumption, TrackerAssumption, SnapOpsAssumption

-----------------------------------------------------------------------------
(* Lemmas about the helpers *)

\* First picks a name of the set: there is one of lowest rank.
LEMMA FirstIsIn ==
    ASSUME NEW S \in SUBSET Snaps, S # {}
    PROVE  First(S) \in S
<1> DEFINE ranks == {Rank[n] : n \in S}
           less  == {ss \in Nat \X Nat : ss[1] < ss[2]}
<1>1. ranks \subseteq Nat /\ ranks # {}
  OBVIOUS
<1>2. IsWellFoundedOn(less, Nat)
  BY NatLessThanWellFounded DEF OpToRel, IsWellFoundedOn
<1>3. PICK low \in ranks : \A k \in ranks : <<k, low>> \notin less
  <2> HIDE DEF less, ranks
  <2> QED  BY <1>1, <1>2, WFMin
<1>4. PICK n \in S : Rank[n] = low
  BY <1>3
<1>5. ASSUME NEW m \in S PROVE Rank[n] <= Rank[m]
  <2>1. Rank[m] \in Nat /\ Rank[n] \in Nat /\ <<Rank[m], Rank[n]>> \notin less
    BY <1>3, <1>4
  <2> QED  BY <2>1
<1> QED  BY <1>5 DEF First

\* What AllTrackedSnaps sees are names, finitely many.
LEMMA TrackedNamesFinite ==
    ASSUME NEW S \in TrackedNames
    PROVE  S \in SUBSET Snaps /\ Cardinality(S) \in Nat
<1>1. S \in SUBSET Snaps
  BY DEF TrackedNames
<1> QED  BY <1>1, FS_Subset, FS_CardinalityType

\* Changes that exist stay, and remain changes of the same operation on the
\* same snap.
Kept == \A c \in Requests : changes[c] # None =>
            /\ changes'[c] # None
            /\ changes'[c].snap = changes[c].snap
            /\ changes'[c].op = changes[c].op

LEMMA StartKeeps ==
    ASSUME SnapdTypeOK, NEW c \in Requests, NEW n \in Snaps, NEW op \in Operation,
           StartChange(c, n, op)
    PROVE  /\ SnapdTypeOK' /\ Kept
           /\ changes'[c] # None /\ changes'[c].snap = n /\ changes'[c].op = op
<1>1. [snap |-> n, op |-> op, state |-> "doing"] \in Change
  BY DEF Change, ChangeState
<1> QED  BY <1>1 DEF StartChange, SnapdTypeOK, Kept

LEMMA AbortKeeps ==
    ASSUME SnapdTypeOK, NEW c \in Requests \cup {None}, AbortChange(c)
    PROVE  SnapdTypeOK' /\ Kept
<1>1. c \in Requests /\ changes[c] \in Change
  BY DEF AbortChange, Running, SnapdTypeOK
<1>2. InState(changes[c], "aborting") \in Change
  BY <1>1 DEF Change, ChangeState, InState
<1>3. /\ InState(changes[c], "aborting").snap = changes[c].snap
      /\ InState(changes[c], "aborting").op = changes[c].op
  BY DEF InState
<1> QED  BY <1>1, <1>2, <1>3 DEF AbortChange, SnapdTypeOK, Kept

LEMMA FinishKeeps ==
    ASSUME SnapdTypeOK, NEW c \in Requests, FinishChange(c)
    PROVE  SnapdTypeOK' /\ Kept
<1>1. changes[c] \in Change
  BY DEF FinishChange, Running, SnapdTypeOK
<1>2. InState(changes[c], "ready") \in Change
  BY <1>1 DEF Change, ChangeState, InState
<1>3. /\ InState(changes[c], "ready").snap = changes[c].snap
      /\ InState(changes[c], "ready").op = changes[c].op
  BY DEF InState
<1>4. changes' \in [Requests -> Change \cup {None}] /\ Kept
  BY <1>1, <1>2, <1>3 DEF FinishChange, SnapdTypeOK, Kept
<1>5. To[changes[c].op] \in LocalStatus \cup {"absent"}
  BY <1>1 DEF To, Change, Operation, LocalStatus
<1> QED  BY <1>4, <1>5 DEF FinishChange, SnapdTypeOK

\* Neither starts with, nor ends in, an abort.
LEMMA StartAbortsNone ==
    ASSUME SnapdTypeOK, NEW q \in Requests, NEW n, NEW op, StartChange(q, n, op),
           NEW c \in Requests, changes[c] # None, changes[c].state # "aborting"
    PROVE  changes'[c].state # "aborting"
BY DEF StartChange, SnapdTypeOK

LEMMA FinishAbortsNone ==
    ASSUME SnapdTypeOK, NEW q \in Requests, FinishChange(q),
           NEW c \in Requests, changes[c] # None, changes[c].state # "aborting"
    PROVE  changes'[c].state # "aborting"
BY DEF FinishChange, InState, SnapdTypeOK

LEMMA OtherClientKeeps ==
    ASSUME SnapdTypeOK, NEW n \in Snaps, OtherClient(n)
    PROVE  SnapdTypeOK' /\ Kept
BY DEF OtherClient, SnapdTypeOK, Kept

LEMMA NothingKeeps ==
    ASSUME SnapdTypeOK, UNCHANGED snapdVars
    PROVE  SnapdTypeOK' /\ Kept
BY DEF snapdVars, SnapdTypeOK, Kept

-----------------------------------------------------------------------------
(* Steps that keep the invariant *)

USE DEF Goto, Operators, Listings, OpOf, trackerVars, snapdVars

\* An entry goes on naming its change while changes are kept.
LEMMA EntriesKept ==
    ASSUME TypeOK, EntryNamesItsChange, Kept, UNCHANGED states
    PROVE  EntryNamesItsChange'
<1> SUFFICES ASSUME NEW n \in Snaps, states[n] # None
             PROVE  /\ states[n].changeID # None =>
                         /\ changes'[states[n].changeID] # None
                         /\ changes'[states[n].changeID].snap = n
                         /\ changes'[states[n].changeID].op = states[n].status
                    /\ states[n].status \in {"enabling", "disabling"}
                         => states[n].changeID # None
  BY DEF EntryNamesItsChange
<1>1. states[n].changeID \in Requests \cup {None}
  BY DEF TypeOK, TrackerTypeOK, Entry
<1> QED  BY <1>1 DEF EntryNamesItsChange, Kept

\* So does a request that was answered 202, and one that is answered now.
LEMMA AcceptedKept ==
    ASSUME TypeOK, AcceptedMeansStarted, Kept, UNCHANGED <<kind, name>>,
           \A q \in Requests : code'[q] = 202 /\ kind[q] \in Operators =>
               code[q] = 202 \/ OwnChange(q)
    PROVE  AcceptedMeansStarted'
<1> SUFFICES ASSUME NEW q \in Requests, code'[q] = 202, kind[q] \in Operators
             PROVE  /\ changes'[q] # None
                    /\ changes'[q].snap = name[q]
                    /\ changes'[q].op = OpOf[kind[q]]
  BY DEF AcceptedMeansStarted
<1>1. /\ changes[q] # None
      /\ changes[q].snap = name[q]
      /\ changes[q].op = OpOf[kind[q]]
  BY DEF AcceptedMeansStarted, OwnChange
<1> QED  BY <1>1 DEF Kept

\* A step of r leaves the other requests as they are.
OthersUnchanged(r) == \A q \in Requests \ {r} :
    /\ pc'[q] = pc[q]         /\ kind'[q] = kind[q]     /\ name'[q] = name[q]
    /\ todo'[q] = todo[q]     /\ blanks'[q] = blanks[q] /\ seen'[q] = seen[q]
    /\ chg'[q] = chg[q]       /\ failed'[q] = failed[q] /\ reply'[q] = reply[q]
    /\ code'[q] = code[q]

\* While changes are kept, the one a request is to abort is of its snap.
LEMMA NamesKept ==
    ASSUME IInv, Kept, NEW q \in Requests, name'[q] = name[q], chg'[q] = chg[q],
           pc[q] \in {"abort", "untrack"}, chg[q] # None
    PROVE  NamesItsSnap(q, chg[q])'
<1>1. chg[q] \in Requests /\ NamesItsSnap(q, chg[q])
  BY DEF IInv, TypeOK, RequestFits, ChangeFits
<1> QED  BY <1>1 DEF NamesItsSnap, Kept

\* A step of r keeps what the invariant says of each of the others.
LEMMA OthersFit ==
    ASSUME IInv, NEW r \in Requests, OthersUnchanged(r), Kept, NEW q \in Requests \ {r}
    PROVE  RequestFits(q)' /\ ReplyFits(q)'
<1>1. KindFits(q)' /\ TodoFits(q)' /\ ReplyFits(q)'
  BY DEF IInv, OthersUnchanged, RequestFits, KindFits, TodoFits, ReplyFits, ReplyFitsSnapshot
<1>2. OwnChange(q) => OwnChange(q)'
  BY DEF OthersUnchanged, OwnChange, Kept
<1>3. pc[q] \in {"abort", "untrack"} /\ chg[q] # None => NamesItsSnap(q, chg[q])'
  BY NamesKept DEF OthersUnchanged
<1> QED  BY <1>1, <1>2, <1>3 DEF IInv, OthersUnchanged, RequestFits, ChangeFits

\* A step of r outside the mutex, which leaves the tracker alone, keeps the
\* invariant if it keeps what the invariant says of r.
LEMMA StepOutsideMutex ==
    ASSUME IInv, NEW r \in Requests, OthersUnchanged(r), UNCHANGED trackerVars,
           Kept, TypeOK', RequestFits(r)', ReplyFits(r)',
           pc[r] \notin {"store", "change", "done"}, pc'[r] \notin {"store", "change"},
           pc'[r] # "done" => code'[r] = 0,
           code'[r] = 202 /\ kind'[r] \in Operators =>
               OwnChange(r) /\ UNCHANGED <<kind, name>>
    PROVE  IInv'
<1>1. ASSUME NEW q \in Requests, q # r PROVE RequestFits(q)' /\ ReplyFits(q)'
  BY <1>1, OthersFit
<1>2. NothingLeftBehind'
  BY DEF IInv, NothingLeftBehind, OthersUnchanged
<1>3. HeldFits'
  <2>1. lock # r
    BY DEF IInv, HeldFits
  <2>2. \A q \in Requests \ {r} : todo'[q] = todo[q] /\ seen'[q] = seen[q]
    BY DEF OthersUnchanged
  <2> QED  BY <2>1, <2>2 DEF IInv, HeldFits, OthersUnchanged
<1>4. OwnTimerArmed'
  BY DEF IInv, OwnTimerArmed
<1>5. EntryNamesItsChange'
  BY EntriesKept DEF IInv
<1>6. AcceptedMeansStarted'
  <2> SUFFICES ASSUME NEW q \in Requests, code'[q] = 202, kind'[q] \in Operators
               PROVE  /\ changes'[q] # None
                      /\ changes'[q].snap = name'[q]
                      /\ changes'[q].op = OpOf[kind'[q]]
    BY DEF AcceptedMeansStarted
  <2>1. /\ changes[q] # None
        /\ changes[q].snap = name'[q]
        /\ changes[q].op = OpOf[kind'[q]]
    BY DEF IInv, AcceptedMeansStarted, OthersUnchanged, OwnChange
  <2> QED  BY <2>1 DEF Kept
<1> QED  BY <1>1, <1>2, <1>3, <1>4, <1>5, <1>6 DEF IInv, ReplyFitsSnapshot

\* A request that ends, outside the mutex.
LEMMA DoneStep ==
    ASSUME IInv, NEW r \in Requests, NEW c \in {0, 200, 202, 404, 500},
           Done(r, c), UNCHANGED trackerVars, SnapdTypeOK', Kept,
           pc[r] \notin {"store", "change", "done"},
           c = 202 /\ kind[r] \in Operators => OwnChange(r)
    PROVE  IInv'
<1>1. TypeOK'
  BY DEF IInv, Done, TypeOK, TrackerTypeOK, PC, Nothing
<1>2. OthersUnchanged(r)
  BY DEF IInv, Done, TypeOK, OthersUnchanged
<1>3. /\ pc'[r] = "done" /\ blanks'[r] = 0 /\ chg'[r] = None
      /\ ~failed'[r] /\ reply'[r] = Nothing /\ code'[r] = c
      /\ UNCHANGED <<kind, name>>
  BY DEF IInv, Done, TypeOK
<1>4. RequestFits(r)' /\ ReplyFits(r)'
  BY <1>3 DEF RequestFits, KindFits, TodoFits, ChangeFits, ReplyFits, Nothing
<1> QED  BY <1>1, <1>2, <1>3, <1>4, StepOutsideMutex

\* A request that has called nothing yet that changes anything.
LEMMA Untouched ==
    ASSUME IInv, NEW r \in Requests,
           pc[r] \in {"idle", "query", "count", "names", "snap", "findone", "call"}
    PROVE  chg[r] = None /\ ~failed[r] /\ reply[r] = Nothing /\ code[r] = 0
BY DEF IInv, TypeOK, RequestFits, TodoFits, ChangeFits, NothingLeftBehind

\* Actions that end a request.
LEMMA EndSteps ==
    ASSUME IInv, NEW r \in Requests,
           \/ UpdateOther(r) \/ QueryFails(r) \/ CollectPanics(r)
           \/ Refuse(r) \/ TrackNothing(r) \/ CancelFails(r) \/ SendPayload(r)
    PROVE  IInv'
<1>1. SnapdTypeOK /\ chg[r] \in Requests \cup {None}
  BY DEF IInv, TypeOK
<1>2. CASE UpdateOther(r)
  BY <1>1, <1>2, NothingKeeps, DoneStep DEF UpdateOther, snapOperationResponse
<1>3. CASE QueryFails(r)
  BY <1>1, <1>3, NothingKeeps, DoneStep DEF QueryFails
<1>4. CASE CollectPanics(r)
  BY <1>1, <1>4, NothingKeeps, DoneStep DEF CollectPanics
<1>5. CASE Refuse(r)
  BY <1>1, <1>5, NothingKeeps, DoneStep DEF Refuse, snapOperationResponse
<1>6. CASE TrackNothing(r)
  <2>1. ~failed[r] => OwnChange(r)
    BY <1>6 DEF TrackNothing, IInv, RequestFits, ChangeFits
  <2> QED  BY <1>1, <1>6, <2>1, NothingKeeps, DoneStep DEF TrackNothing, snapOperationResponse
<1>7. CASE CancelFails(r)
  BY <1>1, <1>7, NothingKeeps, AbortKeeps, DoneStep DEF CancelFails, snapOperationResponse
<1>8. CASE SendPayload(r)
  <2>1. kind[r] \notin Operators
    BY <1>8 DEF SendPayload, IInv, RequestFits, KindFits
  <2> QED  BY <1>1, <1>8, NothingKeeps, DoneStep DEF SendPayload
<1> QED  BY <1>2, <1>3, <1>4, <1>5, <1>6, <1>7, <1>8

\* A request comes in.
LEMMA ArriveStep ==
    ASSUME IInv, NEW r \in Requests, Arrive(r)
    PROVE  IInv'
<1>1. PICK k \in Kinds, n \in Snaps :
         /\ kind' = [kind EXCEPT ![r] = k]
         /\ name' = [name EXCEPT ![r] = n]
         /\ todo' = [todo EXCEPT ![r] = IF k \in Listings THEN {} ELSE {n}]
         /\ pc' = [pc EXCEPT ![r] = FirstStep(k)]
  BY DEF Arrive
<1>2. k \in AllKinds /\ FirstStep(k) \in {"query", "count", "check", "snap"}
  BY DEF FirstStep
<1>3. TypeOK'
  BY <1>1, <1>2 DEF IInv, Arrive, TypeOK, SnapdTypeOK, TrackerTypeOK, PC
<1>4. OthersUnchanged(r)
  BY <1>1 DEF IInv, Arrive, TypeOK, OthersUnchanged
<1>5. /\ pc[r] = "idle" /\ pc'[r] = FirstStep(k) /\ kind'[r] = k
      /\ todo'[r] = IF k \in Listings THEN {} ELSE {n}
      /\ blanks'[r] = 0 /\ chg'[r] = None /\ ~failed'[r]
      /\ reply'[r] = Nothing /\ code'[r] = 0
  <2>1. pc[r] = "idle" /\ pc \in [Requests -> PC] /\ blanks[r] = 0
    BY DEF Arrive, IInv, TypeOK, RequestFits, KindFits
  <2>2. chg[r] = None /\ ~failed[r] /\ reply[r] = Nothing /\ code[r] = 0
    BY <2>1, Untouched
  <2> QED  BY <1>1, <2>1, <2>2 DEF IInv, Arrive, TypeOK
<1>6. RequestFits(r)' /\ ReplyFits(r)'
  BY <1>2, <1>5 DEF RequestFits, KindFits, TodoFits, ChangeFits, ReplyFits, FirstStep,
     AllKinds, Nothing
<1>7. UNCHANGED trackerVars /\ Kept
  BY NothingKeeps DEF Arrive, IInv, TypeOK
<1> QED  BY <1>2, <1>3, <1>4, <1>5, <1>6, <1>7, StepOutsideMutex

\* List and Find have answered.
LEMMA QueryStep ==
    ASSUME IInv, NEW r \in Requests, ListInstalled(r) \/ FindInStore(r)
    PROVE  IInv'
<1>1. PICK found \in SUBSET Snaps, answer \in [Snaps -> SnapdStatus \cup {"none"}] :
         /\ seen' = [seen EXCEPT ![r] = answer]
         /\ todo' = [todo EXCEPT ![r] = found]
  <2>1. CASE ListInstalled(r)
    <3>1. [n \in Snaps |-> IF n \in {m \in Snaps : isInstalled(local[m])}
                             THEN local[n] ELSE "none"] \in [Snaps -> SnapdStatus \cup {"none"}]
      BY DEF isInstalled, SnapdStatus
    <3> QED  BY <2>1, <3>1 DEF ListInstalled
  <2>2. CASE FindInStore(r)
    BY <2>2 DEF FindInStore, SnapdStatus
  <2> QED  BY <2>1, <2>2
<1>2. /\ pc[r] = "query" /\ pc' = [pc EXCEPT ![r] = "state"]
      /\ UNCHANGED <<kind, name, blanks, chg, failed, reply, code, snapdVars, trackerVars>>
  BY DEF ListInstalled, FindInStore
<1>3. TypeOK'
  BY <1>1, <1>2 DEF IInv, TypeOK, SnapdTypeOK, TrackerTypeOK, PC
<1>4. OthersUnchanged(r)
  BY <1>1, <1>2 DEF IInv, TypeOK, OthersUnchanged
<1>5. /\ pc'[r] = "state" /\ kind[r] \in Listings /\ blanks[r] = 0 /\ code[r] = 0
      /\ chg[r] = None /\ ~failed[r] /\ reply[r] = Nothing
  <2>1. chg[r] = None /\ ~failed[r] /\ reply[r] = Nothing /\ code[r] = 0
    BY <1>2, Untouched
  <2> QED  BY <1>2, <2>1 DEF IInv, TypeOK, RequestFits, KindFits
<1>6. RequestFits(r)' /\ ReplyFits(r)'
  BY <1>2, <1>5 DEF RequestFits, KindFits, TodoFits, ChangeFits, ReplyFits, Nothing
<1>7. UNCHANGED trackerVars /\ Kept
  BY <1>2, NothingKeeps DEF IInv, TypeOK
<1> QED  BY <1>2, <1>3, <1>4, <1>5, <1>6, <1>7, StepOutsideMutex

\* AllTrackedSnaps, and the blank names it may return.
LEMMA NamesStep ==
    ASSUME IInv, NEW r \in Requests,
           CountTracked(r) \/ CollectTracked(r) \/ LookUpBlank(r)
    PROVE  IInv'
<1>1. PICK l \in {"names", "snap", "state"}, S \in SUBSET Snaps, k \in Nat :
         /\ pc' = [pc EXCEPT ![r] = l]
         /\ todo' = [todo EXCEPT ![r] = S]
         /\ blanks' = [blanks EXCEPT ![r] = k]
         /\ l = "snap" /\ k = 0 => S # {}
         /\ k # 0 => l \in {"names", "snap"}
  <2>1. blanks[r] \in Nat /\ todo[r] \in SUBSET Snaps
    BY DEF IInv, TypeOK
  <2>2. CASE CountTracked(r)
    <3>1. todo' = [todo EXCEPT ![r] = todo[r]]
      BY <2>2 DEF CountTracked, IInv, TypeOK
    <3> QED  BY <2>1, <2>2, <3>1, TrackedNamesFinite DEF CountTracked
  <2>3. CASE CollectTracked(r)
    <3>1. PICK names \in TrackedNames :
             /\ Cardinality(names) <= blanks[r]
             /\ todo' = [todo EXCEPT ![r] = names]
             /\ blanks' = [blanks EXCEPT ![r] = blanks[r] - Cardinality(names)]
             /\ pc' = [pc EXCEPT ![r] =
                          IF blanks'[r] = 0 /\ names = {} THEN "state" ELSE "snap"]
      BY <2>3 DEF CollectTracked
    <3>2. names \in SUBSET Snaps /\ blanks[r] - Cardinality(names) \in Nat
      BY <2>1, <3>1, TrackedNamesFinite
    <3>3. blanks'[r] = blanks[r] - Cardinality(names)
      BY <3>1 DEF IInv, TypeOK
    <3> QED  BY <3>1, <3>2, <3>3
  <2>4. CASE LookUpBlank(r)
    <3>1. blanks[r] - 1 \in Nat
      BY <2>1, <2>4 DEF LookUpBlank
    <3>2. CASE todo' = [todo EXCEPT ![r] = {}] /\ blanks' = [blanks EXCEPT ![r] = 0]
               /\ pc' = [pc EXCEPT ![r] = "state"]
      BY <3>2
    <3>3. CASE /\ blanks' = [blanks EXCEPT ![r] = blanks[r] - 1]
               /\ pc' = [pc EXCEPT ![r] =
                            IF blanks[r] = 1 /\ todo[r] = {} THEN "state" ELSE "snap"]
               /\ UNCHANGED todo
      <4>1. todo' = [todo EXCEPT ![r] = todo[r]]
        BY <3>3 DEF IInv, TypeOK
      <4>2. blanks[r] - 1 = 0 <=> blanks[r] = 1
        BY <2>1
      <4>3. CASE blanks[r] = 1 /\ todo[r] = {}
        BY <2>1, <3>1, <3>3, <4>1, <4>2, <4>3
      <4>4. CASE ~(blanks[r] = 1 /\ todo[r] = {})
        BY <2>1, <3>1, <3>3, <4>1, <4>2, <4>4
      <4> QED  BY <4>3, <4>4
    <3> QED  BY <2>4, <3>2, <3>3 DEF LookUpBlank
  <2> QED  BY <2>2, <2>3, <2>4
<1>2. /\ UNCHANGED <<kind, name, seen, chg, failed, reply, code, snapdVars, trackerVars>>
      /\ pc[r] \in {"count", "names", "snap"}
  BY DEF CountTracked, CollectTracked, LookUpBlank
<1>3. TypeOK'
  BY <1>1, <1>2 DEF IInv, TypeOK, SnapdTypeOK, TrackerTypeOK, PC
<1>4. OthersUnchanged(r)
  BY <1>1, <1>2 DEF IInv, TypeOK, OthersUnchanged
<1>5. /\ pc'[r] = l /\ todo'[r] = S /\ blanks'[r] = k /\ code[r] = 0
      /\ chg[r] = None /\ ~failed[r] /\ reply[r] = Nothing
  BY <1>1, <1>2, Untouched DEF IInv, TypeOK
<1>6. kind[r] = "tracked"
  BY DEF CountTracked, CollectTracked, LookUpBlank, IInv, TypeOK, RequestFits, KindFits
<1>7. RequestFits(r)' /\ ReplyFits(r)'
  BY <1>1, <1>2, <1>5, <1>6 DEF RequestFits, KindFits, TodoFits, ChangeFits, ReplyFits, Nothing
<1>8. UNCHANGED trackerVars /\ Kept
  BY <1>2, NothingKeeps DEF IInv, TypeOK
<1> QED  BY <1>2, <1>3, <1>4, <1>5, <1>6, <1>7, <1>8, StepOutsideMutex

\* What a request knows while it looks up the first name it has to.
LEMMA LookingUp ==
    ASSUME IInv, NEW r \in Requests, pc[r] \in {"snap", "findone"}, blanks[r] = 0
    PROVE  /\ First(todo[r]) \in todo[r] /\ First(todo[r]) \in Snaps
           /\ kind[r] \in AllKinds \ {"list", "find", "other"}
           /\ chg[r] = None /\ ~failed[r] /\ reply[r] = Nothing /\ code[r] = 0
<1>1. todo[r] \in SUBSET Snaps /\ todo[r] # {}
  BY DEF IInv, TypeOK, RequestFits, TodoFits
<1>2. chg[r] = None /\ ~failed[r] /\ reply[r] = Nothing /\ code[r] = 0
  BY Untouched
<1>3. kind[r] \in AllKinds \ {"list", "find", "other"}
  BY DEF IInv, TypeOK, RequestFits, KindFits
<1> QED  BY <1>1, <1>2, <1>3, FirstIsIn

\* A request that goes on after a lookup, with what it has seen so far.
LEMMA LookUpStep ==
    ASSUME IInv, NEW r \in Requests, pc[r] \in {"snap", "findone"}, blanks[r] = 0,
           NEW l \in PC, NEW S \in SUBSET Snaps, NEW answer \in [Snaps -> SnapdStatus \cup {"none"}],
           pc' = [pc EXCEPT ![r] = l], todo' = [todo EXCEPT ![r] = S],
           seen' = [seen EXCEPT ![r] = answer],
           UNCHANGED <<kind, name, blanks, chg, failed, reply, code, snapdVars, trackerVars>>,
           \/ l \in {"snap", "findone"} /\ S # {}
           \/ l = "state" /\ kind[r] \in {"tracked", "get"}
           \/ l = "check" /\ kind[r] = "cancel"
           \/ l = "call" /\ kind[r] \in Operators
    PROVE  IInv'
<1>1. TypeOK'
  BY DEF IInv, TypeOK, SnapdTypeOK, TrackerTypeOK
<1>2. OthersUnchanged(r)
  BY DEF IInv, TypeOK, OthersUnchanged
<1>3. /\ pc'[r] = l /\ todo'[r] = S /\ kind[r] \in AllKinds \ {"list", "find", "other"}
      /\ chg[r] = None /\ ~failed[r] /\ reply[r] = Nothing /\ code[r] = 0
  <2>1. pc'[r] = l /\ todo'[r] = S
    BY DEF IInv, TypeOK
  <2> QED  BY <2>1, LookingUp
<1>4. RequestFits(r)' /\ ReplyFits(r)'
  BY <1>3 DEF RequestFits, KindFits, TodoFits, ChangeFits, ReplyFits, Nothing
<1>5. UNCHANGED trackerVars /\ Kept
  BY NothingKeeps DEF IInv, TypeOK
<1> QED  BY <1>1, <1>2, <1>3, <1>4, <1>5, StepOutsideMutex

\* A lookup that succeeds.
LEMMA GotSnapStep ==
    ASSUME IInv, NEW r \in Requests, pc[r] \in {"snap", "findone"}, blanks[r] = 0,
           NEW s \in SnapdStatus, GotSnap(r, First(todo[r]), s),
           UNCHANGED <<snapdVars, trackerVars>>
    PROVE  IInv'
<1> DEFINE n == First(todo[r])
           answer == [seen[r] EXCEPT ![n] = s]
<1>1. n \in todo[r] /\ n \in Snaps /\ kind[r] \in AllKinds \ {"list", "find", "other"}
  BY LookingUp
<1> HIDE DEF n
<1>2. /\ answer \in [Snaps -> SnapdStatus \cup {"none"}]
      /\ seen' = [seen EXCEPT ![r] = answer]
  BY <1>1 DEF GotSnap, IInv, TypeOK, n
<1>3. SnapsSeen(seen'[r]) \in SUBSET Snaps /\ todo[r] \in SUBSET Snaps
      /\ todo = [todo EXCEPT ![r] = todo[r]]
  BY DEF SnapsSeen, IInv, TypeOK
<1> HIDE DEF answer
<1>4. CASE kind[r] = "tracked" /\ todo[r] = {n}
  <2>1. /\ pc' = [pc EXCEPT ![r] = "state"]
        /\ todo' = [todo EXCEPT ![r] = SnapsSeen(seen'[r])]
        /\ UNCHANGED <<kind, name, blanks, chg, failed, reply, code>>
    BY <1>4 DEF GotSnap, n
  <2> QED  BY <1>2, <1>3, <1>4, <2>1, LookUpStep DEF PC
<1>5. CASE kind[r] = "tracked" /\ todo[r] # {n}
  <2>1. /\ pc' = [pc EXCEPT ![r] = "snap"]
        /\ todo' = [todo EXCEPT ![r] = todo[r] \ {n}]
        /\ UNCHANGED <<kind, name, blanks, chg, failed, reply, code>>
    BY <1>5 DEF GotSnap, n
  <2>2. todo[r] \ {n} \in SUBSET Snaps /\ todo[r] \ {n} # {}
    BY <1>1, <1>3, <1>5
  <2> QED  BY <1>2, <1>5, <2>1, <2>2, LookUpStep DEF PC
<1>6. CASE kind[r] # "tracked"
  <2>1. /\ pc' = [pc EXCEPT ![r] = AfterGetSnap(kind[r])]
        /\ todo' = [todo EXCEPT ![r] = todo[r]]
        /\ UNCHANGED <<kind, name, blanks, chg, failed, reply, code>>
    BY <1>3, <1>6 DEF GotSnap
  <2>2. kind[r] \notin Listings
    BY <1>1, <1>6
  <2>3. \/ AfterGetSnap(kind[r]) = "state" /\ kind[r] = "get"
        \/ AfterGetSnap(kind[r]) = "check" /\ kind[r] = "cancel"
        \/ AfterGetSnap(kind[r]) = "call" /\ kind[r] \in Operators
    BY <1>1, <2>2 DEF AfterGetSnap, AllKinds
  <2>4. AfterGetSnap(kind[r]) \in PC
    BY <2>3 DEF PC
  <2> QED  BY <1>2, <1>3, <2>1, <2>3, <2>4, LookUpStep
<1> QED  BY <1>4, <1>5, <1>6

\* getSnap, all of it.
LEMMA GetStep ==
    ASSUME IInv, NEW r \in Requests, GetSnap(r)
    PROVE  IInv'
<1>1. /\ pc[r] \in {"snap", "findone"} /\ blanks[r] = 0
      /\ UNCHANGED <<snapdVars, trackerVars>>
  BY DEF GetSnap, GetLocalSnap, GetStoreSnap, IInv, TypeOK, RequestFits, KindFits
<1>2. First(todo[r]) \in todo[r] /\ First(todo[r]) \in Snaps
  BY <1>1, LookingUp
<1>3. ASSUME NEW s \in SnapdStatus, GotSnap(r, First(todo[r]), s) PROVE IInv'
  BY <1>1, <1>3, GotSnapStep
<1>4. /\ seen[r] \in [Snaps -> SnapdStatus \cup {"none"}] /\ todo[r] \in SUBSET Snaps
      /\ seen = [seen EXCEPT ![r] = seen[r]] /\ todo = [todo EXCEPT ![r] = todo[r]]
  BY DEF IInv, TypeOK
<1>5. CASE GetLocalSnap(r)
  <2>1. CASE isInstalled(local[First(todo[r])]) /\ GotSnap(r, First(todo[r]), local[First(todo[r])])
    BY <1>3, <2>1 DEF isInstalled, SnapdStatus
  <2>2. CASE Goto(r, "findone") /\ UNCHANGED <<kind, name, todo, blanks, seen, chg, failed, reply, code>>
    <3> DEFINE answer == seen[r]
               S == todo[r]
    <3>1. /\ answer \in [Snaps -> SnapdStatus \cup {"none"}] /\ S \in SUBSET Snaps /\ S # {}
          /\ todo' = [todo EXCEPT ![r] = S] /\ seen' = [seen EXCEPT ![r] = answer]
          /\ pc' = [pc EXCEPT ![r] = "findone"]
          /\ UNCHANGED <<kind, name, blanks, chg, failed, reply, code>>
      BY <1>2, <1>4, <2>2
    <3> HIDE DEF answer, S
    <3> QED  BY <1>1, <3>1, LookUpStep DEF PC
  <2> QED  BY <1>5, <2>1, <2>2 DEF GetLocalSnap
<1>6. CASE NotFound(r)
  <2>1. CASE kind[r] = "tracked"
    <3> DEFINE answer == seen[r]
               S == SnapsSeen(answer)
    <3>1. /\ answer \in [Snaps -> SnapdStatus \cup {"none"}] /\ S \in SUBSET Snaps
          /\ todo' = [todo EXCEPT ![r] = S] /\ seen' = [seen EXCEPT ![r] = answer]
          /\ pc' = [pc EXCEPT ![r] = "state"]
          /\ UNCHANGED <<kind, name, blanks, chg, failed, reply, code>>
      BY <1>4, <1>6, <2>1 DEF NotFound, SnapsSeen
    <3> HIDE DEF answer, S
    <3> QED  BY <1>1, <2>1, <3>1, LookUpStep DEF PC
  <2>2. CASE kind[r] # "tracked"
    <3>1. Done(r, ReadError(kind[r])) /\ ReadError(kind[r]) \in {404, 500}
      BY <1>6, <2>2 DEF NotFound, ReadError
    <3>2. SnapdTypeOK' /\ Kept
      BY <1>1, NothingKeeps DEF IInv, TypeOK
    <3> QED  BY <1>1, <3>1, <3>2, DoneStep
  <2> QED  BY <2>1, <2>2
<1>7. CASE GetStoreSnap(r)
  BY <1>3, <1>6, <1>7 DEF GetStoreSnap, SnapdStatus
<1> QED  BY <1>5, <1>7 DEF GetSnap

\* A request that goes on, outside the mutex, with a change ID and an outcome.
LEMMA OperateStep ==
    ASSUME IInv, NEW r \in Requests, pc[r] \in {"call", "check", "abort"},
           NEW l \in {"check", "track", "abort", "untrack"},
           NEW c \in Requests \cup {None}, NEW f \in BOOLEAN,
           pc' = [pc EXCEPT ![r] = l], chg' = [chg EXCEPT ![r] = c],
           failed' = [failed EXCEPT ![r] = f],
           UNCHANGED <<kind, name, todo, blanks, seen, reply, code, trackerVars>>,
           SnapdTypeOK', Kept,
           \/ /\ kind[r] = "cancel" /\ l \in {"abort", "untrack"} /\ ~f
              /\ c # None => changes[c] # None /\ changes[c].snap = name[r]
           \/ /\ kind[r] \in Operators /\ l \in {"check", "track"}
              /\ \/ /\ c = r /\ ~f
                    /\ changes'[r] # None /\ changes'[r].snap = name[r]
                    /\ changes'[r].op = OpOf[kind[r]]
                 \/ c = None /\ f /\ kind[r] \in {"install", "remove"}
    PROVE  IInv'
<1>1. TypeOK'
  BY DEF IInv, TypeOK, TrackerTypeOK, PC
<1>2. OthersUnchanged(r)
  BY DEF IInv, TypeOK, OthersUnchanged
<1>3. /\ pc'[r] = l /\ chg'[r] = c /\ (failed'[r] <=> f)
      /\ reply[r] = Nothing /\ code[r] = 0 /\ blanks[r] = 0
  <2>1. pc'[r] = l /\ chg'[r] = c
    BY DEF IInv, TypeOK
  <2>2. failed'[r] <=> f
    BY DEF IInv, TypeOK
  <2>3. reply[r] = Nothing /\ code[r] = 0 /\ blanks[r] = 0
    BY DEF IInv, TypeOK, RequestFits, KindFits, TodoFits, NothingLeftBehind
  <2> QED  BY <2>1, <2>2, <2>3
<1>4. KindFits(r)' /\ TodoFits(r)' /\ ReplyFits(r)'
  BY <1>3 DEF KindFits, TodoFits, ReplyFits, Nothing
<1>5. ChangeFits(r)'
  <2>1. CASE kind[r] = "cancel" /\ l \in {"abort", "untrack"} /\ ~f
    <3>1. c # None => changes[c] # None /\ changes[c].snap = name[r]
      BY <2>1
    <3>2. c # None => changes'[c] # None /\ changes'[c].snap = name[r]
      BY <3>1 DEF Kept
    <3> QED  BY <1>3, <2>1, <3>2 DEF ChangeFits, NamesItsSnap
  <2>2. CASE kind[r] \in Operators /\ l \in {"check", "track"}
    BY <1>3, <2>2 DEF ChangeFits, OwnChange
  <2> QED  BY <2>1, <2>2
<1> QED  BY <1>1, <1>2, <1>3, <1>4, <1>5, StepOutsideMutex DEF RequestFits

\* Install, Remove, Enable or Disable is called.
LEMMA CallStep ==
    ASSUME IInv, NEW r \in Requests, CallAccepted(r) \/ CallFails(r)
    PROVE  IInv'
<1> DEFINE op == OpOf[kind[r]]
<1>1. /\ pc[r] = "call" /\ kind[r] \in Operators /\ op \in Operation
      /\ name[r] \in Snaps /\ SnapdTypeOK /\ UNCHANGED trackerVars
  BY DEF CallAccepted, CallFails, IInv, TypeOK, RequestFits, KindFits, Operation
<1>2. /\ chg[r] = None /\ chg = [chg EXCEPT ![r] = chg[r]] /\ failed[r] \in BOOLEAN
      /\ failed = [failed EXCEPT ![r] = failed[r]]
  BY <1>1, Untouched DEF IInv, TypeOK
<1>3. CASE CallAccepted(r)
  <2>1. /\ SnapdTypeOK' /\ Kept /\ changes'[r] # None
        /\ changes'[r].snap = name[r] /\ changes'[r].op = op
    BY <1>1, <1>3, StartKeeps DEF CallAccepted
  <2>2. ~failed[r]
    BY <1>1, Untouched
  <2> QED  BY <1>1, <1>2, <1>3, <2>1, <2>2, OperateStep DEF CallAccepted
<1>4. CASE CallFails(r)
  <2>1. SnapdTypeOK' /\ Kept
    BY <1>1, <1>4, StartKeeps, NothingKeeps DEF CallFails
  <2>2. CASE kind[r] \in {"enable", "disable"}
    BY <1>1, <1>4, <2>1, <2>2, DoneStep DEF CallFails, AfterFailedCall, snapOperationResponse
  <2>3. CASE kind[r] \in {"install", "remove"}
    <3>1. /\ pc' = [pc EXCEPT ![r] = "check"] /\ failed' = [failed EXCEPT ![r] = TRUE]
          /\ UNCHANGED <<kind, name, todo, blanks, seen, chg, reply, code>>
      BY <1>4, <2>3 DEF CallFails, AfterFailedCall
    <3>2. chg' = [chg EXCEPT ![r] = None]
      BY <1>2, <3>1
    <3> QED  BY <1>1, <2>1, <2>3, <3>1, <3>2, OperateStep
  <2> QED  BY <1>1, <2>2, <2>3
<1> QED  BY <1>3, <1>4

\* The check without the mutex lets an operation be tracked.
LEMMA CheckStep ==
    ASSUME IInv, NEW r \in Requests, TrackChecked(r)
    PROVE  IInv'
<1>1. /\ pc[r] = "check" /\ kind[r] \in Operators /\ pc' = [pc EXCEPT ![r] = "track"]
      /\ UNCHANGED <<kind, name, todo, blanks, seen, reply, code, snapdVars, trackerVars>>
  BY DEF TrackChecked
<1>2. /\ chg[r] \in Requests \cup {None} /\ failed[r] \in BOOLEAN
      /\ chg' = [chg EXCEPT ![r] = chg[r]] /\ failed' = [failed EXCEPT ![r] = failed[r]]
  BY DEF TrackChecked, IInv, TypeOK
<1>3. SnapdTypeOK' /\ Kept
  BY <1>1, NothingKeeps DEF IInv, TypeOK
<1>4. \/ OwnChange(r) /\ ~failed[r]
      \/ chg[r] = None /\ failed[r] /\ kind[r] \in {"install", "remove"}
  BY <1>1 DEF IInv, RequestFits, ChangeFits
<1>5. \/ /\ chg[r] = r /\ ~failed[r]
         /\ changes'[r] # None /\ changes'[r].snap = name[r]
         /\ changes'[r].op = OpOf[kind[r]]
      \/ chg[r] = None /\ failed[r] /\ kind[r] \in {"install", "remove"}
  BY <1>1, <1>4 DEF OwnChange
<1> QED  BY <1>1, <1>2, <1>3, <1>5, OperateStep

\* A read without the mutex yields a change of the snap, or none, torn or not:
\* what is being written is the change of a request about the same snap.
LEMMA EntriesNameChanges ==
    ASSUME IInv, NEW n \in Snaps, NEW entry \in Entries(n), entry # None,
           entry.changeID # None
    PROVE  /\ entry.changeID \in Requests
           /\ changes[entry.changeID] # None
           /\ changes[entry.changeID].snap = n
<1>1. ASSUME states[n] # None, states[n].changeID # None
      PROVE  /\ states[n].changeID \in Requests
             /\ changes[states[n].changeID] # None
             /\ changes[states[n].changeID].snap = n
  BY <1>1 DEF IInv, TypeOK, TrackerTypeOK, Entry, EntryNamesItsChange
<1>2. ASSUME Writing(n), held.entry.changeID # None
      PROVE  /\ held.entry.changeID \in Requests
             /\ changes[held.entry.changeID] # None
             /\ changes[held.entry.changeID].snap = n
  <2>1. PICK q \in Requests : lock = q /\ pc[q] = "store"
    <3>1. lock \in Requests /\ pc[lock] \in {"store", "change"}
      BY <1>2 DEF Writing, IInv, TypeOK, TrackerTypeOK, HeldFits
    <3>2. pc[lock] # "change"
      BY <1>2, <3>1 DEF Writing, IInv, HeldFits
    <3> QED  BY <3>1, <3>2
  <2>2. held.snap = name[q] /\ held.entry.changeID = chg[q]
    <3>1. /\ held.snap = name[q]
          /\ held.entry = [status |-> OpOf[kind[q]], changeID |-> chg[q], by |-> q]
      BY <2>1 DEF IInv, HeldFits
    <3> QED  BY <3>1
  <2>3. chg[q] = None \/ OwnChange(q)
    BY <2>1 DEF IInv, RequestFits, KindFits, ChangeFits
  <2> QED  BY <1>2, <2>2, <2>3 DEF Writing, OwnChange
<1>3. CASE entry = states[n]
  BY <1>1, <1>3
<1>4. CASE Writing(n) /\ entry \in Torn(n)
  BY <1>1, <1>2, <1>4 DEF Torn
<1> QED  BY <1>3, <1>4 DEF Entries

\* A cancel request that finds a running operation, and aborts its change.
LEMMA CancelStep ==
    ASSUME IInv, NEW r \in Requests, CancelChecks(r) \/ CancelAborts(r)
    PROVE  IInv'
<1>1. /\ kind[r] = "cancel" /\ pc[r] \in {"check", "abort"}
      /\ name[r] \in Snaps /\ SnapdTypeOK /\ TrackerTypeOK
      /\ chg[r] \in Requests \cup {None} /\ failed[r] \in BOOLEAN
      /\ chg = [chg EXCEPT ![r] = chg[r]] /\ failed = [failed EXCEPT ![r] = failed[r]]
  <2>1. kind[r] = "cancel" /\ pc[r] \in {"check", "abort"}
    BY DEF CancelChecks, CancelAborts, IInv, RequestFits, KindFits
  <2> QED  BY <2>1 DEF IInv, TypeOK
<1>2. ~failed[r]
  BY <1>1 DEF IInv, RequestFits, ChangeFits
<1>3. CASE CancelChecks(r)
  <2>1. SnapdTypeOK' /\ Kept
    BY <1>1, <1>3, NothingKeeps DEF CancelChecks
  <2>2. PICK entry \in Entries(name[r]) :
          IF IsRunning(entry, Seen(r))
            THEN /\ chg' = [chg EXCEPT ![r] = entry.changeID]
                 /\ pc' = [pc EXCEPT ![r] = "abort"]
                 /\ UNCHANGED <<kind, name, todo, blanks, seen, failed, reply, code>>
            ELSE Done(r, 500)
    BY <1>3 DEF CancelChecks, snapOperationResponse
  <2>3. CASE ~IsRunning(entry, Seen(r))
    <3>1. Done(r, 500)
      BY <2>2, <2>3
    <3> QED  BY <1>1, <1>3, <2>1, <3>1, DoneStep DEF CancelChecks
  <2>4. CASE IsRunning(entry, Seen(r))
    <3> DEFINE c == entry.changeID
    <3>1. c # None => c \in Requests /\ changes[c] # None /\ changes[c].snap = name[r]
      BY <1>1, <2>4, EntriesNameChanges DEF IsRunning
    <3>2. /\ chg' = [chg EXCEPT ![r] = c] /\ pc' = [pc EXCEPT ![r] = "abort"]
          /\ UNCHANGED <<kind, name, todo, blanks, seen, failed, reply, code>>
      BY <2>2, <2>4
    <3> HIDE DEF c
    <3> QED  BY <1>1, <1>3, <1>2, <2>1, <3>1, <3>2, OperateStep DEF CancelChecks
  <2> QED  BY <2>3, <2>4
<1>4. CASE CancelAborts(r)
  <2>1. SnapdTypeOK' /\ Kept
    BY <1>1, <1>4, AbortKeeps DEF CancelAborts
  <2>2. chg[r] # None => changes[chg[r]] # None /\ changes[chg[r]].snap = name[r]
    BY <1>4 DEF CancelAborts, IInv, RequestFits, ChangeFits, NamesItsSnap
  <2> QED  BY <1>1, <1>4, <1>2, <2>1, <2>2, OperateStep DEF CancelAborts
<1> QED  BY <1>3, <1>4

-----------------------------------------------------------------------------
(* Steps that take, hold or release the mutex, or change the map *)

\* trackOperation gets the mutex.
LEMMA LockStep ==
    ASSUME IInv, NEW r \in Requests, TrackLocks(r)
    PROVE  IInv'
<1> DEFINE entry == [status |-> OpOf[kind[r]], changeID |-> chg[r], by |-> r]
           work  == [snap |-> name[r], writes |-> TRUE, entry |-> entry]
<1>1. /\ pc[r] = "track" /\ kind[r] \in Operators /\ chg[r] \in Requests \cup {None}
      /\ name[r] \in Snaps /\ OpOf[kind[r]] \in Operation
  BY DEF TrackLocks, IInv, TypeOK, RequestFits, KindFits, Operation
<1>2. /\ lock = None /\ lock' = r /\ held' = work /\ pc' = [pc EXCEPT ![r] = "store"]
      /\ UNCHANGED <<kind, name, todo, blanks, seen, chg, failed, reply, code>>
      /\ UNCHANGED <<states, timers>> /\ UNCHANGED snapdVars
  BY DEF TrackLocks, LockForTracking
<1>3. work \in Held /\ work # None
  <2>1. entry \in Entry
    BY <1>1 DEF Entry
  <2>2. work \in Held
    BY <1>1, <2>1 DEF Held
  <2> HIDE DEF work
  <2> QED  BY <2>2
<1>4. TypeOK'
  BY <1>2, <1>3 DEF IInv, TypeOK, SnapdTypeOK, TrackerTypeOK, PC
<1>5. OthersUnchanged(r) /\ Kept
  BY <1>2, NothingKeeps DEF IInv, TypeOK, OthersUnchanged
<1>6. pc'[r] = "store"
  BY <1>2 DEF IInv, TypeOK
<1>7. RequestFits(r)' /\ ReplyFits(r)'
  <2>1. RequestFits(r) /\ ReplyFits(r)
    BY DEF IInv, ReplyFitsSnapshot
  <2> QED  BY <1>1, <1>2, <1>6, <2>1 DEF RequestFits, KindFits, TodoFits, ChangeFits,
              OwnChange, ReplyFits
<1>8. NothingLeftBehind'
  BY <1>1, <1>2, <1>5, <1>6 DEF IInv, NothingLeftBehind, OthersUnchanged
<1>9. HeldFits'
  <2>1. \A q \in Requests : pc[q] \notin {"store", "change"}
    BY <1>2 DEF IInv, HeldFits
  <2> QED  BY <1>2, <1>3, <1>5, <1>6, <2>1 DEF HeldFits, OthersUnchanged
<1>10. OwnTimerArmed'
  BY <1>2 DEF IInv, OwnTimerArmed
<1>11. EntryNamesItsChange' /\ AcceptedMeansStarted'
  BY <1>2, <1>5, EntriesKept, AcceptedKept DEF IInv
<1>12. ASSUME NEW q \in Requests PROVE RequestFits(q)' /\ ReplyFits(q)'
  BY <1>5, <1>7, OthersFit
<1> QED  BY <1>4, <1>8, <1>9, <1>10, <1>11, <1>12 DEF IInv, ReplyFitsSnapshot

\* trackOperation stores the entry and starts its goroutine.
LEMMA StoreStep ==
    ASSUME IInv, NEW r \in Requests, TrackStores(r)
    PROVE  IInv'
<1> DEFINE entry == [status |-> OpOf[kind[r]], changeID |-> chg[r], by |-> r]
<1>1. /\ pc[r] = "store" /\ kind[r] \in Operators /\ name[r] \in Snaps /\ lock = r
      /\ held # None /\ held.snap = name[r] /\ held.entry = entry
      /\ failed[r] \in BOOLEAN /\ (failed[r] \/ OwnChange(r))
      /\ kind[r] \notin {"enable", "disable"} \/ ~failed[r]
  BY DEF TrackStores, IInv, TypeOK, RequestFits, KindFits, ChangeFits, HeldFits, trackOperation
<1>2. /\ states' = [states EXCEPT ![name[r]] = entry]
      /\ timers' = [timers EXCEPT ![r] = name[r]]
      /\ lock' = None /\ held' = None /\ UNCHANGED snapdVars
  BY <1>1 DEF TrackStores, trackOperation
<1>3. Done(r, IF failed[r] THEN 500 ELSE 202)
  BY DEF TrackStores, snapOperationResponse
<1>4. entry \in Entry /\ entry # None
  <2>1. entry \in Entry
    BY <1>1 DEF Entry, Operation, IInv, TypeOK
  <2> HIDE DEF entry
  <2> QED  BY <2>1
<1>5. TypeOK'
  <2> HIDE DEF entry
  <2> QED  BY <1>1, <1>2, <1>3, <1>4 DEF IInv, Done, TypeOK, SnapdTypeOK, TrackerTypeOK, PC, Nothing
<1>6. OthersUnchanged(r) /\ Kept
  BY <1>2, <1>3, NothingKeeps DEF IInv, Done, TypeOK, OthersUnchanged
<1>7. /\ pc'[r] = "done" /\ blanks'[r] = 0 /\ chg'[r] = None
      /\ ~failed'[r] /\ reply'[r] = Nothing /\ UNCHANGED <<kind, name>>
      /\ code'[r] = IF failed[r] THEN 500 ELSE 202
  BY <1>3 DEF IInv, Done, TypeOK
<1>8. RequestFits(r)' /\ ReplyFits(r)'
  BY <1>7 DEF RequestFits, KindFits, TodoFits, ChangeFits, ReplyFits, Nothing
<1>9. ASSUME NEW q \in Requests PROVE RequestFits(q)' /\ ReplyFits(q)'
  BY <1>6, <1>8, OthersFit
<1>10. NothingLeftBehind'
  BY <1>2, <1>6, <1>7 DEF IInv, NothingLeftBehind, OthersUnchanged
<1>11. HeldFits'
  <2>1. \A q \in Requests \ {r} : pc[q] \notin {"store", "change"}
    BY <1>1 DEF IInv, HeldFits
  <2> QED  BY <1>2, <1>6, <1>7, <2>1 DEF HeldFits, OthersUnchanged
<1>12. OwnTimerArmed'
  <2> SUFFICES ASSUME NEW n \in Snaps, states'[n] # None
               PROVE  timers'[states'[n].by] = n
    BY DEF OwnTimerArmed
  <2>1. CASE n = name[r]
    BY <1>1, <1>2, <2>1 DEF IInv, TypeOK, TrackerTypeOK
  <2>2. CASE n # name[r]
    <3>1. states'[n] = states[n] /\ timers[states[n].by] = n /\ n # None
      BY <1>2, <2>2 DEF IInv, TypeOK, TrackerTypeOK, OwnTimerArmed
    <3>2. timers[r] = None
      BY <1>1 DEF IInv, NothingLeftBehind
    <3> QED  BY <1>2, <3>1, <3>2
  <2> QED  BY <2>1, <2>2
<1>13. EntryNamesItsChange'
  <2> SUFFICES ASSUME NEW n \in Snaps, states'[n] # None
               PROVE  /\ states'[n].changeID # None =>
                           /\ changes'[states'[n].changeID] # None
                           /\ changes'[states'[n].changeID].snap = n
                           /\ changes'[states'[n].changeID].op = states'[n].status
                      /\ states'[n].status \in {"enabling", "disabling"}
                           => states'[n].changeID # None
    BY DEF EntryNamesItsChange
  <2>1. CASE n = name[r]
    <3>1. states'[n] = entry
      BY <1>1, <1>2, <2>1 DEF IInv, TypeOK, TrackerTypeOK
    <3>2. OwnChange(r) \/ (chg[r] = None /\ kind[r] \in {"install", "remove"})
      BY <1>1 DEF IInv, RequestFits, ChangeFits
    <3> QED  BY <1>1, <1>2, <2>1, <3>1, <3>2 DEF OwnChange
  <2>2. CASE n # name[r]
    BY <1>2, <2>2 DEF IInv, TypeOK, TrackerTypeOK, EntryNamesItsChange
  <2> QED  BY <2>1, <2>2
<1>14. AcceptedMeansStarted'
  BY <1>1, <1>6, <1>7, AcceptedKept DEF IInv, OthersUnchanged
<1> QED  BY <1>5, <1>9, <1>10, <1>11, <1>12, <1>13, <1>14 DEF IInv, ReplyFitsSnapshot

\* An entry is dropped, by a request or by its goroutine.
LEMMA DropKeeps ==
    ASSUME IInv, NEW n \in Snaps, states' = [states EXCEPT ![n] = None],
           \A m \in Snaps \ {n} : states[m] # None =>
               timers'[states[m].by] = timers[states[m].by],
           UNCHANGED snapdVars
    PROVE  /\ states' \in [Snaps -> Entry \cup {None}]
           /\ OwnTimerArmed' /\ EntryNamesItsChange'
<1>1. /\ states' \in [Snaps -> Entry \cup {None}]
      /\ \A m \in Snaps : states'[m] # None => m # n /\ states'[m] = states[m]
  BY DEF IInv, TypeOK, TrackerTypeOK
<1>2. OwnTimerArmed'
  BY <1>1 DEF IInv, OwnTimerArmed
<1>3. EntryNamesItsChange'
  BY <1>1 DEF IInv, EntryNamesItsChange
<1> QED  BY <1>1, <1>2, <1>3

\* A cancelled operation is dropped.
LEMMA UntrackStep ==
    ASSUME IInv, NEW r \in Requests, CancelUntracks(r)
    PROVE  IInv'
<1>1. /\ pc[r] = "untrack" /\ kind[r] = "cancel" /\ name[r] \in Snaps
      /\ lock = None /\ states' = [states EXCEPT ![name[r]] = None]
      /\ UNCHANGED <<timers, lock, held>> /\ UNCHANGED snapdVars
      /\ Done(r, 202)
  BY DEF CancelUntracks, CancelTrackingFor, snapOperationResponse, IInv, TypeOK,
     RequestFits, KindFits
<1>2. /\ states' \in [Snaps -> Entry \cup {None}]
      /\ OwnTimerArmed' /\ EntryNamesItsChange'
  BY <1>1, DropKeeps
<1>3. TypeOK'
  BY <1>1, <1>2 DEF IInv, Done, TypeOK, SnapdTypeOK, TrackerTypeOK, PC, Nothing
<1>4. OthersUnchanged(r) /\ Kept
  BY <1>1, NothingKeeps DEF IInv, Done, TypeOK, OthersUnchanged
<1>5. /\ pc'[r] = "done" /\ blanks'[r] = 0 /\ chg'[r] = None /\ ~failed'[r]
      /\ reply'[r] = Nothing /\ code'[r] = 202 /\ UNCHANGED <<kind, name>>
  BY <1>1 DEF IInv, Done, TypeOK
<1>6. RequestFits(r)' /\ ReplyFits(r)'
  BY <1>5 DEF RequestFits, KindFits, TodoFits, ChangeFits, ReplyFits, Nothing
<1>7. ASSUME NEW q \in Requests PROVE RequestFits(q)' /\ ReplyFits(q)'
  BY <1>4, <1>6, OthersFit
<1>8. NothingLeftBehind'
  BY <1>1, <1>4, <1>5 DEF IInv, NothingLeftBehind, OthersUnchanged
<1>9. HeldFits'
  <2>1. held = None /\ \A q \in Requests : pc[q] \notin {"store", "change"}
    BY <1>1 DEF IInv, HeldFits
  <2> QED  BY <1>1, <1>4, <1>5, <2>1 DEF HeldFits, OthersUnchanged
<1>10. AcceptedMeansStarted'
  BY <1>1, <1>4, <1>5, AcceptedKept DEF IInv, OthersUnchanged
<1> QED  BY <1>2, <1>3, <1>7, <1>8, <1>9, <1>10 DEF IInv, ReplyFitsSnapshot

\* The goroutine of an entry wakes up.
LEMMA ExpireStep ==
    ASSUME IInv, NEW r \in Requests, TimerStep(r)
    PROVE  IInv'
<1> DEFINE n == timers[r]
<1>1. /\ n \in Snaps /\ lock = None /\ held = None
      /\ states' = [states EXCEPT ![n] = None] /\ timers' = [timers EXCEPT ![r] = None]
      /\ UNCHANGED <<lock, held>> /\ UNCHANGED snapdVars /\ UNCHANGED requestVars
  BY DEF TimerStep, Expire, IInv, TypeOK, TrackerTypeOK, HeldFits
<1>2. /\ UNCHANGED <<pc, kind, name, todo, blanks, seen>>
      /\ UNCHANGED <<chg, failed, reply, code>>
  BY <1>1 DEF requestVars
<1>3. ASSUME NEW m \in Snaps \ {n}, states[m] # None
      PROVE  timers'[states[m].by] = timers[states[m].by]
  <2>1. states[m].by \in Requests /\ timers[states[m].by] = m
    BY <1>3 DEF IInv, TypeOK, TrackerTypeOK, Entry, OwnTimerArmed
  <2> QED  BY <1>1, <2>1 DEF IInv, TypeOK, TrackerTypeOK
<1>4. /\ states' \in [Snaps -> Entry \cup {None}]
      /\ OwnTimerArmed' /\ EntryNamesItsChange'
  <2> HIDE DEF n
  <2> QED  BY <1>1, <1>3, DropKeeps
<1>5. TypeOK'
  BY <1>1, <1>2, <1>4 DEF IInv, TypeOK, SnapdTypeOK, TrackerTypeOK
<1>6. Kept
  BY <1>1, NothingKeeps DEF IInv, TypeOK
<1>7. OthersUnchanged(r)
  BY <1>2 DEF OthersUnchanged
<1>8. RequestFits(r)' /\ ReplyFits(r)'
  <2>1. RequestFits(r) /\ ReplyFits(r)
    BY DEF IInv, ReplyFitsSnapshot
  <2> QED  BY <1>1, <1>2, <2>1 DEF RequestFits, KindFits, TodoFits, ChangeFits,
              OwnChange, NamesItsSnap, ReplyFits
<1>9. ASSUME NEW q \in Requests PROVE RequestFits(q)' /\ ReplyFits(q)'
  BY <1>6, <1>7, <1>8, OthersFit
<1>10. NothingLeftBehind'
  BY <1>1, <1>2 DEF IInv, TypeOK, TrackerTypeOK, NothingLeftBehind
<1>11. HeldFits'
  <2>1. \A q \in Requests : pc[q] \notin {"store", "change"}
    BY <1>1 DEF IInv, HeldFits
  <2> QED  BY <1>1, <1>2, <2>1 DEF HeldFits
<1>12. AcceptedMeansStarted'
  BY <1>2, <1>6, AcceptedKept DEF IInv
<1> QED  BY <1>4, <1>5, <1>9, <1>10, <1>11, <1>12 DEF IInv, ReplyFitsSnapshot

\* snapd goes on, or another client uses it.
LEMMA OutsideStep ==
    ASSUME IInv, SnapdStep
    PROVE  IInv'
<1>1. /\ UNCHANGED <<states, timers, lock, held>> /\ UNCHANGED requestVars
      /\ SnapdTypeOK
  BY DEF SnapdStep, IInv, TypeOK
<1>2. /\ UNCHANGED <<pc, kind, name, todo, blanks, seen>>
      /\ UNCHANGED <<chg, failed, reply, code>>
  BY <1>1 DEF requestVars
<1>3. SnapdTypeOK' /\ Kept
  BY <1>1, FinishKeeps, OtherClientKeeps DEF SnapdStep
<1>4. TypeOK'
  BY <1>1, <1>2, <1>3 DEF IInv, TypeOK, TrackerTypeOK
<1>5. ASSUME NEW q \in Requests PROVE RequestFits(q)' /\ ReplyFits(q)'
  <2>1. RequestFits(q) /\ ReplyFits(q)
    BY DEF IInv, ReplyFitsSnapshot
  <2>2. OwnChange(q) => OwnChange(q)'
    BY <1>2, <1>3 DEF OwnChange, Kept
  <2>3. pc[q] \in {"abort", "untrack"} /\ chg[q] # None => NamesItsSnap(q, chg[q])'
    BY <1>2, <1>3, NamesKept
  <2> QED  BY <1>2, <2>1, <2>2, <2>3 DEF RequestFits, KindFits, TodoFits, ChangeFits, ReplyFits
<1>6. NothingLeftBehind' /\ HeldFits' /\ OwnTimerArmed'
  BY <1>1, <1>2 DEF IInv, NothingLeftBehind, HeldFits, OwnTimerArmed
<1>7. EntryNamesItsChange' /\ AcceptedMeansStarted'
  BY <1>1, <1>2, <1>3, EntriesKept, AcceptedKept DEF IInv
<1> QED  BY <1>4, <1>5, <1>6, <1>7 DEF IInv, ReplyFitsSnapshot

\* The process dies and is started again.
LEMMA RestartStep ==
    ASSUME IInv, Restart
    PROVE  IInv'
<1>1. /\ states' = [n \in Snaps |-> None] /\ timers' = [q \in Requests |-> None]
      /\ lock' = None /\ held' = None /\ UNCHANGED snapdVars
      /\ UNCHANGED <<kind, name, code>>
  BY DEF Restart, TrackerLost
<1>2. /\ pc' = [q \in Requests |-> IF pc[q] = "idle" THEN "idle" ELSE "done"]
      /\ todo' = [q \in Requests |-> {}] /\ blanks' = [q \in Requests |-> 0]
      /\ seen' = [q \in Requests |-> Nothing] /\ chg' = [q \in Requests |-> None]
      /\ failed' = [q \in Requests |-> FALSE] /\ reply' = [q \in Requests |-> Nothing]
  BY DEF Restart
<1>3. TypeOK'
  BY <1>1, <1>2 DEF IInv, TypeOK, SnapdTypeOK, TrackerTypeOK, PC, Nothing
<1>4. Kept
  BY <1>1, NothingKeeps DEF IInv, TypeOK
<1>5. ASSUME NEW q \in Requests PROVE RequestFits(q)' /\ ReplyFits(q)'
  BY <1>1, <1>2 DEF RequestFits, KindFits, TodoFits, ChangeFits, ReplyFits, Nothing
<1>6. NothingLeftBehind' /\ HeldFits'
  BY <1>1, <1>2 DEF IInv, NothingLeftBehind, HeldFits
<1>7. OwnTimerArmed' /\ EntryNamesItsChange'
  BY <1>1 DEF OwnTimerArmed, EntryNamesItsChange
<1>8. AcceptedMeansStarted'
  BY <1>1, <1>4, AcceptedKept DEF IInv
<1> QED  BY <1>3, <1>5, <1>6, <1>7, <1>8 DEF IInv, ReplyFitsSnapshot

\* A status goes into a payload, when State has released the mutex.
LEMMA PutStep ==
    ASSUME IInv, NEW r \in Requests, NEW n \in Snaps, NEW s \in PayloadStatus,
           pc[r] \in {"state", "change"}, Put(r, n, s),
           IF s \in Operation THEN ~hasOperationCompleted(s, seen[r][n])
                              ELSE s = translateStatus(seen[r][n]),
           states' \in [Snaps -> Entry \cup {None}], OwnTimerArmed', EntryNamesItsChange',
           lock' = None, held' = None, UNCHANGED timers, UNCHANGED snapdVars,
           \A q \in Requests \ {r} : pc[q] \notin {"store", "change"}
    PROVE  IInv'
<1>1. /\ reply' = [reply EXCEPT ![r] = [reply[r] EXCEPT ![n] = s]]
      /\ todo' = [todo EXCEPT ![r] = todo[r] \ {n}]
      /\ pc' = [pc EXCEPT ![r] = "state"]
      /\ UNCHANGED <<kind, name, blanks, seen, chg, failed, code>>
  BY DEF Put
<1>2. [reply[r] EXCEPT ![n] = s] \in [Snaps -> PayloadStatus \cup {"none"}]
  BY DEF IInv, TypeOK
<1>3. TypeOK'
  BY <1>1, <1>2 DEF IInv, TypeOK, SnapdTypeOK, TrackerTypeOK, PC
<1>4. OthersUnchanged(r) /\ Kept
  BY <1>1, NothingKeeps DEF IInv, TypeOK, OthersUnchanged
<1>5. pc'[r] = "state" /\ reply'[r] = [reply[r] EXCEPT ![n] = s]
  BY <1>1 DEF IInv, TypeOK
<1>6. RequestFits(r)'
  <2>1. /\ kind[r] \in Listings \cup {"get"} /\ blanks[r] = 0
        /\ chg[r] = None /\ ~failed[r]
    BY DEF IInv, TypeOK, RequestFits, KindFits, ChangeFits
  <2> QED  BY <1>1, <1>5, <2>1 DEF RequestFits, KindFits, TodoFits, ChangeFits
<1>7. ReplyFits(r)'
  <2> SUFFICES ASSUME NEW m \in Snaps, reply'[r][m] # "none"
               PROVE  IF reply'[r][m] \in Operation
                        THEN ~hasOperationCompleted(reply'[r][m], seen'[r][m])
                        ELSE reply'[r][m] = translateStatus(seen'[r][m])
    BY DEF ReplyFits
  <2>1. CASE m = n
    <3>1. reply'[r][m] = s /\ seen' = seen
      BY <1>1, <1>5, <2>1 DEF IInv, TypeOK
    <3> QED  BY <2>1, <3>1
  <2>2. CASE m # n
    <3>1. reply'[r][m] = reply[r][m] /\ seen' = seen
      BY <1>1, <1>5, <2>2 DEF IInv, TypeOK
    <3> QED  BY <3>1 DEF IInv, ReplyFitsSnapshot, ReplyFits
  <2> QED  BY <2>1, <2>2
<1>8. ASSUME NEW q \in Requests PROVE RequestFits(q)' /\ ReplyFits(q)'
  BY <1>4, <1>6, <1>7, OthersFit
<1>9. NothingLeftBehind'
  BY <1>1, <1>4, <1>5 DEF IInv, NothingLeftBehind, OthersUnchanged
<1>10. HeldFits'
  BY <1>4, <1>5 DEF HeldFits, OthersUnchanged
<1>11. AcceptedMeansStarted'
  BY <1>1, <1>4, AcceptedKept DEF IInv
<1> QED  BY <1>3, <1>8, <1>9, <1>10, <1>11 DEF IInv, ReplyFitsSnapshot

\* State answers from the map alone.
LEMMA UntrackedStep ==
    ASSUME IInv, NEW r \in Requests, PayloadOfUntracked(r)
    PROVE  IInv'
<1> DEFINE n == First(todo[r])
           s == translateStatus(seen[r][n])
<1>1. n \in Snaps
  BY FirstIsIn DEF PayloadOfUntracked, IInv, TypeOK
<1>2. s \in PayloadStatus \ Operation
  BY DEF translateStatus, PayloadStatus, RestStatus, LocalStatus, Operation
<1>3. /\ pc[r] = "state" /\ Put(r, n, s) /\ lock = None /\ UNCHANGED <<timers, lock, held>>
      /\ UNCHANGED states \/ states' = [states EXCEPT ![n] = None]
      /\ UNCHANGED snapdVars
  BY DEF PayloadOfUntracked, StateOfUntracked, StateOfCompleted
<1>4. held = None /\ \A q \in Requests : pc[q] \notin {"store", "change"}
  BY <1>3 DEF IInv, HeldFits
<1> HIDE DEF n
<1>5. /\ states' \in [Snaps -> Entry \cup {None}]
      /\ OwnTimerArmed' /\ EntryNamesItsChange'
  <2>1. CASE states' = [states EXCEPT ![n] = None]
    BY <1>1, <1>3, <2>1, DropKeeps
  <2>2. CASE UNCHANGED states
    <3>1. states' \in [Snaps -> Entry \cup {None}] /\ OwnTimerArmed'
      BY <1>3, <2>2 DEF IInv, TypeOK, TrackerTypeOK, OwnTimerArmed
    <3>2. EntryNamesItsChange'
      BY <1>3, <2>2, NothingKeeps, EntriesKept DEF IInv, TypeOK
    <3> QED  BY <3>1, <3>2
  <2> QED  BY <1>3, <2>1, <2>2
<1> HIDE DEF s
<1>6. s \in PayloadStatus /\ s \notin Operation /\ s = translateStatus(seen[r][n])
  BY <1>2 DEF s
<1> QED  BY <1>1, <1>3, <1>4, <1>5, <1>6, PutStep

\* State asks snapd, with the mutex.
LEMMA AskStep ==
    ASSUME IInv, NEW r \in Requests, PayloadAsksSnapd(r)
    PROVE  IInv'
<1> DEFINE n == First(todo[r])
           work == [snap |-> n, writes |-> FALSE, entry |-> states[n]]
<1>1. n \in Snaps /\ todo[r] # {}
  <2>1. todo[r] # {} /\ todo[r] \in SUBSET Snaps
    BY DEF PayloadAsksSnapd, IInv, TypeOK
  <2> QED  BY <2>1, FirstIsIn
<1>2. /\ pc[r] = "state" /\ pc' = [pc EXCEPT ![r] = "change"]
      /\ lock = None /\ lock' = r /\ held' = work
      /\ states[n] # None /\ ~hasOperationCompleted(states[n].status, seen[r][n])
      /\ UNCHANGED <<kind, name, todo, blanks, seen, chg, failed, reply, code>>
      /\ UNCHANGED <<states, timers>> /\ UNCHANGED snapdVars
  BY DEF PayloadAsksSnapd, StateAsksSnapd, IsRunning
<1>3. work \in Held /\ work # None
  <2>1. states[n] \in Entry
    BY <1>1, <1>2 DEF IInv, TypeOK, TrackerTypeOK
  <2>2. work \in Held
    BY <1>1, <2>1 DEF Held
  <2> HIDE DEF work
  <2> QED  BY <2>2
<1>4. TypeOK'
  <2> HIDE DEF work
  <2> QED  BY <1>2, <1>3 DEF IInv, TypeOK, SnapdTypeOK, TrackerTypeOK, PC
<1>5. OthersUnchanged(r) /\ Kept
  BY <1>2, NothingKeeps DEF IInv, TypeOK, OthersUnchanged
<1>6. pc'[r] = "change"
  BY <1>2 DEF IInv, TypeOK
<1>7. RequestFits(r)' /\ ReplyFits(r)'
  <2>1. RequestFits(r) /\ ReplyFits(r)
    BY DEF IInv, ReplyFitsSnapshot
  <2> QED  BY <1>1, <1>2, <1>6, <2>1 DEF RequestFits, KindFits, TodoFits, ChangeFits,
              OwnChange, ReplyFits
<1>8. ASSUME NEW q \in Requests PROVE RequestFits(q)' /\ ReplyFits(q)'
  BY <1>5, <1>7, OthersFit
<1>9. NothingLeftBehind'
  BY <1>2, <1>5, <1>6 DEF IInv, NothingLeftBehind, OthersUnchanged
<1>10. HeldFits'
  <2>1. \A q \in Requests : pc[q] \notin {"store", "change"}
    BY <1>2 DEF IInv, HeldFits
  <2> QED  BY <1>2, <1>3, <1>5, <1>6, <2>1 DEF HeldFits, OthersUnchanged
<1>11. OwnTimerArmed'
  BY <1>2 DEF IInv, OwnTimerArmed
<1>12. EntryNamesItsChange' /\ AcceptedMeansStarted'
  BY <1>2, <1>5, EntriesKept, AcceptedKept DEF IInv
<1> QED  BY <1>4, <1>8, <1>9, <1>10, <1>11, <1>12 DEF IInv, ReplyFitsSnapshot

\* State returns its copy of the entry.
LEMMA TrackedStep ==
    ASSUME IInv, NEW r \in Requests, PayloadOfTracked(r)
    PROVE  IInv'
<1> DEFINE n == First(todo[r])
           s == held.entry.status
<1>1. /\ pc[r] = "change" /\ held # None /\ lock = r /\ Put(r, n, s)
      /\ lock' = None /\ held' = None /\ UNCHANGED <<states, timers>> /\ UNCHANGED snapdVars
  BY DEF PayloadOfTracked, StateReturns
<1>2. n \in Snaps
  <2>1. todo[r] # {} /\ todo[r] \in SUBSET Snaps
    BY <1>1 DEF IInv, TypeOK, RequestFits, TodoFits
  <2> QED  BY <2>1, FirstIsIn
<1>3. s \in Operation /\ ~hasOperationCompleted(s, seen[r][n])
  BY <1>1 DEF IInv, TypeOK, TrackerTypeOK, Held, Entry, HeldFits
<1>4. \A q \in Requests \ {r} : pc[q] \notin {"store", "change"}
  BY <1>1 DEF IInv, HeldFits
<1>5. /\ states' \in [Snaps -> Entry \cup {None}]
      /\ OwnTimerArmed' /\ EntryNamesItsChange'
  <2>1. states' \in [Snaps -> Entry \cup {None}] /\ OwnTimerArmed'
    BY <1>1 DEF IInv, TypeOK, TrackerTypeOK, OwnTimerArmed
  <2>2. EntryNamesItsChange'
    BY <1>1, NothingKeeps, EntriesKept DEF IInv, TypeOK
  <2> QED  BY <2>1, <2>2
<1> HIDE DEF n, s
<1>6. s \in PayloadStatus
  BY <1>3 DEF PayloadStatus
<1> QED  BY <1>1, <1>2, <1>3, <1>4, <1>5, <1>6, PutStep

-----------------------------------------------------------------------------
(* The invariant and what follows from it *)

\* The program starts in it.
LEMMA InitIInv == Init => IInv
<1> SUFFICES ASSUME Init PROVE IInv
  OBVIOUS
<1>1. TypeOK
  BY DEF Init, TypeOK, SnapdInit, TrackerInit, SnapdTypeOK, TrackerTypeOK, PC, AllKinds, Nothing
<1>2. ASSUME NEW r \in Requests PROVE RequestFits(r) /\ ReplyFits(r)
  BY DEF Init, RequestFits, KindFits, TodoFits, ChangeFits, ReplyFits, Nothing
<1>3. NothingLeftBehind /\ HeldFits
  BY DEF Init, TrackerInit, NothingLeftBehind, HeldFits
<1>4. OwnTimerArmed /\ EntryNamesItsChange /\ AcceptedMeansStarted
  BY DEF Init, TrackerInit, OwnTimerArmed, EntryNamesItsChange, AcceptedMeansStarted
<1> QED  BY <1>1, <1>2, <1>3, <1>4 DEF IInv, ReplyFitsSnapshot

\* A step that changes nothing.
LEMMA StutterStep ==
    ASSUME IInv, UNCHANGED vars
    PROVE  IInv'
<1>1. /\ UNCHANGED snapdVars /\ UNCHANGED <<states, timers, lock, held>>
      /\ UNCHANGED <<pc, kind, name, todo, blanks, seen>>
      /\ UNCHANGED <<chg, failed, reply, code>>
  BY DEF vars, requestVars
<1>2. TypeOK'
  BY <1>1 DEF IInv, TypeOK, SnapdTypeOK, TrackerTypeOK
<1>3. ASSUME NEW q \in Requests PROVE RequestFits(q)' /\ ReplyFits(q)'
  <2>1. RequestFits(q) /\ ReplyFits(q)
    BY DEF IInv, ReplyFitsSnapshot
  <2> QED  BY <1>1, <2>1 DEF RequestFits, KindFits, TodoFits, ChangeFits, OwnChange,
              NamesItsSnap, ReplyFits
<1>4. NothingLeftBehind' /\ HeldFits' /\ OwnTimerArmed'
  BY <1>1 DEF IInv, NothingLeftBehind, HeldFits, OwnTimerArmed
<1>5. EntryNamesItsChange' /\ AcceptedMeansStarted'
  BY <1>1, NothingKeeps, EntriesKept, AcceptedKept DEF IInv, TypeOK
<1> QED  BY <1>2, <1>3, <1>4, <1>5 DEF IInv, ReplyFitsSnapshot

\* Every step of a request keeps the invariant.
LEMMA ServeStep ==
    ASSUME IInv, NEW r \in Requests, Serve(r)
    PROVE  IInv'
<1>1. CASE Listing(r)
  BY <1>1, EndSteps, QueryStep, NamesStep DEF Listing
<1>2. CASE GetSnap(r)
  BY <1>2, GetStep
<1>3. CASE Operate(r)
  BY <1>3, EndSteps, CallStep, CheckStep, LockStep, StoreStep DEF Operate
<1>4. CASE Cancel(r)
  BY <1>4, CancelStep, EndSteps, UntrackStep DEF Cancel
<1>5. CASE Payload(r)
  BY <1>5, UntrackedStep, AskStep, TrackedStep, EndSteps DEF Payload
<1> QED  BY <1>1, <1>2, <1>3, <1>4, <1>5 DEF Serve

\* The inductive invariant: the parts of IInv hold together, always.
THEOREM Invariance == Spec => []IInv
<1>1. IInv /\ [Next]_vars => IInv'
  <2> SUFFICES ASSUME IInv, [Next]_vars PROVE IInv'
    OBVIOUS
  <2>1. ASSUME NEW r \in Requests, Arrive(r) \/ Serve(r) \/ TimerStep(r) PROVE IInv'
    BY <2>1, ArriveStep, ServeStep, ExpireStep
  <2> QED  BY <2>1, OutsideStep, RestartStep, StutterStep DEF Next
<1> QED  BY <1>1, InitIInv, PTL DEF Spec

\* Every variable keeps its type.
THEOREM TypeCorrect == Spec => []TypeOK
<1>1. IInv => TypeOK
  BY DEF IInv
<1> QED  BY <1>1, Invariance, PTL

\* No entry of the tracker is without the goroutine that will drop it.
THEOREM OwnTimer == Spec => []OwnTimerArmed
<1>1. IInv => OwnTimerArmed
  BY DEF IInv
<1> QED  BY <1>1, Invariance, PTL

\* The change an entry names is a change of that operation on that snap.
THEOREM EntryChange == Spec => []EntryNamesItsChange
<1>1. IInv => EntryNamesItsChange
  BY DEF IInv
<1> QED  BY <1>1, Invariance, PTL

\* What State returns after its call of snapd is still in the map.
THEOREM HeldCopy == Spec => []HeldCopyIsCurrent
<1>1. IInv => HeldCopyIsCurrent
  <2> SUFFICES ASSUME IInv, held # None, ~held.writes PROVE states[held.snap] = held.entry
    BY DEF HeldCopyIsCurrent
  <2>1. lock \in Requests
    BY DEF IInv, TypeOK, TrackerTypeOK, HeldFits
  <2> QED  BY <2>1 DEF IInv, HeldFits
<1> QED  BY <1>1, Invariance, PTL

\* Only a request that is storing an entry or asking snapd has the mutex.
THEOREM LockHeld == Spec => []LockHeldByItsUser
<1>1. IInv => LockHeldByItsUser
  BY DEF IInv, HeldFits, LockHeldByItsUser
<1> QED  BY <1>1, Invariance, PTL

\* An operation that was answered 202 was started.
THEOREM Accepted == Spec => []AcceptedMeansStarted
<1>1. IInv => AcceptedMeansStarted
  BY DEF IInv
<1> QED  BY <1>1, Invariance, PTL

\* Only a cancel request aborts, and nothing but changes of its own snap.
THEOREM AbortsOwn == Spec => AbortedOnRequest
<1> DEFINE Asked(c) == \E r \in Requests : CancelsNow(r) /\ name[r] = changes[c].snap
           Aborts(c) == /\ changes[c] # None
                        /\ changes[c].state # "aborting"
                        /\ changes'[c].state = "aborting"
<1>1. ASSUME IInv, [Next]_vars, NEW c \in Requests, Aborts(c)
      PROVE  Asked(c)
  <2>1. \A q \in Requests : StartChange(q, name[q], OpOf[kind[q]]) => FALSE
    BY <1>1, StartAbortsNone DEF IInv, TypeOK
  <2>2. \A q \in Requests : FinishChange(q) => FALSE
    BY <1>1, FinishAbortsNone DEF IInv, TypeOK
  <2>3. PICK r \in Requests : pc[r] = "abort" /\ AbortChange(chg[r])
    <3>1. changes' # changes
      BY <1>1
    <3>2. ASSUME NEW q \in Requests, Serve(q), ~(pc[q] = "abort" /\ AbortChange(chg[q]))
          PROVE  FALSE
      BY <2>1, <3>1, <3>2 DEF Serve, Listing, GetSnap, Operate, Cancel, Payload,
         UpdateOther, Refuse, CallAccepted, CallFails, TrackNothing, TrackChecked,
         TrackLocks, TrackStores, CancelChecks, CancelAborts, CancelFails, CancelUntracks,
         ListInstalled, FindInStore, QueryFails, CountTracked, CollectTracked,
         CollectPanics, LookUpBlank, GetLocalSnap, GetStoreSnap,
         PayloadOfUntracked, PayloadAsksSnapd, PayloadOfTracked, SendPayload
    <3>3. ASSUME NEW q \in Requests, Arrive(q) \/ TimerStep(q) PROVE FALSE
      BY <3>1, <3>3 DEF Arrive, TimerStep
    <3>4. ~Restart /\ ~UNCHANGED vars
      BY <3>1 DEF Restart, vars
    <3>5. ~SnapdStep
      BY <2>2, <3>1 DEF SnapdStep, OtherClient
    <3> QED  BY <1>1, <3>2, <3>3, <3>4, <3>5 DEF Next
  <2>4. c = chg[r]
    BY <1>1, <2>3 DEF AbortChange, IInv, TypeOK, SnapdTypeOK
  <2>5. CancelsNow(r) /\ name[r] = changes[c].snap
    BY <1>1, <2>3, <2>4 DEF CancelsNow, IInv, RequestFits, KindFits, ChangeFits, NamesItsSnap
  <2> QED  BY <2>5
<1>2. IInv /\ [Next]_vars =>
        [\A c \in Requests :
           changes[c] # None /\ changes[c].state # "aborting" /\ changes'[c].state = "aborting"
             => \E r \in Requests : CancelsNow(r) /\ name[r] = changes[c].snap]_vars
  BY <1>1
<1> QED  BY <1>2, Invariance, PTL DEF Spec, AbortedOnRequest

\* No payload shows an operation that its own snapshot shows to be over.
THEOREM ReplySound == Spec => []ReplyFitsSnapshot
<1>1. IInv => ReplyFitsSnapshot
  BY DEF IInv
<1> QED  BY <1>1, Invariance, PTL

-----------------------------------------------------------------------------
(* That no snap gets lost between the lookups and the payload.             *)

\* A request has seen nothing before it looks up its first name, and one that
\* is about a single snap looks up no other.
SeenFits(r) ==
    /\ pc[r] \in {"idle", "query", "count", "names"} \/ blanks[r] # 0 => seen[r] = Nothing
    /\ pc[r] \in {"snap", "findone"} /\ kind[r] # "tracked" =>
          seen[r] = Nothing /\ todo[r] = {name[r]}

\* PayloadComplete, for one request.
PayloadFits(r) ==
    pc[r] \in {"state", "change"} =>
        /\ todo[r] \cup SnapsSeen(reply[r]) = SnapsSeen(seen[r])
        /\ todo[r] \cap SnapsSeen(reply[r]) = {}

LEMMA NothingSeen == SnapsSeen(Nothing) = {}
  BY DEF SnapsSeen, Nothing

LEMMA OthersComplete ==
    ASSUME NEW r \in Requests, OthersUnchanged(r), NEW q \in Requests \ {r},
           SeenFits(q), PayloadFits(q)
    PROVE  SeenFits(q)' /\ PayloadFits(q)'
  BY DEF OthersUnchanged, SeenFits, PayloadFits

\* Which steps leave the other requests alone: all of them.
LEMMA DoneAlone ==
    ASSUME IInv, NEW r \in Requests, NEW c, Done(r, c)
    PROVE  OthersUnchanged(r) /\ SeenFits(r)' /\ PayloadFits(r)'
<1>1. OthersUnchanged(r)
  BY DEF IInv, TypeOK, Done, Goto, OthersUnchanged
<1>2. pc'[r] = "done" /\ seen'[r] = Nothing
  BY DEF IInv, TypeOK, Done, Goto
<1> QED
  BY <1>1, <1>2 DEF SeenFits, PayloadFits

\* What the steps are to keep.
Completes(r) == OthersUnchanged(r) /\ SeenFits(r)' /\ PayloadFits(r)'

LEMMA ArriveCompletes ==
    ASSUME IInv, NEW r \in Requests, SeenFits(r), Arrive(r)
    PROVE  Completes(r)
<1>1. PICK k \in Kinds, n \in Snaps :
         /\ kind' = [kind EXCEPT ![r] = k]
         /\ name' = [name EXCEPT ![r] = n]
         /\ todo' = [todo EXCEPT ![r] = IF k \in Listings THEN {} ELSE {n}]
         /\ pc' = [pc EXCEPT ![r] = FirstStep(k)]
  BY DEF Arrive, Goto
<1>2. OthersUnchanged(r)
  BY <1>1 DEF IInv, Arrive, TypeOK, OthersUnchanged
<1>3. /\ seen'[r] = Nothing
      /\ pc'[r] = FirstStep(k) /\ kind'[r] = k /\ name'[r] = n
      /\ todo'[r] = IF k \in Listings THEN {} ELSE {n}
  BY <1>1 DEF Arrive, SeenFits, IInv, TypeOK
<1> QED
  BY <1>2, <1>3 DEF Completes, SeenFits, PayloadFits, FirstStep, Listings

LEMMA QueryCompletes ==
    ASSUME IInv, NEW r \in Requests, ListInstalled(r) \/ FindInStore(r)
    PROVE  Completes(r)
<1>1. PICK found \in SUBSET Snaps, answer \in [Snaps -> SnapdStatus] :
         /\ seen' = [seen EXCEPT ![r] = [n \in Snaps |-> IF n \in found THEN answer[n] ELSE "none"]]
         /\ todo' = [todo EXCEPT ![r] = found]
  <2>1. CASE ListInstalled(r)
    <3> DEFINE all == [n \in Snaps |-> IF isInstalled(local[n]) THEN local[n] ELSE "active"]
               found == {n \in Snaps : isInstalled(local[n])}
    <3>1. all \in [Snaps -> SnapdStatus]
      BY DEF isInstalled, SnapdStatus, LocalStatus
    <3>2. [n \in Snaps |-> IF n \in found THEN local[n] ELSE "none"]
          = [n \in Snaps |-> IF n \in found THEN all[n] ELSE "none"]
      OBVIOUS
    <3> QED
      BY <2>1, <3>1, <3>2 DEF ListInstalled
  <2>2. CASE FindInStore(r)
    <3>1. \A s \in [Snaps -> StoreStatus] : s \in [Snaps -> SnapdStatus]
      BY DEF SnapdStatus
    <3> QED
      BY <2>2, <3>1 DEF FindInStore
  <2> QED
    BY <2>1, <2>2
<1>2. /\ pc[r] = "query" /\ pc' = [pc EXCEPT ![r] = "state"]
      /\ UNCHANGED <<kind, name, blanks, chg, failed, reply, code>>
  BY DEF ListInstalled, FindInStore, Goto
<1>3. OthersUnchanged(r)
  BY <1>1, <1>2 DEF IInv, TypeOK, OthersUnchanged
<1>4. blanks[r] = 0 /\ reply[r] = Nothing
  BY <1>2 DEF IInv, RequestFits, KindFits, TodoFits
<1>5. pc'[r] = "state" /\ todo'[r] = found /\ reply'[r] = Nothing /\ blanks'[r] = 0
  BY <1>1, <1>2, <1>4 DEF IInv, TypeOK
<1>6. SnapsSeen(seen'[r]) = found
  <2>1. seen'[r] = [n \in Snaps |-> IF n \in found THEN answer[n] ELSE "none"]
    BY <1>1 DEF IInv, TypeOK
  <2>2. \A n \in Snaps : answer[n] # "none"
    BY StoreStatusAssumption DEF SnapdStatus, LocalStatus
  <2> QED
    BY <2>1, <2>2 DEF SnapsSeen
<1>7. PayloadFits(r)'
  BY <1>5, <1>6, NothingSeen DEF PayloadFits
<1>8. SeenFits(r)'
  BY <1>5 DEF SeenFits
<1> QED
  BY <1>3, <1>7, <1>8 DEF Completes

LEMMA NamesCompletes ==
    ASSUME IInv, NEW r \in Requests, SeenFits(r),
           CountTracked(r) \/ CollectTracked(r) \/ LookUpBlank(r)
    PROVE  Completes(r)
<1>1. /\ pc[r] \in {"count", "names", "snap"}
      /\ UNCHANGED <<kind, name, seen, chg, failed, reply, code>>
      /\ pc[r] = "snap" => blanks[r] # 0
  BY DEF CountTracked, CollectTracked, LookUpBlank
<1>2. /\ OthersUnchanged(r)
      /\ pc'[r] \in {"names", "snap", "state"}
      /\ pc'[r] = "state" => todo'[r] = {}
  <2>1. CASE CountTracked(r)
    BY <2>1 DEF CountTracked, IInv, TypeOK, OthersUnchanged
  <2>2. CASE CollectTracked(r)
    BY <2>2 DEF CollectTracked, IInv, TypeOK, OthersUnchanged
  <2>3. CASE LookUpBlank(r)
    BY <2>3 DEF LookUpBlank, IInv, TypeOK, OthersUnchanged
  <2> QED
    BY <2>1, <2>2, <2>3
<1>3. kind[r] = "tracked" /\ seen[r] = Nothing /\ reply[r] = Nothing
  BY <1>1 DEF SeenFits, IInv, RequestFits, KindFits, TodoFits
<1> QED
  BY <1>1, <1>2, <1>3, NothingSeen DEF Completes, SeenFits, PayloadFits

\* One more name looked up, or the end of the lookups.
LEMMA GotCompletes ==
    ASSUME IInv, NEW r \in Requests, SeenFits(r), NEW s \in SnapdStatus,
           pc[r] \in {"snap", "findone"}, pc[r] = "snap" => blanks[r] = 0,
           GotSnap(r, First(todo[r]), s)
    PROVE  Completes(r)
<1> DEFINE n == First(todo[r])
<1>1. todo[r] # {} /\ n \in todo[r] /\ n \in Snaps
  <2>1. todo[r] \in SUBSET Snaps /\ todo[r] # {}
    BY DEF IInv, TypeOK, RequestFits, TodoFits
  <2> QED
    BY <2>1, FirstIsIn
<1>2. blanks[r] = 0 /\ reply[r] = Nothing
  BY DEF IInv, RequestFits, KindFits, TodoFits
<1>3. s # "none"
  BY StoreStatusAssumption DEF SnapdStatus, LocalStatus
<1> HIDE DEF n
<1>4. /\ seen' = [seen EXCEPT ![r][n] = s]
      /\ UNCHANGED <<kind, name, blanks, chg, failed, reply, code>>
      /\ IF kind[r] = "tracked"
           THEN IF todo[r] = {n}
                  THEN /\ pc' = [pc EXCEPT ![r] = "state"]
                       /\ todo' = [todo EXCEPT ![r] = SnapsSeen(seen'[r])]
                  ELSE /\ pc' = [pc EXCEPT ![r] = "snap"]
                       /\ todo' = [todo EXCEPT ![r] = @ \ {n}]
           ELSE pc' = [pc EXCEPT ![r] = AfterGetSnap(kind[r])] /\ UNCHANGED todo
  BY DEF GotSnap, Goto, n
<1>5. OthersUnchanged(r)
  BY <1>4 DEF IInv, TypeOK, OthersUnchanged
<1>6. reply'[r] = Nothing /\ blanks'[r] = 0 /\ kind'[r] = kind[r]
  BY <1>2, <1>4
<1>7. CASE kind[r] = "tracked"
  <2>1. \/ pc'[r] = "snap"
        \/ pc'[r] = "state" /\ todo'[r] = SnapsSeen(seen'[r])
    BY <1>4, <1>7 DEF IInv, TypeOK
  <2> QED
    BY <1>5, <1>6, <1>7, <2>1, NothingSeen DEF Completes, SeenFits, PayloadFits
<1>8. CASE kind[r] # "tracked"
  <2>1. seen[r] = Nothing /\ todo[r] = {n}
    BY <1>1, <1>8 DEF SeenFits
  <2>2. todo'[r] = {n} /\ pc'[r] \in {"state", "check", "call"}
    BY <1>4, <1>8, <2>1 DEF IInv, TypeOK, AfterGetSnap
  <2>3. seen'[r] = [Nothing EXCEPT ![n] = s]
    BY <1>4, <2>1 DEF IInv, TypeOK
  <2>4. SnapsSeen(seen'[r]) = {n}
    BY <1>1, <1>3, <2>3 DEF SnapsSeen, Nothing
  <2> QED
    BY <1>5, <1>6, <2>2, <2>4, NothingSeen DEF Completes, SeenFits, PayloadFits
<1> QED
  BY <1>7, <1>8

LEMMA GetCompletes ==
    ASSUME IInv, NEW r \in Requests, SeenFits(r), GetSnap(r)
    PROVE  Completes(r)
<1>1. CASE GetLocalSnap(r) /\ GotSnap(r, First(todo[r]), local[First(todo[r])])
                           /\ isInstalled(local[First(todo[r])])
  <2>1. local[First(todo[r])] \in SnapdStatus
    BY <1>1 DEF isInstalled, SnapdStatus, LocalStatus
  <2> QED
    BY <1>1, <2>1, GotCompletes DEF GetLocalSnap
<1>2. CASE GetLocalSnap(r) /\ Goto(r, "findone")
           /\ UNCHANGED <<kind, name, todo, blanks, seen, chg, failed, reply, code>>
  <2>1. OthersUnchanged(r) /\ pc'[r] = "findone" /\ pc[r] = "snap"
    BY <1>2 DEF GetLocalSnap, IInv, TypeOK, Goto, OthersUnchanged
  <2> QED
    BY <1>2, <2>1 DEF Completes, SeenFits, PayloadFits
<1>3. CASE GetStoreSnap(r) /\ \E s \in StoreStatus : GotSnap(r, First(todo[r]), s)
  <2>1. PICK s \in SnapdStatus : GotSnap(r, First(todo[r]), s)
    BY <1>3 DEF SnapdStatus
  <2> QED
    BY <1>3, <2>1, GotCompletes DEF GetStoreSnap
<1>4. CASE GetStoreSnap(r) /\ NotFound(r)
  <2>1. CASE kind[r] = "tracked"
    <3>1. /\ pc[r] = "findone" /\ pc' = [pc EXCEPT ![r] = "state"]
          /\ todo' = [todo EXCEPT ![r] = SnapsSeen(seen[r])]
          /\ UNCHANGED <<kind, name, blanks, seen, chg, failed, reply, code>>
      BY <1>4, <2>1 DEF NotFound, GetStoreSnap, Goto
    <3>2. OthersUnchanged(r)
      BY <3>1 DEF IInv, TypeOK, OthersUnchanged
    <3>3. blanks[r] = 0 /\ reply[r] = Nothing
      BY <3>1 DEF IInv, RequestFits, KindFits, TodoFits
    <3>4. pc'[r] = "state" /\ todo'[r] = SnapsSeen(seen[r])
      BY <3>1 DEF IInv, TypeOK
    <3> QED
      BY <3>1, <3>2, <3>3, <3>4, NothingSeen DEF Completes, SeenFits, PayloadFits
  <2>2. CASE kind[r] # "tracked"
    BY <1>4, <2>2, DoneAlone DEF NotFound, Completes
  <2> QED
    BY <2>1, <2>2
<1> QED
  BY <1>1, <1>2, <1>3, <1>4 DEF GetSnap, GetLocalSnap, GetStoreSnap

\* A step after the lookups, on the way to snapd or to the tracker.
LEMMA LaterCompletes ==
    ASSUME IInv, NEW r \in Requests, NEW l \in {"check", "track", "store", "abort", "untrack"},
           Goto(r, l), UNCHANGED <<kind, name, todo, blanks, seen, reply, code>>,
           \A q \in Requests \ {r} : chg'[q] = chg[q] /\ failed'[q] = failed[q],
           pc[r] \notin {"snap", "names"}
    PROVE  Completes(r)
<1>1. pc'[r] = l /\ \A q \in Requests \ {r} : pc'[q] = pc[q]
  BY DEF IInv, TypeOK
<1>2. OthersUnchanged(r)
  BY <1>1 DEF OthersUnchanged
<1>3. blanks[r] = 0
  <2>1. pc[r] # "names"
    OBVIOUS
  <2> QED
    BY <2>1 DEF IInv, RequestFits, KindFits
<1> QED
  BY <1>1, <1>2, <1>3 DEF Completes, SeenFits, PayloadFits

LEMMA OperateCompletes ==
    ASSUME IInv, NEW r \in Requests, Operate(r) \/ Cancel(r)
    PROVE  Completes(r)
<1>1. CASE \E c : Done(r, c)
  BY <1>1, DoneAlone DEF Completes
<1>2. CASE \E l \in {"check", "track", "store", "abort", "untrack"} :
             /\ Goto(r, l) /\ pc[r] \notin {"snap", "names"}
             /\ UNCHANGED <<kind, name, todo, blanks, seen, reply, code>>
             /\ \A q \in Requests \ {r} : chg'[q] = chg[q] /\ failed'[q] = failed[q]
  BY <1>2, LaterCompletes
<1>3. ASSUME ~\E c : Done(r, c)
      PROVE  \E l \in {"check", "track", "store", "abort", "untrack"} :
             /\ Goto(r, l) /\ pc[r] \notin {"snap", "names"}
             /\ UNCHANGED <<kind, name, todo, blanks, seen, reply, code>>
             /\ \A q \in Requests \ {r} : chg'[q] = chg[q] /\ failed'[q] = failed[q]
  <2>1. chg \in [Requests -> Requests \cup {None}] /\ failed \in [Requests -> BOOLEAN]
    BY DEF IInv, TypeOK
  <2>2. CallAccepted(r) \/ CallFails(r) \/ TrackChecked(r) \/ TrackLocks(r)
        \/ CancelChecks(r) \/ CancelAborts(r)
    BY <1>3 DEF Operate, Cancel, UpdateOther, Refuse, TrackNothing, TrackStores,
                CancelFails, CancelUntracks, snapOperationResponse
  <2>3. CASE CallAccepted(r)
    BY <2>1, <2>3 DEF CallAccepted
  <2>4. CASE CallFails(r)
    BY <1>3, <2>1, <2>4 DEF CallFails, AfterFailedCall, snapOperationResponse
  <2>5. CASE TrackChecked(r) \/ TrackLocks(r) \/ CancelAborts(r)
    BY <2>5 DEF TrackChecked, TrackLocks, CancelAborts
  <2>6. CASE CancelChecks(r)
    BY <1>3, <2>1, <2>6 DEF CancelChecks, snapOperationResponse
  <2> QED
    BY <2>2, <2>3, <2>4, <2>5, <2>6
<1> QED
  BY <1>1, <1>2, <1>3

\* One snap more in the payload, and one less to put there.
LEMMA PutCompletes ==
    ASSUME IInv, NEW r \in Requests, SeenFits(r), PayloadFits(r), todo[r] # {},
           pc[r] \in {"state", "change"}, NEW s, s # "none", Put(r, First(todo[r]), s)
    PROVE  Completes(r)
<1> DEFINE n == First(todo[r])
<1>1. n \in todo[r] /\ n \in Snaps /\ blanks[r] = 0
  <2>1. todo[r] \in SUBSET Snaps
    BY DEF IInv, TypeOK
  <2> QED
    BY <2>1, FirstIsIn DEF IInv, RequestFits, KindFits
<1> HIDE DEF n
<1>2. /\ reply' = [reply EXCEPT ![r][n] = s]
      /\ todo' = [todo EXCEPT ![r] = @ \ {n}]
      /\ pc' = [pc EXCEPT ![r] = "state"]
      /\ UNCHANGED <<kind, name, blanks, seen, chg, failed, code>>
  BY DEF Put, Goto, n
<1>3. OthersUnchanged(r)
  BY <1>2 DEF IInv, TypeOK, OthersUnchanged
<1>4. pc'[r] = "state" /\ blanks'[r] = 0 /\ todo'[r] = todo[r] \ {n}
  BY <1>1, <1>2 DEF IInv, TypeOK
<1>5. SnapsSeen(reply'[r]) = SnapsSeen(reply[r]) \cup {n}
  <2>1. reply'[r] = [reply[r] EXCEPT ![n] = s] /\ reply[r] \in [Snaps -> PayloadStatus \cup {"none"}]
    BY <1>2 DEF IInv, TypeOK
  <2> QED
    BY <1>1, <2>1 DEF SnapsSeen
<1>6. PayloadFits(r)'
  <2>1. /\ todo[r] \cup SnapsSeen(reply[r]) = SnapsSeen(seen[r])
        /\ todo[r] \cap SnapsSeen(reply[r]) = {}
    BY DEF PayloadFits
  <2>2. /\ todo'[r] \cup SnapsSeen(reply'[r]) = SnapsSeen(seen[r])
        /\ todo'[r] \cap SnapsSeen(reply'[r]) = {}
    BY <1>1, <1>4, <1>5, <2>1
  <2> QED
    BY <1>2, <2>2 DEF PayloadFits
<1>7. SeenFits(r)'
  BY <1>4 DEF SeenFits
<1> QED
  BY <1>3, <1>6, <1>7 DEF Completes

LEMMA PayloadCompletes ==
    ASSUME IInv, NEW r \in Requests, SeenFits(r), PayloadFits(r), Payload(r)
    PROVE  Completes(r)
<1>1. CASE PayloadOfUntracked(r)
  <2> DEFINE s == translateStatus(seen[r][First(todo[r])])
  <2>1. s # "none"
    BY DEF translateStatus, LocalStatus
  <2> HIDE DEF s
  <2>2. Put(r, First(todo[r]), s) /\ pc[r] = "state" /\ todo[r] # {}
    BY <1>1 DEF PayloadOfUntracked, s
  <2> QED
    BY <2>1, <2>2, PutCompletes
<1>2. CASE PayloadOfTracked(r)
  <2> DEFINE s == held.entry.status
  <2>1. held \in Held
    BY <1>2 DEF PayloadOfTracked, StateReturns, IInv, TypeOK, TrackerTypeOK
  <2>2. s # "none"
    BY <2>1 DEF Held, Entry, Operation
  <2>3. todo[r] # {} /\ pc[r] = "change"
    BY <1>2 DEF PayloadOfTracked, IInv, RequestFits, TodoFits
  <2>4. Put(r, First(todo[r]), s)
    BY <1>2 DEF PayloadOfTracked
  <2> HIDE DEF s
  <2> QED
    BY <2>2, <2>3, <2>4, PutCompletes
<1>3. CASE PayloadAsksSnapd(r)
  <2>1. /\ pc[r] = "state" /\ pc' = [pc EXCEPT ![r] = "change"]
        /\ UNCHANGED <<kind, name, todo, blanks, seen, chg, failed, reply, code>>
    BY <1>3 DEF PayloadAsksSnapd, Goto
  <2>2. pc'[r] = "change" /\ \A q \in Requests \ {r} : pc'[q] = pc[q]
    BY <2>1 DEF IInv, TypeOK
  <2>3. OthersUnchanged(r)
    BY <2>1, <2>2 DEF OthersUnchanged
  <2>4. blanks[r] = 0
    BY <2>1 DEF IInv, RequestFits, KindFits
  <2> QED
    BY <2>1, <2>2, <2>3, <2>4 DEF Completes, SeenFits, PayloadFits
<1>4. CASE SendPayload(r)
  BY <1>4, DoneAlone DEF SendPayload, Completes
<1> QED
  BY <1>1, <1>2, <1>3, <1>4 DEF Payload

\* All requests have seen, and put in their payloads, what they should.
AllComplete == \A r \in Requests : SeenFits(r) /\ PayloadFits(r)

\* A step of a handler is about its own request, and completes it.
LEMMA StepCompletes ==
    ASSUME IInv, NEW r \in Requests, SeenFits(r), PayloadFits(r), Arrive(r) \/ Serve(r)
    PROVE  Completes(r)
<1>1. CASE Arrive(r)
  BY <1>1, ArriveCompletes
<1>2. CASE Listing(r)
  BY <1>2, QueryCompletes, NamesCompletes, DoneAlone
     DEF Listing, QueryFails, CollectPanics, Completes
<1>3. CASE GetSnap(r) \/ Operate(r) \/ Cancel(r) \/ Payload(r)
  BY <1>3, GetCompletes, OperateCompletes, PayloadCompletes
<1> QED
  BY <1>1, <1>2, <1>3 DEF Serve

LEMMA NextComplete == IInv /\ AllComplete /\ [Next]_vars => AllComplete'
<1> SUFFICES ASSUME IInv, AllComplete, [Next]_vars PROVE AllComplete'
  OBVIOUS
<1>1. ASSUME NEW r \in Requests, Completes(r) PROVE AllComplete'
  BY <1>1, OthersComplete DEF AllComplete, Completes
<1>2. ASSUME NEW r \in Requests, Arrive(r) \/ Serve(r) PROVE Completes(r)
  BY <1>2, StepCompletes DEF AllComplete
<1>3. CASE UNCHANGED requestVars
  BY <1>3 DEF requestVars, AllComplete, SeenFits, PayloadFits
<1>4. CASE Restart
  BY <1>4 DEF Restart, AllComplete, SeenFits, PayloadFits
<1> QED
  BY <1>1, <1>2, <1>3, <1>4 DEF Next, TimerStep, SnapdStep, vars

LEMMA CompleteInvariance == Spec => [](IInv /\ AllComplete)
<1>1. Init => AllComplete
  BY DEF Init, AllComplete, SeenFits, PayloadFits
<1> QED
  BY <1>1, NextComplete, Invariance, PTL DEF Spec

\* Every snap a request found is in its payload or about to be put there, and
\* never both, also when the lookups of a tracked listing broke off half way
\* (getAllTrackedSnaps and snapToPayload, converge.go and handlers.go).
THEOREM NoneLost == Spec => []PayloadComplete
<1>1. AllComplete => PayloadComplete
  BY DEF AllComplete, PayloadFits, PayloadComplete
<1> QED
  BY <1>1, CompleteInvariance, PTL

-----------------------------------------------------------------------------
(* SnapOps implements OperationMarks, safety only: each step of the        *)
(* requests, the tracker and snapd is a step of the marks or a stutter.    *)

LEMMA InitMaps == Init => Marks!Init
  BY DEF Init, TrackerInit, Marks!Init, markBar, spentBar

\* A step that leaves the map alone leaves the marks alone.
LEMMA MarksKept ==
  ASSUME UNCHANGED states
  PROVE  markBar' = markBar
  BY DEF markBar

\* A request that goes on is as spent as it was; one that is over is spent now.
LEMMA GoesOn ==
  ASSUME IInv, NEW r \in Requests, NEW l, l # "done", pc[r] # "done", Goto(r, l)
  PROVE  spentBar' = spentBar
  BY DEF IInv, TypeOK, Goto, spentBar

LEMMA IsOver ==
  ASSUME IInv, NEW r \in Requests, Goto(r, "done")
  PROVE  spentBar' = spentBar \cup {r}
  BY DEF IInv, TypeOK, Goto, spentBar

\* A handler's step that leaves the map alone is a stutter, or ends its request.
LEMMA QuietStep ==
  ASSUME IInv, NEW r \in Requests, UNCHANGED states,
         \E l : Goto(r, l), pc[r] # "done"
  PROVE  Marks!Retire(r) \/ UNCHANGED <<markBar, spentBar>>
<1>1. PICK l : Goto(r, l)
  OBVIOUS
<1>2. CASE l = "done"
  BY <1>1, <1>2, IsOver, MarksKept DEF Marks!Retire
<1>3. CASE l # "done"
  BY <1>1, <1>3, GoesOn, MarksKept
<1> QED
  BY <1>2, <1>3

\* Dropping the entry of a snap drops its mark, if there is one.
LEMMA DropsMark ==
  ASSUME IInv, NEW n \in Snaps, states' = [states EXCEPT ![n] = None]
  PROVE  markBar' = [markBar EXCEPT ![n] = None]
  BY DEF IInv, TypeOK, TrackerTypeOK, markBar

LEMMA DropStep ==
  ASSUME IInv, NEW n \in Snaps, states' = [states EXCEPT ![n] = None],
         spentBar' = spentBar
  PROVE  Marks!Drop(n) \/ UNCHANGED <<markBar, spentBar>>
<1>1. CASE states[n] = None
  <2>1. states' = states
    BY <1>1 DEF IInv, TypeOK, TrackerTypeOK
  <2> QED
    BY <2>1, MarksKept
<1>2. CASE states[n] # None
  <2>1. states[n].by \in Requests
    BY <1>2 DEF IInv, TypeOK, TrackerTypeOK, Entry
  <2>2. markBar[n] # None
    BY <1>2, <2>1, TrackerAssumption DEF markBar
  <2> QED
    BY <2>2, DropsMark DEF Marks!Drop
<1> QED
  BY <1>1, <1>2

\* trackOperation marks the snap for the request that called it and is answered.
LEMMA StoreMarks ==
  ASSUME IInv, NEW r \in Requests, TrackStores(r)
  PROVE  Marks!Mark(r, held.snap) /\ held.snap \in Snaps
<1>1. pc[r] = "store" /\ lock = r
  BY DEF TrackStores, trackOperation
<1>2. held.snap = name[r] /\ held.entry.by = r /\ held.entry \in Entry
  <2>1. HeldFits
    BY DEF IInv
  <2>2. held.entry = [status |-> OpOf[kind[r]], changeID |-> chg[r], by |-> r]
    BY <1>1, <2>1 DEF HeldFits
  <2>3. held \in Held
    BY DEF IInv, TypeOK, TrackerTypeOK, TrackStores, trackOperation
  <2> QED
    BY <1>1, <2>1, <2>2, <2>3 DEF HeldFits, Held
<1>3. held.snap \in Snaps
  BY <1>2 DEF IInv, TypeOK
<1>4. markBar' = [markBar EXCEPT ![held.snap] = r]
  <2>1. states' = [states EXCEPT ![held.snap] = held.entry]
    BY DEF TrackStores, trackOperation
  <2>2. states \in [Snaps -> Entry \cup {None}] /\ held.entry # None
    BY <1>2, TrackerAssumption DEF IInv, TypeOK, TrackerTypeOK
  <2> QED
    BY <1>2, <1>3, <2>1, <2>2, Zenon DEF markBar
<1>5. spentBar' = spentBar \cup {r}
  BY IsOver DEF TrackStores, snapOperationResponse, Done
<1>6. r \notin spentBar
  BY <1>1 DEF spentBar
<1> QED
  BY <1>3, <1>4, <1>5, <1>6 DEF Marks!Mark

\* The steps of one request, by what they do to the map.
LEMMA ServeMaps ==
  ASSUME IInv, NEW r \in Requests, Arrive(r) \/ Serve(r)
  PROVE  [Marks!Next]_<<markBar, spentBar>>
<1>1. CASE TrackStores(r)
  BY <1>1, StoreMarks DEF Marks!Next
<1>2. CASE CancelUntracks(r)
  <2>1. name[r] \in Snaps
    BY DEF IInv, TypeOK
  <2>2. markBar' = [markBar EXCEPT ![name[r]] = None]
    BY <1>2, <2>1, DropsMark DEF CancelUntracks, CancelTrackingFor
  <2>3. spentBar' = spentBar \cup {r}
    BY <1>2, IsOver DEF CancelUntracks, snapOperationResponse, Done
  <2> QED
    BY <2>1, <2>2, <2>3 DEF Marks!Next, Marks!DropAndRetire
<1>3. CASE PayloadOfUntracked(r)
  <2> DEFINE n == First(todo[r])
  <2>1. n \in Snaps
    <3>1. todo[r] \subseteq Snaps /\ todo[r] # {}
      BY <1>3 DEF PayloadOfUntracked, IInv, TypeOK
    <3> QED
      BY <3>1, FirstIsIn
  <2>2. spentBar' = spentBar
    BY <1>3, GoesOn DEF PayloadOfUntracked, Put
  <2>3. \/ UNCHANGED states
        \/ states' = [states EXCEPT ![n] = None]
    <3>1. StateOfUntracked(n) \/ StateOfCompleted(n, seen[r][n])
      BY <1>3 DEF PayloadOfUntracked
    <3> HIDE DEF n
    <3> QED
      BY <3>1 DEF StateOfUntracked, StateOfCompleted, trackerVars
  <2> HIDE DEF n
  <2> QED
    BY <2>1, <2>2, <2>3, DropStep, MarksKept DEF Marks!Next
<1>4. ASSUME ~TrackStores(r), ~CancelUntracks(r), ~PayloadOfUntracked(r)
      PROVE  [Marks!Next]_<<markBar, spentBar>>
  <2>1. UNCHANGED states
    BY <1>4
       DEF Arrive, Serve, Listing, GetSnap, Operate, Cancel, Payload,
           ListInstalled, FindInStore, QueryFails, CountTracked, CollectTracked,
           CollectPanics, LookUpBlank, GetLocalSnap, GetStoreSnap, UpdateOther, Refuse,
           CallAccepted, CallFails, TrackNothing, TrackChecked, TrackLocks,
           CancelChecks, CancelAborts, CancelFails, PayloadAsksSnapd, PayloadOfTracked,
           SendPayload, LockForTracking, StateAsksSnapd, StateReturns, trackerVars
  <2>2. pc[r] # "done"
    BY <1>4
       DEF Arrive, Serve, Listing, GetSnap, Operate, Cancel, Payload,
           ListInstalled, FindInStore, QueryFails, CountTracked, CollectTracked,
           CollectPanics, LookUpBlank, GetLocalSnap, GetStoreSnap, UpdateOther, Refuse,
           CallAccepted, CallFails, TrackNothing, TrackChecked, TrackLocks,
           CancelChecks, CancelAborts, CancelFails, PayloadAsksSnapd, PayloadOfTracked,
           SendPayload
  <2>3. \E l : Goto(r, l)
    BY <1>4, Zenon
       DEF Arrive, Serve, Listing, GetSnap, Operate, Cancel, Payload,
           ListInstalled, FindInStore, QueryFails, CountTracked, CollectTracked,
           CollectPanics, LookUpBlank, GetLocalSnap, GetStoreSnap, GotSnap, NotFound,
           UpdateOther, Refuse, CallAccepted, CallFails, AfterFailedCall, TrackNothing,
           TrackChecked, TrackLocks, CancelChecks, CancelAborts, CancelFails,
           PayloadAsksSnapd, PayloadOfTracked, Put, SendPayload, snapOperationResponse, Done
  <2> QED
    BY <2>1, <2>2, <2>3, QuietStep DEF Marks!Next
<1> QED
  BY <1>1, <1>2, <1>3, <1>4

\* A goroutine that wakes up drops the mark of its snap, whoever made it.
LEMMA TimerMaps ==
  ASSUME IInv, NEW r \in Requests, TimerStep(r)
  PROVE  [Marks!Next]_<<markBar, spentBar>>
<1>1. timers[r] \in Snaps
  BY DEF TimerStep, Expire, IInv, TypeOK, TrackerTypeOK
<1>2. spentBar' = spentBar
  BY DEF TimerStep, requestVars, spentBar
<1> QED
  BY <1>1, <1>2, DropStep DEF TimerStep, Expire, Marks!Next

LEMMA RestartMaps ==
  ASSUME IInv, Restart
  PROVE  [Marks!Next]_<<markBar, spentBar>>
<1>1. markBar' = [n \in Snaps |-> None]
  BY DEF Restart, TrackerLost, markBar
<1>2. spentBar \subseteq spentBar' /\ spentBar' \in SUBSET Requests
  BY DEF Restart, spentBar
<1> QED
  BY <1>1, <1>2 DEF Marks!Next, Marks!Reset

LEMMA NextMaps == IInv /\ [Next]_vars => [Marks!Next]_<<markBar, spentBar>>
<1> SUFFICES ASSUME IInv, [Next]_vars PROVE [Marks!Next]_<<markBar, spentBar>>
  OBVIOUS
<1>1. CASE SnapdStep \/ UNCHANGED vars
  BY <1>1 DEF SnapdStep, vars, trackerVars, requestVars, markBar, spentBar
<1> QED
  BY <1>1, ServeMaps, TimerMaps, RestartMaps DEF Next

\* The tracker with its goroutines, its mutex and the requests around it is one
\* that marks and forgets: every request marks at most once, and a mark that was
\* dropped never comes back (statetracker.go, handlers.go, converge.go).
THEOREM MarksSafely == Spec => ImplementsMarksSafely
<1>1. IInv /\ [Next]_vars => [Marks!Next]_(Marks!marksVars)
  BY NextMaps DEF Marks!marksVars
<1> QED
  BY InitMaps, <1>1, Invariance, PTL DEF Spec, ImplementsMarksSafely, Marks!Spec

-----------------------------------------------------------------------------
(* What a client is told was so, unless something came between the reads.  *)

\* What a payload says that is made of an entry and of snapd's answer s.
Told(entry, s) ==
    IF IsRunning(entry, s) THEN entry.status ELSE translateStatus(s)

\* What is true now is recorded; the name is looked for until the payload is
\* made; and what the payload is going to say, or says, is recorded, since the
\* entry is the one that was there when snapd was asked.
ServedFits(r) ==
    /\ StatusNow(name[r]) \subseteq truths[r]
    /\ todo[r] # {} => todo[r] = {name[r]} /\ reply[r] = Nothing
    /\ pc[r] = "findone" /\ ~disturbed[r] =>
          \A s \in StoreStatus : Told(states[name[r]], s) \in truths[r]
    /\ pc[r] \in {"state", "change"} /\ ~disturbed[r] =>
          IF todo[r] = {} THEN reply[r][name[r]] \in truths[r]
                          ELSE Told(states[name[r]], seen[r][name[r]]) \in truths[r]

AnsweredFits(r) ==
    answered[r] # "none" => pc[r] = "done" /\ (disturbed[r] \/ answered[r] \in truths[r])

ViewFits(r) == (Served(r) => ServedFits(r)) /\ AnsweredFits(r)

\* The history variables, as far as they are about r.
Records(r) ==
    /\ truths'[r] = IF Served(r)' THEN truths[r] \cup StatusNow(name[r])' ELSE truths[r]
    /\ answered'[r] = IF pc'[r] = "done" /\ code'[r] = 200 /\ pc[r] # "done" /\ kind[r] = "get"
                        THEN reply[r][name[r]] ELSE answered[r]
    /\ disturbed'[r] = (disturbed[r] \/ Disturbs(r))

\* The store answers about a snap that is not installed as snapd would.
LEMMA ToldIsNow ==
    ASSUME NEW n \in Snaps, local[n] \in LocalStatus \cup {"absent"}, NEW s,
           \/ isInstalled(local[n]) /\ s = local[n]
           \/ ~isInstalled(local[n]) /\ s \in StoreStatus
    PROVE  Told(states[n], s) \in StatusNow(n)
<1>1. \A op : hasOperationCompleted(op, s) <=> hasOperationCompleted(op, local[n])
  BY DEF hasOperationCompleted, isInstalled, LocalStatus
<1>2. IsRunning(states[n], s) <=> IsRunning(states[n], local[n])
  BY <1>1 DEF IsRunning
<1> QED  BY <1>2 DEF Told, StatusNow, isInstalled, LocalStatus

\* A step that does nothing to r itself.
LEMMA NotOfR ==
    ASSUME IInv, NEW r \in Requests, ViewFits(r), Records(r),
           pc'[r] = pc[r], kind'[r] = kind[r], name'[r] = name[r],
           todo'[r] = todo[r], seen'[r] = seen[r], reply'[r] = reply[r]
    PROVE  ViewFits(r)'
<1>1. AnsweredFits(r)'
  BY DEF ViewFits, AnsweredFits, Records, Disturbs, Served
<1>2. ASSUME Served(r)' PROVE ServedFits(r)'
  <2>1. Served(r) /\ ServedFits(r)
    BY <1>2 DEF Served, ViewFits
  <2>2. truths'[r] = truths[r] \cup StatusNow(name[r])'
    BY <1>2 DEF Records
  <2>3. ASSUME ~disturbed'[r], reply[r] = Nothing PROVE states'[name[r]] = states[name[r]]
    BY <2>1, <2>3 DEF Records, Disturbs
  <2>4. ~disturbed'[r] => ~disturbed[r]
    BY DEF Records
  <2>5. StatusNow(name[r])' \subseteq truths'[r] /\ truths[r] \subseteq truths'[r]
    BY <2>2
  <2>6. todo[r] # {} => todo[r] = {name[r]} /\ reply[r] = Nothing
    BY <2>1 DEF ServedFits
  <2>7. pc[r] = "findone" /\ ~disturbed'[r] =>
            \A s \in StoreStatus : Told(states'[name[r]], s) \in truths'[r]
    <3> SUFFICES ASSUME pc[r] = "findone", ~disturbed'[r], NEW s \in StoreStatus
                 PROVE  Told(states'[name[r]], s) \in truths'[r]
      OBVIOUS
    <3>1. reply[r] = Nothing
      BY DEF IInv, RequestFits, TodoFits
    <3> QED  BY <2>1, <2>3, <2>4, <2>5, <3>1 DEF ServedFits
  <2>8. pc[r] \in {"state", "change"} /\ ~disturbed'[r] =>
            IF todo[r] = {} THEN reply[r][name[r]] \in truths'[r]
                            ELSE Told(states'[name[r]], seen[r][name[r]]) \in truths'[r]
    BY <2>1, <2>3, <2>4, <2>5, <2>6 DEF ServedFits
  <2> QED  BY <2>5, <2>6, <2>7, <2>8 DEF ServedFits
<1> QED  BY <1>1, <1>2 DEF ViewFits

\* A step after which r is no GET in flight.
LEMMA NotServed ==
    ASSUME NEW r \in Requests, ViewFits(r), Records(r), ~Served(r)',
           \/ kind[r] # "get" /\ (pc'[r] = "done" \/ pc[r] # "done")
           \/ pc[r] = "idle" /\ pc'[r] # "done"
           \/ pc[r] = "done" /\ pc'[r] = "done"
           \/ pc'[r] = "done" /\ code'[r] # 200
           \/ pc'[r] = "done" /\ pc[r] = "state" /\ todo[r] = {}
    PROVE  ViewFits(r)'
<1>1. truths'[r] = truths[r] /\ (disturbed'[r] => disturbed[r] \/ Served(r))
  BY DEF Records, Disturbs
<1>2. CASE answered'[r] = answered[r]
  <2> SUFFICES ASSUME answered[r] # "none"
               PROVE  pc'[r] = "done" /\ (disturbed'[r] \/ answered[r] \in truths[r])
    BY <1>1, <1>2 DEF ViewFits, AnsweredFits
  <2>1. pc[r] = "done" /\ (disturbed[r] \/ answered[r] \in truths[r])
    BY DEF ViewFits, AnsweredFits
  <2> QED  BY <2>1 DEF Records
<1>3. CASE answered'[r] # answered[r]
  <2>1. /\ pc'[r] = "done" /\ pc[r] # "done" /\ kind[r] = "get" /\ code'[r] = 200
        /\ answered'[r] = reply[r][name[r]]
    BY <1>3 DEF Records
  <2>2. pc[r] = "state" /\ todo[r] = {}
    BY <2>1
  <2>3. disturbed[r] \/ reply[r][name[r]] \in truths[r]
    BY <2>1, <2>2 DEF ViewFits, ServedFits, Served
  <2>4. disturbed[r] => disturbed'[r]
    BY DEF Records
  <2> QED  BY <1>1, <2>1, <2>3, <2>4 DEF ViewFits, AnsweredFits
<1> QED  BY <1>2, <1>3 DEF ViewFits

\* A step that takes a GET on, and leaves what was recorded before.
LEMMA ServedOn ==
    ASSUME NEW r \in Requests, ViewFits(r), Records(r), pc[r] # "done",
           kind'[r] = "get", pc'[r] \notin {"idle", "done"}, ServedFits(r)'
    PROVE  ViewFits(r)'
  BY DEF ViewFits, AnsweredFits, Records

\* The name a GET looks up, and puts into the payload, is its own.
LEMMA OwnName ==
    ASSUME IInv, AllComplete, NEW r \in Requests, ViewFits(r), Served(r),
           pc[r] \in {"snap", "findone", "change"} \/ (pc[r] = "state" /\ todo[r] # {})
    PROVE  /\ blanks[r] = 0 /\ todo[r] = {name[r]} /\ First(todo[r]) = name[r]
           /\ name[r] \in Snaps /\ reply[r] = Nothing
<1>1. blanks[r] = 0 /\ name[r] \in Snaps
  BY DEF Served, IInv, TypeOK, RequestFits, KindFits
<1>2. todo[r] # {}
  BY <1>1 DEF IInv, RequestFits, TodoFits
<1>3. todo[r] = {name[r]} /\ reply[r] = Nothing
  BY <1>2 DEF ViewFits, ServedFits
<1>4. First(todo[r]) \in todo[r]
  BY <1>1, <1>3, FirstIsIn
<1> QED  BY <1>1, <1>3, <1>4

\* The request for a snap comes in.
LEMMA ArriveViews ==
    ASSUME IInv, AllComplete, NEW r \in Requests, ViewFits(r), Records(r), Arrive(r)
    PROVE  ViewFits(r)'
<1>1. PICK k \in Kinds, n \in Snaps :
         /\ kind' = [kind EXCEPT ![r] = k]
         /\ name' = [name EXCEPT ![r] = n]
         /\ todo' = [todo EXCEPT ![r] = IF k \in Listings THEN {} ELSE {n}]
         /\ pc' = [pc EXCEPT ![r] = FirstStep(k)]
  BY DEF Arrive
<1>2. /\ pc[r] = "idle" /\ pc'[r] = FirstStep(k) /\ kind'[r] = k /\ name'[r] = n
      /\ todo'[r] = (IF k \in Listings THEN {} ELSE {n}) /\ reply'[r] = Nothing
  <2>1. pc[r] = "idle" /\ reply[r] = Nothing /\ UNCHANGED reply
    BY Untouched DEF Arrive
  <2> QED  BY <1>1, <2>1 DEF IInv, TypeOK
<1>3. CASE k = "get"
  <2>1. pc'[r] = "snap" /\ todo'[r] = {name'[r]} /\ Served(r)'
    BY <1>2, <1>3 DEF FirstStep, Served
  <2>2. truths'[r] = truths[r] \cup StatusNow(name[r])'
    BY <2>1 DEF Records
  <2>3. ServedFits(r)'
    BY <1>2, <2>1, <2>2 DEF ServedFits
  <2> QED  BY <1>2, <1>3, <2>1, <2>3, ServedOn
<1>4. CASE k # "get"
  <2>1. ~Served(r)' /\ pc'[r] # "done"
    BY <1>2, <1>4 DEF Served, FirstStep
  <2> QED  BY <1>2, <2>1, NotServed
<1> QED  BY <1>3, <1>4

\* A lookup that succeeds, with an answer the record has already.
LEMMA GotViews ==
    ASSUME IInv, AllComplete, NEW r \in Requests, ViewFits(r), Records(r), Served(r),
           pc[r] \in {"snap", "findone"}, NEW s \in SnapdStatus,
           GotSnap(r, name[r], s), UNCHANGED <<snapdVars, trackerVars>>,
           disturbed[r] \/ Told(states[name[r]], s) \in truths[r]
    PROVE  ViewFits(r)'
<1>1. todo[r] = {name[r]} /\ name[r] \in Snaps /\ reply[r] = Nothing
  BY OwnName
<1>2. /\ kind[r] = "get" /\ seen' = [seen EXCEPT ![r][name[r]] = s]
      /\ pc' = [pc EXCEPT ![r] = "state"]
      /\ UNCHANGED todo /\ UNCHANGED <<kind, name, blanks, chg, failed, reply, code>>
  BY DEF GotSnap, Served, AfterGetSnap
<1>3. pc'[r] = "state" /\ seen'[r][name[r]] = s
  BY <1>1, <1>2 DEF IInv, TypeOK
<1>4. Served(r)' /\ truths'[r] = truths[r] \cup StatusNow(name[r])'
  BY <1>2, <1>3 DEF Served, Records
<1>5. ~disturbed'[r] => Told(states'[name[r]], s) \in truths'[r]
  BY <1>4 DEF Records, trackerVars
<1>6. ServedFits(r)'
  BY <1>1, <1>2, <1>3, <1>4, <1>5 DEF ServedFits
<1> QED  BY <1>2, <1>3, <1>6, ServedOn

\* getSnap, for a GET.
LEMMA LookUpViews ==
    ASSUME IInv, AllComplete, NEW r \in Requests, ViewFits(r), Records(r), Served(r),
           GetSnap(r)
    PROVE  ViewFits(r)'
<1>1. /\ pc[r] \in {"snap", "findone"} /\ kind[r] = "get"
      /\ UNCHANGED <<snapdVars, trackerVars>>
  BY DEF GetSnap, GetLocalSnap, GetStoreSnap, Served
<1>2. /\ First(todo[r]) = name[r] /\ todo[r] = {name[r]} /\ name[r] \in Snaps
      /\ reply[r] = Nothing
  BY <1>1, OwnName
<1>3. StatusNow(name[r]) \subseteq truths[r]
  BY DEF ViewFits, ServedFits
<1>4. local[name[r]] \in LocalStatus \cup {"absent"}
  BY <1>2 DEF IInv, TypeOK, SnapdTypeOK
<1>5. CASE pc[r] = "snap" /\ isInstalled(local[name[r]]) /\ GotSnap(r, name[r], local[name[r]])
  <2>1. Told(states[name[r]], local[name[r]]) \in truths[r]
    BY <1>2, <1>3, <1>4, <1>5, ToldIsNow
  <2>2. local[name[r]] \in SnapdStatus
    BY <1>5 DEF isInstalled, SnapdStatus
  <2> QED  BY <1>1, <1>5, <2>1, <2>2, GotViews
<1>6. CASE /\ pc[r] = "snap" /\ Goto(r, "findone")
           /\ UNCHANGED <<kind, name, todo, blanks, seen, chg, failed, reply, code>>
  <2>1. pc'[r] = "findone"
    BY <1>6 DEF IInv, TypeOK
  <2>2. Served(r)' /\ truths'[r] = truths[r] \cup StatusNow(name[r])'
    BY <1>1, <1>6, <2>1 DEF Served, Records
  <2>3. ~disturbed'[r] => ~isInstalled(local[name[r]])
    BY <1>2, <1>6, <2>1 DEF Records, Disturbs
  <2>4. ASSUME ~disturbed'[r], NEW s \in StoreStatus PROVE Told(states'[name[r]], s) \in truths'[r]
    <3>1. Told(states[name[r]], s) \in StatusNow(name[r])
      BY <1>2, <1>4, <2>3, <2>4, ToldIsNow
    <3> QED  BY <1>1, <1>3, <2>2, <3>1
  <2>5. ServedFits(r)'
    BY <1>2, <1>6, <2>1, <2>2, <2>4 DEF ServedFits
  <2> QED  BY <1>1, <1>6, <2>1, <2>5, ServedOn
<1>7. CASE \E s \in StoreStatus : pc[r] = "findone" /\ GotSnap(r, name[r], s)
  <2>1. PICK s \in StoreStatus : GotSnap(r, name[r], s)
    BY <1>7
  <2>2. disturbed[r] \/ Told(states[name[r]], s) \in truths[r]
    BY <1>7 DEF ViewFits, ServedFits
  <2>3. s \in SnapdStatus
    BY DEF SnapdStatus
  <2> QED  BY <1>1, <2>1, <2>2, <2>3, GotViews
<1>8. CASE NotFound(r)
  <2>1. pc'[r] = "done" /\ code'[r] = 404
    BY <1>1, <1>8 DEF NotFound, Done, ReadError, IInv, TypeOK
  <2>2. ~Served(r)'
    BY <2>1 DEF Served
  <2> QED  BY <2>1, <2>2, NotServed
<1>9. CASE GetLocalSnap(r)
  BY <1>2, <1>5, <1>6, <1>9 DEF GetLocalSnap
<1>10. CASE GetStoreSnap(r)
  BY <1>2, <1>7, <1>8, <1>10 DEF GetStoreSnap
<1> QED  BY <1>9, <1>10 DEF GetSnap

\* The status goes into the payload.
LEMMA PutViews ==
    ASSUME IInv, AllComplete, NEW r \in Requests, ViewFits(r), Records(r), Served(r),
           pc[r] \in {"state", "change"}, todo[r] # {},
           Put(r, name[r], Told(states[name[r]], seen[r][name[r]]))
    PROVE  ViewFits(r)'
<1> DEFINE s == Told(states[name[r]], seen[r][name[r]])
<1>1. todo[r] = {name[r]} /\ name[r] \in Snaps /\ kind[r] = "get"
  BY OwnName DEF Served
<1>2. disturbed[r] \/ s \in truths[r]
  BY DEF ViewFits, ServedFits
<1> HIDE DEF s
<1>3. /\ reply' = [reply EXCEPT ![r][name[r]] = s]
      /\ todo' = [todo EXCEPT ![r] = todo[r] \ {name[r]}]
      /\ pc' = [pc EXCEPT ![r] = "state"]
      /\ UNCHANGED <<kind, name, blanks, seen, chg, failed, code>>
  BY DEF Put, s
<1>4. pc'[r] = "state" /\ todo'[r] = {} /\ reply'[r][name[r]] = s
  BY <1>1, <1>3 DEF IInv, TypeOK
<1>5. Served(r)' /\ truths'[r] = truths[r] \cup StatusNow(name[r])'
  BY <1>1, <1>3, <1>4 DEF Served, Records
<1>6. disturbed[r] => disturbed'[r]
  BY DEF Records
<1>7. ServedFits(r)'
  BY <1>2, <1>3, <1>4, <1>5, <1>6 DEF ServedFits
<1> QED  BY <1>1, <1>3, <1>4, <1>7, ServedOn

\* The payload of a GET, all of it.
LEMMA PayloadViews ==
    ASSUME IInv, AllComplete, NEW r \in Requests, ViewFits(r), Records(r), Served(r),
           Payload(r)
    PROVE  ViewFits(r)'
<1> DEFINE n == name[r]
<1>1. CASE PayloadOfUntracked(r)
  <2>1. /\ pc[r] = "state" /\ todo[r] # {} /\ First(todo[r]) = n
    BY <1>1, OwnName DEF PayloadOfUntracked
  <2>2. ~IsRunning(states[n], seen[r][n])
    BY <1>1, <2>1 DEF PayloadOfUntracked, StateOfUntracked, StateOfCompleted, IsRunning
  <2>3. Put(r, n, Told(states[n], seen[r][n]))
    BY <1>1, <2>1, <2>2 DEF PayloadOfUntracked, Told
  <2> QED  BY <2>1, <2>3, PutViews
<1>2. CASE PayloadAsksSnapd(r)
  <2>1. /\ pc[r] = "state" /\ todo[r] # {} /\ kind[r] = "get"
        /\ UNCHANGED <<kind, name, todo, seen, reply, states, local>>
    BY <1>2 DEF PayloadAsksSnapd, StateAsksSnapd, Served
  <2>2. pc'[r] = "change"
    BY <1>2 DEF PayloadAsksSnapd, IInv, TypeOK
  <2>3. Served(r)' /\ truths'[r] = truths[r] \cup StatusNow(n)'
    BY <2>1, <2>2 DEF Served, Records
  <2>4. disturbed[r] => disturbed'[r]
    BY DEF Records
  <2>5. ServedFits(r)'
    BY <2>1, <2>2, <2>3, <2>4 DEF ViewFits, ServedFits
  <2> QED  BY <2>1, <2>2, <2>5, ServedOn
<1>3. CASE PayloadOfTracked(r)
  <2>1. /\ pc[r] = "change" /\ todo[r] # {} /\ First(todo[r]) = n /\ n \in Snaps
    BY <1>3, OwnName DEF PayloadOfTracked
  <2>2. /\ held # None /\ states[n] = held.entry
        /\ ~hasOperationCompleted(held.entry.status, seen[r][n])
    <3>1. /\ held.snap = n /\ states[held.snap] = held.entry
          /\ ~hasOperationCompleted(held.entry.status, seen[r][held.snap])
      BY <2>1 DEF IInv, HeldFits
    <3> QED  BY <1>3, <3>1 DEF PayloadOfTracked, StateReturns
  <2>3. states[n] # None
    BY <2>2 DEF IInv, TypeOK, TrackerTypeOK, Held, Entry
  <2>4. Told(states[n], seen[r][n]) = held.entry.status
    BY <2>2, <2>3 DEF Told, IsRunning
  <2>5. Put(r, n, Told(states[n], seen[r][n]))
    BY <1>3, <2>1, <2>4 DEF PayloadOfTracked
  <2> QED  BY <2>1, <2>5, PutViews
<1>4. CASE SendPayload(r)
  <2>1. pc[r] = "state" /\ todo[r] = {} /\ pc'[r] = "done"
    BY <1>4 DEF SendPayload, Done, IInv, TypeOK
  <2>2. ~Served(r)'
    BY <2>1 DEF Served
  <2> QED  BY <2>1, <2>2, NotServed
<1> QED  BY <1>1, <1>2, <1>3, <1>4 DEF Payload

\* Every step of r itself.
LEMMA OwnStepViews ==
    ASSUME IInv, AllComplete, NEW r \in Requests, ViewFits(r), Records(r),
           Arrive(r) \/ Serve(r)
    PROVE  ViewFits(r)'
<1>1. CASE Arrive(r)
  BY <1>1, ArriveViews
<1>2. CASE Serve(r) /\ kind[r] # "get"
  <2>1. pc[r] # "done" /\ UNCHANGED kind
    BY <1>2 DEF Serve, Listing, GetSnap, Operate, Cancel, Payload,
       UpdateOther, Refuse, CallAccepted, CallFails, TrackNothing, TrackChecked,
       TrackLocks, TrackStores, CancelChecks, CancelAborts, CancelFails, CancelUntracks,
       ListInstalled, FindInStore, QueryFails, CountTracked, CollectTracked,
       CollectPanics, LookUpBlank, GetLocalSnap, GetStoreSnap, GotSnap, NotFound, Put,
       AfterFailedCall, snapOperationResponse, Done,
       PayloadOfUntracked, PayloadAsksSnapd, PayloadOfTracked, SendPayload
  <2>2. ~Served(r)'
    BY <1>2, <2>1 DEF Served
  <2> QED  BY <1>2, <2>1, <2>2, NotServed
<1>3. CASE Serve(r) /\ kind[r] = "get"
  <2>1. pc[r] \in {"idle", "snap", "findone", "state", "change", "check", "done"} /\ blanks[r] = 0
    <3>1. pc[r] \in PC /\ KindFits(r)
      BY DEF IInv, TypeOK, RequestFits
    <3>2. blanks[r] = 0
      BY <1>3, <3>1 DEF KindFits
    <3>3. pc[r] \notin {"call", "track", "store", "abort", "untrack", "query", "count", "names"}
      BY <1>3, <3>1 DEF KindFits
    <3> QED  BY <3>1, <3>2, <3>3 DEF PC
  <2>2. ~Listing(r)
    BY <2>1 DEF Listing, ListInstalled, FindInStore, QueryFails, CountTracked,
       CollectTracked, CollectPanics, LookUpBlank
  <2>3. ~Operate(r)
    BY <1>3, <2>1 DEF Operate, UpdateOther, Refuse, CallAccepted, CallFails, TrackNothing,
       TrackChecked, TrackLocks, TrackStores
  <2>4. ~Cancel(r)
    BY <1>3, <2>1 DEF Cancel, CancelChecks, CancelAborts, CancelFails, CancelUntracks
  <2>5. GetSnap(r) \/ Payload(r)
    BY <1>3, <2>2, <2>3, <2>4 DEF Serve
  <2>6. pc[r] \notin {"idle", "done"}
    BY <2>5 DEF GetSnap, GetLocalSnap, GetStoreSnap, Payload, PayloadOfUntracked,
       PayloadAsksSnapd, PayloadOfTracked, SendPayload
  <2>7. Served(r)
    BY <1>3, <2>6 DEF Served
  <2> QED  BY <2>5, <2>7, LookUpViews, PayloadViews
<1> QED  BY <1>1, <1>2, <1>3

\* The process dies: nobody is answered.
LEMMA RestartViews ==
    ASSUME IInv, NEW r \in Requests, ViewFits(r), Records(r), Restart
    PROVE  ViewFits(r)'
<1>1. pc'[r] = (IF pc[r] = "idle" THEN "idle" ELSE "done") /\ code'[r] = code[r]
  BY DEF Restart
<1>2. pc[r] # "done" => code[r] = 0
  BY DEF IInv, NothingLeftBehind
<1>3. ~Served(r)'
  BY <1>1 DEF Served
<1> QED  BY <1>1, <1>2, <1>3, NotServed

\* Every step keeps what fits a request.
LEMMA NextViews ==
    ASSUME IInv, AllComplete, \A q \in Requests : ViewFits(q), ViewNext,
           NEW r \in Requests
    PROVE  ViewFits(r)'
<1>1. Next /\ Records(r)
  BY DEF ViewNext, Records
<1>2. CASE Arrive(r) \/ Serve(r)
  BY <1>1, <1>2, OwnStepViews
<1>3. CASE Restart
  BY <1>1, <1>3, RestartViews
<1>4. ASSUME NEW q \in Requests \ {r}, Arrive(q) \/ Serve(q) PROVE ViewFits(r)'
  <2>1. OthersUnchanged(q)
    BY <1>4, StepCompletes DEF AllComplete, Completes
  <2> QED  BY <1>1, <2>1, NotOfR DEF OthersUnchanged
<1>5. CASE UNCHANGED requestVars
  BY <1>1, <1>5, NotOfR DEF requestVars
<1> QED  BY <1>1, <1>2, <1>3, <1>4, <1>5 DEF Next, TimerStep, SnapdStep

\* What GET answers of a snap was so at some moment between the request and the
\* answer, unless somebody stored or dropped the entry of the snap meanwhile or
\* snapd did not find a snap that is installed (packagePayload, State).
THEOREM TrueAnswers == ViewSpec => []TrueUnlessDisturbed
<1> DEFINE AllFit == \A r \in Requests : ViewFits(r)
<1>1. ViewInit => AllFit
  BY DEF ViewInit, Init, ViewFits, AnsweredFits, Served
<1>2. IInv /\ AllComplete /\ AllFit /\ [ViewNext]_viewVars => AllFit'
  <2> SUFFICES ASSUME IInv, AllComplete, AllFit, [ViewNext]_viewVars, NEW r \in Requests
               PROVE  ViewFits(r)'
    OBVIOUS
  <2>1. CASE ViewNext
    BY <2>1, NextViews
  <2>2. CASE UNCHANGED viewVars
    <3>1. /\ UNCHANGED <<pc, kind, name, todo, seen, reply>> /\ UNCHANGED <<states, local>>
          /\ UNCHANGED <<truths, answered, disturbed>>
      BY <2>2 DEF viewVars, vars, requestVars
    <3>2. \A n : StatusNow(n)' = StatusNow(n)
      BY <3>1 DEF StatusNow
    <3> QED  BY <3>1, <3>2 DEF ViewFits, ServedFits, AnsweredFits, Served
  <2> QED  BY <2>1, <2>2
<1>3. ViewSpec => Spec
  <2>1. ViewInit => Init
    BY DEF ViewInit
  <2>2. [ViewNext]_viewVars => [Next]_vars
    BY DEF ViewNext, viewVars
  <2> QED  BY <2>1, <2>2, PTL DEF ViewSpec, Spec
<1>4. AllFit => TrueUnlessDisturbed
  BY DEF ViewFits, AnsweredFits, TrueUnlessDisturbed
<1> QED
  <2> HIDE DEF AllFit
  <2> QED  BY <1>1, <1>2, <1>3, <1>4, CompleteInvariance, PTL DEF ViewSpec

=============================================================================
