---------------------------- MODULE Home_proofs -----------------------------
(***************************************************************************)
(* Proofs about Home, for any sets of snaps, requests and polls: a snap    *)
(* that was installed all the time is on the page.                         *)
(***************************************************************************)
EXTENDS Home, SnapOps_proofs

USE HomeAssumption

\* Snaps that were installed all the time.
Stayed == Installed \ moved

\* A request of the page asks for what it is routed to, and the payload it is
\* making has what it is about.
ListFits ==
    /\ pc[InstalledFetch] # "idle" => kind[InstalledFetch] = "list"
    /\ pc[InstalledFetch] \in {"state", "change"} =>
          Stayed \subseteq SnapsSeen(seen[InstalledFetch])

PollFits(p) ==
    /\ pc[p] # "idle" => kind[p] = "get"
    /\ pc[p] \in {"state", "change"} => name[p] \in SnapsSeen(seen[p])

\* No answer, also of a poll, takes a snap out of a list.
FetchedFits ==
    fetched[InstalledFetch] # None =>
        /\ pc[InstalledFetch] = "done"
        /\ \A n \in Stayed : fetched[InstalledFetch][n] # "none"

HomeInv == ListFits /\ (\A p \in Polls : PollFits(p)) /\ FetchedFits

-----------------------------------------------------------------------------
(* The steps of a request of the page                                      *)

LEMMA ServeKeeps ==
    ASSUME NEW r \in Requests, Serve(r)
    PROVE  UNCHANGED <<kind, name>> /\ pc[r] \notin {"idle", "done"}
<1>1. pc[r] \notin {"idle", "done"}
  BY DEF Serve, Listing, GetSnap, Operate, Cancel, Payload, ListInstalled, FindInStore,
         QueryFails, CountTracked, CollectTracked, CollectPanics, LookUpBlank, GetLocalSnap,
         GetStoreSnap, UpdateOther, Refuse, CallAccepted, CallFails, TrackNothing, TrackChecked,
         TrackLocks, TrackStores, CancelChecks, CancelAborts, CancelFails, CancelUntracks,
         PayloadAsksSnapd, PayloadOfUntracked, PayloadOfTracked, SendPayload
<1>2. UNCHANGED <<kind, name>>
  BY Zenon
     DEF Serve, Listing, GetSnap, Operate, Cancel, Payload, ListInstalled, FindInStore,
         QueryFails, CountTracked, CollectTracked, CollectPanics, LookUpBlank, GetLocalSnap,
         GetStoreSnap, GotSnap, NotFound, UpdateOther, Refuse, CallAccepted, CallFails,
         AfterFailedCall, TrackNothing, TrackChecked, TrackLocks, TrackStores, CancelChecks,
         CancelAborts, CancelFails, CancelUntracks, PayloadAsksSnapd, PayloadOfUntracked,
         PayloadOfTracked, Put, SendPayload, snapOperationResponse, Done
<1> QED
  BY <1>1, <1>2

\* How a listing of installed snaps, or the lookup of one snap, comes to the
\* payload.
LEMMA ComesToPayload ==
    ASSUME IInv, NEW r \in Requests, SeenFits(r), Serve(r),
           kind[r] \in {"list", "get"}, pc'[r] \in {"state", "change"}
    PROVE  \/ pc[r] \in {"state", "change"} /\ seen'[r] = seen[r]
           \/ kind[r] = "list" /\ ListInstalled(r)
           \/ kind[r] = "get" /\ name[r] \in SnapsSeen(seen'[r])
<1>1. pc \in [Requests -> PC] /\ r \in DOMAIN pc
  BY DEF IInv, TypeOK
<1>2. ASSUME NEW c, Done(r, c) PROVE FALSE
  BY <1>1, <1>2 DEF Done, Goto
<1>3. CASE Listing(r)
  <2>1. pc[r] \notin {"count", "names"} /\ ~(pc[r] = "snap" /\ blanks[r] > 0)
    <3>1. pc[r] \notin {"count", "names"} /\ blanks[r] = 0
      BY DEF IInv, RequestFits, KindFits
    <3> QED
      BY <3>1
  <2>2. ListInstalled(r) \/ FindInStore(r)
    BY <1>2, <1>3, <2>1
       DEF Listing, QueryFails, CountTracked, CollectTracked, CollectPanics, LookUpBlank
  <2> QED
    BY <2>2 DEF FindInStore, ListInstalled
<1>4. CASE GetSnap(r)
  <2>1. kind[r] = "get" /\ pc[r] \in {"snap", "findone"} /\ todo[r] = {name[r]}
    <3>1. pc[r] \in {"snap", "findone"}
      BY <1>4 DEF GetSnap, GetLocalSnap, GetStoreSnap
    <3>2. kind[r] = "get"
      BY <3>1 DEF IInv, RequestFits, KindFits
    <3> QED
      BY <3>1, <3>2 DEF SeenFits, Operators
  <2>2. First(todo[r]) = name[r] /\ name[r] \in Snaps
    <3>1. name[r] \in Snaps /\ {name[r]} \in SUBSET Snaps
      BY DEF IInv, TypeOK
    <3>2. First({name[r]}) \in {name[r]}
      BY <3>1, FirstIsIn
    <3> QED
      BY <2>1, <3>1, <3>2
  <2>3. \E s : GotSnap(r, name[r], s) /\ (s \in StoreStatus \/ isInstalled(s))
    <3>1. ~NotFound(r)
      BY <1>2, <2>1 DEF NotFound
    <3>2. ~Goto(r, "findone")
      BY <1>1 DEF Goto
    <3> QED
      BY <1>4, <2>2, <3>1, <3>2 DEF GetSnap, GetLocalSnap, GetStoreSnap
  <2>4. PICK s : GotSnap(r, name[r], s) /\ s # "none"
    BY <2>3, StoreStatusAssumption DEF isInstalled, LocalStatus
  <2>5. seen'[r][name[r]] = s
    BY <2>2, <2>4 DEF GotSnap, IInv, TypeOK
  <2> QED
    BY <2>1, <2>2, <2>4, <2>5 DEF SnapsSeen
<1>5. CASE Operate(r) \/ Cancel(r)
  <2>1. kind[r] \notin Operators /\ kind[r] # "cancel"
    BY DEF Operators
  <2>2. \E l \in {"check", "track", "store", "abort", "untrack", "done"} : Goto(r, l)
    BY <1>5, Zenon
       DEF Operate, Cancel, UpdateOther, Refuse, CallAccepted, CallFails, AfterFailedCall,
           TrackNothing, TrackChecked, TrackLocks, TrackStores, CancelChecks, CancelAborts,
           CancelFails, CancelUntracks, snapOperationResponse, Done
  <2> QED
    BY <1>1, <2>2 DEF Goto
<1>6. CASE Payload(r)
  <2>1. pc[r] \in {"state", "change"}
    BY <1>6 DEF Payload, PayloadOfUntracked, PayloadAsksSnapd, PayloadOfTracked, SendPayload
  <2>2. seen' = seen
    BY <1>2, <1>6 DEF Payload, PayloadOfUntracked, PayloadAsksSnapd, PayloadOfTracked,
                      SendPayload, Put
  <2> QED
    BY <2>1, <2>2
<1> QED
  BY <1>3, <1>4, <1>5, <1>6 DEF Serve

-----------------------------------------------------------------------------
(* The invariant                                                           *)

\* What a step of the page or of anybody else is.
LEMMA StepCases ==
    ASSUME [HomeNext]_homeVars
    PROVE  \/ \E r \in Requests : Arrive(r) /\ Routed
           \/ \E r \in Requests : Serve(r)
           \/ UNCHANGED requestVars
           \/ Restart
  BY DEF HomeNext, homeVars, Next, TimerStep, SnapdStep, vars

\* Once the page has asked, a snap that stays installed is one that was.
LEMMA StayedShrinks ==
    ASSUME [HomeNext]_homeVars
    PROVE  \/ Stayed' \subseteq Stayed
           \/ pc'[InstalledFetch] = "idle"
<1>1. CASE UNCHANGED homeVars
  BY <1>1 DEF homeVars, vars, snapdVars, Stayed, Installed
<1>2. CASE Remember
  <2>1. CASE NotAsked'
    BY <2>1 DEF NotAsked, Fetches
  <2>2. CASE ~NotAsked'
    BY <1>2, <2>2 DEF Remember, Stayed, Installed
  <2> QED
    BY <2>1, <2>2
<1> QED
  BY <1>1, <1>2 DEF HomeNext

\* What a step does to one request of the page.
LEMMA RequestSteps ==
    ASSUME IInv, AllComplete, [HomeNext]_homeVars, NEW r \in Requests
    PROVE  \/ Arrive(r) /\ Routed
           \/ Serve(r)
           \/ UNCHANGED <<pc[r], kind[r], name[r], todo[r], seen[r], reply[r]>>
           \/ /\ pc'[r] = (IF pc[r] = "idle" THEN "idle" ELSE "done")
              /\ kind'[r] = kind[r] /\ seen'[r] = Nothing /\ reply'[r] = Nothing
<1>1. CASE \E q \in Requests : (Arrive(q) /\ Routed) \/ Serve(q)
  <2>1. PICK q \in Requests : (Arrive(q) /\ Routed) \/ Serve(q)
    BY <1>1
  <2>2. OthersUnchanged(q)
    BY <2>1, StepCompletes DEF AllComplete, Completes
  <2>3. CASE q = r
    BY <2>1, <2>3
  <2>4. CASE q # r
    BY <2>2, <2>4 DEF OthersUnchanged
  <2> QED
    BY <2>3, <2>4
<1>2. CASE UNCHANGED requestVars
  BY <1>2 DEF requestVars
<1>3. CASE Restart
  BY <1>3 DEF Restart
<1> QED
  BY <1>1, <1>2, <1>3, StepCases

LEMMA ListKept ==
    ASSUME IInv, AllComplete, ListFits, [HomeNext]_homeVars
    PROVE  ListFits'
<1> DEFINE r == InstalledFetch
<1>1. r \in Requests /\ r # TrackedFetch /\ r \notin Polls
  BY DEF Fetches
<1>2. Stayed' \subseteq Stayed \/ pc'[r] = "idle"
  BY StayedShrinks
<1>3. CASE Arrive(r) /\ Routed
  <2>1. pc[r] = "idle" /\ pc'[r] \notin {"state", "change"}
    BY <1>1, <1>3 DEF Arrive, Goto, FirstStep, IInv, TypeOK
  <2>2. pc'[r] # "idle" => kind'[r] = "list"
    BY <1>1, <1>3, <2>1 DEF Routed, Begins, Fetches
  <2> QED
    BY <2>1, <2>2 DEF ListFits
<1>4. CASE Serve(r)
  <2>1. kind'[r] = kind[r] /\ kind[r] = "list"
    BY <1>1, <1>4, ServeKeeps DEF ListFits
  <2>2. ASSUME pc'[r] \in {"state", "change"} PROVE Stayed' \subseteq SnapsSeen(seen'[r])
    <3>1. CASE pc[r] \in {"state", "change"} /\ seen'[r] = seen[r]
      BY <1>2, <2>2, <3>1 DEF ListFits
    <3>2. CASE ListInstalled(r)
      <4>1. seen'[r] = [n \in Snaps |-> IF isInstalled(local[n]) THEN local[n] ELSE "none"]
            /\ local' = local
        BY <1>1, <3>2 DEF ListInstalled, IInv, TypeOK, snapdVars
      <4>2. Installed \subseteq SnapsSeen(seen'[r])
        BY <4>1 DEF Installed, SnapsSeen, isInstalled, LocalStatus
      <4> QED
        BY <4>1, <4>2 DEF Stayed, Installed
    <3> QED
      BY <1>1, <1>4, <2>1, <2>2, <3>1, <3>2, ComesToPayload DEF AllComplete
  <2> QED
    BY <2>1, <2>2 DEF ListFits
<1>5. CASE UNCHANGED <<pc[r], kind[r], name[r], todo[r], seen[r], reply[r]>>
  BY <1>2, <1>5 DEF ListFits
<1>6. CASE pc'[r] = (IF pc[r] = "idle" THEN "idle" ELSE "done") /\ kind'[r] = kind[r]
  BY <1>6 DEF ListFits
<1> HIDE DEF r
<1> QED
  BY <1>1, <1>3, <1>4, <1>5, <1>6, RequestSteps

LEMMA PollKept ==
    ASSUME IInv, AllComplete, NEW p \in Polls, PollFits(p), [HomeNext]_homeVars
    PROVE  PollFits(p)'
<1>1. p \in Requests /\ p \notin Fetches
  OBVIOUS
<1>2. CASE Arrive(p) /\ Routed
  <2>1. pc[p] = "idle" /\ pc'[p] \notin {"state", "change"}
    BY <1>1, <1>2 DEF Arrive, Goto, FirstStep, IInv, TypeOK
  <2>2. pc'[p] # "idle" => kind'[p] = "get"
    BY <1>1, <1>2, <2>1 DEF Routed, Begins, Fetches
  <2> QED
    BY <2>1, <2>2 DEF PollFits
<1>3. CASE Serve(p)
  <2>1. kind'[p] = kind[p] /\ name'[p] = name[p] /\ kind[p] = "get"
    BY <1>1, <1>3, ServeKeeps DEF PollFits
  <2>2. pc'[p] \in {"state", "change"} => name[p] \in SnapsSeen(seen'[p])
    BY <1>1, <1>3, <2>1, ComesToPayload DEF PollFits, AllComplete
  <2> QED
    BY <2>1, <2>2 DEF PollFits
<1>4. CASE UNCHANGED <<pc[p], kind[p], name[p], todo[p], seen[p], reply[p]>>
  BY <1>4 DEF PollFits
<1>5. CASE pc'[p] = (IF pc[p] = "idle" THEN "idle" ELSE "done") /\ kind'[p] = kind[p]
  BY <1>5 DEF PollFits
<1> QED
  BY <1>1, <1>2, <1>3, <1>4, <1>5, RequestSteps

\* A request that sends its payload has put all in it that it has seen.
LEMMA SentComplete ==
    ASSUME NEW r \in Requests, PayloadFits(r), SendPayload(r)
    PROVE  SnapsSeen(reply[r]) = SnapsSeen(seen[r]) /\ pc[r] = "state"
  BY DEF SendPayload, PayloadFits

LEMMA FetchedKept ==
    ASSUME IInv, AllComplete, HomeInv, [HomeNext]_homeVars
    PROVE  FetchedFits'
<1> DEFINE r == InstalledFetch
<1>1. r \in Requests /\ r \in Fetches
  BY DEF Fetches
<1> SUFFICES ASSUME fetched'[r] # None
             PROVE  pc'[r] = "done" /\ \A n \in Stayed' : fetched'[r][n] # "none"
  BY DEF FetchedFits
<1>2. pc[r] = "done" => pc'[r] = "done"
  <2>1. pc[r] = "done" => ~Arrive(r) /\ ~Serve(r)
    BY <1>1, ServeKeeps DEF Arrive
  <2> HIDE DEF r
  <2> QED
    BY <1>1, <2>1, RequestSteps
<1>3. CASE fetched'[r] = fetched[r]
  <2>1. pc[r] = "done" /\ \A n \in Stayed : fetched[r][n] # "none"
    BY <1>3 DEF HomeInv, FetchedFits
  <2> QED
    BY <1>2, <1>3, <2>1, StayedShrinks
<1>4. CASE fetched'[r] = Fetched(r) /\ ~(fetched'[r] = fetched[r])
  <2>1. CASE SendPayload(r)
    <3>1. pc'[r] = "done"
      BY <1>1, <2>1 DEF SendPayload, Done, Goto, IInv, TypeOK
    <3>2. Stayed \subseteq SnapsSeen(reply[r])
      BY <1>1, <2>1, SentComplete DEF AllComplete, HomeInv, ListFits
    <3>3. fetched'[r] = reply[r]
      BY <1>4, <2>1 DEF Fetched
    <3> QED
      BY <3>1, <3>2, <3>3, StayedShrinks DEF SnapsSeen
  <2>2. CASE ~SendPayload(r)
    <3> DEFINE Asks(n) == \E p \in Polls : Answers(p, r, n)
               Asker(n) == CHOOSE p \in Polls : Answers(p, r, n)
    <3>1. /\ fetched[r] # None
          /\ fetched'[r] = [n \in Snaps |->
                              IF fetched[r][n] \in Operation /\ Asks(n) THEN reply[Asker(n)][n]
                              ELSE fetched[r][n]]
      BY <1>4, <2>2, Zenon DEF Fetched
    <3>2. pc[r] = "done" /\ \A n \in Stayed : fetched[r][n] # "none"
      BY <3>1 DEF HomeInv, FetchedFits
    <3>3. ASSUME NEW n \in Stayed PROVE fetched'[r][n] # "none"
      <4>1. n \in Snaps
        BY DEF Stayed, Installed
      <4>2. CASE Asks(n)
        <5>1. PICK p \in Polls : p = Asker(n) /\ name[p] = n /\ SendPayload(p)
          BY <4>2, Zenon DEF Answers
        <5>2. p \in Requests /\ PayloadFits(p) /\ PollFits(p)
          BY DEF AllComplete, HomeInv
        <5>3. n \in SnapsSeen(reply[p])
          BY <5>1, <5>2, SentComplete DEF PollFits
        <5>4. fetched'[r][n] \in {reply[p][n], fetched[r][n]}
          BY <3>1, <4>1, <5>1
        <5> QED
          BY <3>2, <5>3, <5>4 DEF SnapsSeen
      <4>3. CASE ~Asks(n)
        BY <3>1, <3>2, <4>1, <4>3
      <4> QED
        BY <4>2, <4>3
    <3> QED
      BY <1>2, <3>2, <3>3, StayedShrinks
  <2> QED
    BY <2>1, <2>2
<1>5. fetched'[r] = fetched[r] \/ fetched'[r] = Fetched(r)
  BY <1>1 DEF HomeNext, homeVars
<1> QED
  BY <1>3, <1>4, <1>5

LEMMA HomeStarts == HomeInit => HomeInv
  BY DEF HomeInit, Init, HomeInv, ListFits, PollFits, FetchedFits, Fetches

LEMMA HomeKept == IInv /\ AllComplete /\ HomeInv /\ [HomeNext]_homeVars => HomeInv'
  BY ListKept, PollKept, FetchedKept DEF HomeInv

LEMMA HomeInvariance == HomeSpec => [](IInv /\ AllComplete /\ HomeInv)
<1>1. HomeInit => Init
  BY DEF HomeInit
<1>2. [HomeNext]_homeVars => [Next]_vars
  BY DEF HomeNext, homeVars
<1> QED
  BY <1>1, <1>2, HomeStarts, HomeKept, CompleteInvariance, PTL DEF HomeSpec, Spec

-----------------------------------------------------------------------------
(* Snaps that are being installed                                          *)

\* Snaps that were shown as installing all the time.
Waiting == present \ (moved \cup Installed)

\* No request takes such a snap for an installed one, nor its entry for over.
Says(q, n) == seen[q][n] \notin LocalStatus /\ reply[q][n] \in {"none", "installing"}

\* A listing of tracked snaps has it among its names, or among what it found.
Found(r, n) ==
    /\ pc[r] \in {"snap", "findone"} => n \in todo[r] \cup SnapsSeen(seen[r])
    /\ pc[r] \in {"state", "change"} => n \in SnapsSeen(seen[r])

\* So has the page's, and its list shows it as installing.
Collected(n) ==
    /\ Found(TrackedFetch, n)
    /\ fetched[TrackedFetch] # None => fetched[TrackedFetch][n] = "installing"

\* A list is there once its request is answered, and only then polled.
OrderFits ==
    /\ \A f \in Fetches : fetched[f] # None => pc[f] = "done"
    /\ \A p \in Polls : pc[p] # "idle" => ~NotAsked
    /\ pc[TrackedFetch] # "idle" => kind[TrackedFetch] = "tracked"

Askers == Polls \cup {TrackedFetch}

WaitInv ==
    /\ present \subseteq Installed \cup Tracked
    /\ OrderFits
    /\ \A q \in Askers : \A n \in Waiting : Says(q, n)
    /\ ~brokeOff => \A n \in Waiting : Collected(n)

\* What a request says of a snap with an entry that is not over.
LEMMA SaysKept ==
    ASSUME IInv, NEW q \in Requests, Serve(q),
           NEW n \in Snaps, Says(q, n), ~isInstalled(local[n]),
           states[n] # None, states[n].status = "installing"
    PROVE  Says(q, n)'
<1>1. /\ seen \in [Requests -> [Snaps -> SnapdStatus \cup {"none"}]]
      /\ reply \in [Requests -> [Snaps -> PayloadStatus \cup {"none"}]]
      /\ todo[q] \in SUBSET Snaps
  BY DEF IInv, TypeOK
<1>2. ASSUME NEW c, Done(q, c) PROVE Says(q, n)'
  BY <1>1, <1>2 DEF Done, Says, Nothing, LocalStatus
<1>3. ASSUME UNCHANGED <<seen, reply>> PROVE Says(q, n)'
  BY <1>3 DEF Says
<1>4. ASSUME NEW m \in Snaps, NEW s, GotSnap(q, m, s), s \in StoreStatus \/ m # n
      PROVE  Says(q, n)'
  <2>1. seen' = [seen EXCEPT ![q][m] = s] /\ reply' = reply
    BY <1>4 DEF GotSnap
  <2>2. m = n => s \notin LocalStatus
    BY <1>4, StoreStatusAssumption DEF LocalStatus
  <2> QED
    BY <1>1, <2>1, <2>2 DEF Says
<1>5. CASE Listing(q)
  <2>1. CASE ListInstalled(q)
    <3>1. seen'[q][n] = "none" /\ reply' = reply
      BY <1>1, <2>1 DEF ListInstalled
    <3> QED
      BY <3>1 DEF Says, LocalStatus
  <2>2. CASE FindInStore(q)
    <3>1. PICK found \in SUBSET Snaps, s \in [Snaps -> StoreStatus] :
             seen' = [seen EXCEPT ![q] = [m \in Snaps |-> IF m \in found THEN s[m] ELSE "none"]]
      BY <2>2 DEF FindInStore
    <3>2. seen'[q][n] \in StoreStatus \cup {"none"} /\ reply' = reply
      BY <1>1, <2>2, <3>1 DEF FindInStore
    <3> QED
      BY <3>2, StoreStatusAssumption DEF Says, LocalStatus
  <2> QED
    BY <1>2, <1>3, <1>5, <2>1, <2>2
       DEF Listing, QueryFails, CountTracked, CollectTracked, CollectPanics, LookUpBlank
<1>6. CASE GetSnap(q)
  <2> DEFINE m == First(todo[q])
  <2>1. m \in Snaps
    <3>1. todo[q] # {}
      BY <1>6 DEF GetSnap, GetLocalSnap, GetStoreSnap, IInv, RequestFits, TodoFits
    <3> QED
      BY <1>1, <3>1, FirstIsIn
  <2> HIDE DEF m
  <2>2. CASE GetLocalSnap(q)
    <3>1. \/ isInstalled(local[m]) /\ GotSnap(q, m, local[m])
          \/ UNCHANGED <<seen, reply>>
      BY <2>2, Zenon DEF GetLocalSnap, m
    <3> QED
      BY <1>3, <1>4, <2>1, <3>1
  <2>3. CASE GetStoreSnap(q)
    <3>1. (\E s \in StoreStatus : GotSnap(q, m, s)) \/ NotFound(q)
      BY <2>3, Zenon DEF GetStoreSnap, m
    <3> QED
      BY <1>2, <1>3, <1>4, <2>1, <3>1 DEF NotFound
  <2> QED
    BY <1>6, <2>2, <2>3 DEF GetSnap
<1>7. CASE Operate(q) \/ Cancel(q)
  <2>1. ASSUME Operate(q) PROVE UNCHANGED <<seen, reply>> \/ \E c : Done(q, c)
    <3>1. ASSUME NEW err, snapOperationResponse(q, err) PROVE \E c : Done(q, c)
      BY <3>1 DEF snapOperationResponse
    <3>2. AfterFailedCall(q) => UNCHANGED <<seen, reply>> \/ \E c : Done(q, c)
      BY <3>1 DEF AfterFailedCall
    <3> QED
      BY <2>1, <3>1, <3>2
         DEF Operate, UpdateOther, Refuse, CallAccepted, CallFails, TrackNothing,
             TrackChecked, TrackLocks, TrackStores
  <2>2. ASSUME Cancel(q) PROVE UNCHANGED <<seen, reply>> \/ \E c : Done(q, c)
    BY <2>2, Zenon
       DEF Cancel, CancelChecks, CancelAborts, CancelFails, CancelUntracks,
           snapOperationResponse
  <2> QED
    BY <1>2, <1>3, <1>7, <2>1, <2>2
<1>8. CASE Payload(q)
  <2>1. ASSUME NEW m \in Snaps, NEW s, Put(q, m, s), m = n => s = "installing"
        PROVE  Says(q, n)'
    BY <1>1, <2>1 DEF Put, Says
  <2> DEFINE m == First(todo[q])
  <2>2. pc[q] = "change" \/ todo[q] # {} => m \in Snaps
    BY <1>1, FirstIsIn DEF IInv, RequestFits, TodoFits
  <2> HIDE DEF m
  <2>3. CASE PayloadOfUntracked(q)
    <3>1. /\ m \in Snaps
          /\ StateOfUntracked(m) \/ StateOfCompleted(m, seen[q][m])
          /\ Put(q, m, translateStatus(seen[q][m]))
      BY <2>2, <2>3 DEF PayloadOfUntracked, m
    <3>2. m # n
      BY <3>1 DEF StateOfUntracked, StateOfCompleted, hasOperationCompleted, isInstalled, Says
    <3> QED
      BY <2>1, <3>1, <3>2
  <2>4. CASE PayloadOfTracked(q)
    <3>1. pc[q] = "change" /\ Put(q, m, held.entry.status)
      BY <2>4 DEF PayloadOfTracked, m
    <3>2. states[m] = held.entry
      BY <3>1 DEF IInv, HeldFits, m
    <3> QED
      BY <2>1, <2>2, <3>1, <3>2
  <2> QED
    BY <1>2, <1>3, <1>8, <2>3, <2>4 DEF Payload, PayloadAsksSnapd, SendPayload
<1> QED
  BY <1>5, <1>6, <1>7, <1>8 DEF Serve

\* A listing of tracked snaps does not lose the name of an entry, unless it
\* breaks off.
LEMMA FoundKept ==
    ASSUME IInv, NEW r \in Requests, kind[r] = "tracked", Serve(r),
           NEW n \in Snaps, Found(r, n), states[n] # None
    PROVE  \/ Found(r, n)'
           \/ pc[r] \in {"snap", "findone"} /\ pc'[r] = "state" /\ seen'[r] = seen[r]
<1>1. /\ pc \in [Requests -> PC] /\ blanks \in [Requests -> Nat]
      /\ seen \in [Requests -> [Snaps -> SnapdStatus \cup {"none"}]]
      /\ todo \in [Requests -> SUBSET Snaps]
  BY DEF IInv, TypeOK
<1>2. ASSUME NEW c, Done(r, c) PROVE Found(r, n)'
  BY <1>1, <1>2 DEF Done, Goto, Found
<1>3. CASE Listing(r)
  <2>1. ~ListInstalled(r) /\ ~FindInStore(r)
    BY DEF ListInstalled, FindInStore
  <2>2. CASE CountTracked(r)
    BY <1>1, <2>2 DEF CountTracked, Goto, Found
  <2>3. CASE CollectTracked(r)
    <3>1. PICK names \in TrackedNames :
             /\ todo' = [todo EXCEPT ![r] = names]
             /\ Goto(r, IF blanks'[r] = 0 /\ names = {} THEN "state" ELSE "snap")
      BY <2>3 DEF CollectTracked
    <3>2. n \in names
      BY DEF TrackedNames
    <3> QED
      BY <1>1, <3>1, <3>2 DEF Goto, Found
  <2>4. CASE LookUpBlank(r)
    <3>1. pc[r] = "snap" /\ seen' = seen
      BY <2>4 DEF LookUpBlank
    <3>2. \/ Goto(r, "state")
          \/ /\ Goto(r, IF blanks[r] = 1 /\ todo[r] = {} THEN "state" ELSE "snap")
             /\ UNCHANGED todo
      BY <2>4, Zenon DEF LookUpBlank
    <3>3. pc'[r] = "state" \/ (pc'[r] = "snap" /\ todo' = todo)
      BY <1>1, <3>2 DEF Goto
    <3> QED
      BY <3>1, <3>3 DEF Found
  <2> QED
    BY <1>2, <1>3, <2>1, <2>2, <2>3, <2>4 DEF Listing, QueryFails, CollectPanics
<1>4. CASE GetSnap(r)
  <2> DEFINE m == First(todo[r])
  <2>1. m \in Snaps /\ pc[r] \in {"snap", "findone"}
    <3>1. todo[r] # {} /\ pc[r] \in {"snap", "findone"}
      BY <1>4 DEF GetSnap, GetLocalSnap, GetStoreSnap, IInv, RequestFits, TodoFits
    <3> QED
      BY <1>1, <3>1, FirstIsIn
  <2> HIDE DEF m
  <2>2. ASSUME NEW s, s # "none", GotSnap(r, m, s) PROVE Found(r, n)'
    <3>1. seen'[r] = [seen[r] EXCEPT ![m] = s]
      BY <1>1, <2>2 DEF GotSnap
    <3>2. n = m \/ n \in SnapsSeen(seen[r]) => n \in SnapsSeen(seen'[r])
      BY <1>1, <2>1, <2>2, <3>1 DEF SnapsSeen
    <3>3. CASE todo[r] = {m}
      <4>1. pc'[r] = "state"
        BY <1>1, <2>2, <3>3 DEF GotSnap, Goto
      <4> QED
        BY <2>1, <3>2, <3>3, <4>1 DEF Found
    <3>4. CASE todo[r] # {m}
      <4>1. pc'[r] = "snap" /\ todo'[r] = todo[r] \ {m}
        BY <1>1, <2>2, <3>4 DEF GotSnap, Goto
      <4> QED
        BY <2>1, <3>2, <4>1 DEF Found
    <3> QED
      BY <3>3, <3>4
  <2>3. CASE GetLocalSnap(r)
    <3>1. \/ isInstalled(local[m]) /\ GotSnap(r, m, local[m])
          \/ Goto(r, "findone") /\ UNCHANGED <<todo, seen>>
      BY <2>3, Zenon DEF GetLocalSnap, m
    <3>2. isInstalled(local[m]) => local[m] # "none"
      BY DEF isInstalled, LocalStatus
    <3>3. CASE Goto(r, "findone") /\ UNCHANGED <<todo, seen>>
      BY <1>1, <2>1, <3>3 DEF Goto, Found
    <3> QED
      BY <2>2, <3>1, <3>2, <3>3
  <2>4. CASE GetStoreSnap(r)
    <3>1. (\E s \in StoreStatus : GotSnap(r, m, s)) \/ NotFound(r)
      BY <2>4, Zenon DEF GetStoreSnap, m
    <3>2. CASE NotFound(r)
      BY <1>1, <2>1, <3>2 DEF NotFound, Goto
    <3> QED
      BY <2>2, <3>1, <3>2, StoreStatusAssumption
  <2> QED
    BY <1>4, <2>3, <2>4 DEF GetSnap
<1>5. CASE Operate(r) \/ Cancel(r)
  <2>1. kind[r] \notin Operators /\ kind[r] # "cancel"
    BY DEF Operators
  <2>2. \E l \in {"check", "track", "store", "abort", "untrack", "done"} : Goto(r, l)
    BY <1>5, Zenon
       DEF Operate, Cancel, UpdateOther, Refuse, CallAccepted, CallFails, AfterFailedCall,
           TrackNothing, TrackChecked, TrackLocks, TrackStores, CancelChecks, CancelAborts,
           CancelFails, CancelUntracks, snapOperationResponse, Done
  <2> QED
    BY <1>1, <2>2 DEF Goto, Found
<1>6. CASE Payload(r)
  <2>1. pc[r] \in {"state", "change"}
    BY <1>6 DEF Payload, PayloadOfUntracked, PayloadAsksSnapd, PayloadOfTracked, SendPayload
  <2>2. \/ seen' = seen /\ (Goto(r, "state") \/ Goto(r, "change"))
        \/ \E c : Done(r, c)
    BY <1>6, Zenon DEF Payload, PayloadOfUntracked, PayloadAsksSnapd, PayloadOfTracked,
                       SendPayload, Put
  <2>3. CASE seen' = seen /\ (Goto(r, "state") \/ Goto(r, "change"))
    BY <1>1, <2>1, <2>3 DEF Goto, Found
  <2> QED
    BY <1>2, <2>2, <2>3
<1> QED
  BY <1>3, <1>4, <1>5, <1>6 DEF Serve

\* A request that is served has begun for good.
LEMMA ServeGoesOn ==
    ASSUME IInv, NEW r \in Requests, Serve(r)
    PROVE  pc'[r] # "idle"
<1>1. pc \in [Requests -> PC]
  BY DEF IInv, TypeOK
<1>2. ASSUME NEW l, Goto(r, l), l # "idle" PROVE pc'[r] # "idle"
  BY <1>1, <1>2 DEF Goto
<1>3. ASSUME NEW c, Done(r, c) PROVE pc'[r] # "idle"
  BY <1>2, <1>3 DEF Done
<1>4. CASE Listing(r)
  BY <1>2, <1>3, <1>4
     DEF Listing, ListInstalled, FindInStore, QueryFails, CountTracked, CollectTracked,
         CollectPanics, LookUpBlank
<1>5. CASE GetSnap(r)
  <2>1. ASSUME NEW m, NEW s, GotSnap(r, m, s) PROVE pc'[r] # "idle"
    BY <1>2, <2>1 DEF GotSnap, AfterGetSnap
  <2>2. NotFound(r) => pc'[r] # "idle"
    BY <1>2, <1>3 DEF NotFound
  <2> QED
    BY <1>2, <1>5, <2>1, <2>2 DEF GetSnap, GetLocalSnap, GetStoreSnap
<1>6. CASE Operate(r) \/ Cancel(r)
  <2>1. \E l \in {"check", "track", "store", "abort", "untrack", "done"} : Goto(r, l)
    BY <1>6, Zenon
       DEF Operate, Cancel, UpdateOther, Refuse, CallAccepted, CallFails, AfterFailedCall,
           TrackNothing, TrackChecked, TrackLocks, TrackStores, CancelChecks, CancelAborts,
           CancelFails, CancelUntracks, snapOperationResponse, Done
  <2> QED
    BY <1>2, <2>1
<1>7. CASE Payload(r)
  BY <1>2, <1>3, <1>7
     DEF Payload, PayloadOfUntracked, PayloadAsksSnapd, PayloadOfTracked, SendPayload, Put
<1> QED
  BY <1>4, <1>5, <1>6, <1>7 DEF Serve

LEMMA GoesOnFor ==
    ASSUME IInv, AllComplete, [HomeNext]_homeVars, NEW r \in Requests, pc[r] # "idle"
    PROVE  pc'[r] # "idle" /\ kind'[r] = kind[r] /\ (pc[r] = "done" => pc'[r] = "done")
<1>1. ~Arrive(r)
  BY DEF Arrive
<1>2. CASE Serve(r)
  BY <1>2, ServeGoesOn, ServeKeeps
<1> QED
  BY <1>1, <1>2, RequestSteps

LEMMA OrderKept ==
    ASSUME IInv, AllComplete, OrderFits, [HomeNext]_homeVars
    PROVE  OrderFits'
<1>1. Fetches \subseteq Requests /\ Polls \subseteq Requests /\ TrackedFetch \in Fetches
      /\ Fetches \cap Polls = {}
  BY DEF Fetches
<1>2. ASSUME NEW f \in Fetches, fetched'[f] # None PROVE pc'[f] = "done"
  <2>1. CASE fetched[f] # None
    BY <1>1, <2>1, GoesOnFor DEF OrderFits
  <2>2. CASE fetched[f] = None
    <3>1. fetched' # fetched /\ fetched'[f] = Fetched(f)
      BY <1>2, <2>2 DEF HomeNext, homeVars
    <3>2. SendPayload(f)
      BY <1>2, <2>2, <3>1 DEF Fetched
    <3> QED
      BY <1>1, <3>2 DEF SendPayload, Done, Goto, IInv, TypeOK
  <2> QED
    BY <2>1, <2>2
<1>3. ~NotAsked => ~NotAsked'
  BY <1>1, GoesOnFor DEF NotAsked
<1>4. ASSUME NEW p \in Polls, pc'[p] # "idle" PROVE ~NotAsked'
  <2>1. CASE pc[p] # "idle"
    BY <1>3, <2>1 DEF OrderFits
  <2>2. CASE pc[p] = "idle"
    <3>1. Routed
      BY <1>4, <2>2 DEF HomeNext, homeVars, vars, requestVars
    <3>2. \E f \in Fetches : fetched[f] # None
      <4>1. p # TrackedFetch /\ p # InstalledFetch
        BY <1>1 DEF Fetches
      <4> QED
        BY <1>4, <2>2, <3>1, <4>1 DEF Routed, Begins
    <3>3. ~NotAsked
      BY <3>2 DEF OrderFits, NotAsked
    <3> QED
      BY <1>3, <3>3
  <2> QED
    BY <2>1, <2>2
<1>5. ASSUME pc'[TrackedFetch] # "idle" PROVE kind'[TrackedFetch] = "tracked"
  <2>1. CASE pc[TrackedFetch] # "idle"
    BY <1>1, <2>1, GoesOnFor DEF OrderFits
  <2>2. CASE pc[TrackedFetch] = "idle"
    <3>1. Routed
      BY <1>5, <2>2 DEF HomeNext, homeVars, vars, requestVars
    <3> QED
      BY <1>1, <1>5, <2>2, <3>1 DEF Routed, Begins, Fetches
  <2> QED
    BY <2>1, <2>2
<1> QED
  BY <1>2, <1>4, <1>5 DEF OrderFits

\* Once the page has asked, a snap that is shown as installing all the time is
\* one that was.
LEMMA WaitingShrinks ==
    ASSUME [HomeNext]_homeVars, present \subseteq Installed \cup Tracked
    PROVE  /\ present' \subseteq (Installed \cup Tracked)'
           /\ ~NotAsked' => Waiting' \subseteq Waiting
<1>1. CASE UNCHANGED homeVars
  BY <1>1 DEF homeVars, vars, snapdVars, trackerVars, Waiting, Installed, Tracked
<1>2. CASE Remember
  <2>1. present' \subseteq (Installed \cup Tracked)'
    BY <1>2 DEF Remember
  <2>2. ASSUME ~NotAsked', NEW n \in Waiting' PROVE n \in Waiting
    <3>1. /\ n \in present' /\ n \notin moved' /\ n \notin Installed'
          /\ present' = present \cap (Installed \cup Tracked)'
          /\ moved' = moved \cup {m \in Snaps : (m \in Installed) # (m \in Installed')}
      BY <1>2, <2>2 DEF Remember, Waiting
    <3>2. n \in present /\ n \in Snaps /\ n \notin moved
      BY <3>1 DEF Installed, Tracked
    <3>3. n \notin Installed
      BY <3>1, <3>2
    <3> QED
      BY <3>2, <3>3 DEF Waiting
  <2> QED
    BY <2>1, <2>2
<1> QED
  BY <1>1, <1>2 DEF HomeNext

\* What an asker says of a waiting snap.
LEMMA AskerKept ==
    ASSUME IInv, AllComplete, IInv', AllComplete', WaitInv, OrderFits', [HomeNext]_homeVars,
           NEW q \in Askers, NEW n \in Waiting'
    PROVE  Says(q, n)'
<1>1. q \in Requests
  BY DEF Askers, Fetches
<1>2. CASE pc'[q] = "idle"
  <2>1. seen'[q] = Nothing /\ reply'[q] = Nothing
    BY <1>1, <1>2 DEF AllComplete, SeenFits, IInv, RequestFits, TodoFits
  <2>2. n \in Snaps
    BY WaitingShrinks DEF WaitInv, Waiting, Installed, Tracked
  <2> QED
    BY <2>1, <2>2 DEF Says, Nothing, LocalStatus
<1>3. CASE pc'[q] # "idle"
  <2>1. ~NotAsked'
    BY <1>3 DEF Askers, OrderFits, NotAsked, Fetches
  <2>2. n \in Waiting
    BY <2>1, WaitingShrinks DEF WaitInv
  <2>3. /\ Says(q, n) /\ n \in Snaps
        /\ ~isInstalled(local[n]) /\ states[n] # None /\ states[n].status = "installing"
    BY <2>2 DEF WaitInv, Waiting, Installed, Tracked
  <2>4. CASE Serve(q)
    BY <1>1, <2>3, <2>4, SaysKept
  <2>5. CASE ~Serve(q)
    <3>1. \/ UNCHANGED <<seen[q], reply[q]>>
          \/ seen'[q] = Nothing /\ reply'[q] = Nothing
      BY <1>1, <2>5, RequestSteps DEF Arrive
    <3> QED
      BY <2>3, <3>1 DEF Says, Nothing, LocalStatus
  <2> QED
    BY <2>4, <2>5
<1> QED
  BY <1>2, <1>3

\* Where a waiting snap is in the listing of tracked snaps, and in its list.
LEMMA CollectedKept ==
    ASSUME IInv, AllComplete, HomeInv, WaitInv, OrderFits', [HomeNext]_homeVars,
           ~brokeOff', NEW n \in Waiting'
    PROVE  Collected(n)'
<1> DEFINE r == TrackedFetch
<1>1. r \in Requests /\ r \in Fetches /\ r \in Askers
  BY DEF Fetches, Askers
<1>2. CASE NotAsked'
  BY <1>1, <1>2 DEF NotAsked, OrderFits, Collected, Found
<1>3. CASE ~NotAsked'
  <2>1. n \in Waiting
    BY <1>3, WaitingShrinks DEF WaitInv
  <2>2. ~brokeOff
    BY Zenon DEF HomeNext, Remember, homeVars
  <2>3. /\ Collected(n) /\ Says(r, n) /\ n \in Snaps /\ states[n] # None
    BY <1>1, <2>1, <2>2 DEF WaitInv, Waiting, Installed, Tracked
  <2>4. Found(r, n)'
    <3>1. CASE Serve(r)
      <4>1. kind[r] = "tracked"
        BY <3>1, <1>1, ServeKeeps DEF WaitInv, OrderFits
      <4>2. ~(pc[r] \in {"snap", "findone"} /\ pc'[r] = "state" /\ seen'[r] = seen[r])
        <5>1. CASE HomeNext
          BY <5>1, Zenon DEF HomeNext, Remember, BreaksOff
        <5>2. CASE UNCHANGED homeVars
          BY <5>2 DEF homeVars, vars, requestVars
        <5> QED
          BY <5>1, <5>2
      <4> QED
        BY <1>1, <2>3, <3>1, <4>1, <4>2, FoundKept DEF Collected
    <3>2. CASE Arrive(r)
      <4>1. pc'[r] \notin {"snap", "findone", "state", "change"}
        <5>1. \E k \in Kinds : /\ kind' = [kind EXCEPT ![r] = k]
                               /\ pc' = [pc EXCEPT ![r] = FirstStep(k)]
          BY <3>2, Zenon DEF Arrive, Goto
        <5>2. pc'[r] = FirstStep(kind'[r])
          BY <1>1, <5>1 DEF IInv, TypeOK
        <5> QED
          BY <5>2 DEF OrderFits, FirstStep
      <4> QED
        BY <4>1 DEF Found
    <3>3. CASE UNCHANGED <<pc[r], kind[r], name[r], todo[r], seen[r], reply[r]>>
      BY <2>3, <3>3 DEF Collected, Found, SnapsSeen
    <3>4. CASE pc'[r] = (IF pc[r] = "idle" THEN "idle" ELSE "done")
      BY <3>4 DEF Found
    <3> QED
      BY <1>1, <3>1, <3>2, <3>3, <3>4, RequestSteps
  <2>5. ASSUME fetched'[r] # None PROVE fetched'[r][n] = "installing"
    <3>1. CASE fetched'[r] = fetched[r]
      BY <2>3, <2>5, <3>1 DEF Collected
    <3>2. CASE fetched'[r] = Fetched(r) /\ SendPayload(r)
      <4>1. n \in SnapsSeen(reply[r])
        BY <1>1, <2>3, <3>2, SentComplete DEF AllComplete, Collected, Found
      <4>2. fetched'[r] = reply[r]
        BY <3>2 DEF Fetched
      <4> QED
        BY <2>3, <4>1, <4>2 DEF Says, SnapsSeen
    <3>3. CASE fetched'[r] = Fetched(r) /\ ~SendPayload(r) /\ fetched'[r] # fetched[r]
      <4> DEFINE Asks(m) == \E p \in Polls : Answers(p, r, m)
                 Asker(m) == CHOOSE p \in Polls : Answers(p, r, m)
      <4>1. /\ fetched[r] # None
            /\ fetched'[r] = [m \in Snaps |->
                                IF fetched[r][m] \in Operation /\ Asks(m) THEN reply[Asker(m)][m]
                                ELSE fetched[r][m]]
        BY <3>3, Zenon DEF Fetched
      <4>2. CASE Asks(n)
        <5>1. PICK p \in Polls : p = Asker(n) /\ name[p] = n /\ SendPayload(p)
          BY <4>2, Zenon DEF Answers
        <5>2. p \in Requests /\ PayloadFits(p) /\ PollFits(p) /\ Says(p, n)
          BY <2>1 DEF AllComplete, HomeInv, WaitInv, Askers
        <5>3. reply[p][n] = "installing"
          <6>1. n \in SnapsSeen(reply[p])
            BY <5>1, <5>2, SentComplete DEF PollFits
          <6> QED
            BY <5>2, <6>1 DEF Says, SnapsSeen
        <5>4. fetched'[r][n] \in {reply[p][n], fetched[r][n]}
          BY <2>3, <4>1, <5>1
        <5> QED
          BY <2>3, <4>1, <5>3, <5>4 DEF Collected
      <4>3. CASE ~Asks(n)
        BY <2>3, <4>1, <4>3 DEF Collected
      <4> QED
        BY <4>2, <4>3
    <3> QED
      BY <1>1, <3>1, <3>2, <3>3 DEF HomeNext, homeVars
  <2> QED
    BY <2>4, <2>5 DEF Collected
<1> QED
  BY <1>2, <1>3

LEMMA WaitStarts == HomeInit => WaitInv
  BY DEF HomeInit, Init, TrackerInit, WaitInv, OrderFits, Fetches, Askers, Waiting, Installed,
         Tracked, Says, Nothing, LocalStatus, Collected, Found

LEMMA WaitKept ==
    ASSUME IInv, AllComplete, HomeInv, WaitInv, IInv', AllComplete', [HomeNext]_homeVars
    PROVE  WaitInv'
<1>1. OrderFits'
  BY OrderKept DEF WaitInv
<1>2. present' \subseteq (Installed \cup Tracked)'
  BY WaitingShrinks DEF WaitInv
<1>3. Askers' = Askers
  BY DEF Askers
<1> QED
  BY <1>1, <1>2, <1>3, AskerKept, CollectedKept DEF WaitInv

-----------------------------------------------------------------------------
(* Theorems                                                                *)

LEMMA HomeTypeKept == IInv /\ HomeTypeOK /\ [HomeNext]_homeVars /\ TypeOK' => HomeTypeOK'
<1> SUFFICES ASSUME IInv, HomeTypeOK, [HomeNext]_homeVars, TypeOK' PROVE HomeTypeOK'
  OBVIOUS
<1>1. CASE UNCHANGED homeVars
  BY <1>1 DEF homeVars, HomeTypeOK
<1>2. CASE HomeNext
  <2> DEFINE Answer == [Snaps -> PayloadStatus \cup {"none"}]
  <2>1. ASSUME NEW f \in Fetches PROVE Fetched(f) \in Answer \cup {None}
    <3>1. /\ reply \in [Requests -> Answer]
          /\ fetched \in [Fetches -> Answer \cup {None}]
          /\ f \in Requests
      BY DEF HomeTypeOK, TypeOK
    <3>2. CASE SendPayload(f) \/ fetched[f] = None \/ Drawn
      <4> HIDE DEF Answer
      <4> QED
        BY <3>1, <3>2 DEF Fetched
    <3>3. CASE ~SendPayload(f) /\ fetched[f] # None /\ ~Drawn
      <4> DEFINE Asks(n) == \E p \in Polls : Answers(p, f, n)
                 Asker(n) == CHOOSE p \in Polls : Answers(p, f, n)
                 status(n) == IF fetched[f][n] \in Operation /\ Asks(n)
                                THEN reply[Asker(n)][n] ELSE fetched[f][n]
      <4>1. Fetched(f) = [n \in Snaps |-> status(n)]
        BY <3>3, Zenon DEF Fetched
      <4>2. ASSUME NEW n \in Snaps PROVE status(n) \in PayloadStatus \cup {"none"}
        <5>1. fetched[f][n] \in PayloadStatus \cup {"none"}
          BY <3>1, <3>3
        <5>2. Asks(n) => Asker(n) \in Requests
          BY Zenon
        <5>3. Asks(n) => reply[Asker(n)][n] \in PayloadStatus \cup {"none"}
          <6> HIDE DEF Asks, Asker
          <6> QED
            BY <3>1, <5>2
        <5> HIDE DEF Asks, Asker
        <5> QED
          BY <5>1, <5>3
      <4> HIDE DEF status
      <4> QED
        BY <4>1, <4>2
    <3> QED
      BY <3>2, <3>3
  <2>2. fetched' \in [Fetches -> Answer \cup {None}]
    <3> HIDE DEF Answer
    <3> QED
      BY <1>2, <2>1 DEF HomeNext
  <2>5. asker' \in [Polls -> Fetches \cup {None}]
    BY <1>2 DEF HomeNext, Asked, HomeTypeOK
  <2>3. {present', moved'} \subseteq SUBSET Snaps
    <3>1. Installed' \subseteq Snaps /\ Tracked' \subseteq Snaps
      BY DEF Installed, Tracked
    <3> QED
      BY <1>2, <3>1 DEF HomeNext, Remember, HomeTypeOK
  <2>4. brokeOff' \in BOOLEAN
    BY <1>2, Zenon DEF HomeNext, Remember, BreaksOff, HomeTypeOK
  <2> QED
    BY <2>2, <2>3, <2>4, <2>5 DEF HomeTypeOK
<1> QED
  BY <1>1, <1>2

\* The variables of the page keep their types, for any answers and polls.
THEOREM HomeTypeCorrect == HomeSpec => []HomeTypeOK
<1>1. HomeInit => HomeTypeOK
  <2> SUFFICES ASSUME HomeInit PROVE HomeTypeOK
    OBVIOUS
  <2>1. TypeOK
    BY InitIInv DEF HomeInit, IInv
  <2>2. Installed \subseteq Snaps /\ Tracked \subseteq Snaps
    BY DEF Installed, Tracked
  <2> QED
    BY <2>1, <2>2 DEF HomeInit, HomeTypeOK
<1>2. IInv => TypeOK
  BY DEF IInv
<1> QED
  BY <1>1, <1>2, HomeTypeKept, HomeInvariance, PTL DEF HomeSpec

\* A snap that was installed all the time is on the home page, whatever was
\* tracked, polled or sold meanwhile, for any requests (index of home.js).
THEOREM InstalledShown == HomeSpec => []InstalledIsOnPage
<1>1. HomeInv => InstalledIsOnPage
  BY DEF HomeInv, FetchedFits, InstalledIsOnPage, Drawn, Fetches, Stayed, OnPage, Card,
         Installed
<1> QED
  BY <1>1, HomeInvariance, PTL

\* A snap that was installed or shown as installing at each moment is on the
\* page, unless it changed from one to the other or a lookup ended the listing
\* of tracked snaps, for any requests and polls (index of home.js).
THEOREM MissedInPassing == HomeSpec => []MissedOnlyInPassing
<1>1. HomeInv /\ WaitInv => MissedOnlyInPassing
  <2> SUFFICES ASSUME HomeInv, WaitInv, Drawn, ~brokeOff, NEW n \in present, n \notin moved
               PROVE  n \in OnPage
    BY DEF MissedOnlyInPassing
  <2>1. n \in Snaps
    BY DEF WaitInv, Installed, Tracked
  <2>2. CASE n \in Installed
    <3>1. fetched[InstalledFetch][n] # "none"
      BY <2>2 DEF HomeInv, FetchedFits, Drawn, Fetches, Stayed
    <3> QED
      BY <2>1, <3>1 DEF OnPage, Card
  <2>3. CASE n \notin Installed
    <3>1. fetched[TrackedFetch][n] = "installing"
      BY <2>3 DEF WaitInv, Waiting, Collected, Drawn, Fetches
    <3> QED
      BY <2>1, <3>1 DEF OnPage, Card
  <2> QED
    BY <2>2, <2>3
<1>2. IInv /\ AllComplete /\ HomeInv /\ WaitInv /\ IInv' /\ AllComplete' /\ [HomeNext]_homeVars
        => WaitInv'
  BY WaitKept
<1> QED
  BY <1>1, <1>2, WaitStarts, HomeInvariance, PTL DEF HomeSpec

=============================================================================
