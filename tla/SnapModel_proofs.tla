-------------------------- MODULE SnapModel_proofs --------------------------
(***************************************************************************)
(* Proofs about SnapModel, for any number of clicks and of operations that *)
(* other clients start, and for answers that come in any order.            *)
(***************************************************************************)
EXTENDS SnapModel, TLAPS

Labels == {"Remove", "Installing", "Install", "Removing", "none"}
Places == {"loading", "loaded", "shown", "card", "left"}
ThreadStates == [at: {"idle", "timer", "sent", "answered"},
                 verb: {"GET", "PUT", "DELETE", "POST"},
                 answer: Status \cup {"202", "500", "404"}]

\* What the page shows of an operation is of its status.
AttrsFit(a) ==
    /\ a.label # "none" => a.label = Label(a.status)
    /\ a.text => a.status \in Passing
    /\ a.progress = "some" => a.status \in Passing

\* What the details view has heard is still so; before it is shown, and on a
\* card, it has heard nothing.
ViewFits ==
    /\ view.text => attrs.text
    /\ view.progress = "some" => attrs.progress = "some"
    /\ view.status # "none" => view.status = attrs.status
    /\ page # "shown" => view = Blank

\* Only cards learn their status from the list of installed snaps; and while
\* nothing has set the model since the last click, it has the status that this
\* set, and remembers the one from before.
RestFits ==
    /\ bask # "none" => page \in {"card", "left"}
    /\ restore # "none" =>
          /\ prev.status = restore /\ page \in {"shown", "card", "left"}
          /\ threads[clicks].verb = "PUT" => attrs.status = "installing"
          /\ threads[clicks].verb = "DELETE" => attrs.status = "uninstalling"

Fits == AttrsFit(attrs) /\ AttrsFit(prev) /\ ViewFits /\ RestFits

MInv == TypeOK /\ Fits

-----------------------------------------------------------------------------
(* The helpers.                                                            *)

LEMMA LabelType ==
  ASSUME NEW s \in Status
  PROVE  Label(s) \in Labels /\ (s = "none" => Label(s) = "none")
  BY DEF Label, Labels, Status, Passing, Resting

LEMMA WithStatusFits ==
  ASSUME NEW a \in Attributes, NEW s \in Status,
         s = a.status => AttrsFit(a)
  PROVE  /\ WithStatus(a, s) \in Attributes
         /\ AttrsFit(WithStatus(a, s))
         /\ WithStatus(a, s).status = s
         /\ WithStatus(a, s).progress = "unset" => a.progress = "unset"
<1>1. CASE s = a.status
  BY <1>1 DEF WithStatus
<1>2. CASE s # a.status
  <2> DEFINE new == [status |-> s, label |-> Label(s), text |-> a.text /\ s \in Passing,
                     progress |-> IF s \in Passing THEN a.progress ELSE "zero"]
  <2>1. WithStatus(a, s) = new
    BY <1>2 DEF WithStatus
  <2>2. a.text \in BOOLEAN /\ a.progress \in {"unset", "zero", "some"}
    BY DEF Attributes
  <2>3. new \in Attributes
    BY <2>2, LabelType DEF Attributes, Labels
  <2>4. AttrsFit(new)
    BY <2>2 DEF AttrsFit
  <2>5. new.status = s /\ (new.progress = "unset" => a.progress = "unset")
    BY <2>2
  <2> QED
    BY <2>1, <2>3, <2>4, <2>5
<1> QED
  BY <1>1, <1>2

\* A change of the model is heard by the view that is shown, if there is one.
LEMMA SetFits ==
  ASSUME MInv, NEW new \in Attributes, AttrsFit(new), Set(new),
         new.progress = "unset" => attrs.progress = "unset",
         page = "shown" => page' = "shown"
  PROVE  /\ attrs' = new /\ prev' = attrs
         /\ attrs' \in Attributes /\ prev' \in Attributes
         /\ view' \in [status: Status, text: BOOLEAN, progress: {"zero", "some"}]
         /\ AttrsFit(attrs)' /\ AttrsFit(prev)' /\ ViewFits'
<1>1. attrs' = new /\ prev' = attrs /\ view' = Hears(new)
  BY DEF Set
<1>2. attrs \in Attributes /\ AttrsFit(attrs) /\ ViewFits
  BY DEF MInv, TypeOK, Fits
<1>3. view \in [status: Status, text: BOOLEAN, progress: {"zero", "some"}]
  BY DEF MInv, TypeOK
<1>4. CASE page = "shown"
  <2>1. /\ view'.status = IF new.status # attrs.status THEN new.status ELSE view.status
        /\ view'.text = IF new.text # attrs.text THEN new.text ELSE view.text
        /\ view'.progress = IF new.progress # attrs.progress THEN new.progress ELSE view.progress
        /\ view' = [status |-> view'.status, text |-> view'.text, progress |-> view'.progress]
    BY <1>1, <1>4 DEF Hears
  <2>2. view' \in [status: Status, text: BOOLEAN, progress: {"zero", "some"}]
    BY <1>2, <1>3, <2>1 DEF Attributes
  <2>3. ViewFits'
    BY <1>1, <1>2, <1>3, <1>4, <2>1 DEF ViewFits, Attributes
  <2> QED
    BY <1>1, <1>2, <2>2, <2>3 DEF AttrsFit
<1>5. CASE page # "shown"
  <2>1. view' = view /\ view = Blank
    BY <1>1, <1>2, <1>5 DEF Hears, ViewFits
  <2>2. ViewFits'
    BY <2>1 DEF ViewFits, Blank
  <2> QED
    BY <1>1, <1>2, <1>3, <2>1, <2>2 DEF AttrsFit
<1> QED
  BY <1>4, <1>5

\* Nothing of the model changes, nor what the user looks at.
LEMMA KeptFits ==
  ASSUME MInv, UNCHANGED <<attrs, prev, view, page>>
  PROVE  /\ attrs' \in Attributes /\ prev' \in Attributes
         /\ view' \in [status: Status, text: BOOLEAN, progress: {"zero", "some"}]
         /\ AttrsFit(attrs)' /\ AttrsFit(prev)' /\ ViewFits'
  BY DEF MInv, TypeOK, Fits, AttrsFit, ViewFits

\* The error handler puts back the status that was there, if there was one.
LEMMA PreviousFits ==
  ASSUME MInv, SetPrevious, UNCHANGED page
  PROVE  /\ attrs' \in Attributes /\ prev' \in Attributes
         /\ view' \in [status: Status, text: BOOLEAN, progress: {"zero", "some"}]
         /\ AttrsFit(attrs)' /\ AttrsFit(prev)' /\ ViewFits'
         /\ prev.status # "none" => attrs'.status = prev.status
<1>1. /\ attrs \in Attributes /\ AttrsFit(attrs)
      /\ prev \in Attributes /\ AttrsFit(prev)
  BY DEF MInv, TypeOK, Fits
<1>2. CASE prev.status = "none"
  <2> DEFINE new == [attrs EXCEPT !.label = prev.label]
  <2>1. prev.label = "none"
    BY <1>1, <1>2, LabelType DEF AttrsFit, Attributes, Status
  <2>2. new \in Attributes /\ AttrsFit(new) /\ new.progress = attrs.progress
    BY <1>1, <2>1 DEF Attributes, AttrsFit
  <2>3. Set(new)
    BY <1>2 DEF SetPrevious
  <2> HIDE DEF new
  <2> QED
    BY <1>2, <2>2, <2>3, SetFits
<1>3. CASE prev.status # "none"
  <2> DEFINE was == [prev EXCEPT !.progress = IF @ = "unset" THEN attrs.progress ELSE @]
             now == [was EXCEPT !.status = attrs.status]
             new == IF was.status = attrs.status THEN was ELSE WithStatus(now, was.status)
  <2>1. /\ was \in Attributes /\ was.status = prev.status
        /\ was.progress = "unset" => attrs.progress = "unset"
        /\ now \in Attributes /\ now.status = attrs.status /\ now.progress = was.progress
    BY <1>1 DEF Attributes
  <2>2. was.status = attrs.status => AttrsFit(was)
    BY <1>1 DEF AttrsFit, Attributes
  <2>3. Set(new)
    BY <1>3 DEF SetPrevious
  <2>4. prev.status \in Status
    BY <1>1 DEF Attributes
  <2> HIDE DEF was, now
  <2>5. /\ new \in Attributes /\ AttrsFit(new) /\ new.status = prev.status
        /\ new.progress = "unset" => attrs.progress = "unset"
    BY <2>1, <2>2, <2>4, WithStatusFits
  <2> HIDE DEF new
  <2> QED
    BY <2>3, <2>5, SetFits
<1> QED
  BY <1>2, <1>3

-----------------------------------------------------------------------------
(* The inductive invariant: TypeOK and what fits.                          *)

\* What is left to show of a step that sets the model as it should.
LEMMA Together ==
  ASSUME attrs' \in Attributes, prev' \in Attributes,
         view' \in [status: Status, text: BOOLEAN, progress: {"zero", "some"}],
         AttrsFit(attrs)', AttrsFit(prev)', ViewFits', RestFits',
         threads' \in [Threads -> ThreadStates],
         page' \in Places, bask' \in {"none", "sent", "listed", "unlisted"},
         failed' \in BOOLEAN, gone' \in BOOLEAN,
         clicks' \in 0 .. MaxActs, others' \in 0 .. MaxActs,
         restore' \in Status, srv' \in Passing \cup Resting
  PROVE  MInv'
  BY DEF MInv, TypeOK, Fits, ThreadStates, Places

LEMMA InitMInv == Init => MInv
<1> SUFFICES ASSUME Init PROVE MInv
  OBVIOUS
<1>1. New \in Attributes /\ AttrsFit(New)
  BY DEF New, Attributes, AttrsFit, Status
<1>2. attrs \in Attributes /\ AttrsFit(attrs)
  <2>1. \A s \in Passing \cup Resting : s \in Status /\ s # New.status
    BY DEF Status, Passing, Resting, New
  <2> QED
    BY <1>1, <2>1, WithStatusFits DEF Init
<1>3. prev = attrs /\ view = Blank
  BY DEF Init
<1>4. ViewFits /\ RestFits
  BY DEF Init, ViewFits, Blank, RestFits
<1>5. threads \in [Threads -> ThreadStates]
  BY DEF Init, ThreadStates, Idle, Timer, Sent, Status
<1>6. view \in [status: Status, text: BOOLEAN, progress: {"zero", "some"}]
  BY <1>3 DEF Blank, Status
<1>7. clicks \in 0 .. MaxActs /\ others \in 0 .. MaxActs /\ restore \in Status
  BY SnapModelAssumption DEF Init, Status
<1>8. page \in Places /\ bask \in {"none", "sent", "listed", "unlisted"}
  BY DEF Init, Places
<1>9. /\ failed \in BOOLEAN /\ gone \in BOOLEAN
      /\ srv \in Passing \cup Resting
  BY DEF Init
<1> QED
  BY <1>2, <1>3, <1>4, <1>5, <1>6, <1>7, <1>8, <1>9
     DEF MInv, TypeOK, Fits, ThreadStates, Places

\* A click: it sets the status it expects and sends its request.
LEMMA ClickMInv ==
  ASSUME MInv, NEW s \in Passing \cup {"cancel"}, NEW verb \in {"PUT", "DELETE", "POST"},
         page \in {"shown", "card"}, attrs.status \in {"installed", "active", "uninstalled", "installing"},
         SetStatus(s), Send(verb),
         verb = "PUT" => s = "installing", verb = "DELETE" => s = "uninstalling",
         page' = page \/ (page = "card" /\ page' = "left")
  PROVE  MInv'
<1>1. s \in Status /\ attrs \in Attributes /\ AttrsFit(attrs)
  BY DEF Status, MInv, TypeOK, Fits
<1>2. /\ prev' = attrs /\ attrs'.status = s
      /\ attrs' \in Attributes /\ prev' \in Attributes
      /\ view' \in [status: Status, text: BOOLEAN, progress: {"zero", "some"}]
      /\ AttrsFit(attrs)' /\ AttrsFit(prev)' /\ ViewFits'
  BY <1>1, WithStatusFits, SetFits DEF SetStatus
<1>3. /\ clicks + 1 \in 0 .. MaxActs /\ clicks' = clicks + 1
      /\ others' \in 0 .. MaxActs /\ srv' \in Passing \cup Resting
  BY SnapModelAssumption DEF Send, MInv, TypeOK, serverVars
<1>4. threads' \in [Threads -> ThreadStates]
  <2>1. Sent(verb) \in ThreadStates
    BY DEF Sent, ThreadStates, Status
  <2>2. threads \in [Threads -> ThreadStates]
    BY DEF MInv, TypeOK, ThreadStates
  <2> QED
    BY <2>1, <2>2 DEF Send
<1>5. restore' = attrs.status
  BY DEF Send
<1>6. restore' \in Status
  BY <1>1, <1>5 DEF Attributes, Status
<1>7. RestFits'
  <2>1. threads'[clicks'].verb = verb
    <3>1. clicks + 1 \in Threads /\ threads \in [Threads -> ThreadStates]
      BY <1>3 DEF Threads, MInv, TypeOK, ThreadStates
    <3> QED
      BY <1>3, <3>1 DEF Send, Sent
  <2> QED
    BY <1>2, <1>5, <2>1 DEF RestFits, MInv, Fits, Send
<1>8. page' \in Places /\ bask' \in {"none", "sent", "listed", "unlisted"}
      /\ failed' \in BOOLEAN /\ gone' \in BOOLEAN
  BY DEF Send, Places, MInv, TypeOK
<1> QED
  BY <1>2, <1>3, <1>4, <1>6, <1>7, <1>8, Together

LEMMA UserMInv ==
  ASSUME MInv, User
  PROVE  MInv'
<1>1. CASE Remove
  BY <1>1, ClickMInv DEF Remove, Passing
<1>2. CASE Install
  BY <1>2, ClickMInv DEF Install, Passing
<1>3. CASE Cancel
  BY <1>3, ClickMInv DEF Cancel
<1> QED
  BY <1>1, <1>2, <1>3 DEF User

\* A callback leaves the server and the clicks alone.
CallbackFrame ==
    /\ UNCHANGED <<bask, clicks, serverVars>>
    /\ failed' \in BOOLEAN /\ gone' \in BOOLEAN

LEMMA CallbackMInv ==
  ASSUME MInv, CallbackFrame, NEW i \in Threads, NEW t \in {Idle, Timer, Sent("GET")},
         threads' = [threads EXCEPT ![i] = t],
         attrs' \in Attributes, prev' \in Attributes,
         view' \in [status: Status, text: BOOLEAN, progress: {"zero", "some"}],
         AttrsFit(attrs)', AttrsFit(prev)', ViewFits',
         page' = page \/ (page = "loading" /\ page' = "loaded"),
         restore' = "none" \/ UNCHANGED <<restore, prev, attrs>>
  PROVE  MInv'
<1>1. threads' \in [Threads -> ThreadStates]
  <2>1. t \in ThreadStates
    BY DEF ThreadStates, Idle, Timer, Sent, Status
  <2>2. threads \in [Threads -> ThreadStates]
    BY DEF MInv, TypeOK, ThreadStates
  <2> QED
    BY <2>1, <2>2
<1>2. RestFits'
  <2>1. clicks' = clicks /\ clicks \in Threads /\ threads \in [Threads -> ThreadStates]
    BY DEF CallbackFrame, MInv, TypeOK, Threads, ThreadStates
  <2>2. threads'[clicks'].verb \in {"GET", threads[clicks].verb}
    BY <2>1 DEF Idle, Timer, Sent
  <2> QED
    BY <2>1, <2>2 DEF RestFits, MInv, Fits, CallbackFrame
<1>3. page' \in Places /\ bask' \in {"none", "sent", "listed", "unlisted"}
      /\ failed' \in BOOLEAN /\ gone' \in BOOLEAN
  BY DEF Places, MInv, TypeOK, CallbackFrame
<1>4. /\ clicks' \in 0 .. MaxActs /\ others' \in 0 .. MaxActs
      /\ srv' \in Passing \cup Resting /\ restore' \in Status
  BY DEF CallbackFrame, serverVars, MInv, TypeOK, Status
<1> QED
  BY <1>1, <1>2, <1>3, <1>4, Together

LEMMA FetchedMInv ==
  ASSUME MInv, NEW i \in Threads, Fetched(i)
  PROVE  MInv' /\ attrs'.status = threads[i].answer
<1> DEFINE s == threads[i].answer
<1>1. s \in Status /\ attrs \in Attributes /\ AttrsFit(attrs)
  BY DEF Fetched, MInv, TypeOK, Fits
<1>2. PICK task \in KnowsTask(s) :
         Set(WithStatus([attrs EXCEPT !.text = task, !.progress = IF task THEN "some" ELSE @], s))
  BY DEF Fetched, SetFetched
<1> DEFINE a == [attrs EXCEPT !.text = task, !.progress = IF task THEN "some" ELSE @]
<1>3. task \in BOOLEAN /\ (task => s \in Passing)
  BY DEF KnowsTask
<1>4. a \in Attributes /\ a.status = attrs.status /\ (a.progress = "unset" => attrs.progress = "unset")
  BY <1>1, <1>3 DEF Attributes
<1>5. s = a.status => AttrsFit(a)
  BY <1>1, <1>3 DEF Attributes, AttrsFit
<1>6. Set(WithStatus(a, s))
  BY <1>2
<1> HIDE DEF a
<1>7. /\ WithStatus(a, s) \in Attributes /\ AttrsFit(WithStatus(a, s))
      /\ WithStatus(a, s).status = s
      /\ WithStatus(a, s).progress = "unset" => attrs.progress = "unset"
  BY <1>1, <1>4, <1>5, WithStatusFits
<1>8. page = "shown" => page' = "shown"
  BY DEF Fetched
<1>9. /\ attrs' = WithStatus(a, s)
      /\ attrs' \in Attributes /\ prev' \in Attributes
      /\ view' \in [status: Status, text: BOOLEAN, progress: {"zero", "some"}]
      /\ AttrsFit(attrs)' /\ AttrsFit(prev)' /\ ViewFits'
  BY <1>6, <1>7, <1>8, SetFits
<1>10. PICK t \in {Idle, Timer} : threads' = [threads EXCEPT ![i] = t]
  BY DEF Fetched, OnSync
<1>11. /\ page' = page \/ (page = "loading" /\ page' = "loaded")
       /\ restore' = "none"
       /\ CallbackFrame
  BY DEF Fetched, CallbackFrame, MInv, TypeOK
<1>12. MInv'
  BY <1>9, <1>10, <1>11, CallbackMInv
<1> QED
  BY <1>7, <1>9, <1>12

LEMMA ErrorMInv ==
  ASSUME MInv, NEW i \in Threads, OnError(i), UNCHANGED <<page, bask, gone, clicks, serverVars>>
  PROVE  MInv'
<1>1. CallbackFrame
  BY DEF OnError, CallbackFrame, MInv, TypeOK
<1>2. /\ attrs' \in Attributes /\ prev' \in Attributes
      /\ view' \in [status: Status, text: BOOLEAN, progress: {"zero", "some"}]
      /\ AttrsFit(attrs)' /\ AttrsFit(prev)' /\ ViewFits'
  BY PreviousFits DEF OnError
<1> QED
  BY <1>1, <1>2, CallbackMInv DEF OnError

LEMMA SavedMInv ==
  ASSUME MInv, NEW i \in Threads, Saved(i)
  PROVE  MInv' /\ attrs' = attrs
<1>1. CallbackFrame
  BY DEF Saved, CallbackFrame, MInv, TypeOK
<1>2. attrs \in Attributes /\ AttrsFit(attrs)
  BY DEF MInv, TypeOK, Fits
<1>3. /\ attrs' = attrs
      /\ attrs' \in Attributes /\ prev' \in Attributes
      /\ view' \in [status: Status, text: BOOLEAN, progress: {"zero", "some"}]
      /\ AttrsFit(attrs)' /\ AttrsFit(prev)' /\ ViewFits'
  BY <1>2, SetFits DEF Saved, SetOther
<1>4. PICK t \in {Idle, Timer} : threads' = [threads EXCEPT ![i] = t]
  BY DEF Saved, OnSync
<1> QED
  BY <1>1, <1>3, <1>4, CallbackMInv DEF Saved

LEMMA QuietMInv ==
  ASSUME MInv, NEW i \in Threads, Poll(i) \/ FetchedRemoved(i) \/ Destroyed(i)
  PROVE  MInv'
<1>1. CallbackFrame
  BY DEF Poll, FetchedRemoved, Destroyed, CallbackFrame, MInv, TypeOK
<1>2. UNCHANGED <<attrs, prev, view, page>> /\ (restore' \in {restore, "none"})
  BY DEF Poll, FetchedRemoved, Destroyed, modelVars
<1>3. PICK t \in {Idle, Timer, Sent("GET")} : threads' = [threads EXCEPT ![i] = t]
  BY DEF Poll, FetchedRemoved, Destroyed, OnSync
<1> QED
  BY <1>1, <1>2, <1>3, KeptFits, CallbackMInv

LEMMA ShowMInv ==
  ASSUME MInv, ShowPage
  PROVE  MInv'
<1>1. attrs \in Attributes /\ AttrsFit(attrs)
  BY DEF MInv, TypeOK, Fits
<1>2. /\ attrs' \in Attributes /\ prev' \in Attributes
      /\ view' \in [status: Status, text: BOOLEAN, progress: {"zero", "some"}]
      /\ AttrsFit(attrs)' /\ AttrsFit(prev)' /\ ViewFits'
  BY <1>1, SetFits DEF ShowPage, SetOther
<1>3. RestFits'
  BY DEF ShowPage, RestFits, MInv, Fits
<1>4. threads' \in [Threads -> ThreadStates] /\ page' \in Places
  BY DEF ShowPage, MInv, TypeOK, ThreadStates, Places
<1> QED
  BY <1>2, <1>3, <1>4, Together DEF ShowPage, serverVars, MInv, TypeOK

LEMMA UpdateMInv ==
  ASSUME MInv, UpdateInstalledStates
  PROVE  MInv'
<1>1. attrs \in Attributes /\ AttrsFit(attrs) /\ prev \in Attributes /\ AttrsFit(prev)
  BY DEF MInv, TypeOK, Fits
<1>2. page \in {"card", "left"} /\ view = Blank /\ UNCHANGED <<view, page>>
  BY DEF UpdateInstalledStates, MInv, Fits, RestFits, ViewFits
<1>3. "installed" \in Status
  BY DEF Status, Resting
<1>4. attrs' \in Attributes /\ prev' \in Attributes /\ AttrsFit(attrs)' /\ AttrsFit(prev)'
  <2>1. \/ attrs' = attrs /\ prev' = prev
        \/ attrs' = WithStatus(attrs, "installed") /\ prev' = attrs'
    BY DEF UpdateInstalledStates
  <2>2. /\ WithStatus(attrs, "installed") \in Attributes
        /\ AttrsFit(WithStatus(attrs, "installed"))
    BY <1>1, <1>3, WithStatusFits
  <2>3. attrs' \in Attributes /\ AttrsFit(attrs') /\ prev' \in Attributes /\ AttrsFit(prev')
    BY <1>1, <2>1, <2>2
  <2> QED
    BY <2>3 DEF AttrsFit
<1>5. ViewFits'
  BY <1>2 DEF ViewFits, Blank
<1>6. RestFits' /\ restore' \in Status
  BY DEF UpdateInstalledStates, RestFits, MInv, TypeOK, Fits, Status
<1>7. view' \in [status: Status, text: BOOLEAN, progress: {"zero", "some"}]
      /\ threads' \in [Threads -> ThreadStates]
  BY <1>2 DEF UpdateInstalledStates, MInv, TypeOK, ThreadStates
<1> QED
  BY <1>4, <1>5, <1>6, <1>7, Together
     DEF UpdateInstalledStates, serverVars, MInv, TypeOK, Places, Status

\* Whatever the server does, the page does not notice at once.
LEMMA ServerMInv ==
  ASSUME MInv, Server, UNCHANGED pageVars
  PROVE  MInv'
<1>1. UNCHANGED <<attrs, prev, view, page, failed, gone, clicks, restore>>
  BY DEF pageVars, modelVars
<1>2. srv' \in Passing \cup Resting
  <2>1. srv \in Passing \cup Resting
    BY DEF MInv, TypeOK
  <2>2. \A op \in Passing : Before(op) \subseteq Resting /\ After(op) \in Resting
    BY DEF Before, After, Passing, Resting
  <2>3. CASE \E i \in Threads : Serve(i) /\ UNCHANGED <<bask, others>>
    BY <2>1, <2>2, <2>3 DEF Serve, ServeGet, ServeStart, ServeCancel, Passing
  <2>4. CASE ServeList \/ Complete \/ OtherClient
    BY <2>1, <2>2, <2>4 DEF ServeList, Complete, OtherClient
  <2> QED
    BY <2>3, <2>4 DEF Server
<1>3. bask' \in {"none", "sent", "listed", "unlisted"} /\ (bask' # "none" => bask # "none")
  BY DEF Server, ServeList, Complete, OtherClient, MInv, TypeOK
<1>4. others' \in 0 .. MaxActs
  BY SnapModelAssumption DEF Server, ServeList, Complete, OtherClient, MInv, TypeOK
<1>5. threads' \in [Threads -> ThreadStates]
  <2>1. threads \in [Threads -> ThreadStates]
    BY DEF MInv, TypeOK, ThreadStates
  <2>2. ASSUME NEW i \in Threads, NEW a \in Status \cup {"202", "500", "404"}, Reply(i, a)
        PROVE  threads' \in [Threads -> ThreadStates]
    <3> DEFINE t == [threads[i] EXCEPT !.at = "answered"]
    <3>1. threads' = [threads EXCEPT ![i] = [t EXCEPT !.answer = a]]
      BY <2>1, <2>2 DEF Reply
    <3>2. t \in ThreadStates
      BY <2>1 DEF ThreadStates
    <3> HIDE DEF t
    <3>3. [t EXCEPT !.answer = a] \in ThreadStates
      BY <3>2 DEF ThreadStates
    <3> QED
      BY <2>1, <3>1, <3>3
  <2>3. CASE \E i \in Threads : Serve(i) /\ UNCHANGED <<bask, others>>
    <3>1. srv \in Status
      BY DEF MInv, TypeOK, Status
    <3>2. PICK i \in Threads : \E a \in Status \cup {"202", "500", "404"} : Reply(i, a)
      BY <2>3, <3>1 DEF Serve, ServeGet, ServeStart, ServeCancel
    <3> QED
      BY <2>2, <3>2
  <2>4. CASE UNCHANGED threads
    BY <2>1, <2>4
  <2> QED
    BY <2>3, <2>4 DEF Server, ServeList, Complete, OtherClient
<1>6. RestFits'
  <2>1. clicks \in Threads /\ threads \in [Threads -> ThreadStates]
    BY DEF MInv, TypeOK, Threads, ThreadStates
  <2>2. ASSUME NEW i \in Threads, NEW a, Reply(i, a)
        PROVE  threads'[clicks].verb = threads[clicks].verb
    BY <2>1, <2>2 DEF Reply, ThreadStates
  <2>3. threads'[clicks].verb = threads[clicks].verb
    BY <2>2
       DEF Server, Serve, ServeGet, ServeStart, ServeCancel, ServeList, Complete, OtherClient
  <2> QED
    BY <1>1, <1>3, <2>3 DEF RestFits, MInv, Fits
<1>7. /\ attrs' \in Attributes /\ prev' \in Attributes
      /\ view' \in [status: Status, text: BOOLEAN, progress: {"zero", "some"}]
      /\ AttrsFit(attrs)' /\ AttrsFit(prev)' /\ ViewFits'
  BY <1>1, KeptFits
<1>8. /\ page' \in Places /\ failed' \in BOOLEAN /\ gone' \in BOOLEAN
      /\ clicks' \in 0 .. MaxActs /\ restore' \in Status
  BY <1>1 DEF MInv, TypeOK, Places
<1> QED
  BY <1>2, <1>3, <1>4, <1>5, <1>6, <1>7, <1>8, Together

LEMMA NextMInv == MInv /\ [Next]_vars => MInv'
<1> SUFFICES ASSUME MInv, [Next]_vars PROVE MInv'
  OBVIOUS
<1>1. ASSUME NEW i \in Threads, Callback(i) PROVE MInv'
  BY <1>1, FetchedMInv, ErrorMInv, SavedMInv, QuietMInv
     DEF Callback, FetchFailed, Refused
<1>2. CASE UNCHANGED vars
  BY <1>2 DEF vars, modelVars, serverVars, MInv, TypeOK, Fits, AttrsFit, ViewFits, RestFits
<1> QED
  BY <1>1, <1>2, UserMInv, ShowMInv, UpdateMInv, ServerMInv DEF Next

THEOREM Invariance == Spec => []MInv
  BY InitMInv, NextMInv, PTL DEF Spec

\* The model, the view and the threads keep to their types (snap.js).
THEOREM TypeCorrect == Spec => []TypeOK
<1>1. MInv => TypeOK
  BY DEF MInv
<1> QED
  BY <1>1, Invariance, PTL

-----------------------------------------------------------------------------
(* The properties.                                                         *)

\* What the page draws of an operation is of the operation the snap is in,
\* however many clicks and answers there were, in whatever order they came
\* (onStatusChange in snap.js, the modelEvents of snap-details.js).
THEOREM DrawnIsTrue == Spec => []ShownFitsStatus
<1>1. MInv => ShownFitsStatus
  <2> SUFFICES ASSUME MInv PROVE ShownFitsStatus
    OBVIOUS
  <2>1. view.status \in Thinking => view.status # "none"
    BY DEF Thinking
  <2> QED
    BY <2>1 DEF MInv, Fits, AttrsFit, ViewFits, ShownFitsStatus
<1> QED
  BY <1>1, Invariance, PTL

\* The last click is decided by its own answer unless something else sets the
\* model before that, for any number of requests in flight: a refusal puts back
\* the status from before it, and an accepted installation or removal is polled
\* for (the 'error' and the 'sync' handlers of snap.js).
THEOREM ClickDecides == Spec => LastClickDecides
<1>1. MInv /\ [Next]_vars =>
        [\A i \in Threads : restore # "none" /\ i = clicks =>
            /\ Refused(i) => attrs'.status = restore
            /\ (Saved(i) /\ threads[i].verb = "PUT") \/ Destroyed(i) => threads'[i] = Timer]_vars
  <2> SUFFICES ASSUME MInv, clicks \in Threads, restore # "none"
               PROVE  /\ Refused(clicks) => attrs'.status = restore
                      /\ (Saved(clicks) /\ threads[clicks].verb = "PUT") \/ Destroyed(clicks)
                            => threads'[clicks] = Timer
    OBVIOUS
  <2>1. /\ prev.status = restore
        /\ threads[clicks].verb = "PUT" => attrs.status = "installing"
        /\ threads[clicks].verb = "DELETE" => attrs.status = "uninstalling"
    BY DEF MInv, Fits, RestFits
  <2>2. ASSUME Refused(clicks) PROVE attrs'.status = restore
    <3>1. SetPrevious /\ UNCHANGED page
      BY <2>2 DEF Refused, OnError
    <3> QED
      BY <2>1, <3>1, PreviousFits
  <2>3. ASSUME (Saved(clicks) /\ threads[clicks].verb = "PUT") \/ Destroyed(clicks)
        PROVE  threads'[clicks] = Timer
    <3>1. attrs.status \in Passing /\ OnSync(clicks, attrs.status)
      BY <2>1, <2>3 DEF Saved, Destroyed, Answered, Passing
    <3>2. threads \in [Threads -> ThreadStates]
      BY DEF MInv, TypeOK, ThreadStates
    <3> QED
      BY <3>1, <3>2 DEF OnSync
  <2> QED
    BY <2>2, <2>3
<1> QED
  BY <1>1, Invariance, PTL DEF Spec, LastClickDecides

LEMMA WatchedKept == MInv /\ PassingIsWatched /\ [Next]_vars => PassingIsWatched'
<1> SUFFICES ASSUME MInv, PassingIsWatched, [Next]_vars,
                    attrs'.status \in Passing, ~failed', ~gone'
             PROVE  \E i \in Threads : threads'[i] # Idle
  BY DEF PassingIsWatched
<1>1. threads \in [Threads -> ThreadStates] /\ clicks \in 0 .. MaxActs /\ others \in 0 .. MaxActs
  BY DEF MInv, TypeOK, ThreadStates
<1>2. CASE User
  <2>1. PICK verb : Send(verb)
    BY <1>2 DEF User, Remove, Install, Cancel
  <2>2. clicks + 1 \in Threads
    BY <1>1, <2>1, SnapModelAssumption DEF Send, Threads
  <2>3. threads'[clicks + 1] = Sent(verb)
    BY <1>1, <2>1, <2>2 DEF Send
  <2> QED
    BY <2>2, <2>3 DEF Sent, Idle
<1>3. ASSUME NEW i \in Threads, Fetched(i)
      PROVE  \E j \in Threads : threads'[j] # Idle
  <2>1. threads'[i] = Timer
    BY <1>1, <1>3, FetchedMInv DEF Fetched, OnSync
  <2> QED
    BY <2>1 DEF Timer, Idle
<1>4. ASSUME NEW i \in Threads, Saved(i) \/ Destroyed(i)
      PROVE  \E j \in Threads : threads'[j] # Idle
  <2>1. attrs' = attrs
    BY <1>4, SavedMInv DEF Destroyed, modelVars
  <2>2. threads'[i] = Timer
    BY <1>1, <1>4, <2>1 DEF Saved, Destroyed, OnSync
  <2> QED
    BY <2>2 DEF Timer, Idle
<1>5. ASSUME NEW i \in Threads, Poll(i)
      PROVE  \E j \in Threads : threads'[j] # Idle
  <2>1. threads'[i] = Sent("GET")
    BY <1>1, <1>5 DEF Poll
  <2> QED
    BY <2>1 DEF Sent, Idle
<1>6. ASSUME NEW i \in Threads, FetchedRemoved(i) \/ FetchFailed(i) \/ Refused(i)
      PROVE  FALSE
  BY <1>6 DEF FetchedRemoved, FetchFailed, Refused, OnError
<1>7. ASSUME attrs' = attrs, UNCHANGED <<failed, gone>>,
             \A i \in Threads : threads[i] # Idle => threads'[i] # Idle
      PROVE  \E j \in Threads : threads'[j] # Idle
  BY <1>7 DEF PassingIsWatched
<1>8. CASE ShowPage
  BY <1>7, <1>8 DEF ShowPage, SetOther, Set
<1>9. CASE UpdateInstalledStates
  <2>1. WithStatus(attrs, "installed").status = "installed"
    BY DEF WithStatus
  <2>2. attrs' = attrs
    BY <1>9, <2>1 DEF UpdateInstalledStates, Passing
  <2> QED
    BY <1>7, <1>9, <2>2 DEF UpdateInstalledStates
<1>10. CASE Server /\ UNCHANGED pageVars
  <2>1. \A i \in Threads : threads[i] # Idle => threads'[i] # Idle
    <3>1. ASSUME NEW j \in Threads, NEW a, Reply(j, a)
          PROVE  \A i \in Threads : threads[i] # Idle => threads'[i] # Idle
      BY <1>1, <3>1 DEF Reply, Idle, ThreadStates
    <3> QED
      BY <1>10, <3>1
         DEF Server, Serve, ServeGet, ServeStart, ServeCancel, ServeList, Complete, OtherClient
  <2> QED
    BY <1>7, <1>10, <2>1 DEF pageVars, modelVars
<1>11. CASE UNCHANGED vars
  BY <1>7, <1>11 DEF vars, modelVars
<1> QED
  BY <1>2, <1>3, <1>4, <1>5, <1>6, <1>8, <1>9, <1>10, <1>11 DEF Next, Callback

\* A snap that is shown in a passing status is being asked about, unless an
\* error ended the asking or the snap is said to be gone (the 'add sync'
\* handler of snap.js).
THEOREM Watched == Spec => []PassingIsWatched
<1>1. Init => PassingIsWatched
  <2> SUFFICES ASSUME Init, attrs.status \in Passing PROVE \E i \in Threads : threads[i] # Idle
    BY DEF PassingIsWatched
  <2>1. 0 \in Threads
    BY SnapModelAssumption DEF Threads
  <2>2. page = "card" => threads[0] = Timer
    BY <2>1 DEF Init
  <2>3. page = "loading" => threads[0] = Sent("GET")
    BY <2>1 DEF Init
  <2>4. threads[0] # Idle
    BY <2>2, <2>3 DEF Init, Timer, Sent, Idle
  <2> QED
    BY <2>1, <2>4
<1> QED
  BY <1>1, WatchedKept, Invariance, PTL DEF Spec

=============================================================================
