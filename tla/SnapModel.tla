----------------------------- MODULE SnapModel ------------------------------
(***************************************************************************)
(* The Snap model of the web pages (www/src/js/models/snap.js), the clicks *)
(* on its button (common/snaps.js), what the details page makes of it      *)
(* (views/snap-details.js, components/installer.js), the requests it has   *)
(* in flight, and the packages API as it sees it.  JavaScript runs one     *)
(* callback at a time, so a step is one callback; the answers of requests  *)
(* come in any order.                                                      *)
(*                                                                         *)
(* A thread of requests starts with the first fetch or with a click.  An   *)
(* answer that finds the snap in a passing status arms one timer, and the  *)
(* timer sends one GET: a thread is never in more than one of these.       *)
(***************************************************************************)
EXTENDS Naturals

CONSTANT MaxActs      \* clicks on this page and operations other clients start (a bound)

ASSUME SnapModelAssumption == MaxActs \in Nat

VARIABLES attrs,   \* the model's attributes that the page shows
          prev,    \* the model's _previousAttributes
          view,    \* the state of the details view, from change events
          threads, \* what each thread of requests is at
          page,    \* what the user looks at
          bask,    \* the query of updateInstalledStates
          failed,  \* whether an error ended a request since the last click
          gone,    \* whether snap:removed was sent
          clicks,  \* clicks so far
          restore, \* history: the status before the last click, if nothing set it since
          srv,     \* what the packages API would answer about the snap
          others   \* operations other clients have started

serverVars == <<srv, others>>
modelVars == <<attrs, prev, view>>
vars == <<modelVars, threads, page, bask, failed, gone, clicks, restore, serverVars>>

Passing == {"installing", "uninstalling", "enabling", "disabling"}
Resting == {"installed", "active", "uninstalled"}
Status  == Passing \cup Resting \cup {"cancel", "none"}
Threads == 0 .. MaxActs

Idle == [at |-> "idle", verb |-> "GET", answer |-> "none"]
Timer == [at |-> "timer", verb |-> "GET", answer |-> "none"]
Sent(v) == [at |-> "sent", verb |-> v, answer |-> "none"]

\* The label of the button, setInstallActionString; "none" hides the button.
Label(s) == CASE s \in {"active", "installed"} -> "Remove"
              [] s = "installing"   -> "Installing"
              [] s = "uninstalled"  -> "Install"
              [] s = "uninstalling" -> "Removing"
              [] OTHER -> "none"

\* installHTMLClass and the class of the details view: the button is thinking.
Thinking == {"installing", "uninstalling"}

\* The task of a running operation: whether it has a text (task_summary) and how
\* far it is (download_progress), which an answer that does not know leaves out.
Attributes == [status: Status, label: {"Remove", "Installing", "Install", "Removing", "none"},
               text: BOOLEAN, progress: {"unset", "zero", "some"}]

Blank == [status |-> "none", text |-> FALSE, progress |-> "zero"]

TypeOK ==
    /\ attrs \in Attributes /\ prev \in Attributes
    /\ view \in [status: Status, text: BOOLEAN, progress: {"zero", "some"}]
    /\ threads \in [Threads -> [at: {"idle", "timer", "sent", "answered"},
                                verb: {"GET", "PUT", "DELETE", "POST"},
                                answer: Status \cup {"202", "500", "404"}]]
    /\ page \in {"loading", "loaded", "shown", "card", "left"}
    /\ bask \in {"none", "sent", "listed", "unlisted"}
    /\ {failed, gone} \subseteq BOOLEAN
    /\ clicks \in 0 .. MaxActs /\ others \in 0 .. MaxActs
    /\ restore \in Status
    /\ srv \in Passing \cup Resting

-----------------------------------------------------------------------------

New == [status |-> "none", label |-> "none", text |-> FALSE, progress |-> "unset"]

\* A variant that leaves the task alone.
WithLabel(a, s) == IF s = a.status THEN a ELSE [a EXCEPT !.status = s, !.label = Label(s)]

\* onStatusChange, the handler of change:status: the label is kept in step, and
\* no task is left where no operation runs.
WithStatus(a, s) ==
    IF s = a.status THEN a
    ELSE [status |-> s, label |-> Label(s), text |-> a.text /\ s \in Passing,
          progress |-> IF s \in Passing THEN a.progress ELSE "zero"]

\* The details page fetches its snap; a card of the store comes with a status.
Init ==
    /\ srv \in Passing \cup Resting /\ others = 0
    /\ \/ /\ page = "loading" /\ bask = "none"
          /\ attrs = New
          /\ threads = [i \in Threads |-> IF i = 0 THEN Sent("GET") ELSE Idle]
       \/ /\ page = "card" /\ bask = "sent"
          /\ \E s \in Passing \cup Resting : attrs = WithStatus(New, s)
          /\ threads = [i \in Threads |->
                          IF i = 0 /\ attrs.status \in Passing THEN Timer ELSE Idle]
    /\ prev = attrs /\ view = Blank
    /\ failed = FALSE /\ gone = FALSE
    /\ clicks = 0 /\ restore = "none"

\* The details view hears of what changes while it is shown.
Hears(new) ==
    IF page # "shown" THEN view
    ELSE [status   |-> IF new.status # attrs.status THEN new.status ELSE view.status,
          text     |-> IF new.text # attrs.text THEN new.text ELSE view.text,
          progress |-> IF new.progress # attrs.progress THEN new.progress ELSE view.progress]

\* Model.set from outside a set: it remembers what was there.
Set(new) == attrs' = new /\ prev' = attrs /\ view' = Hears(new)

SetStatus(s) == Set(WithStatus(attrs, s))

\* An error handler that leaves the attributes as they are.
SetNothing == UNCHANGED modelVars

\* set(previousAttributes()): what was not there is left alone.
SetPrevious ==
    IF prev.status = "none" THEN Set([attrs EXCEPT !.label = prev.label])
    ELSE LET was == [prev EXCEPT !.progress = IF @ = "unset" THEN attrs.progress ELSE @]
         IN  Set(IF was.status = attrs.status THEN was
                 ELSE WithStatus([was EXCEPT !.status = attrs.status], was.status))

SetOther == Set(attrs)

-----------------------------------------------------------------------------
(* handleInstallEvent, on the button of the page.                          *)

Send(verb) ==
    /\ clicks + others < MaxActs
    /\ clicks' = clicks + 1
    /\ threads' = [threads EXCEPT ![clicks + 1] = Sent(verb)]
    /\ restore' = attrs.status
    /\ failed' = FALSE /\ gone' = FALSE
    /\ UNCHANGED <<bask, serverVars>>

Remove ==
    /\ page \in {"shown", "card"}
    /\ attrs.status \in {"installed", "active"}
    /\ SetStatus("uninstalling")
    /\ Send("DELETE")
    /\ page' = IF page = "card" THEN "left" ELSE page   \* destroy takes the card away

Install ==
    /\ page \in {"shown", "card"}
    /\ attrs.status = "uninstalled"
    /\ SetStatus("installing")
    /\ Send("PUT")
    /\ UNCHANGED page

Cancel ==
    /\ page \in {"shown", "card"}
    /\ attrs.status = "installing"
    /\ SetStatus("cancel")
    /\ Send("POST")
    /\ UNCHANGED page

-----------------------------------------------------------------------------
(* The handlers of snap.js.                                                *)

\* A 'sync' handler that knows of two passing statuses only.
OnSyncForgets(i, s) ==
    threads' = [threads EXCEPT ![i] = IF s \in {"installing", "uninstalling"} THEN Timer ELSE Idle]

\* A 'sync' handler that polls whatever the status.
OnSyncAlways(i, s) == threads' = [threads EXCEPT ![i] = Timer]

\* 'sync': a passing status is asked for again after INSTALL_POLL_WAIT.
OnSync(i, s) == threads' = [threads EXCEPT ![i] = IF s \in Passing THEN Timer ELSE Idle]

\* 'error': the attributes go back and nothing is asked again.  The user would be
\* told, but alert:error ends in an exception: the layout has no such region.
OnError(i) ==
    /\ SetPrevious
    /\ threads' = [threads EXCEPT ![i] = Idle]
    /\ failed' = TRUE
    /\ restore' = "none"

Poll(i) ==
    /\ threads[i] = Timer
    /\ threads' = [threads EXCEPT ![i] = Sent("GET")]
    /\ UNCHANGED <<modelVars, page, bask, failed, gone, clicks, restore, serverVars>>

Answered(i, verb) == threads[i].at = "answered" /\ threads[i].verb = verb

\* Whether an answer knows the task, its text and how far it is (one comes with
\* the other: a bound); a card shows neither (a bound).
KnowsTask(s) == IF s \in Passing /\ page # "card" THEN BOOLEAN ELSE {FALSE}

SetFetched(s) ==
    \E task \in KnowsTask(s) :
        Set(WithStatus([attrs EXCEPT !.text = task, !.progress = IF task THEN "some" ELSE @], s))

\* A fetch that takes whatever comes back for the state of a snap.
FetchedAnything(i) ==
    /\ Answered(i, "GET")
    /\ SetFetched(threads[i].answer)
    /\ OnSync(i, threads[i].answer)
    /\ page' = IF page = "loading" THEN "loaded" ELSE page
    /\ restore' = "none"
    /\ UNCHANGED <<bask, failed, gone, clicks, serverVars>>

\* parse turns state.status into the status; set comes before 'sync'.
Fetched(i) ==
    /\ Answered(i, "GET")
    /\ LET s == threads[i].answer IN
         /\ s \in Status
         /\ SetFetched(s)
         /\ OnSync(i, s)
    /\ page' = IF page = "loading" THEN "loaded" ELSE page
    /\ restore' = "none"
    /\ UNCHANGED <<bask, failed, gone, clicks, serverVars>>

\* A 404 about a snap that is being removed: it had no equivalent in the store.
FetchedRemoved(i) ==
    /\ Answered(i, "GET") /\ threads[i].answer = "404"
    /\ attrs.status = "uninstalling"
    /\ gone' = TRUE
    /\ threads' = [threads EXCEPT ![i] = Idle]
    /\ UNCHANGED <<modelVars, page, bask, failed, clicks, restore, serverVars>>

FetchFailed(i) ==
    /\ Answered(i, "GET") /\ threads[i].answer \in {"404", "500"}
    /\ ~(threads[i].answer = "404" /\ attrs.status = "uninstalling")
    /\ OnError(i)
    /\ UNCHANGED <<page, bask, gone, clicks, serverVars>>

\* The answer of a save has no state: parse leaves the status out of it, and
\* setting the rest of it moves the previous attributes on.
Saved(i) ==
    /\ threads[i].verb \in {"PUT", "POST"} /\ Answered(i, threads[i].verb)
    /\ threads[i].answer = "202"
    /\ SetOther
    /\ OnSync(i, attrs.status)
    /\ restore' = "none"
    /\ UNCHANGED <<page, bask, failed, gone, clicks, serverVars>>

\* destroy does not set the answer.
Destroyed(i) ==
    /\ Answered(i, "DELETE") /\ threads[i].answer = "202"
    /\ OnSync(i, attrs.status)
    /\ restore' = IF i = clicks THEN "none" ELSE restore
    /\ UNCHANGED <<modelVars, page, bask, failed, gone, clicks, serverVars>>

Refused(i) ==
    /\ threads[i].verb # "GET" /\ Answered(i, threads[i].verb)
    /\ threads[i].answer = "500"
    /\ OnError(i)
    /\ UNCHANGED <<page, bask, gone, clicks, serverVars>>

-----------------------------------------------------------------------------
(* What else sets the model.                                               *)

\* showSnapView sets the size, once the device's interfaces are there too.
ShowPage ==
    /\ page = "loaded"
    /\ page' = "shown"
    /\ SetOther
    /\ UNCHANGED <<threads, bask, failed, gone, clicks, restore, serverVars>>

\* updateInstalledStates, when the installed snaps were listed after the cards:
\* it sets the status, then the icon.
UpdateInstalledStates ==
    /\ bask \in {"listed", "unlisted"}
    /\ bask' = "none"
    /\ IF bask = "unlisted" THEN UNCHANGED <<attrs, prev, restore>>
       ELSE attrs' = WithStatus(attrs, "installed") /\ prev' = attrs' /\ restore' = "none"
    /\ UNCHANGED view
    /\ UNCHANGED <<threads, page, failed, gone, clicks, serverVars>>

-----------------------------------------------------------------------------
(* The packages API, one request at a time: handlers.go and converge.go.   *)

Reply(i, a) == threads' = [threads EXCEPT ![i].at = "answered", ![i].answer = a]
Asked(i, verb) == threads[i].at = "sent" /\ threads[i].verb = verb
Before(op) == IF op = "installing" THEN {"uninstalled"} ELSE {"installed", "active"}
After(op) == CASE op = "installing" \/ op = "enabling" -> "active"
               [] op = "uninstalling" -> "uninstalled"
               [] op = "disabling" -> "installed"

\* A lookup can always fail; a local snap that is gone is not in the store.
ServeGet(i) ==
    /\ Asked(i, "GET")
    /\ \E a \in {srv, "404", "500"} : Reply(i, a)
    /\ UNCHANGED srv

\* An operation is started, or refused; one that was refused may be shown as
\* running all the same.
ServeStart(i, verb, op) ==
    /\ Asked(i, verb)
    /\ \/ srv \in Before(op) /\ srv' = op /\ Reply(i, "202")
       \/ srv' \in {srv, op} /\ Reply(i, "500")

\* The running operation is aborted; with none running there is an error.
ServeCancel(i) ==
    /\ Asked(i, "POST")
    /\ \/ srv \in Passing /\ srv' \in Before(srv) /\ Reply(i, "202")
       \/ srv' = srv /\ Reply(i, "500")

ServeList ==
    /\ bask = "sent"
    /\ bask' \in IF srv \in {"uninstalled", "installing"} THEN {"unlisted"}
                                                          ELSE {"listed", "none"}
    /\ UNCHANGED <<srv, threads>>

Serve(i) == ServeGet(i) \/ ServeStart(i, "PUT", "installing")
            \/ ServeStart(i, "DELETE", "uninstalling") \/ ServeCancel(i)

\* An operation ends, as it should or undone.
Complete == srv \in Passing /\ srv' \in {After(srv)} \cup Before(srv)

OtherClient ==
    /\ clicks + others < MaxActs
    /\ others' = others + 1
    /\ \E op \in Passing : srv \in Before(op) /\ srv' = op

pageVars == <<modelVars, page, failed, gone, clicks, restore>>

Server ==
    \/ \E i \in Threads : Serve(i) /\ UNCHANGED <<bask, others>>
    \/ ServeList /\ UNCHANGED others
    \/ Complete /\ UNCHANGED <<threads, bask, others>>
    \/ OtherClient /\ UNCHANGED <<threads, bask>>

-----------------------------------------------------------------------------

Callback(i) == Poll(i) \/ Fetched(i) \/ FetchedRemoved(i) \/ FetchFailed(i)
               \/ Saved(i) \/ Destroyed(i) \/ Refused(i)

User == Remove \/ Install \/ Cancel

Next ==
    \/ User \/ ShowPage \/ UpdateInstalledStates
    \/ \E i \in Threads : Callback(i)
    \/ Server /\ UNCHANGED pageVars

Spec == Init /\ [][Next]_vars

\* Some timer fires, or some request is answered (a browser gives up otherwise),
\* and an operation is not shown as running forever (StateTracker's goroutines).
Fairness ==
    /\ WF_vars(\E i \in Threads : Callback(i))
    /\ WF_vars((\E i \in Threads : Serve(i)) /\ UNCHANGED <<bask, others, pageVars>>)
    /\ WF_vars(Complete /\ UNCHANGED <<threads, bask, others, pageVars>>)

FairSpec == Spec /\ Fairness

-----------------------------------------------------------------------------
(* Properties.                                                             *)

\* A snap that is in a passing status is being asked about, unless an error has
\* ended the asking or the snap is said to be gone: no page is left waiting for
\* nobody (the 'add sync' handler of snap.js).
PassingIsWatched ==
    attrs.status \in Passing /\ ~failed /\ ~gone =>
        \E i \in Threads : threads[i] # Idle

\* What the page draws of an operation is of the operation the snap is in,
\* whatever was restored, reset or answered before: the button does what it
\* says, and neither a task's text nor a bar nor a thinking button outlives its
\* operation (onStatusChange, the view's handlers, handleInstallEvent).
ShownFitsStatus ==
    /\ attrs.label # "none" => attrs.label = Label(attrs.status)
    /\ view.text \/ attrs.text => attrs.status \in Passing
    /\ view.progress = "some" => attrs.status \in Passing
    /\ view.status \in Thinking => view.status = attrs.status

\* The last click is decided by its own answer, whatever else is in flight: it is
\* undone if it is refused, and polled for if it was accepted as an installation
\* or a removal.  Only what sets the model before that can take it away: another
\* answer or error, or the list of the installed snaps (the 'error' and the 'sync'
\* handlers of snap.js, which look at the model and not at the request).
LastClickDecides ==
    [][\A i \in Threads : restore # "none" /\ i = clicks =>
          /\ Refused(i) => attrs'.status = restore
          /\ (Saved(i) /\ threads[i].verb = "PUT") \/ Destroyed(i) => threads'[i] = Timer]_vars

\* With no more clicks the polling comes to an end, whatever is answered in
\* which order; with PassingIsWatched, no passing status is shown forever but
\* after an error.
PollingStops == <>[](\A i \in Threads : threads[i] = Idle)

-----------------------------------------------------------------------------
(* What the documentation says and the code does not keep *)

\* "should poll fetch on save() HTTP 202 until HTTP 200" (modelSpec.js): after
\* an installation is accepted a GET is about to be sent.
AcceptedSaveIsPolled ==
    [][\A i \in Threads : Saved(i) /\ threads[i].verb = "PUT" => threads'[i] = Timer]_vars

\* "should set installActionString from model state" (modelSpec.js): the label
\* of a page that is shown is that of the status.
LabelFitsStatus == page \in {"shown", "card"} => attrs.label = Label(attrs.status)

\* "download_progress" (snap-details.js:112): an installation whose progress is
\* known is shown with a bar.  The view of a page that was opened meanwhile
\* waits for a change of the status.
ProgressIsShown ==
    page = "shown" /\ attrs.status = "installing" /\ attrs.progress = "some"
        => view.status = "installing" /\ view.progress = "some"

=============================================================================
