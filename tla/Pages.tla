------------------------------- MODULE Pages --------------------------------
(***************************************************************************)
(* The pages of one browser tab (www/src/js/routers, controllers, views):  *)
(* the session history, the layout that each visit of a page mounts, the   *)
(* requests its controller sends, what the answers draw, and the access    *)
(* token that the cookie SM holds.                                         *)
(*                                                                         *)
(* A step is one callback.  Requests are answered in any order, also after *)
(* their page was left: a controller draws into whichever layout is        *)
(* mounted then.                                                           *)
(***************************************************************************)
EXTENDS Naturals, Sequences

CONSTANT MaxActs   \* what users and administrators do (a bound)

ASSUME PagesAssumption == MaxActs \in Nat

VARIABLES hist,      \* the entries of the document's session history
          pos,       \* the one that is shown
          visits,    \* the pages whose layouts were mounted, the last one is
          flight,    \* the requests that are not answered yet
          ok,        \* the answers that a page has and waits with for others
          content,   \* the visit that drew what is shown, and how far it is
          granted,   \* the cookie holds what is in the token file
          acts,
          outlived,  \* history: visits that were left with requests in flight
          failed,    \* history: visits stopped by an error, or by a token replaced meanwhile
          entered    \* history: let in, with no reason to be asked again

tab == <<hist, pos, visits, flight, ok, content>>
vars == <<tab, granted, acts, outlived, failed, entered>>

\* store stands for its sections, for the private snaps and for a search too;
\* any other path is redirected to home.
Page == {"home", "store", "settings", "snap", "access-control"}

\* What the controller of a page asks for at once.
HomeAsks == {"tracked", "installed"}
StoreAsks == {"list", "sections"}
SettingsAsks == {"device-info"}
SnapAsksAlone == {"snap"}   \* a variant without the device's interfaces
SnapAsks == {"snap", "device-info"}
Asks(p) == CASE p = "home"           -> HomeAsks
             [] p = "store"          -> StoreAsks
             [] p = "settings"       -> SettingsAsks
             [] p = "snap"           -> SnapAsks
             [] p = "access-control" -> {}

Ask == (UNION {Asks(p) : p \in Page}) \cup {"states", "click", "validate"}

\* Pages that are drawn when all is there; the others are drawn at once.
Waits == {"home", "snap"}

visit == Len(visits)
Url   == hist[pos]
Stages == {"loading", "ready", "empty", "invalid"}
Blank == [visit |-> 0, stage |-> "loading"]
Shown == IF content = Blank THEN "nothing" ELSE visits[content.visit]

\* A request: whether it carries the token, and whether that was replaced
\* since, when nobody knows which of the two came first.
Request(v, a) == [visit |-> v, ask |-> a, valid |-> IF granted' THEN "yes" ELSE "no"]

TypeOK ==
    /\ hist \in Seq(Page) /\ pos \in 1 .. Len(hist)
    /\ visits \in Seq(Page) /\ visits # <<>> /\ visits[visit] = Url
    /\ flight \subseteq [visit: 1 .. visit, ask: Ask, valid: {"yes", "maybe", "no"}]
    /\ ok \subseteq (1 .. visit) \X Ask
    /\ content \in [visit: 0 .. visit, stage: Stages]
    /\ {granted, entered} \subseteq BOOLEAN
    /\ acts \in 0 .. MaxActs
    /\ outlived \cup failed \subseteq 1 .. visit

-----------------------------------------------------------------------------
(* Mounting a page                                                         *)

Requests(v, p) == {Request(v, a) : a \in Asks(p)}
StoreDrawn(v) == [visit |-> v, stage |-> "loading"]
SettingsDrawn(v) == [visit |-> v, stage |-> "loading"]
TokenDrawn(v) == [visit |-> v, stage |-> "ready"]
FirstDrawn(v, p) == CASE p \in Waits           -> Blank
                      [] p = "store"          -> StoreDrawn(v)
                      [] p = "settings"       -> SettingsDrawn(v)
                      [] p = "access-control" -> TokenDrawn(v)

\* A new document: whatever was in flight is dropped.
Document(p) ==
    /\ hist' = <<p>> /\ pos' = 1 /\ visits' = <<p>>
    /\ flight' = Requests(1, p)
    /\ ok' = {} /\ content' = FirstDrawn(1, p)
    /\ outlived' = {} /\ failed' = {}

\* A variant that keeps the layout until the page has something to draw.
VisitKeepsLayout(p, rest) ==
    /\ visits' = Append(visits, p)
    /\ flight' = rest \cup Requests(visit + 1, p)
    /\ outlived' = IF \E q \in rest : q.visit = visit /\ q.ask \in Asks(Url)
                     THEN outlived \cup {visit} ELSE outlived
    /\ content' = IF p \in Waits THEN content ELSE FirstDrawn(visit + 1, p)
    /\ UNCHANGED ok

\* Another route within the document: its layout takes the place of the old
\* one, and the controller's method runs.  What is in flight stays.
Visit(p, rest) ==
    /\ visits' = Append(visits, p)
    /\ flight' = rest \cup Requests(visit + 1, p)
    /\ content' = FirstDrawn(visit + 1, p)
    /\ outlived' = IF \E q \in rest : q.visit = visit /\ q.ask \in Asks(Url)
                     THEN outlived \cup {visit} ELSE outlived
    /\ UNCHANGED ok

\* A variant that keeps the entries ahead of the one that is shown.
PushKeepsForward(p, rest) ==
    IF p = Url
      THEN flight' = rest /\ UNCHANGED <<hist, pos, visits, ok, content, outlived>>
      ELSE /\ hist' = Append(hist, p) /\ pos' = pos + 1
           /\ Visit(p, rest)

\* browserHistory.push: the path that is shown already is not visited again.
Push(p, rest) ==
    IF p = Url
      THEN flight' = rest /\ UNCHANGED <<hist, pos, visits, ok, content, outlived>>
      ELSE /\ hist' = Append(SubSeq(hist, 1, pos), p) /\ pos' = pos + 1
           /\ Visit(p, rest)

Init ==
    /\ \E p \in Page :
         /\ hist = <<p>> /\ visits = <<p>>
         /\ granted \in BOOLEAN
         /\ flight = {[visit |-> 1, ask |-> a, valid |-> IF granted THEN "yes" ELSE "no"] :
                        a \in Asks(p)}
         /\ content = FirstDrawn(1, p)
    /\ pos = 1 /\ ok = {} /\ acts = 0
    /\ outlived = {} /\ failed = {} /\ entered = FALSE

-----------------------------------------------------------------------------
(* Users and administrators                                                *)

Act == acts < MaxActs /\ acts' = acts + 1

\* A link, of the banner or a card of the store, or an address.
Load(p) ==
    /\ Act
    /\ UNCHANGED <<granted, entered>>
    /\ Document(p)

\* handleSnapClick, on a card of the home page.
ClickCard ==
    /\ Act /\ Shown = "home"
    /\ UNCHANGED <<granted, entered, failed>>
    /\ \E p \in {"snap", "store"} : Push(p, flight)

Traverse(to) ==
    /\ Act /\ to \in 1 .. Len(hist)
    /\ UNCHANGED <<granted, entered, failed, hist>>
    /\ pos' = to
    /\ Visit(hist[to], flight)

Back == Traverse(pos - 1)
Forward == Traverse(pos + 1)

\* The store shows cards once it has the list; none stand for a failed one.
Cards == Shown = "store" /\ content.stage = "ready"

\* A button of a snap: the request of its model.
ClickSnap ==
    /\ Act /\ (Shown = "snap" \/ Cards)
    /\ UNCHANGED <<granted, entered>>
    /\ flight' = flight \cup {Request(content.visit, "click")}
    /\ UNCHANGED <<hist, pos, visits, ok, content, outlived, failed>>

\* handleSubmit, with the token or anything else: the cookie is set first.
Submit(right) ==
    /\ Act /\ Shown = "access-control"
    /\ granted' = right
    /\ entered' = (entered /\ right)
    /\ flight' = flight \cup {Request(content.visit, "validate")}
    /\ UNCHANGED <<hist, pos, visits, ok, content, outlived, failed>>

\* generate-token writes another token.
Generate ==
    /\ Act
    /\ granted' = FALSE /\ entered' = FALSE
    /\ flight' = {[q EXCEPT !.valid = IF @ = "yes" THEN "maybe" ELSE @] : q \in flight}
    /\ UNCHANGED <<hist, pos, visits, ok, content, outlived, failed>>

-----------------------------------------------------------------------------
(* Answers                                                                 *)

\* SimpleCookieCheck, or any other error: of snapd, or of the network.
Outcomes(q) == {"500"} \cup (IF q.valid # "no"  THEN {"200"} ELSE {})
                       \cup (IF q.valid # "yes" THEN {"401"} ELSE {})

\* Requests of a Snap: the handler of their errors ends in an exception, as no
\* layout has an element for the region of the alert, and ajaxError is not sent.
OfSnap == {"snap", "click"}

Stage(q, s) == content' = IF content.visit = q.visit THEN [content EXCEPT !.stage = s] ELSE content

\* A variant that stays in the document.
AccessGrantedInDocument(q) ==
    /\ q.ask = "validate"
    /\ UNCHANGED <<granted, failed>>
    /\ Push("home", flight \ {q})
    /\ entered' = granted

\* window.location: a new document, at the store when plain HTTP is served.
AccessGranted(q) ==
    /\ q.ask = "validate"
    /\ UNCHANGED granted
    /\ \E p \in {"home", "store"} : Document(p)
    /\ entered' = granted

\* $.when: all of a page is there, and it is drawn, wherever the user is.
Gathered(q) ==
    /\ q.ask \in Asks(visits[q.visit]) /\ visits[q.visit] \in Waits
    /\ ok' = ok \cup {<<q.visit, q.ask>>}
    /\ content' = IF \A a \in Asks(visits[q.visit]) : <<q.visit, a>> \in ok'
                    THEN [visit |-> q.visit, stage |-> "ready"] ELSE content
    /\ flight' = flight \ {q}
    /\ UNCHANGED <<hist, pos, visits, granted, entered, outlived, failed>>

\* A variant whose spinner goes when there is a list.
ListedWhenDone(q, a) ==
    /\ q.ask = "list" /\ (a = "401" => Url = "access-control")
    /\ UNCHANGED <<hist, pos, visits, granted, entered, ok, outlived, failed>>
    /\ flight' = (flight \ {q}) \cup (IF a = "200" THEN {Request(q.visit, "states")} ELSE {})
    /\ IF a = "200" THEN Stage(q, "ready") ELSE UNCHANGED content

\* always: the spinner of the store goes; done: the installed snaps are asked for.
Listed(q, a) ==
    /\ q.ask = "list" /\ (a = "401" => Url = "access-control")
    /\ UNCHANGED <<hist, pos, visits, granted, entered, ok, outlived, failed>>
    /\ flight' = (flight \ {q}) \cup (IF a = "200" THEN {Request(q.visit, "states")} ELSE {})
    /\ Stage(q, IF a = "200" THEN "ready" ELSE "empty")

\* Done: the sections are shown, and remembered for the next visit; the other
\* answers change models that are shown already.
Taken(q) ==
    /\ q.ask \in {"sections", "states", "click"}
    /\ flight' = flight \ {q}
    /\ UNCHANGED <<hist, pos, visits, content, granted, entered, ok, outlived, failed>>

\* The device pane shows what it has been told.
DeviceInfoTaken(q) ==
    /\ q.ask = "device-info" /\ visits[q.visit] = "settings"
    /\ flight' = flight \ {q}
    /\ Stage(q, "ready")
    /\ UNCHANGED <<hist, pos, visits, granted, entered, ok, outlived, failed>>

\* ajaxError: who is refused is asked for the token, unless that is what he sees.
Unauthorized(q) ==
    /\ q.ask \notin OfSnap /\ Url # "access-control"
    /\ UNCHANGED <<granted, entered, failed>>
    /\ Push("access-control", flight \ {q})

\* The page of the token says that it is invalid.
Invalid(q, a) ==
    /\ q.ask = "validate" /\ (a = "500" \/ Url = "access-control")
    /\ flight' = flight \ {q}
    /\ Stage(q, "invalid")
    /\ UNCHANGED <<hist, pos, visits, granted, entered, ok, outlived, failed>>

\* Any other error ends with its request.  That the token was missing from the
\* start is no excuse for the page.
Failed(q, a) ==
    /\ q.ask \notin {"list", "validate"}
    /\ a = "500" \/ q.ask \in OfSnap \/ Url = "access-control"
    /\ flight' = flight \ {q}
    /\ failed' = IF a = "401" /\ q.valid = "no" THEN failed ELSE failed \cup {q.visit}
    /\ UNCHANGED <<hist, pos, visits, granted, entered, ok, content, outlived>>

Answer(q) ==
    /\ \E a \in Outcomes(q) :
         \/ a = "200" /\ (AccessGranted(q) \/ Gathered(q) \/ Taken(q) \/ DeviceInfoTaken(q))
         \/ Listed(q, a)
         \/ a = "401" /\ Unauthorized(q)
         \/ a \in {"401", "500"} /\ (Invalid(q, a) \/ Failed(q, a))
    /\ UNCHANGED acts

User ==
    \/ \E p \in Page : Load(p)
    \/ ClickCard \/ Back \/ Forward \/ ClickSnap
    \/ \E right \in BOOLEAN : Submit(right)

Next == User \/ Generate \/ (\E q \in flight : Answer(q))

Spec == Init /\ [][Next]_vars

\* A browser answers every request, if with an error.
FairSpec == Spec /\ WF_vars(\E q \in flight : Answer(q))

-----------------------------------------------------------------------------
(* Properties                                                              *)

\* What is shown was drawn by the page that is visited, or by one that was left
\* before its requests were answered (setContent draws for whoever asks).
ForeignOnlyIfOutlived ==
    content = Blank \/ content.visit = visit \/ content.visit \in outlived

\* A page stays empty only after an error, or when the token was replaced while
\* it waited: who comes without the token is not left there.  Of the requests of
\* a page that are refused one leads to the token (app.js), though that of a Snap
\* does not, in whichever order they are answered.
EmptyOnlyByError ==
    content = Blank /\ (\A q \in flight : q.visit # visit) => visit \in failed

\* Who was let in is not asked again until the token is replaced: no request
\* that will be refused survives the way in (handleSubmit's success).
LetInForGood == entered => \A q \in flight : q.valid = "yes"

Spinning == Shown = "store" /\ content.stage = "loading"

\* The store does not load forever, also when its list cannot be had.
SpinnerStops == Spinning ~> ~Spinning

-----------------------------------------------------------------------------
(* What one would expect and the code does not keep *)

\* The page that is shown is the one at the address.
ContentFitsUrl == content = Blank \/ Shown = Url

\* Who is refused is asked for the token.
RefusedIsAsked ==
    [][\A q \in flight : q.valid = "no" => ~(Failed(q, "401") /\ Url # "access-control")]_vars

=============================================================================
