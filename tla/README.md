# TLA+ models of snapweb

snapweb is the web front end of a device that runs snaps: a Go service that
serves a REST API and a Backbone/React application, and talks to `snapd` over
its socket.  This directory holds TLA+ models of it, the TLC runs that check
them on small instances, and the TLAPS proofs of what holds for every instance.

`PROJECT.json` lists the runs, for every definition the source lines it models,
the hazards of the code with the properties that watch them, the findings and
the theorems.  For each property there is also a mutant: a variant of one
mapped definition, defined next to it, under which TLC refutes the property.

    tlc -workers 2 -config SnapOps.cfg MCSnapOps.tla
    tlapm SnapOps_proofs.tla

## The system

| part | code | state it keeps | operations |
|---|---|---|---|
| state tracker | `statetracker/statetracker.go` | map from snap name to running operation, a mutex, one sleeping goroutine per tracked operation | TrackInstall, TrackUninstall, TrackEnable, TrackDisable, CancelTrackingFor, State, IsTrackedForRunningOperation, AllTrackedSnaps |
| packages API | `snappy/app/handlers.go`, `converge.go` | none of its own | GET of the lists and of a snap; PUT, DELETE, POST of a snap |
| snapd (external) | called through `snappy/snapdclient` | snaps, changes | Snap, List, Find, FindOne, Install, Remove, Enable, Disable, Change, Abort |
| icons | `snappy/app/icon.go` | files in `$SNAP_DATA/icons` | localIconPath, tryLocateCachedIconForSnap |
| address filter | `snappy/app/netfilter.go` | list of allowed networks, last accepted address | FilterHandler, IsAllowed, AddLocalNetworks, AllowNetwork |
| time settings, server | `cmd/snapweb/datetime.go`, `handlers.go` | systemd's `timesyncd.conf`; timedate1 over D-Bus | GET, PATCH of time-info |
| startup | `cmd/snapweb/main.go`, `cert.go`, `snappy/app/configuration.go`, `pkg/meta/hooks/configure` | `cert.pem`, `key.pem`, `settings.json` | ReadConfig, DumpCertificate, ListenAndServeTLS, the hook |
| access token | `cmd/generate-token`, `cmd/snapweb/handlers.go`, `www/src/js/views/submit-token.js` | the token file; the browser's cookie `SM` | writing it, setting the cookie, comparing them at every request |
| address publication | `avahi/avahi.go` | none | InitMDNS |
| snap model and pages | `www/src/js/models/snap.js`, `common/snaps.js`, `common/snaplists.js`, `views/snap-details.js`, `components/installer.js` | a Backbone model per snap: status, label, task, previous attributes, polls in progress; what the details view has heard of it | install, remove, cancel, poll, error, destroy |
| settings page | `www/src/js/views/settings.js`, `settings-time.js`, `settings-device.js`, `common/time.js` | the pane that is shown; a Backbone model of the time; a dialog | opening a pane, the source and server of the time, pickers of date, time and zone, restart and power-off |
| home page | `www/src/js/controllers/home.js`, `views/home.js`, `collections/snaplist.js` | two collections of snap models | fetching, polling, joining |
| layout, router, store, token page | `www/src/js/routers`, `controllers`, `views/layout.js`, `app.js` | the session history, the layout that is mounted, requests in flight | navigation, drawing what was answered, redirecting who is refused |

How they interact.  Every HTTP request runs in a goroutine of net/http, passes
the address filter, shows its cookie and reaches its handler; requests share the
filter, the tracker and the files, and only the tracker has a mutex, which not
all of its operations take.  An operation on a snap is a *change* in snapd,
which goes on by itself; the tracker remembers it under the snap's name until
somebody asks and snapd's answer shows it to be over, until it is cancelled, or
until the goroutine that trackOperation started wakes up, two minutes later.  A
payload is made from an answer of snapd and, later, from the tracker.  The pages
keep one model per snap; while its status is a passing one (installing, ...)
every answer starts a timer, and the timer a new GET.  All pages of a document
draw into the layout of the one that is visited.  Other clients use the same API.

Hard behaviour: requests that overlap in check-then-act sequences and unlocked
reads; calls of snapd that fail, or whose change was started although they
fail; goroutines that outlive what they were started for; restarts, which lose
the tracker and cut writes of files; answers that arrive in another order than
the clicks, or after their page was left; models that are set before a request
is answered; errors that restore older attributes, or whose handlers end in an
exception.

What makes each part correct:

* tracker and packages API: no entry without a goroutine that will drop it; an
  entry names the change it stands for; nobody is left waiting for the mutex;
  an answer says what snapd and the tracker said, of all snaps it was asked for;
  a request's mark never comes back once it is gone;
* snap model: a page in a passing status is being refreshed or has met an error;
  what is drawn of an operation is of the operation that runs; a refused click
  puts the page back; the polling ends;
* home page: what is on the device all the time is on the page;
* pages: what is shown belongs to the page that is visited; a page is drawn in
  the end, or asks for the token; who has given the token is not asked again;
* filter: who is served belongs to a network that is or was allowed; who
  belongs is served;
* time settings: the file is not lost; the pane shows what the device uses; what
  is picked is what is shown;
* startup: a certificate that was served stays; the service comes up again; the
  configured networks stay;
* icons: a file that is answered is whole, and is the icon it is named for.

## Modules

| module | models | composed of |
|---|---|---|
| `SnapStatus` | the statuses of snapd, tracker and payload and their conversions | |
| `Snapd` | snapd as the API uses it (external): snaps, changes, aborts, other clients | `SnapStatus` |
| `StateTracker` | the map, the mutex, the goroutines, the unlocked reads | `SnapStatus` |
| `SnapOps` | every route of the packages API, as the steps of its goroutine | `Snapd`, `StateTracker` |
| `OperationMarks` | what the tracker promises, abstractly: marks that are set once and dropped | |
| `SnapMarks` | the refinement mapping from `SnapOps` to `OperationMarks` | `SnapOps` |
| `SnapViews` | `SnapOps` with the history of what was true, what was answered and what came between | `SnapOps` |
| `Home` | the home page: two listings, the polls of their models, the joined page | `SnapOps` |
| `SnapOpsInv` | the inductive invariant of `SnapOps` | `SnapOps` |
| `SnapModel` | the Backbone model of a snap, the button, the details view, the API as that page sees it | |
| `Pages` | session history, visits, requests and what their answers draw; the access token | |
| `TimeInfo` | PATCH of time-info and `timesyncd.conf` | |
| `TimeZones` | the table of zones and the pick by offset | |
| `Settings` | the panes of the settings page, and the power buttons, in front of the service | `TimeInfo`, `TimeZones` |
| `NetFilter` | the address filter, one step per access to its shared fields | |
| `Startup` | a service that starts, is killed and starts again; the hook | |
| `Icons` | listings that look for icon files and write them | |
| `..._proofs` | the theorems about a module | |
| `MC...` | instances for TLC | |

### The packages API

`pc[r]` is where the goroutine of request `r` is: it moves from one call of
snapd, or one access to the tracker's map, to the next.  `Arrive` is the
dispatch of `MakeMuxer`; `query` the List or Find of a listing; `count` and
`names` the two unlocked reads of AllTrackedSnaps; `snap` and `findone` the
lookups of getSnap; `call` the Install, Remove, Enable or Disable; `check`,
`track`, `store` the parts of trackOperation's callers, of which only the last
holds the mutex; `abort` and `untrack` those of a cancel; `state` and `change`
those of State, which holds the mutex while it asks snapd for the change.  A
goroutine of trackOperation is `timers[r]`: the name it will drop.  It may wake
up at any time, since nothing relates two minutes to how long calls take.

Reads of the map without the mutex are data races.  While trackOperation writes
an entry, such a read sees the old entry, the new one, a mixture, or none;
iterating while the map shrinks leaves blank names, and while it grows runs
over the slice's end.  The Go runtime may also end the process with a fatal
error: that is `Restart`, which can happen at any moment anyway.

A snap's payload is abstracted to its status; names, sizes, prices and texts
are not in it.  Statuses of installed snaps are `installed` and `active`; those
of store snaps are a constant, `StoreStatus`.

### The pages

`SnapModel` has one *thread* per chain of requests: the first fetch and each
click start one; an answer either ends it or turns it into a timer and then a
GET.  Backbone's `previousAttributes()`, which the error handler restores, are
the variable `prev`: each `set` of anything moves them.  What the last click has
replaced is the history `restore`, until something else sets the model.  A restored attribute
that was not set before is left as it is.  The details view keeps a state of
its own (`view`), which follows change events from the moment it is shown.  The
API is what it looks like from the page: the snap's status, which a click,
another client or the end of an operation changes, refusals, and errors.  An
error is not shown: the region of the alert (`views/layout.js:56`) is looked for
under a class that no element of the layout has
(`components/backbone-layout.js`), so the handler ends in an exception after it
has restored the attributes.

`Home` adds the page's two listings to the requests of `SnapOps`, where they are
served like any others, and what it keeps of their answers.  A model in a
passing status polls, which may change it while the other listing is awaited.
Each list has a model of its own of a snap, and an answer changes the model that
asked (`asker`).  The page is drawn from copies of the models, which nothing
refreshes.

`Pages` is one tab.  A *visit* is a mounted layout; `flight` are the requests
that were sent and by which visit, `ok` the answers that a page holds while it
waits for another one, `content` the visit that drew what is shown.  A new
document drops what is in flight; another route in the same document does not,
and what is answered then is drawn into the layout that is mounted.  Each
request carries the cookie as it was when it was sent; if generate-token runs
meanwhile, either may come first.  `ajaxError` leads who is refused to the
page of the token, but for requests of a Snap, whose own error handler ends in
an exception before jQuery comes to it.  The page of a snap asks for the device's
interfaces as well, and it is that request which leads to the token.

`Settings` is the page in front of `TimeInfo`.  Opening the time pane makes a
new model and fetches it; each change sends a PATCH, sets the model without
waiting and does not look at the answer, which is empty and so an error to
jQuery.  A model that was not fetched yet is new to Backbone and is POSTed,
which the service refuses.  The answer of the fetch leaves out what is false or
empty, so it does not overwrite what was set meanwhile.  Restart and power-off
end the service, whatever its requests are at.

### Files

`TimeInfo`, `Startup` and `Icons` have the same shape: opening a file for
writing truncates it, writing it is a second step, and between the two there
can be a crash, an error, or another process.  A file that is empty or ends
early is `Broken` or `Torn`.  Two writers of one file leave the later text,
perhaps with the tail of a longer one.

`NetFilter` starts with one of the `Configurations` that settings.json may have:
the networks and the interfaces it names, every interface when it names
nothing, or no filter at all (`filtering`).  It splits an append to the shared
slice in its read and its write, and lets a read that races with a write panic
(net/http then cuts the connection).

## Runs

| run | instance | shows |
|---|---|---|
| `snap_ops` | two snaps, two requests of every kind | the inductive invariant of the proofs; no entry without its goroutine; entries, changes, mutex and answers fit; 202 means started; a listing loses none of what it found; cancel aborts nothing but changes of its snap |
| `snap_live` | one snap, two requests of every kind, fair | requests are answered, entries expire, and `SnapOps` implements `OperationMarks` |
| `timer_drops_own` | one snap, three requests | violated: the goroutine of an operation long over drops a later one's entry |
| `answer_was_true` | one snap, three requests | violated: a status is answered that was at no moment true |
| `home` | one snap, the page's requests, one of another client | what was installed is on the page; what else is missed changed between the two answers, or the listing broke off |
| `snap_model` | two acts of the user or other clients, fair | a passing page is watched unless an error ended that, what it draws is of the running operation, the last click is undone or polled for by its own answer, polling stops |
| `pages` | four acts over five pages, fair | what is drawn over another page comes from one left with requests in flight; a page stays empty only after an error, and never for want of the token; who was let in stays so; the store's spinner stops |
| `net_filter` | two requests, four configurations, interfaces that come and go | who is served belongs; only an overlap refuses who belongs |
| `settings` | two patches, two servers, every quarter-hour offset, two changes of the clock | the file is lost only by a cut write; a settled pane shows the device's source and server; the zone with the device's offset is shown; what is picked is shown |
| `startup` | two kills, two hooks, three pairs, fair | only a cut write stops the service, the certificate stays, the networks of the device are lost only to a kill inside the hook's write, the service comes up again |
| `dump_leaves_pair` | as `startup` | violated: a kill inside the writing of the pair is never repaired |
| `icons` | two listings, three revisions, two names | an icon has its own file's name; a file is torn only by a cut or a race |

Why the bounds are enough.  The tracker relates an entry, the goroutine that
wrote it and one competitor: two requests give every pair, and the proofs cover
any number.  The two violations need a third request: an observer of two
operations.  Two snaps are what it takes for a listing to lose or mix names.
`Home` has one request of each role; with one snap a listing breaks off only at
that snap, and the poll is asked once.  In `SnapModel` the wrong
orders need two threads besides the first fetch; an act is a click or another
client's operation, and the run allows any two.  In `Pages` four acts are
enough to leave a page, come back and leave it again, or to submit a token, have
it replaced and be asked again.  In the file models two writers
and one crash produce every state of a file; `Startup` allows one kill more, so
that a repair is itself killed.  In `Icons` two revisions share a file name and
a third does not.  `SYMMETRY` permutes requests (and servers) in safety runs
where none has a role of its own.

Three bounds are in the models and not in constants.  In `SnapModel` a task's
text and its progress come together, and a card shows neither.  In `Settings`
the clock and the zone, on which nothing else depends, are looked at and
changed in the first pane that is opened, the source and the server where the
clock is a plain one; requests that are over are forgotten when a pane is
opened; and a pane that was changed too early is only looked at after its
fetch.  In `NetFilter` the list of networks is the set of its members: the
appended copies differ in nothing but length.

`CHECK_DEADLOCK FALSE` stands where a system may really stop: requests made
once that are all answered, acts used up, a device that is powered off.  In
`SnapOps` the device's other clients and restarts go on.

## Fairness

* `SnapOps`: each goroutine that can take a step takes it (the Go scheduler),
  which includes calls of snapd that return, with an answer or an error, and
  timers that fire.  Nothing makes clients send requests, changes end or the
  process die.
* `SnapModel`: as long as there are any, some timer fires or some answer is
  handled, some request is answered or fails (a browser gives up otherwise), and
  an operation is not shown as running forever by the API; the last is what
  `EveryEntryExpires` shows of the tracker.  No timer and no request is
  promised its turn before the others.
* `Pages`: the browser answers every request, if with an error.
* `Startup`: the service's steps happen and the system starts it again when it
  has failed; a hook that has begun ends.

## What is proved

Each theorem is for every value of the constants, from the assumptions that the
modules name (`...Assumption`), which TLC evaluates in the runs.

`SnapOps_proofs` proves, for any finite set of snaps, any requests and any order
of all steps, that `IInv` is an invariant of `Spec`, and from it `TypeOK`,
`OwnTimerArmed`, `EntryNamesItsChange`, `HeldCopyIsCurrent`,
`AcceptedMeansStarted`, `AbortedOnRequest`, `ReplyFitsSnapshot` and
`LockHeldByItsUser`, which says
at which points the mutex is held and follows from `IInv`, which the run checks.
None of these is inductive by itself.  `OwnTimerArmed` speaks of the map and
the goroutines; that a store keeps it needs that a request that has not ended
has started no goroutine before (`NothingLeftBehind`) and that what the holder
of the mutex is about to store is its own (`HeldFits`).
`EntryNamesItsChange` needs that a request between its call of snapd and the
store still has the change it got, or none after a failure (`ChangeFits`).
`AbortedOnRequest`, an action property, needs that the change a cancel request has
read is one of its snap until it has called snapd (`NamesItsSnap`); the read
takes no mutex and can return the change of an entry that is being written, and
that one is right because the writer is a request for the same snap with its
own change or none (`EntriesNameChanges`, from `HeldFits` and `ChangeFits`).
`ReplyFitsSnapshot` needs that the copy State holds while it waits for snapd is
one the snapshot does not show to be over (`HeldFits` again), which no other
request can change since everything that writes the map takes the mutex.
`KindFits` and `TodoFits` say which handler passes through which point.  The
proof has one lemma per group of steps; most change one request's locals only
(`StepOutsideMutex`), and `OthersFit` keeps the rest.  `PayloadComplete` is
proved on top of it: what a request has still to do and what it has in its
payload together are what it found (`SeenFits`, `PayloadFits`).

Another part proves that `SnapOps` implements the safety part of
`OperationMarks` (`ImplementsMarksSafely`): under `IInv` a store is a mark by a
request that has none, a dropped entry is a drop, a request that ends retires,
a restart resets, and every other step stutters.  The run `snap_live` checks
`ImplementsMarks`, which is this with the fairness of `OperationMarks`.

Its last part says when the departure `AnswerWasTrue` can happen, and that it can
happen in no other way (`TrueUnlessDisturbed`, of `SnapViews`): what GET answers
was so at some moment of the request unless, before the payload was made, the
entry of the snap was stored or dropped by somebody else or snapd did not find
a snap that is installed.  The invariant is `ViewFits`: from the moment snapd
answers, what the payload will be made of, that answer and the entry that is
there, is something that was recorded as true; a store's answer counts because
it is only asked for when the snap is not installed, and no operation tells the
two apart (`ToldIsNow`).  This one stands in no run: TLC has found no violation
with two requests of five kinds (108699 states), and one at once when either of
the two exceptions is left out.

`Home_proofs`: the page stands on `IInv` and on the completeness of payloads,
since every step of the page is a step of the API.  `InstalledIsOnPage` needs
that the listing of installed snaps found each snap that stayed installed
(`ListFits`), that a poll answers about a snap it has found (`PollFits`), and so
that no answer takes such a snap out of the list again (`FetchedFits`).
`MissedOnlyInPassing` adds the snaps that are being installed all the time
(`WaitInv`): the entry of such a snap stays as it is, since no lookup takes the
snap for installed and no snapshot the operation for over; so the second pass
over the map finds it, the listing looks it up and puts it into the payload
unless it breaks off before it gets there (`CollectedKept`), and a poll answers
that the snap is being installed.

`SnapModel_proofs`: `ShownFitsStatus` needs that the previous attributes fit
their own status too, since an error may bring them back at any time
(`AttrsFit(prev)`), and that what the view has heard of is still so
(`ViewFits`); `LastClickDecides` that the model, as long as nothing has set it
since the click, has the status the click gave it and remembers the one before
(`RestFits`), so that its refusal restores the one and its acceptance finds the
other.  `PassingIsWatched` follows from the types and itself.

`Pages_proofs`: `ForeignOnlyIfOutlived` needs that every visit that is over and
still has a request of its controller in flight is outlived (`LateIsOutlived`);
`EmptyOnlyByError` that a page which shows nothing has something to wait for
and has asked for all it has not got (`EmptyWaits`), where the refused snap of a
snap's page is awaited no more, but the request beside it is going to lead to the
token (`Leading`), since both were sent with one cookie (`SentTogether`);
`LetInForGood` that the cookie is right while somebody is let in.

`Settings_proofs`: `BrokenOnlyByCut` for any patches; `PickedIsShown`, which is
arithmetic of days and minutes and needs the types of what was picked;
`ExactIsPicked`, since the text of an offset that a row of the table has is that
row's text and no two offsets share one (`TextOfEast`, `SameText`), so that the
first candidate is a row with the device's offset;
`SettledPaneFits`, by `PaneInv`: as long as a pane can settle at most one
request is in flight, and what that one has yet to do is what the pane shows
(`WillFit`).

`NetFilter_proofs`: `ServedBelongs` with the same for the list, the cache and
what is read for an append (`BelongInv`); `RefusedOnlyByOverlap` by `LoneInv`: a
request that no other one has overlapped reads for its append the list as it
is, and once it has passed the interface of its network that network is in it.

`Startup_proofs`: `ServedPairStays`, since a start that makes a pair has found a
file missing, which is impossible once a pair was served (`PairInv`);
`StopsOnlyByCut`, since the key is made last and settings are torn only while a
hook writes (`PairFits`, `HookFits`); `NetworksSurvive`, since as long as no
write of the settings was cut short the file, or what the hook is about to
write, has the networks the device came with (`told`, `NetworksFit`).

`Icons_proofs`: `IconHasItsName` and `IconTornOnlyByCutOrRace`, each inductive
together with the types.

Every safety property the passing runs check is a theorem.  Only model-checked
are liveness (`EveryRequestAnswered`, `EveryEntryExpires`, `PollingStops`,
`SpinnerStops`, `ServesAgain`) and the fairness part of `ImplementsMarks`, which
the prover cannot treat.

## Where the code departs from what is said of it

Three departures have runs of their own: `TimerDropsOwnEntry`, `AnswerWasTrue`
and `DumpLeavesPair`.  The modules state further ones, in their last section;
each is an invariant or property that TLC refutes when it is put in the .cfg of
that module's run:

* `RecallIsNoOp` (SnapOps; statetracker_test.go:106 "Make sure that recalling
  install is a no-op"): the check for a running operation is made without the
  mutex and the store is unconditional, so of two overlapping calls the second
  replaces the entry.
* `TrackedMeansStarted` (SnapOps; converge.go:166): installPackage and
  removePackage track before they look at the error, so an operation snapd
  refused is shown as running for two minutes.
* `TrackedNamesAreNames` (SnapOps; statetracker.go:135): AllTrackedSnaps may
  return an empty name, and the listing that looks it up breaks off.
* `DroppedMeansCompleted` (SnapOps; converge.go:80): any failure of Snap() is
  read as "not installed", which ends the tracking of a removal.
* `PresentIsOnPage` (Home; no text says it): a snap whose installation completes
  between the two answers is on the page neither as installing nor installed.
* `AcceptedSaveIsPolled` (SnapModel; modelSpec.js:244 "should poll fetch on
  save() HTTP 202 until HTTP 200"): after a double click on Install the status
  is `cancel` when the 202 arrives, and nothing is polled.
* `LabelFitsStatus` (SnapModel; modelSpec.js:136): a first poll that fails
  restores attributes from before the first fetch, without a label.
* `ProgressIsShown` (SnapModel; snap-details.js:112): a details view that is
  opened while the snap is being installed shows no bar until the status changes.
* `LazyNetworkIsServed` (NetFilter; netfilter.go:125): of two requests that add
  networks one append is lost.
* `ResetClearsServer` (Settings; settings-time.js:16 "Reset NTP"): SetNTP ends
  the loop over the patch, whose keys come in random order, and the custom
  server stays; the answer is 200.
* `ClosestIsPicked` (Settings; settings-time.js:92 "closer to"): without an
  exact match the first zone of the table is shown.
* `TimeKeepsDay` (Settings; no text says it): timeChanged takes the model's
  seconds for milliseconds, so picking a time moves the date to January 1970.
* `EarlyChangeFits` (Settings; no text says it): a change that is made before
  the fetch is answered is POSTed and refused, and stays on the pane.
* `ContentFitsUrl` and `RefusedIsAsked` (Pages; no text says it): an answer is
  drawn over a later page; a refused request of a Snap leads nowhere by itself.
* `ReadableHasNetworks` (Startup; no text says it): a hook that was killed
  between truncating the settings and writing them leaves a file without text,
  and the next run writes one without networks.
* `IconWeHaveIsWhole` (Icons; icon.go:75 "if we already have the icon,
  return"): the file found may be one that another request has only created.

Seen while modelling, and part of the models' steps: a failed alert and a failed
power action end in exceptions (the layout has no such region; `chan` is not
defined in `settings-device.js`); a list of the store that cannot be had is
shown as one without results.

## Not modelled

* The snapd client adapter (no state), and `snappy/snapd_client.go`, an older
  copy of it that nothing imports.
* Address publication: `addressUpdateLoop` has no loop, so it scans the
  interfaces once and keeps no state of its own.
* First boot and the creation of a user: the router has no route to them.
* What the token, the device's information and the sections of the store say,
  and how views look.
* Clicks on the cards of the home page but for the way to the snap's page: the
  models drawn have no url, so that `handleInstallEvent` sets a status and its
  request is never sent.
* A poll of the home page's models that fails: it leaves the status; what the
  error handler restores is in `SnapModel`.
* In the modelled parts: sizes, prices, dates, wording; the bodies the pages
  never send; the expiry of the certificate.
* Dead code: `behaviors/enabler.js` and the enable event of `common/snaps.js`,
  which no view raises; `views/search.js`; `views/alerts.js`; the `show` event
  of the snap channel.

## What could be added

* A property that says exactly when a foreign timer drops an entry: only after
  two operations on a snap within two minutes.
* A server, a source and the clock changed in one pane of `Settings`, and more
  than one tab.
