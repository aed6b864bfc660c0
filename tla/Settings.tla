------------------------------ MODULE Settings ------------------------------
(***************************************************************************)
(* The settings page (views/settings.js, settings-time.js,                 *)
(* settings-device.js) in front of the service's time settings: a pane for *)
(* the device, with its power buttons, and one for the time.  Each opening *)
(* of the time pane makes a new model and fetches it; each change saves a  *)
(* patch at once, sets the model without waiting, and ignores the answer   *)
(* (which is empty, and so an error to jQuery).                            *)
(***************************************************************************)
EXTENDS TimeInfo, TimeZones, Integers

CONSTANTS Times,    \* what the device's clock may show, in seconds since 1970
          Offsets,  \* its distance from UTC, in seconds
          Picks,    \* zones, dates (days since 1970) and times of day (minutes)
          Days,     \*   that are picked
          Clocks,
          MaxEdits  \* changes of the clock or the zone in a pane (a bound)

ASSUME SettingsAssumption ==
    /\ Times \subseteq Int /\ Times # {}
    /\ Offsets \subseteq Int /\ Offsets # {}
    /\ Picks \subseteq Zones /\ Days \subseteq Int /\ Clocks \subseteq 0 .. 1439
    /\ MaxEdits \in Nat

VARIABLES tab,      \* the pane that is shown
          fetch,    \* what the time pane's fetch is at
          answer,   \* what the service answers it
          shown,    \* the model's attributes ntp, ntpServer and timeSource
          clock,    \* its attributes dateTime, offset and timezone
          edit,     \* history: the last date or time that was picked
          edits,    \* changes of the clock or the zone
          sent,     \* history: the requests of this pane
          early,    \* history: a change was made before the fetch was answered
          stale,    \* history: the fetch was served while a patch was in flight
          dialog,   \* the action the device pane asks to confirm
          power     \* the action that is on its way; "off" when there is no way back

paneVars == <<fetch, answer, shown, clock, edit, edits, sent, early, stale>>
pageVars == <<tab, paneVars, dialog, power>>
settingsVars == <<vars, pageVars>>

Unlisted == 0
Actions == {"restart", "power-off"}
Sources == {"automatic", "custom", "manual"}
NoShown == [ntp |-> FALSE, server |-> Unset, source |-> "none"]
NoClock == [dateTime |-> 0, offset |-> 0, timezone |-> Unlisted]
NoEdit == [kind |-> "none"]

\* The source that is checked: the one that was clicked, or what the settings
\* amount to.
ShownSource ==
    CASE shown.source # "none" -> shown.source
      [] shown.source = "none" /\ shown.ntp /\ shown.server # Unset -> "custom"
      [] shown.source = "none" /\ shown.ntp /\ shown.server = Unset -> "automatic"
      [] shown.source = "none" /\ ~shown.ntp -> "manual"

ShownZone ==
    IF clock.timezone = Unlisted THEN pickTimeZoneFromOffset(clock.offset) ELSE clock.timezone

\* What the pane shows of its time.
ShownDay == (clock.dateTime + clock.offset) \div 86400
ShownClock == ((clock.dateTime + clock.offset) % 86400) \div 60

SettingsTypeOK ==
    /\ TypeOK
    /\ tab \in {"device", "time"}
    /\ fetch \in {"none", "sent", "answered", "done", "failed"}
    /\ shown \in [ntp: BOOLEAN, server: Servers \cup {Unset}, source: Sources \cup {"none"}]
    /\ clock \in [dateTime: Int, offset: Offsets \cup {0}, timezone: Zones \cup {Unlisted}]
    /\ edit = NoEdit \/ edit.kind \in {"date", "time"}
    /\ edits \in 0 .. MaxEdits /\ sent \subseteq Requests
    /\ {early, stale} \subseteq BOOLEAN
    /\ dialog \in Actions \cup {"none"} /\ power \in Actions \cup {"none", "off"}

-----------------------------------------------------------------------------
(* Opening a pane                                                          *)

ResetPane ==
    /\ answer' = NoShown /\ shown' = NoShown /\ clock' = NoClock /\ edit' = NoEdit
    /\ edits' = 0 /\ sent' = {} /\ early' = FALSE /\ stale' = FALSE

SettingsInit ==
    /\ Init
    /\ tab = "device" /\ fetch = "none"
    /\ answer = NoShown /\ shown = NoShown /\ clock = NoClock /\ edit = NoEdit
    /\ edits = 0 /\ sent = {} /\ early = FALSE /\ stale = FALSE
    /\ dialog = "none" /\ power = "none"

\* What is over is forgotten with the pane that asked for it.
ForgetRequests ==
    /\ patch' = [r \in Requests |-> IF InFlight(r) THEN patch[r] ELSE <<>>]
    /\ todo' = [r \in Requests |-> IF InFlight(r) THEN todo[r] ELSE {}]
    /\ loaded' = [r \in Requests |-> IF InFlight(r) THEN loaded[r] ELSE <<>>]
    /\ clean' = [r \in Requests |-> ~InFlight(r) \/ clean[r]]
    /\ UNCHANGED <<conf, ntp, pc, cut>>

\* menuItemClick: the other pane is mounted, with a model of its own.
Open ==
    /\ tab' = IF tab = "device" THEN "time" ELSE "device"
    /\ fetch' = IF tab' = "time" THEN "sent" ELSE "none"
    /\ ResetPane /\ ForgetRequests
    /\ dialog' = "none"
    /\ UNCHANGED power

\* getTimeInfo: the daemon's properties, then the file.
GetTimeInfo ==
    /\ fetch = "sent"
    /\ fetch' = "answered"
    /\ answer' = [NoShown EXCEPT !.ntp = ntp, !.server = readNTPServer(conf)]
    /\ stale' = \E r \in Requests : InFlight(r)
    /\ UNCHANGED <<vars, tab, shown, clock, edit, edits, sent, early, dialog, power>>

\* A zone of the table with this offset, or any other.
ZonesAt(o) == Candidates(o) \cup {Unlisted}

\* The clock and the zone are looked at, and changed, in the first pane only, the
\* source and the server where they are these (bounds).
PlainClock == [NoClock EXCEPT !.dateTime = CHOOSE t \in Times : TRUE,
                              !.offset = CHOOSE o \in Offsets : TRUE]
FirstPane == power = "none" /\ \A r \in Requests : pc[r] = "idle"

\* What is false or empty is not in the answer (omitempty), and leaves what a
\* change has set meanwhile.
Fetched ==
    /\ fetch = "answered"
    /\ fetch' = "done"
    /\ shown' = [shown EXCEPT !.ntp = @ \/ answer.ntp,
                              !.server = IF answer.server = Unset THEN @ ELSE answer.server]
    /\ \/ clock' = PlainClock
       \/ /\ FirstPane
          /\ \E t \in Times, o \in Offsets : \E z \in ZonesAt(o) :
                clock' = [dateTime |-> t, offset |-> o, timezone |-> z]
    /\ answer' = NoShown
    /\ UNCHANGED <<vars, tab, edit, edits, sent, early, stale, dialog, power>>

\* An error, to which nothing listens.
FetchFails ==
    /\ fetch \in {"sent", "answered"}
    /\ fetch' = "failed" /\ answer' = NoShown
    /\ UNCHANGED <<vars, tab, shown, clock, edit, edits, sent, early, stale, dialog, power>>

-----------------------------------------------------------------------------
(* The handlers of the time pane                                           *)

\* A model that was fetched is PATCHed.  One that was not is new to Backbone:
\* it is POSTed, which the service does not allow, and nobody is told; such a
\* pane is only looked at after that (a bound).
Save(p) ==
    /\ tab = "time" /\ ~(early /\ fetch = "done")
    /\ IF fetch = "done"
         THEN /\ clock = PlainClock
              /\ \E r \in Requests : Send(r, p) /\ sent' = sent \cup {r}
              /\ UNCHANGED early
         ELSE early' = TRUE /\ UNCHANGED <<vars, sent>>
    /\ UNCHANGED <<tab, fetch, answer, edits, stale, dialog, power>>

SourcePatch(id) ==
    CASE id = "automatic" -> [ntp |-> TRUE, ntpServer |-> Unset]
      [] id = "custom"    -> [ntp |-> TRUE]
      [] id = "manual"    -> [ntp |-> FALSE]

\* A variant that leaves NTP as it is when a server is to be named.
timeSourceKeepsNTP(id) ==
    /\ id # ShownSource
    /\ shown' = [ntp    |-> IF id = "custom" THEN shown.ntp ELSE id = "automatic",
                 server |-> IF id = "automatic" THEN Unset ELSE shown.server,
                 source |-> id]
    /\ Save(IF id = "custom" THEN [ntpServer |-> shown.server] ELSE SourcePatch(id))
    /\ UNCHANGED <<clock, edit>>

timeSourceChanged(id) ==
    /\ id # ShownSource
    /\ shown' = [ntp    |-> id # "manual",
                 server |-> IF id = "automatic" THEN Unset ELSE shown.server,
                 source |-> id]
    /\ Save(SourcePatch(id))
    /\ UNCHANGED <<clock, edit>>

\* Every change of the field's text.
ntpServerNameChanged(s) ==
    /\ ShownSource = "custom"
    /\ s # shown.server
    /\ shown' = [shown EXCEPT !.server = s]
    /\ Save([ntpServer |-> s])
    /\ UNCHANGED <<clock, edit>>

\* moment(dateTime) takes the seconds for milliseconds; the time is then moved
\* by the offset.
LocalTime == (clock.dateTime \div 1000) + clock.offset

\* A patch of the clock or the zone, which the rest of the service's state does
\* not depend on.
SaveClock ==
    /\ tab = "time" /\ fetch = "done" /\ ~early /\ FirstPane
    /\ edits < MaxEdits /\ edits' = edits + 1
    /\ UNCHANGED <<vars, tab, fetch, answer, shown, sent, early, stale, dialog, power>>

SaveTime(dateTime, e) ==
    /\ ShownSource = "manual"
    /\ SaveClock
    /\ clock' = [clock EXCEPT !.dateTime = dateTime] /\ edit' = e

\* A variant that leaves the offset out.
dateChangedInUTC(day) ==
    SaveTime(day * 86400 + ((clock.dateTime \div 1000) % 86400), [kind |-> "date", day |-> day])

\* save() sets the model's attribute before it is answered, and nothing reads
\* the device's clock again.
dateChanged(day) ==
    SaveTime(day * 86400 + (LocalTime % 86400) - clock.offset, [kind |-> "date", day |-> day])

\* The picker's value has no third colon: the seconds stay.
timeChanged(minute) ==
    SaveTime(LocalTime - (LocalTime % 86400) + minute * 60 + (LocalTime % 60) - clock.offset,
             [kind |-> "time", clock |-> minute])

\* The zone is saved, and the offset of the old one stays.
timezoneSelectChanged(z) ==
    /\ SaveClock
    /\ z # ShownZone
    /\ clock' = [clock EXCEPT !.timezone = z]
    /\ edit' = NoEdit

TimePane ==
    \/ \E id \in Sources : timeSourceChanged(id)
    \/ \E s \in Servers \cup {Unset} : ntpServerNameChanged(s)
    \/ \E day \in Days : dateChanged(day)
    \/ \E minute \in Clocks : timeChanged(minute)
    \/ \E z \in Picks : timezoneSelectChanged(z)

-----------------------------------------------------------------------------
(* The power buttons of the device pane                                    *)

\* restart, powerOff: the dialog is opened, or replaced.
AskFor(a) ==
    /\ tab = "device" /\ dialog # a
    /\ dialog' = a
    /\ UNCHANGED <<vars, tab, paneVars, power>>

Cancel ==
    /\ dialog # "none"
    /\ dialog' = "none"
    /\ UNCHANGED <<vars, tab, paneVars, power>>

\* sendAction, and the dialog goes.
Confirm ==
    /\ dialog # "none" /\ power = "none"
    /\ power' = dialog /\ dialog' = "none"
    /\ UNCHANGED <<vars, tab, paneVars>>

\* handleDeviceAction: systemd ends the service, whatever its requests are at;
\* or it fails, and the handler of the error ends in an exception of its own.
GoDown ==
    /\ power \in Actions
    /\ Crash
    /\ power' = IF power = "restart" THEN "none" ELSE "off"
    /\ UNCHANGED <<tab, paneVars, dialog>>

ActionFails ==
    /\ power \in Actions
    /\ power' = "none"
    /\ UNCHANGED <<vars, tab, paneVars, dialog>>

DevicePane == (\E a \in Actions : AskFor(a)) \/ Cancel \/ Confirm

-----------------------------------------------------------------------------

\* A crash matters while a request is served.
ServiceCrashes == (\E r \in Requests : InFlight(r)) /\ Crash /\ UNCHANGED pageVars

SettingsNext ==
    /\ power # "off"
    /\ \/ Open \/ TimePane \/ DevicePane
       \/ GetTimeInfo \/ Fetched \/ FetchFails
       \/ GoDown \/ ActionFails
       \/ Server /\ UNCHANGED pageVars
       \/ ServiceCrashes

SettingsSpec == SettingsInit /\ [][SettingsNext]_settingsVars

-----------------------------------------------------------------------------
(* Properties                                                              *)

\* A device whose zone is not in the table is shown in one with its offset
\* whenever the table has one, west of Greenwich and at half hours too.
ExactIsPicked ==
    clock.timezone = Unlisted /\ clock.offset \in {East(z) : z \in Zones}
        => East(ShownZone) = clock.offset

\* The pane shows the date or the time that was picked, in the device's zone,
\* after any number of changes.
PickedIsShown ==
    /\ edit.kind = "date" => ShownDay = edit.day
    /\ edit.kind = "time" => ShownClock = edit.clock

\* The pane has been fetched from settings at rest, and all it has changed
\* since was served without a failure, one request after the other.
Settled ==
    /\ fetch = "done" /\ ~early /\ ~stale
    /\ \A r \in Requests : ~InFlight(r)
    /\ \A r \in sent : clean[r]

Resets(r) == "ntpServer" \in DOMAIN patch[r] /\ patch[r].ntpServer = Unset

\* A pane that has settled shows the source that the device uses and, unless
\* one was to be taken away, its server: setting the model before the answer,
\* and ignoring the answer, does not lose it.
SettledPaneFits ==
    Settled => /\ (ShownSource = "manual") = ~ntp
               /\ (\A r \in sent : ~Resets(r)) => shown.server = readNTPServer(conf)

-----------------------------------------------------------------------------
(* What the documentation says and the code does not keep *)

\* "Reset NTP" (settings-time.js): a settled pane whose only change was to the
\* automatic source leaves no server of one's own.
ResetClearsServer ==
    Settled /\ ShownSource = "automatic" => readNTPServer(conf) = Unset

\* "Select timezone based on "closer to" offset heuristic" (settings-time.js:92).
ClosestIsPicked ==
    clock.timezone = Unlisted =>
        \A z \in Zones : Abs(East(ShownZone) - clock.offset) <= Abs(East(z) - clock.offset)

\* render shows dateTime as seconds (moment.unix): picking a time leaves the day
\* that is shown.  timeChanged takes the seconds for milliseconds.
TimeKeepsDay == [][\A minute \in Clocks : timeChanged(minute) => ShownDay' = ShownDay]_settingsVars

\* A pane whose fetch was answered shows the device's source, once nothing is
\* in flight and nothing failed: a change made too early is lost and stays.
EarlyChangeFits ==
    fetch = "done" /\ sent = {} /\ ~stale /\ (\A r \in Requests : ~InFlight(r))
        => (ShownSource = "manual") = ~ntp

=============================================================================
