-------------------------- MODULE Settings_proofs --------------------------
(***************************************************************************)
(* Proofs about Settings and TimeInfo, for any servers, requests, offsets  *)
(* and picks: timesyncd.conf loses its settings only by a cut, a pane that *)
(* has settled shows what the device uses, and what is picked is shown.    *)
(***************************************************************************)
EXTENDS Settings, SequenceTheorems, WellFoundedInduction, TLAPS

-----------------------------------------------------------------------------
(* Types                                                                   *)

Names == Servers \cup {Unset}

\* The patches that the page sends: one that names a server and sets NTP takes
\* the server away.
Patches == {<<>>} \cup [ntp: BOOLEAN] \cup [ntpServer: Names]
                  \cup [ntp: {TRUE}, ntpServer: {Unset}]

Edits == {NoEdit} \cup [kind: {"date"}, day: Int] \cup [kind: {"time"}, clock: 0 .. 1439]

\* What is left of a patch at each point of its request.
StepsFit ==
    \A r \in Requests :
        /\ pc[r] = "idle" => todo[r] = {}
        /\ pc[r] \in {"load", "open", "write"} =>
              "ntpServer" \in DOMAIN patch[r] /\ "ntpServer" \notin todo[r]
        /\ pc[r] \in {"loop", "load", "open", "write"} /\ "ntp" \in DOMAIN patch[r] =>
              "ntp" \in todo[r]

ServerTyped ==
    /\ TypeOK /\ StepsFit
    /\ patch \in [Requests -> Patches] /\ todo \in [Requests -> SUBSET Keys]

PaneTyped ==
    /\ tab \in {"device", "time"}
    /\ fetch \in {"none", "sent", "answered", "done", "failed"}
    /\ shown \in [ntp: BOOLEAN, server: Names, source: Sources \cup {"none"}]
    /\ clock \in [dateTime: Int, offset: Offsets \cup {0}, timezone: Zones \cup {Unlisted}]
    /\ edits \in 0 .. MaxEdits /\ sent \subseteq Requests
    /\ {early, stale} \subseteq BOOLEAN
    /\ dialog \in Actions \cup {"none"} /\ power \in Actions \cup {"none", "off"}
    /\ answer \in [ntp: BOOLEAN, server: Names, source: {"none"}]
    /\ edit \in Edits

Typed == ServerTyped /\ PaneTyped

LEMMA PatchFacts ==
    ASSUME NEW p \in Patches
    PROVE  /\ DOMAIN p \subseteq Keys
           /\ "ntp" \in DOMAIN p => p.ntp \in BOOLEAN
           /\ "ntpServer" \in DOMAIN p => p.ntpServer \in Names
           /\ "ntp" \in DOMAIN p /\ "ntpServer" \in DOMAIN p => p.ntpServer = Unset
<1>1. CASE p = <<>>
  <2>1. DOMAIN p = {}
    BY <1>1
  <2>2. QED
    BY <2>1
<1>2. CASE p \in [ntp: BOOLEAN]
  BY <1>2 DEF Keys
<1>3. CASE p \in [ntpServer: Names]
  BY <1>3 DEF Keys
<1>4. CASE p \in [ntp: {TRUE}, ntpServer: {Unset}]
  BY <1>4 DEF Keys, Names
<1>5. QED
  BY <1>1, <1>2, <1>3, <1>4 DEF Patches

\* What the page sends.
LEMMA SourcePatchFacts ==
    ASSUME NEW id \in Sources
    PROVE  /\ SourcePatch(id) \in Patches
           /\ "ntp" \in DOMAIN SourcePatch(id) /\ SourcePatch(id).ntp = (id # "manual")
           /\ id # "automatic" => "ntpServer" \notin DOMAIN SourcePatch(id)
           /\ id = "automatic" => "ntpServer" \in DOMAIN SourcePatch(id)
                                  /\ SourcePatch(id).ntpServer = Unset
BY DEF SourcePatch, Patches, Sources, Names

LEMMA ServerPatchFacts ==
    ASSUME NEW s \in Names
    PROVE  /\ [ntpServer |-> s] \in Patches
           /\ DOMAIN [ntpServer |-> s] = {"ntpServer"}
           /\ [ntpServer |-> s].ntpServer = s
BY DEF Patches

\* A name that is put in the list is its first, and taking one away leaves a list.
LEMMA WithServerFacts ==
    ASSUME NEW servers \in Seq(Servers), NEW s \in Names
    PROVE  /\ WithServer(servers, s) \in Seq(Servers)
           /\ s # Unset => WithServer(servers, s) # <<>> /\ Head(WithServer(servers, s)) = s
<1>1. CASE s = Unset
  BY <1>1 DEF WithServer, Names
<1>2. CASE s # Unset /\ servers # <<>> /\ Head(servers) = s
  BY <1>2 DEF WithServer
<1>3. CASE s # Unset /\ ~(servers # <<>> /\ Head(servers) = s)
  <2>1. s \in Servers /\ WithServer(servers, s) = <<s>> \o servers
    BY <1>3 DEF WithServer, Names
  <2>2. <<s>> \o servers \in Seq(Servers) /\ Len(<<s>> \o servers) = 1 + Len(servers)
        /\ (<<s>> \o servers)[1] = s
    BY <2>1
  <2>3. QED
    BY <2>1, <2>2
<1>4. QED
  BY <1>1, <1>2, <1>3

LEMMA ReadFacts ==
    ASSUME ServerTyped
    PROVE  readNTPServer(conf) \in Names
BY DEF ServerTyped, TypeOK, readNTPServer, Names

LEMMA ConfFacts ==
    /\ Broken.ok \in BOOLEAN /\ Broken.servers \in Seq(Servers)
    /\ \A servers \in Seq(Servers) : Whole(servers).ok \in BOOLEAN
                                     /\ Whole(servers).servers \in Seq(Servers)
BY DEF Broken, Whole

LEMMA SendTyped ==
    ASSUME ServerTyped, NEW r \in Requests, NEW p \in Patches, Send(r, p)
    PROVE  ServerTyped'
<1>1. DOMAIN p \subseteq Keys
  BY PatchFacts
<1>2. clean' \in [Requests -> BOOLEAN]
  BY DEF ServerTyped, TypeOK, Send, InFlight
<1>3. pc' \in [Requests -> {"idle", "sent", "loop", "load", "open", "write", "done"}]
  BY DEF ServerTyped, TypeOK, Send, Goto
<1>4. \A q \in Requests : todo'[q] \subseteq DOMAIN patch'[q] /\ DOMAIN patch'[q] \subseteq Keys
  BY <1>1 DEF ServerTyped, TypeOK, StepsFit, Send
<1>5. StepsFit'
  BY DEF ServerTyped, TypeOK, StepsFit, Send, Goto
<1>6. QED
  BY <1>2, <1>3, <1>4, <1>5 DEF ServerTyped, TypeOK, Send

LEMMA ForgetTyped ==
    ASSUME ServerTyped, ForgetRequests
    PROVE  ServerTyped'
<1>1. <<>> \in Patches /\ {} \subseteq Keys
  BY DEF Patches
<1>2. patch' \in [Requests -> Patches] /\ todo' \in [Requests -> SUBSET Keys]
      /\ clean' \in [Requests -> BOOLEAN] /\ loaded' \in [Requests -> Seq(Servers)]
  BY <1>1 DEF ServerTyped, TypeOK, ForgetRequests, InFlight
<1>3. \A q \in Requests : DOMAIN patch'[q] \subseteq Keys
  BY <1>2, PatchFacts
<1>4. \A q \in Requests : todo'[q] \subseteq DOMAIN patch'[q]
  BY DEF ServerTyped, TypeOK, ForgetRequests
<1>5. StepsFit'
  BY DEF ServerTyped, TypeOK, StepsFit, ForgetRequests, InFlight
<1>6. QED
  BY <1>2, <1>3, <1>4, <1>5 DEF ServerTyped, TypeOK, ForgetRequests

LEMMA CrashTyped ==
    ASSUME ServerTyped, Crash
    PROVE  ServerTyped'
BY DEF ServerTyped, TypeOK, StepsFit, Crash, InFlight, Writing

LEMMA PatchingTyped ==
    ASSUME ServerTyped, NEW r \in Requests, Patching(r)
    PROVE  ServerTyped'
<1> USE DEF ServerTyped, TypeOK, StepsFit
<1>1. CASE Arrive(r)
  BY <1>1 DEF Arrive, Goto
<1>2. CASE SetByTimedate(r)
  <2>1. ntp' \in BOOLEAN
    BY <1>2, PatchFacts DEF SetByTimedate
  <2>2. pc' \in [Requests -> {"idle", "sent", "loop", "load", "open", "write", "done"}]
        /\ clean' \in [Requests -> BOOLEAN] /\ StepsFit'
    BY <1>2 DEF SetByTimedate, Answer, Goto, Fails
  <2>3. QED
    BY <1>2, <2>1, <2>2 DEF SetByTimedate
<1>3. CASE ComeToServer(r)
  BY <1>3 DEF ComeToServer, Goto
<1>4. CASE EndOfPatch(r)
  BY <1>4 DEF EndOfPatch, Answer, Goto
<1>5. QED
  BY <1>1, <1>2, <1>3, <1>4 DEF Patching

LEMMA WritingTyped ==
    ASSUME ServerTyped, NEW r \in Requests, writeNTPServer(r)
    PROVE  ServerTyped'
<1>1. CASE LoadConf(r)
  <2>1. /\ pc' \in [Requests -> {"idle", "sent", "loop", "load", "open", "write", "done"}]
        /\ clean' \in [Requests -> BOOLEAN] /\ StepsFit'
    <3>1. /\ pc[r] = "load" /\ patch' = patch /\ todo' = todo
          /\ \E l \in {"loop", "open", "done"} : Goto(r, l)
          /\ clean' = clean \/ Fails(r)
      BY <1>1, Zenon DEF LoadConf, Answer
    <3>2. /\ pc' \in [Requests -> {"idle", "sent", "loop", "load", "open", "write", "done"}]
          /\ clean' \in [Requests -> BOOLEAN]
      BY <3>1 DEF ServerTyped, TypeOK, Goto, Fails
    <3>3. StepsFit'
      BY <3>1 DEF ServerTyped, TypeOK, StepsFit, Goto
    <3>4. QED
      BY <3>2, <3>3
  <2>2. WithServer(conf.servers, patch[r].ntpServer) \in Seq(Servers)
    <3>1. patch[r] \in Patches /\ "ntpServer" \in DOMAIN patch[r]
      BY <1>1 DEF ServerTyped, StepsFit, LoadConf
    <3>2. patch[r].ntpServer \in Names
      BY <3>1, PatchFacts
    <3>3. QED
      BY <3>2, WithServerFacts DEF ServerTyped, TypeOK
  <2>3. loaded' \in [Requests -> Seq(Servers)]
    BY <1>1, <2>2 DEF ServerTyped, TypeOK, LoadConf
  <2>4. QED
    BY <1>1, <2>1, <2>3 DEF ServerTyped, TypeOK, LoadConf
<1>2. CASE OpenConf(r)
  <2>1. /\ pc' \in [Requests -> {"idle", "sent", "loop", "load", "open", "write", "done"}]
        /\ clean' \in [Requests -> BOOLEAN] /\ StepsFit'
    BY <1>2 DEF ServerTyped, TypeOK, StepsFit, OpenConf, Answer, Goto, Fails
  <2>2. conf'.ok \in BOOLEAN /\ conf'.servers \in Seq(Servers)
    BY <1>2, ConfFacts DEF ServerTyped, TypeOK, OpenConf
  <2>3. QED
    BY <1>2, <2>1, <2>2 DEF ServerTyped, TypeOK, OpenConf
<1>3. CASE WriteConf(r)
  <2>1. /\ pc' \in [Requests -> {"idle", "sent", "loop", "load", "open", "write", "done"}]
        /\ loaded' \in [Requests -> Seq(Servers)] /\ StepsFit'
    BY <1>3 DEF ServerTyped, TypeOK, StepsFit, WriteConf, Goto
  <2>2. conf'.ok \in BOOLEAN /\ conf'.servers \in Seq(Servers)
    BY <1>3, ConfFacts DEF ServerTyped, TypeOK, WriteConf
  <2>3. QED
    BY <1>3, <2>1, <2>2 DEF ServerTyped, TypeOK, WriteConf
<1>4. CASE FlushFails(r)
  <2>1. /\ pc' \in [Requests -> {"idle", "sent", "loop", "load", "open", "write", "done"}]
        /\ loaded' \in [Requests -> Seq(Servers)] /\ StepsFit'
    BY <1>4 DEF ServerTyped, TypeOK, StepsFit, FlushFails, Goto
  <2>2. QED
    BY <1>4, <2>1 DEF ServerTyped, TypeOK, FlushFails, Fails
<1>5. QED
  BY <1>1, <1>2, <1>3, <1>4 DEF writeNTPServer

LEMMA ServerUnchanged ==
    ASSUME ServerTyped, UNCHANGED vars
    PROVE  ServerTyped'
BY DEF ServerTyped, TypeOK, StepsFit, vars, requestVars

LEMMA NothingTyped ==
    /\ NoShown \in [ntp: BOOLEAN, server: Names, source: Sources \cup {"none"}]
    /\ NoShown \in [ntp: BOOLEAN, server: Names, source: {"none"}]
    /\ NoClock \in [dateTime: Int, offset: Offsets \cup {0}, timezone: Zones \cup {Unlisted}]
    /\ NoEdit \in Edits
BY DEF NoShown, NoClock, Edits, Names

LEMMA TypedInit == SettingsInit => Typed
<1> SUFFICES ASSUME SettingsInit PROVE Typed
  OBVIOUS
<1>1. conf.ok \in BOOLEAN /\ conf.servers \in Seq(Servers)
  <2>1. PICK servers \in {<<>>} \cup {<<z>> : z \in Servers} : conf = Whole(servers)
    BY DEF SettingsInit, Init
  <2>2. servers \in Seq(Servers)
    <3>1. <<>> \in Seq(Servers) /\ \A z \in Servers : <<z>> \in Seq(Servers)
      OBVIOUS
    <3>2. QED
      BY <3>1
  <2>3. QED
    BY <2>1, <2>2, ConfFacts
<1>2. <<>> \in Patches /\ DOMAIN <<>> = {} /\ <<>> \in Seq(Servers)
  BY DEF Patches
<1>3. ServerTyped
  BY <1>1, <1>2 DEF SettingsInit, Init, ServerTyped, TypeOK, StepsFit
<1>4. 0 \in 0 .. MaxEdits
  BY SettingsAssumption
<1>5. PaneTyped
  BY <1>4, NothingTyped DEF SettingsInit, PaneTyped
<1>6. QED
  BY <1>3, <1>5 DEF Typed

\* Dates and times that are picked.
LEMMA SaveTimeTyped ==
    ASSUME Typed, NEW t \in Int, NEW e \in Edits, SaveTime(t, e)
    PROVE  PaneTyped'
<1>1. edits' \in 0 .. MaxEdits
  BY SettingsAssumption DEF Typed, PaneTyped, SaveTime, SaveClock
<1>2. clock' \in [dateTime: Int, offset: Offsets \cup {0}, timezone: Zones \cup {Unlisted}]
  BY DEF Typed, PaneTyped, SaveTime
<1>3. QED
  BY <1>1, <1>2 DEF Typed, PaneTyped, SaveTime, SaveClock

LEMMA ClockFacts ==
    ASSUME Typed
    PROVE  clock.dateTime \in Int /\ clock.offset \in Int /\ LocalTime \in Int
<1>1. clock.dateTime \in Int /\ clock.offset \in Offsets \cup {0}
  BY DEF Typed, PaneTyped
<1>2. \A o \in Offsets \cup {0} : o \in Int
  BY SettingsAssumption
<1>3. clock.offset \in Int
  BY <1>1, <1>2, Zenon
<1>4. QED
  BY <1>1, <1>3 DEF LocalTime

LEMMA SaveFacts ==
    ASSUME Typed, NEW p \in Patches, Save(p)
    PROVE  /\ ServerTyped'
           /\ sent' \subseteq Requests /\ early' \in BOOLEAN
<1>1. CASE fetch = "done"
  BY <1>1, SendTyped DEF Typed, PaneTyped, Save
<1>2. CASE fetch # "done"
  BY <1>2, ServerUnchanged DEF Typed, PaneTyped, Save
<1>3. QED
  BY <1>1, <1>2

LEMMA TimePaneTyped ==
    ASSUME Typed, TimePane
    PROVE  Typed'
<1>1. ASSUME NEW id \in Sources, timeSourceChanged(id) PROVE Typed'
  <2>1. Save(SourcePatch(id)) /\ SourcePatch(id) \in Patches
    BY <1>1, SourcePatchFacts DEF timeSourceChanged
  <2>2. shown' \in [ntp: BOOLEAN, server: Names, source: Sources \cup {"none"}]
    BY <1>1 DEF Typed, PaneTyped, timeSourceChanged, Names
  <2>3. UNCHANGED <<tab, fetch, clock, edit, edits, stale, dialog, power, answer>>
    BY <1>1, <2>1 DEF timeSourceChanged, Save
  <2>4. QED
    BY <2>1, <2>2, <2>3, SaveFacts DEF Typed, PaneTyped
<1>2. ASSUME NEW n \in Names, ntpServerNameChanged(n) PROVE Typed'
  <2>1. Save([ntpServer |-> n]) /\ [ntpServer |-> n] \in Patches
    BY <1>2, ServerPatchFacts DEF ntpServerNameChanged
  <2>2. shown' \in [ntp: BOOLEAN, server: Names, source: Sources \cup {"none"}]
    BY <1>2 DEF Typed, PaneTyped, ntpServerNameChanged
  <2>3. UNCHANGED <<tab, fetch, clock, edit, edits, stale, dialog, power, answer>>
    BY <1>2, <2>1 DEF ntpServerNameChanged, Save
  <2>4. QED
    BY <2>1, <2>2, <2>3, SaveFacts DEF Typed, PaneTyped
<1>3. ASSUME NEW day \in Days, dateChanged(day) PROVE Typed'
  <2>1. day \in Int /\ [kind |-> "date", day |-> day] \in Edits
    BY SettingsAssumption DEF Edits
  <2>2. day * 86400 + (LocalTime % 86400) - clock.offset \in Int
    BY <2>1, ClockFacts
  <2>3. PaneTyped' /\ UNCHANGED vars
    BY <1>3, <2>1, <2>2, SaveTimeTyped DEF dateChanged, SaveTime, SaveClock
  <2>4. QED
    BY <2>3, ServerUnchanged DEF Typed
<1>4. ASSUME NEW minute \in Clocks, timeChanged(minute) PROVE Typed'
  <2>1. minute \in Int /\ [kind |-> "time", clock |-> minute] \in Edits
    BY SettingsAssumption DEF Edits
  <2>2. LocalTime - (LocalTime % 86400) + minute * 60 + (LocalTime % 60) - clock.offset \in Int
    BY <2>1, ClockFacts
  <2>3. PaneTyped' /\ UNCHANGED vars
    BY <1>4, <2>1, <2>2, SaveTimeTyped DEF timeChanged, SaveTime, SaveClock
  <2>4. QED
    BY <2>3, ServerUnchanged DEF Typed
<1>5. ASSUME NEW z \in Picks, timezoneSelectChanged(z) PROVE Typed'
  <2>1. z \in Zones
    BY SettingsAssumption
  <2>2. edits' \in 0 .. MaxEdits
    BY <1>5, SettingsAssumption DEF Typed, PaneTyped, timezoneSelectChanged, SaveClock
  <2>3. clock' \in [dateTime: Int, offset: Offsets \cup {0}, timezone: Zones \cup {Unlisted}]
    BY <1>5, <2>1 DEF Typed, PaneTyped, timezoneSelectChanged
  <2>4. QED
    BY <1>5, <2>2, <2>3, ServerUnchanged, NothingTyped
    DEF Typed, PaneTyped, timezoneSelectChanged, SaveClock
<1>6. QED
  BY <1>1, <1>2, <1>3, <1>4, <1>5 DEF TimePane, Names

LEMMA PlainTyped ==
    PlainClock \in [dateTime: Int, offset: Offsets \cup {0}, timezone: Zones \cup {Unlisted}]
<1>1. (\E t : t \in Times) /\ (\E o : o \in Offsets) /\ \A t \in Times : t \in Int
  BY SettingsAssumption
<1>2. (CHOOSE t \in Times : TRUE) \in Times /\ (CHOOSE o \in Offsets : TRUE) \in Offsets
  BY <1>1, Zenon
<1>3. (CHOOSE t \in Times : TRUE) \in Int
  BY <1>1, <1>2, Zenon
<1>4. QED
  BY <1>2, <1>3, NothingTyped DEF PlainClock

LEMMA TypedNext == Typed /\ [SettingsNext]_settingsVars => Typed'
<1> SUFFICES ASSUME Typed, [SettingsNext]_settingsVars PROVE Typed'
  OBVIOUS
<1>1. CASE Open
  <2>1. 0 \in 0 .. MaxEdits
    BY SettingsAssumption
  <2>2. PaneTyped'
    BY <1>1, <2>1, NothingTyped DEF Typed, PaneTyped, Open, ResetPane
  <2>3. QED
    BY <1>1, <2>2, ForgetTyped DEF Typed, Open
<1>2. CASE TimePane
  BY <1>2, TimePaneTyped
<1>3. CASE DevicePane
  BY <1>3, ServerUnchanged DEF Typed, PaneTyped, DevicePane, AskFor, Cancel, Confirm, paneVars
<1>4. CASE GetTimeInfo
  <2>1. answer' \in [ntp: BOOLEAN, server: Names, source: {"none"}]
    BY <1>4, NothingTyped, ReadFacts DEF Typed, ServerTyped, TypeOK, GetTimeInfo
  <2>2. QED
    BY <1>4, <2>1, ServerUnchanged DEF Typed, PaneTyped, GetTimeInfo
<1>5. CASE Fetched
  <2>1. shown' \in [ntp: BOOLEAN, server: Names, source: Sources \cup {"none"}]
    BY <1>5 DEF Typed, PaneTyped, Fetched
  <2>2. clock' \in [dateTime: Int, offset: Offsets \cup {0}, timezone: Zones \cup {Unlisted}]
    <3>1. CASE clock' = PlainClock
      BY <3>1, PlainTyped
    <3>2. CASE \E t \in Times, o \in Offsets : \E z \in ZonesAt(o) :
                 clock' = [dateTime |-> t, offset |-> o, timezone |-> z]
      <4>1. \A o \in Offsets : ZonesAt(o) \subseteq Zones \cup {Unlisted}
        BY DEF ZonesAt, Candidates
      <4>2. QED
        BY <3>2, <4>1, SettingsAssumption
    <3>3. QED
      BY <1>5, <3>1, <3>2 DEF Fetched
  <2>3. QED
    BY <1>5, <2>1, <2>2, NothingTyped, ServerUnchanged DEF Typed, PaneTyped, Fetched
<1>6. CASE FetchFails
  BY <1>6, NothingTyped, ServerUnchanged DEF Typed, PaneTyped, FetchFails
<1>7. CASE GoDown
  <2>1. ServerTyped'
    BY <1>7, CrashTyped DEF Typed, GoDown
  <2>2. QED
    BY <1>7, <2>1 DEF Typed, PaneTyped, GoDown, paneVars
<1>8. CASE ActionFails
  BY <1>8, ServerUnchanged DEF Typed, PaneTyped, ActionFails, paneVars
<1>9. CASE Server /\ UNCHANGED pageVars
  <2>1. ServerTyped'
    BY <1>9, PatchingTyped, WritingTyped DEF Typed, Server
  <2>2. QED
    BY <1>9, <2>1 DEF Typed, PaneTyped, pageVars, paneVars
<1>10. CASE ServiceCrashes
  <2>1. ServerTyped'
    BY <1>10, CrashTyped DEF Typed, ServiceCrashes
  <2>2. QED
    BY <1>10, <2>1 DEF Typed, PaneTyped, ServiceCrashes, pageVars, paneVars
<1>11. CASE UNCHANGED settingsVars
  <2>1. UNCHANGED vars
    BY <1>11 DEF settingsVars
  <2>2. QED
    BY <1>11, <2>1, ServerUnchanged DEF Typed, PaneTyped, settingsVars, pageVars, paneVars
<1>12. QED
  BY <1>1, <1>2, <1>3, <1>4, <1>5, <1>6, <1>7, <1>8, <1>9, <1>10, <1>11 DEF SettingsNext

-----------------------------------------------------------------------------
(* The file                                                                *)

\* What a step does to the service.
LEMMA ServerSteps ==
    Typed /\ [SettingsNext]_settingsVars =>
        \/ UNCHANGED vars \/ ForgetRequests \/ Server \/ Crash
        \/ \E r \in Requests : \E p \in Patches : Send(r, p)
<1> SUFFICES ASSUME Typed, [SettingsNext]_settingsVars
             PROVE  \/ UNCHANGED vars \/ ForgetRequests \/ Server \/ Crash
                    \/ \E r \in Requests : \E p \in Patches : Send(r, p)
  OBVIOUS
<1>1. ASSUME NEW p \in Patches, Save(p)
      PROVE  UNCHANGED vars \/ \E r \in Requests : Send(r, p)
  BY <1>1 DEF Save
<1>2. ASSUME NEW id \in Sources, timeSourceChanged(id)
      PROVE  UNCHANGED vars \/ \E r \in Requests : \E p \in Patches : Send(r, p)
  BY <1>1, <1>2, SourcePatchFacts DEF timeSourceChanged
<1>3. ASSUME NEW n \in Names, ntpServerNameChanged(n)
      PROVE  UNCHANGED vars \/ \E r \in Requests : \E p \in Patches : Send(r, p)
  BY <1>1, <1>3, ServerPatchFacts DEF ntpServerNameChanged
<1>4. (\E day \in Days : dateChanged(day)) \/ (\E minute \in Clocks : timeChanged(minute))
        \/ (\E z \in Picks : timezoneSelectChanged(z)) => UNCHANGED vars
  BY DEF dateChanged, timeChanged, timezoneSelectChanged, SaveTime, SaveClock
<1>5. CASE SettingsNext
  BY <1>2, <1>3, <1>4, <1>5
  DEF SettingsNext, Open, TimePane, DevicePane, AskFor, Cancel, Confirm, GetTimeInfo, Fetched,
      FetchFails, GoDown, ActionFails, ServiceCrashes, Names
<1>6. CASE UNCHANGED settingsVars
  BY <1>6 DEF settingsVars
<1>7. QED
  BY <1>5, <1>6

LEMMA FileServer ==
    ASSUME ServerTyped, BrokenOnlyByCut, Server
    PROVE  BrokenOnlyByCut'
<1> USE DEF ServerTyped, TypeOK, BrokenOnlyByCut, Writing
<1>1. PICK r \in Requests : Patching(r) \/ writeNTPServer(r)
  BY DEF Server
<1>2. CASE Patching(r)
  BY <1>2 DEF Patching, Arrive, SetByTimedate, ComeToServer, EndOfPatch, Answer, Goto
<1>3. CASE LoadConf(r)
  BY <1>3 DEF LoadConf, Answer, Goto
<1>4. CASE OpenConf(r)
  BY <1>4 DEF OpenConf, Answer, Goto
<1>5. CASE WriteConf(r)
  <2>1. conf'.ok \/ cut'
    BY <1>5, ConfFacts DEF WriteConf, Whole
  <2>2. QED
    BY <2>1
<1>6. CASE FlushFails(r)
  BY <1>6 DEF FlushFails
<1>7. QED
  BY <1>1, <1>2, <1>3, <1>4, <1>5, <1>6 DEF writeNTPServer

LEMMA FileNext == Typed /\ BrokenOnlyByCut /\ [SettingsNext]_settingsVars => BrokenOnlyByCut'
<1> SUFFICES ASSUME Typed, BrokenOnlyByCut, [SettingsNext]_settingsVars
             PROVE  BrokenOnlyByCut'
  OBVIOUS
<1> USE DEF Typed, ServerTyped, TypeOK, BrokenOnlyByCut, Writing
<1>1. CASE UNCHANGED vars
  BY <1>1 DEF vars, requestVars
<1>2. CASE ForgetRequests
  BY <1>2 DEF ForgetRequests
<1>3. CASE Server
  BY <1>3, FileServer
<1>4. CASE Crash
  BY <1>4 DEF Crash
<1>5. CASE \E r \in Requests : \E p \in Patches : Send(r, p)
  BY <1>5 DEF Send, Goto
<1>6. QED
  BY <1>1, <1>2, <1>3, <1>4, <1>5, ServerSteps

\* Every variable keeps its type, whatever the page sends and the service does.
THEOREM TypeCorrect == SettingsSpec => []SettingsTypeOK
<1>1. Typed => SettingsTypeOK
  BY DEF Typed, ServerTyped, PaneTyped, SettingsTypeOK, Edits, NoEdit, Names
<1>2. QED
  BY <1>1, TypedInit, TypedNext, PTL DEF SettingsSpec

\* timesyncd.conf loses its settings only by a write that is cut short or meets
\* another one (datetime.go's early returns keep a file that does not parse).
THEOREM FileSurvives == SettingsSpec => []BrokenOnlyByCut
<1>1. SettingsInit => BrokenOnlyByCut
  BY DEF SettingsInit, Init, BrokenOnlyByCut, Whole
<1>2. QED
  BY <1>1, TypedInit, TypedNext, FileNext, PTL DEF SettingsSpec

-----------------------------------------------------------------------------
(* What is picked                                                          *)

PickedInv == PickedIsShown /\ (edit # NoEdit => fetch = "done")

\* Numbers of seconds and the days and minutes in them.
LEMMA DivMod ==
    /\ \A l \in Int : l % 86400 \in Int /\ 0 <= l % 86400 /\ l % 86400 < 86400
    /\ \A l \in Int : l % 60 \in Int /\ 0 <= l % 60 /\ l % 60 < 60
    /\ \A l \in Int : l \div 86400 \in Int /\ l = 86400 * (l \div 86400) + (l % 86400)
  OBVIOUS

LEMMA Days86400 ==
    ASSUME NEW k \in Int, NEW m \in Int, 0 <= m, m < 86400
    PROVE  (86400 * k + m) \div 86400 = k /\ (86400 * k + m) % 86400 = m
  OBVIOUS

LEMMA DayOf ==
    ASSUME NEW day \in Int, NEW l \in Int, NEW o \in Int
    PROVE  ((day * 86400 + (l % 86400) - o) + o) \div 86400 = day
<1> DEFINE m == l % 86400
<1>1. m \in Int /\ 0 <= m /\ m < 86400
  BY DivMod
<1> HIDE DEF m
<1>2. (day * 86400 + m - o) + o = 86400 * day + m
  BY <1>1
<1>3. ((day * 86400 + m - o) + o) \div 86400 = day
  BY <1>1, <1>2, Days86400
<1>4. QED
  BY <1>3 DEF m

LEMMA MinuteOf ==
    ASSUME NEW minute \in Int, 0 <= minute, minute < 1440, NEW l \in Int, NEW o \in Int
    PROVE  (((l - (l % 86400) + minute * 60 + (l % 60) - o) + o) % 86400) \div 60 = minute
<1> DEFINE k == l \div 86400
           d == l % 86400
           m == l % 60
<1>1. k \in Int /\ d \in Int /\ l = 86400 * k + d /\ m \in Int /\ 0 <= m /\ m < 60
  BY DivMod
<1> HIDE DEF k, d, m
<1>2. (l - d + minute * 60 + m - o) + o = 86400 * k + (minute * 60 + m)
  BY <1>1
<1>3. minute * 60 + m \in Int /\ 0 <= minute * 60 + m /\ minute * 60 + m < 86400
  BY <1>1
<1>4. (86400 * k + (minute * 60 + m)) % 86400 = minute * 60 + m
  BY <1>1, <1>3, Days86400
<1>5. (minute * 60 + m) \div 60 = minute
  BY <1>1
<1>6. (((l - d + minute * 60 + m - o) + o) % 86400) \div 60 = minute
  BY <1>2, <1>4, <1>5
<1>7. QED
  BY <1>6 DEF d, m

LEMMA PickedDate ==
    ASSUME Typed, NEW day \in Days, dateChanged(day)
    PROVE  PickedInv'
<1>1. day \in Int
  BY SettingsAssumption
<1>2. clock' = [clock EXCEPT !.dateTime = day * 86400 + (LocalTime % 86400) - clock.offset]
      /\ edit' = [kind |-> "date", day |-> day] /\ fetch' = "done"
  BY DEF dateChanged, SaveTime, SaveClock
<1>3. clock'.dateTime = day * 86400 + (LocalTime % 86400) - clock.offset
      /\ clock'.offset = clock.offset
  BY <1>2 DEF Typed, PaneTyped
<1>4. ((day * 86400 + (LocalTime % 86400) - clock.offset) + clock.offset) \div 86400 = day
  BY <1>1, ClockFacts, DayOf
<1>5. ShownDay' = day
  BY <1>3, <1>4 DEF ShownDay
<1>6. QED
  BY <1>2, <1>5 DEF PickedInv, PickedIsShown

LEMMA PickedTime ==
    ASSUME Typed, NEW minute \in Clocks, timeChanged(minute)
    PROVE  PickedInv'
<1> DEFINE t == LocalTime - (LocalTime % 86400) + minute * 60 + (LocalTime % 60) - clock.offset
<1>1. minute \in Int /\ 0 <= minute /\ minute < 1440
  BY SettingsAssumption
<1>2. clock' = [clock EXCEPT !.dateTime = t]
      /\ edit' = [kind |-> "time", clock |-> minute] /\ fetch' = "done"
  BY DEF timeChanged, SaveTime, SaveClock
<1>3. clock'.dateTime = t /\ clock'.offset = clock.offset
  BY <1>2 DEF Typed, PaneTyped
<1>4. ((t + clock.offset) % 86400) \div 60 = minute
  <2> DEFINE l == LocalTime
             o == clock.offset
  <2>1. l \in Int /\ o \in Int
    BY ClockFacts
  <2> HIDE DEF l, o
  <2>2. (((l - (l % 86400) + minute * 60 + (l % 60) - o) + o) % 86400) \div 60 = minute
    BY <1>1, <2>1, MinuteOf
  <2>3. QED
    BY <2>2 DEF l, o
<1>5. ShownClock' = minute
  BY <1>3, <1>4 DEF ShownClock
<1>6. QED
  BY <1>2, <1>5 DEF PickedInv, PickedIsShown

LEMMA PickedNext == Typed /\ PickedInv /\ [SettingsNext]_settingsVars => PickedInv'
<1> SUFFICES ASSUME Typed, PickedInv, [SettingsNext]_settingsVars PROVE PickedInv'
  OBVIOUS
<1>1. ASSUME edit' = NoEdit PROVE PickedInv'
  BY <1>1 DEF PickedInv, PickedIsShown, NoEdit
<1>2. ASSUME UNCHANGED <<clock, edit>>, fetch = "done" => fetch' = "done" PROVE PickedInv'
  BY <1>2 DEF PickedInv, PickedIsShown, ShownDay, ShownClock
<1>3. CASE Open
  BY <1>1, <1>3 DEF Open, ResetPane
<1>4. CASE TimePane
  <2>1. ASSUME NEW p, Save(p) PROVE fetch' = fetch
    BY <2>1 DEF Save
  <2>2. CASE \/ \E id \in Sources : timeSourceChanged(id)
             \/ \E n \in Names : ntpServerNameChanged(n)
    BY <1>2, <2>1, <2>2 DEF timeSourceChanged, ntpServerNameChanged
  <2>3. CASE \E z \in Picks : timezoneSelectChanged(z)
    BY <1>1, <2>3 DEF timezoneSelectChanged
  <2>4. QED
    BY <1>4, <2>2, <2>3, PickedDate, PickedTime DEF TimePane, Names
<1>5. CASE Fetched
  <2>1. edit = NoEdit
    BY <1>5 DEF Fetched, PickedInv
  <2>2. QED
    BY <1>1, <1>5, <2>1 DEF Fetched
<1>6. CASE DevicePane \/ GoDown \/ ActionFails \/ ServiceCrashes \/ (Server /\ UNCHANGED pageVars)
             \/ UNCHANGED settingsVars
  BY <1>2, <1>6 DEF DevicePane, AskFor, Cancel, Confirm, GoDown, ActionFails, ServiceCrashes,
                    settingsVars, pageVars, paneVars
<1>7. CASE GetTimeInfo \/ FetchFails
  BY <1>2, <1>7 DEF GetTimeInfo, FetchFails
<1>8. QED
  BY <1>3, <1>4, <1>5, <1>6, <1>7 DEF SettingsNext

\* The pane shows the date and the time that were picked, in the device's zone,
\* after any number of changes (dateChanged, timeChanged and render).
THEOREM PickedShown == SettingsSpec => []PickedIsShown
<1>1. SettingsInit => PickedInv
  BY DEF SettingsInit, PickedInv, PickedIsShown, NoEdit
<1>2. PickedInv => PickedIsShown
  BY DEF PickedInv
<1>3. QED
  BY <1>1, <1>2, TypedInit, TypedNext, PickedNext, PTL DEF SettingsSpec

-----------------------------------------------------------------------------
(* What a settled pane shows                                               *)

\* The pane has heard of nothing that would leave it out of step.
Sound == fetch = "done" /\ ~early /\ ~stale /\ \A r \in sent : clean[r]

NoReset == \A r \in sent : ~Resets(r)

\* The pane and the service agree.
Fits == /\ shown.ntp = ntp
        /\ NoReset => shown.server = readNTPServer(conf)

\* The service has yet to do what the pane shows, with the rest of request r.
NtpComes(r) == IF "ntp" \in DOMAIN patch[r] THEN patch[r].ntp = shown.ntp ELSE shown.ntp = ntp

ServerComes(r) ==
    IF "ntpServer" \notin DOMAIN patch[r] THEN shown.server = readNTPServer(conf)
    ELSE /\ patch[r].ntpServer = shown.server
         /\ pc[r] \in {"open", "write"} =>
               loaded[r] # <<>> /\ Head(loaded[r]) = shown.server
         /\ pc[r] = "loop" /\ "ntpServer" \notin todo[r] => shown.server = readNTPServer(conf)

WillFit(r) ==
    /\ r \in sent
    /\ NtpComes(r)
    /\ NoReset => ServerComes(r)
    /\ Writing(r) => ~conf.ok

PaneInv ==
    /\ sent # {} => fetch = "done"
    /\ \A r \in sent : pc[r] # "idle"
    /\ ~early /\ shown.source # "none" => (shown.source = "manual") = ~shown.ntp
    /\ ~early /\ fetch \in {"none", "sent", "answered"} => shown = NoShown
    /\ fetch = "answered" /\ ~stale =>
          /\ \A r \in Requests : ~InFlight(r)
          /\ answer.ntp = ntp /\ answer.server = readNTPServer(conf)
    /\ Sound => /\ \A q, r \in Requests : InFlight(q) /\ InFlight(r) => q = r
                /\ \A r \in Requests : InFlight(r) => WillFit(r)
                /\ (\A r \in Requests : ~InFlight(r)) => Fits

LEMMA PaneFits == Typed /\ PaneInv => SettledPaneFits
<1> SUFFICES ASSUME Typed, PaneInv, Settled
             PROVE  /\ (ShownSource = "manual") = ~ntp
                    /\ NoReset => shown.server = readNTPServer(conf)
  BY DEF SettledPaneFits, NoReset
<1>1. Fits /\ (shown.source # "none" => (shown.source = "manual") = ~shown.ntp)
  BY DEF Settled, PaneInv, Sound
<1>2. shown.ntp \in BOOLEAN /\ ntp \in BOOLEAN
  BY DEF Typed, PaneTyped, ServerTyped, TypeOK
<1>3. (ShownSource = "manual") = ~shown.ntp
  <2>1. CASE shown.source # "none"
    BY <1>1, <2>1 DEF ShownSource
  <2>2. CASE shown.source = "none" /\ shown.ntp /\ shown.server # Unset
    BY <2>2 DEF ShownSource
  <2>3. CASE shown.source = "none" /\ shown.ntp /\ shown.server = Unset
    BY <2>3 DEF ShownSource
  <2>4. CASE shown.source = "none" /\ ~shown.ntp
    BY <2>4 DEF ShownSource
  <2>5. QED
    BY <1>2, <2>1, <2>2, <2>3, <2>4
<1>4. QED
  BY <1>1, <1>2, <1>3 DEF Fits

LEMMA PaneInit == SettingsInit => PaneInv
BY DEF SettingsInit, Init, PaneInv, Sound, InFlight, NoShown

\* A request is sent by a pane that fits, and will make it fit again.
LEMMA PaneSend ==
    ASSUME Typed, PaneInv, NEW r \in Requests, NEW p \in Patches, Send(r, p),
           sent' = sent \cup {r}, fetch = "done", UNCHANGED <<fetch, early, stale, answer>>,
           shown'.source # "none" => (shown'.source = "manual") = ~shown'.ntp,
           IF "ntp" \in DOMAIN p THEN p.ntp = shown'.ntp ELSE shown'.ntp = shown.ntp,
           IF "ntpServer" \in DOMAIN p THEN p.ntpServer = shown'.server
                                       ELSE shown'.server = shown.server
    PROVE  PaneInv'
<1>1. /\ pc[r] = "idle" /\ pc' = [pc EXCEPT ![r] = "sent"]
      /\ patch' = [patch EXCEPT ![r] = p] /\ UNCHANGED <<conf, ntp, todo, loaded>>
  BY DEF Send, Goto
<1>2. /\ pc'[r] = "sent" /\ patch'[r] = p
      /\ \A q \in Requests : q # r => pc'[q] = pc[q] /\ patch'[q] = patch[q]
  BY <1>1 DEF Typed, ServerTyped, TypeOK
<1>3. r \notin sent /\ sent \subseteq Requests /\ \A q \in sent : pc[q] # "idle"
  BY <1>1 DEF PaneInv, Typed, PaneTyped
<1>4. ASSUME Sound'
      PROVE  /\ \A q \in Requests : ~InFlight(q)
             /\ Fits
  <2>1. \A q \in sent \cup {r} : clean'[q]
    BY <1>4 DEF Sound
  <2>2. \A q \in Requests : ~InFlight(q)
    BY <2>1 DEF Send, Typed, ServerTyped, TypeOK
  <2>3. clean' = clean
    BY <2>2 DEF Send
  <2>4. Sound
    BY <1>4, <2>1, <2>3 DEF Sound
  <2>5. QED
    BY <2>2, <2>4 DEF PaneInv
<1>5. ASSUME Sound'
      PROVE  WillFit(r)' /\ \A q \in Requests : InFlight(q)' => q = r
  <2>1. \A q \in Requests : InFlight(q)' => q = r
    BY <1>2, <1>4, <1>5 DEF InFlight
  <2>2. NtpComes(r)'
    BY <1>1, <1>2, <1>4, <1>5 DEF NtpComes, Fits
  <2>3. NoReset' => NoReset
    BY <1>2, <1>3 DEF NoReset, Resets
  <2>4. NoReset' => ServerComes(r)'
    BY <1>1, <1>2, <1>4, <1>5, <2>3 DEF ServerComes, Fits, readNTPServer
  <2>5. QED
    BY <1>2, <2>1, <2>2, <2>4 DEF WillFit, Writing
<1>6. \A q \in sent' : pc'[q] # "idle"
  BY <1>2, <1>3
<1>7. InFlight(r)'
  BY <1>2 DEF InFlight
<1>8. QED
  BY <1>5, <1>6, <1>7 DEF PaneInv

\* A step of the service is one of the request that makes the pane fit.
LEMMA PaneStep ==
    ASSUME Typed, PaneInv, NEW r \in Requests, InFlight(r),
           UNCHANGED <<fetch, early, stale, answer, shown, sent, patch>>,
           pc' \in [Requests -> {"idle", "sent", "loop", "load", "open", "write", "done"}],
           \A q \in Requests : q # r => pc'[q] = pc[q],
           pc'[r] # "idle", \A q \in Requests : clean'[q] => clean[q],
           Sound /\ clean'[r] /\ WillFit(r) => IF InFlight(r)' THEN WillFit(r)' ELSE Fits'
    PROVE  PaneInv'
<1>1. ~(fetch = "answered" /\ ~stale)
  BY DEF PaneInv
<1>2. \A q \in sent' : pc'[q] # "idle"
  BY DEF PaneInv, Typed, PaneTyped
<1>3. ASSUME Sound'
      PROVE  /\ \A q \in Requests : InFlight(q)' => q = r
             /\ IF InFlight(r)' THEN WillFit(r)' ELSE Fits'
  <2>1. Sound
    BY <1>3 DEF Sound, Typed, PaneTyped
  <2>2. WillFit(r) /\ \A q \in Requests : InFlight(q) => q = r
    BY <2>1 DEF PaneInv
  <2>3. clean'[r]
    BY <1>3, <2>2 DEF Sound, WillFit
  <2>4. \A q \in Requests : InFlight(q)' => q = r
    BY <2>2 DEF InFlight
  <2>5. QED
    BY <2>1, <2>2, <2>3, <2>4
<1>4. QED
  BY <1>1, <1>2, <1>3 DEF PaneInv

LEMMA PanePatching ==
    ASSUME Typed, PaneInv, NEW r \in Requests, Patching(r), UNCHANGED pageVars
    PROVE  PaneInv'
<1> DEFINE Points == {"idle", "sent", "loop", "load", "open", "write", "done"}
           Goes == /\ pc' \in [Requests -> Points] /\ \A q \in Requests : q # r => pc'[q] = pc[q]
                   /\ \A q \in Requests : clean'[q] => clean[q]
<1>1. UNCHANGED <<fetch, early, stale, answer, shown, sent>>
  BY DEF pageVars, paneVars
<1>2. NoReset' = NoReset
  BY <1>1 DEF Patching, Arrive, SetByTimedate, ComeToServer, EndOfPatch, NoReset, Resets
<1>3. CASE Arrive(r)
  <2>1. Goes /\ InFlight(r) /\ pc'[r] = "loop" /\ InFlight(r)' /\ todo'[r] = DOMAIN patch[r]
        /\ UNCHANGED <<conf, ntp, patch, loaded, clean>>
    BY <1>3 DEF Arrive, Goto, InFlight, Typed, ServerTyped, TypeOK
  <2>2. WillFit(r) => WillFit(r)'
    BY <1>1, <1>2, <2>1 DEF WillFit, NtpComes, ServerComes, Writing, readNTPServer
  <2>3. QED
    BY <1>1, <2>1, <2>2, PaneStep
<1>4. CASE SetByTimedate(r)
  <2>1. Goes /\ InFlight(r) /\ pc'[r] = "done" /\ ~InFlight(r)'
        /\ "ntp" \in DOMAIN patch[r] /\ pc[r] = "loop"
        /\ UNCHANGED <<conf, patch, todo, loaded>>
    BY <1>4 DEF SetByTimedate, Answer, Goto, Fails, InFlight, Typed, ServerTyped, TypeOK
  <2>2. ASSUME clean'[r], WillFit(r) PROVE Fits'
    <3>1. ntp' = patch[r].ntp
      BY <1>4, <2>2 DEF SetByTimedate, Fails, Typed, ServerTyped, TypeOK
    <3>2. shown.ntp = ntp'
      BY <2>1, <2>2, <3>1 DEF WillFit, NtpComes
    <3>3. ASSUME NoReset PROVE "ntpServer" \notin DOMAIN patch[r]
      <4>1. ~Resets(r) /\ patch[r] \in Patches
        BY <2>2, <3>3 DEF WillFit, NoReset, Typed, ServerTyped
      <4>2. QED
        BY <2>1, <4>1, PatchFacts DEF Resets
    <3>4. NoReset => shown.server = readNTPServer(conf)
      BY <2>2, <3>3 DEF WillFit, ServerComes
    <3>5. QED
      BY <1>1, <1>2, <2>1, <3>2, <3>4 DEF Fits, readNTPServer
  <2>3. QED
    BY <1>1, <2>1, <2>2, PaneStep
<1>5. CASE ComeToServer(r)
  <2>1. Goes /\ InFlight(r) /\ pc[r] = "loop" /\ pc'[r] = "load" /\ InFlight(r)'
        /\ "ntpServer" \in DOMAIN patch[r] /\ "ntpServer" \in todo[r]
        /\ UNCHANGED <<conf, ntp, patch, loaded, clean>>
    BY <1>5 DEF ComeToServer, Goto, InFlight, Typed, ServerTyped, TypeOK
  <2>2. WillFit(r) => WillFit(r)'
    BY <1>1, <1>2, <2>1 DEF WillFit, NtpComes, ServerComes, Writing
  <2>3. QED
    BY <1>1, <2>1, <2>2, PaneStep
<1>6. CASE EndOfPatch(r)
  <2>1. Goes /\ InFlight(r) /\ pc[r] = "loop" /\ pc'[r] = "done" /\ ~InFlight(r)'
        /\ todo[r] = {} /\ UNCHANGED <<conf, ntp, patch, todo, loaded, clean>>
    BY <1>6 DEF EndOfPatch, Answer, Goto, InFlight, Typed, ServerTyped, TypeOK
  <2>2. "ntp" \notin DOMAIN patch[r]
    BY <2>1 DEF Typed, ServerTyped, StepsFit
  <2>3. ASSUME WillFit(r) PROVE Fits'
    <3>1. shown.ntp = ntp
      BY <2>2, <2>3 DEF WillFit, NtpComes
    <3>2. NoReset => shown.server = readNTPServer(conf)
      BY <2>1, <2>3 DEF WillFit, ServerComes
    <3>3. QED
      BY <1>1, <1>2, <2>1, <3>1, <3>2 DEF Fits, readNTPServer
  <2>4. QED
    BY <1>1, <2>1, <2>3, PaneStep
<1>7. QED
  BY <1>3, <1>4, <1>5, <1>6 DEF Patching

LEMMA PaneWriting ==
    ASSUME Typed, PaneInv, NEW r \in Requests, writeNTPServer(r), UNCHANGED pageVars
    PROVE  PaneInv'
<1> DEFINE Points == {"idle", "sent", "loop", "load", "open", "write", "done"}
           Goes == /\ pc' \in [Requests -> Points] /\ \A q \in Requests : q # r => pc'[q] = pc[q]
                   /\ \A q \in Requests : clean'[q] => clean[q]
<1>1. UNCHANGED <<fetch, early, stale, answer, shown, sent>>
  BY DEF pageVars, paneVars
<1>2. UNCHANGED <<patch, todo, ntp>> /\ NoReset' = NoReset
  BY <1>1 DEF writeNTPServer, LoadConf, OpenConf, WriteConf, FlushFails, NoReset, Resets
<1>3. ASSUME pc[r] \in {"load", "open", "write"}, NoReset, WillFit(r)
      PROVE  /\ "ntpServer" \in DOMAIN patch[r] /\ patch[r].ntpServer = shown.server
             /\ shown.server # Unset /\ shown.server \in Names
  <2>1. "ntpServer" \in DOMAIN patch[r] /\ patch[r] \in Patches
    BY <1>3 DEF Typed, ServerTyped, StepsFit
  <2>2. patch[r].ntpServer = shown.server /\ ~Resets(r)
    BY <1>3, <2>1 DEF WillFit, ServerComes, NoReset
  <2>3. QED
    BY <2>1, <2>2, PatchFacts DEF Resets
<1>4. CASE LoadConf(r)
  <2>1. Goes /\ InFlight(r) /\ pc[r] = "load" /\ pc'[r] \in {"loop", "open", "done"}
        /\ UNCHANGED conf /\ (pc'[r] = "done" => ~clean'[r])
    BY <1>4 DEF LoadConf, Answer, Goto, Fails, InFlight, Typed, ServerTyped, TypeOK
  <2>2. ASSUME clean'[r], WillFit(r) PROVE WillFit(r)'
    <3> DEFINE servers == WithServer(conf.servers, patch[r].ntpServer)
    <3>1. conf.ok /\ \/ servers = conf.servers /\ pc'[r] = "loop"
                     \/ pc'[r] = "open" /\ loaded'[r] = servers
      BY <1>4, <2>1, <2>2 DEF LoadConf, Goto, Answer, Fails, Typed, ServerTyped, TypeOK
    <3>2. ASSUME NoReset PROVE servers # <<>> /\ Head(servers) = shown.server
      BY <1>3, <2>1, <2>2, <3>2, WithServerFacts DEF Typed, ServerTyped, TypeOK
    <3>3. ASSUME NoReset, servers = conf.servers PROVE shown.server = readNTPServer(conf)
      BY <3>1, <3>2, <3>3 DEF readNTPServer
    <3> HIDE DEF servers
    <3>4. NoReset => ServerComes(r)'
      BY <1>1, <1>2, <1>3, <2>1, <2>2, <3>1, <3>2, <3>3 DEF ServerComes, readNTPServer
    <3>5. QED
      BY <1>1, <1>2, <2>1, <2>2, <3>1, <3>4 DEF WillFit, NtpComes, Writing
  <2>3. clean'[r] => InFlight(r)'
    BY <2>1 DEF InFlight
  <2>4. QED
    BY <1>1, <1>2, <2>1, <2>2, <2>3, PaneStep
<1>5. CASE OpenConf(r)
  <2>1. Goes /\ InFlight(r) /\ pc[r] = "open" /\ pc'[r] \in {"write", "done"}
        /\ UNCHANGED loaded /\ (pc'[r] = "done" => ~clean'[r])
        /\ (pc'[r] = "write" => conf' = Broken)
    BY <1>5 DEF OpenConf, Answer, Goto, Fails, InFlight, Typed, ServerTyped, TypeOK
  <2>2. ASSUME clean'[r], WillFit(r) PROVE WillFit(r)'
    <3>1. pc'[r] = "write" /\ ~conf'.ok
      BY <2>1, <2>2 DEF Broken
    <3>2. NoReset => ServerComes(r)'
      BY <1>1, <1>2, <1>3, <2>1, <2>2, <3>1 DEF WillFit, ServerComes
    <3>3. QED
      BY <1>1, <1>2, <2>2, <3>1, <3>2 DEF WillFit, NtpComes, Writing
  <2>3. clean'[r] => InFlight(r)'
    BY <2>1 DEF InFlight
  <2>4. QED
    BY <1>1, <1>2, <2>1, <2>2, <2>3, PaneStep
<1>6. CASE WriteConf(r)
  <2>1. Goes /\ InFlight(r) /\ pc[r] = "write" /\ pc'[r] = "loop" /\ InFlight(r)'
    BY <1>6 DEF WriteConf, Goto, InFlight, Typed, ServerTyped, TypeOK
  <2>2. ASSUME WillFit(r) PROVE WillFit(r)'
    <3>1. conf' = Whole(loaded[r])
      BY <1>6, <2>1, <2>2 DEF WriteConf, WillFit, Writing
    <3>2. ASSUME NoReset PROVE shown.server = readNTPServer(conf')
      <4>1. loaded[r] # <<>> /\ Head(loaded[r]) = shown.server
        BY <1>3, <2>1, <2>2, <3>2 DEF WillFit, ServerComes
      <4>2. QED
        BY <3>1, <4>1 DEF readNTPServer, Whole
    <3>3. NoReset => ServerComes(r)'
      BY <1>1, <1>2, <1>3, <2>1, <2>2, <3>2 DEF ServerComes, readNTPServer
    <3>4. QED
      BY <1>1, <1>2, <2>1, <2>2, <3>3 DEF WillFit, NtpComes, Writing
  <2>3. QED
    BY <1>1, <1>2, <2>1, <2>2, PaneStep
<1>7. CASE FlushFails(r)
  <2>1. Goes /\ InFlight(r) /\ pc'[r] = "loop" /\ InFlight(r)' /\ ~clean'[r]
    BY <1>7 DEF FlushFails, Goto, Fails, InFlight, Typed, ServerTyped, TypeOK
  <2>2. QED
    BY <1>1, <1>2, <2>1, PaneStep
<1>8. QED
  BY <1>4, <1>5, <1>6, <1>7 DEF writeNTPServer

LEMMA PaneCrash ==
    ASSUME Typed, PaneInv, Crash,
           UNCHANGED <<fetch, early, stale, answer, shown, sent>>
    PROVE  PaneInv'
<1>1. \A r \in Requests : ~InFlight(r)' /\ (pc'[r] = "idle" => pc[r] = "idle")
  BY DEF Crash, InFlight, Typed, ServerTyped, TypeOK
<1>2. UNCHANGED <<conf, ntp, patch>>
  BY DEF Crash
<1>3. \A q \in sent' : pc'[q] # "idle"
  BY <1>1 DEF PaneInv, Typed, PaneTyped
<1>4. ASSUME Sound' PROVE Fits'
  <2>1. Sound /\ \A r \in Requests : InFlight(r) => r \notin sent
    BY <1>4 DEF Sound, Crash, Typed, ServerTyped, TypeOK, PaneTyped
  <2>2. \A r \in Requests : ~InFlight(r)
    BY <2>1 DEF PaneInv, WillFit
  <2>3. Fits
    BY <2>1, <2>2 DEF PaneInv
  <2>4. QED
    BY <1>2, <2>3 DEF Fits, NoReset, Resets, readNTPServer
<1>5. QED
  BY <1>1, <1>2, <1>3, <1>4 DEF PaneInv, readNTPServer

\* What leaves the service and the attributes of the pane alone.
LEMMA PaneStutter ==
    ASSUME PaneInv, UNCHANGED <<vars, fetch, early, stale, answer, shown, sent>>
    PROVE  PaneInv'
BY DEF PaneInv, Sound, Fits, WillFit, NtpComes, ServerComes, NoReset, Resets, InFlight, Writing,
       readNTPServer, vars, requestVars

\* A change before the fetch was answered: the pane is left out from then on.
LEMMA PaneEarly ==
    ASSUME Typed, PaneInv, UNCHANGED <<vars, sent, fetch, stale, answer>>, early'
    PROVE  PaneInv'
BY DEF PaneInv, Sound, InFlight, vars, requestVars, readNTPServer

LEMMA PaneTimePane ==
    ASSUME Typed, PaneInv, TimePane
    PROVE  PaneInv'
<1>1. ASSUME NEW p \in Patches, Save(p),
             shown'.source # "none" => (shown'.source = "manual") = ~shown'.ntp,
             IF "ntp" \in DOMAIN p THEN p.ntp = shown'.ntp ELSE shown'.ntp = shown.ntp,
             IF "ntpServer" \in DOMAIN p THEN p.ntpServer = shown'.server
                                         ELSE shown'.server = shown.server
      PROVE  PaneInv'
  <2>1. CASE fetch = "done"
    <3>1. PICK r \in Requests : Send(r, p) /\ sent' = sent \cup {r}
      BY <1>1, <2>1 DEF Save
    <3>2. QED
      BY <1>1, <2>1, <3>1, PaneSend DEF Save
  <2>2. CASE fetch # "done"
    BY <1>1, <2>2, PaneEarly DEF Save
  <2>3. QED
    BY <2>1, <2>2
<1>2. ASSUME NEW id \in Sources, timeSourceChanged(id) PROVE PaneInv'
  <2>1. shown' = [ntp    |-> id # "manual",
                  server |-> IF id = "automatic" THEN Unset ELSE shown.server,
                  source |-> id]
        /\ Save(SourcePatch(id))
    BY <1>2 DEF timeSourceChanged
  <2>2. QED
    BY <1>1, <2>1, SourcePatchFacts DEF Sources
<1>3. ASSUME NEW n \in Names, ntpServerNameChanged(n) PROVE PaneInv'
  <2>1. ShownSource = "custom" /\ shown' = [shown EXCEPT !.server = n]
        /\ Save([ntpServer |-> n])
    BY <1>3 DEF ntpServerNameChanged
  <2>2. shown'.source = shown.source /\ shown'.ntp = shown.ntp /\ shown'.server = n
    BY <2>1 DEF Typed, PaneTyped
  <2>3. CASE early
    <3>1. UNCHANGED <<fetch, stale, answer>> /\ fetch # "done"
      BY <2>1, <2>3 DEF Save
    <3>2. UNCHANGED <<vars, sent>> /\ early'
      BY <2>1, <3>1 DEF Save
    <3>3. QED
      BY <3>1, <3>2, PaneEarly
  <2>4. CASE ~early
    <3>1. shown'.source # "none" => (shown'.source = "manual") = ~shown'.ntp
      BY <2>2, <2>4 DEF PaneInv
    <3>2. QED
      BY <1>1, <2>1, <2>2, <3>1, ServerPatchFacts
  <2>5. QED
    BY <2>3, <2>4 DEF Typed, PaneTyped
<1>4. CASE \/ \E day \in Days : dateChanged(day)
           \/ \E minute \in Clocks : timeChanged(minute)
           \/ \E z \in Picks : timezoneSelectChanged(z)
  <2>1. SaveClock
    BY <1>4 DEF dateChanged, timeChanged, timezoneSelectChanged, SaveTime
  <2>2. QED
    BY <2>1, PaneStutter DEF SaveClock
<1>5. QED
  BY <1>2, <1>3, <1>4 DEF TimePane, Names

LEMMA PaneNext == Typed /\ PaneInv /\ [SettingsNext]_settingsVars => PaneInv'
<1> SUFFICES ASSUME Typed, PaneInv, [SettingsNext]_settingsVars PROVE PaneInv'
  OBVIOUS
<1>1. CASE Open
  BY <1>1 DEF Open, ResetPane, PaneInv, Sound, NoShown
<1>2. CASE TimePane
  BY <1>2, PaneTimePane
<1>3. CASE GetTimeInfo
  <2>1. fetch' = "answered" /\ UNCHANGED <<vars, shown, sent, early>>
        /\ answer' = [NoShown EXCEPT !.ntp = ntp, !.server = readNTPServer(conf)]
        /\ stale' = \E r \in Requests : InFlight(r)
    BY <1>3 DEF GetTimeInfo
  <2>2. sent = {} /\ (~early => shown = NoShown)
    BY <1>3 DEF GetTimeInfo, PaneInv
  <2>3. answer'.ntp = ntp /\ answer'.server = readNTPServer(conf)
    BY <2>1 DEF NoShown
  <2>4. UNCHANGED <<conf, ntp, pc>>
    BY <2>1 DEF vars, requestVars
  <2>5. QED
    BY <2>1, <2>2, <2>3, <2>4 DEF PaneInv, Sound, InFlight, NoShown, readNTPServer
<1>4. CASE Fetched
  <2>1. /\ fetch = "answered" /\ fetch' = "done" /\ UNCHANGED <<vars, sent, early, stale>>
        /\ shown' = [shown EXCEPT !.ntp = @ \/ answer.ntp,
                                  !.server = IF answer.server = Unset THEN @ ELSE answer.server]
    BY <1>4 DEF Fetched
  <2>2. UNCHANGED <<conf, ntp, pc>> /\ sent = {} /\ shown'.source = shown.source
    BY <2>1 DEF vars, requestVars, PaneInv, Typed, PaneTyped
  <2>3. ASSUME ~early PROVE shown'.source = "none"
    BY <2>1, <2>2, <2>3 DEF PaneInv, NoShown
  <2>4. ASSUME ~early, ~stale
        PROVE  Fits' /\ \A r \in Requests : ~InFlight(r)'
    <3>1. shown = NoShown /\ answer.ntp = ntp /\ answer.server = readNTPServer(conf)
          /\ \A r \in Requests : ~InFlight(r)
      BY <2>1, <2>4 DEF PaneInv
    <3>2. shown.ntp = FALSE /\ shown.server = Unset
      BY <3>1 DEF NoShown
    <3>3. shown'.ntp = (FALSE \/ answer.ntp) /\ shown'.server = answer.server
      BY <2>1, <3>2 DEF Typed, PaneTyped
    <3>4. shown'.ntp = ntp
      BY <3>1, <3>3 DEF Typed, ServerTyped, TypeOK
    <3>5. QED
      BY <2>2, <3>1, <3>3, <3>4 DEF Fits, InFlight, readNTPServer
  <2>5. QED
    BY <2>1, <2>2, <2>3, <2>4 DEF PaneInv, Sound
<1>5. CASE FetchFails
  BY <1>5 DEF FetchFails, PaneInv, Sound
<1>6. CASE DevicePane \/ ActionFails
  BY <1>6, PaneStutter DEF DevicePane, AskFor, Cancel, Confirm, ActionFails, paneVars
<1>7. CASE GoDown \/ ServiceCrashes
  BY <1>7, PaneCrash DEF GoDown, ServiceCrashes, pageVars, paneVars
<1>8. CASE Server /\ UNCHANGED pageVars
  BY <1>8, PanePatching, PaneWriting DEF Server
<1>9. CASE UNCHANGED settingsVars
  BY <1>9, PaneStutter DEF settingsVars, pageVars, paneVars
<1>10. QED
  BY <1>1, <1>2, <1>3, <1>4, <1>5, <1>6, <1>7, <1>8, <1>9 DEF SettingsNext

\* A pane that has settled shows the source and the server that the device uses,
\* though it sets its model before the answers, which it ignores: one request at
\* a time, each of which did what it was asked to (settings-time.js, datetime.go).
THEOREM PaneSettles == SettingsSpec => []SettledPaneFits
BY TypedInit, TypedNext, PaneInit, PaneNext, PaneFits, PTL DEF SettingsSpec

-----------------------------------------------------------------------------
(* The zone that is picked for an offset                                   *)

\* Each row has whole hours of at most a day, and minutes of at most an hour.
LEMMA TableRows ==
    /\ Zones = 1 .. 36
    /\ \A z \in Zones : TimeZones[z][1] \in -23 .. 23 /\ TimeZones[z][2] \in 0 .. 59
  BY DEF TimeZones, Zones

\* The text of a row's offset is the row's own text, also west of Greenwich:
\* the hours are cut off from the absolute value.
LEMMA TextOfEast ==
    ASSUME NEW z \in Zones
    PROVE  DescribeOffset(East(z)) = OffsetText(z)
<1> DEFINE h == TimeZones[z][1]
           m == TimeZones[z][2]
           o == (IF h < 0 THEN -1 ELSE 1) * (Abs(h) * 3600 + m * 60)
<1>1. h \in -23 .. 23 /\ m \in 0 .. 59
  BY TableRows
<1>2. East(z) = o
  BY DEF East
<1> HIDE DEF h, m
<1>3. o \in Int /\ Abs(o) = Abs(h) * 3600 + m * 60 /\ Abs(h) \in 0 .. 23
  BY <1>1 DEF Abs
<1>4. Abs(o) \div 3600 = Abs(h)
  BY <1>1, <1>3
<1>5. (Abs(o) - Abs(h) * 3600) \div 60 = m
  BY <1>1, <1>3
<1>6. Sign(o) * Abs(h) = h
  BY <1>1 DEF Sign, Abs
<1>7. Clamp(Abs(h), 0, 23) = Abs(h) /\ Clamp(m, 0, 59) = m
  BY <1>1, <1>3 DEF Clamp
<1>8. DescribeOffset(o) = formatUTCOffset(h, m)
  BY <1>4, <1>5, <1>6, <1>7 DEF DescribeOffset
<1> QED
  BY <1>2, <1>8 DEF OffsetText, h, m

\* Rows with the same text have the same offset.
LEMMA SameText ==
    ASSUME NEW y \in Zones, NEW z \in Zones, OffsetText(y) = OffsetText(z)
    PROVE  East(y) = East(z)
<1>1. /\ TimeZones[y][1] \in -23 .. 23 /\ TimeZones[y][2] \in 0 .. 59
      /\ TimeZones[z][1] \in -23 .. 23 /\ TimeZones[z][2] \in 0 .. 59
  BY TableRows
<1>2. /\ (TimeZones[y][1] < 0) = (TimeZones[z][1] < 0)
      /\ Abs(TimeZones[y][1]) = Abs(TimeZones[z][1])
      /\ Abs(TimeZones[y][2]) = Abs(TimeZones[z][2])
  BY DEF OffsetText, formatUTCOffset
<1>3. TimeZones[y][2] = TimeZones[z][2]
  BY <1>1, <1>2 DEF Abs
<1> QED
  BY <1>2, <1>3 DEF East

\* The pick is one of the candidates, when there are some.
LEMMA PickIsCandidate ==
    ASSUME NEW o, Candidates(o) # {}
    PROVE  pickTimeZoneFromOffset(o) \in Candidates(o)
<1> DEFINE less == {ss \in Nat \X Nat : ss[1] < ss[2]}
           found == Candidates(o)
<1>1. found \subseteq Nat /\ found # {}
  <2>1. found \subseteq Zones
    BY DEF Candidates
  <2>2. Zones \subseteq Nat
    <3>1. Zones = 1 .. 36
      BY TableRows
    <3> QED
      BY <3>1
  <2> QED
    BY <2>1, <2>2
<1>2. IsWellFoundedOn(less, Nat)
  BY NatLessThanWellFounded DEF OpToRel, IsWellFoundedOn
<1>3. PICK low \in found : \A k \in found : <<k, low>> \notin less
  <2> HIDE DEF less, found
  <2> QED
    BY <1>1, <1>2, WFMin
<1>4. ASSUME NEW k \in found PROVE low <= k
  <2>1. <<k, low>> \notin less /\ k \in Nat /\ low \in Nat
    BY <1>1, <1>3
  <2> QED
    BY <2>1
<1>5. \E x \in Candidates(o) : \A y \in Candidates(o) : x <= y
  BY <1>3, <1>4
<1> QED
  BY <1>5, Zenon DEF pickTimeZoneFromOffset

\* A device in a zone that the table does not name is shown in one with its
\* offset whenever the table has one, for any offset (common/time.js).
THEOREM ExactPicked == SettingsSpec => []ExactIsPicked
<1>1. ExactIsPicked
  <2> SUFFICES ASSUME clock.timezone = Unlisted, NEW z \in Zones, clock.offset = East(z)
               PROVE  East(ShownZone) = clock.offset
    BY DEF ExactIsPicked
  <2>1. z \in Candidates(clock.offset)
    BY TextOfEast DEF Candidates
  <2>2. ShownZone \in Candidates(clock.offset)
    BY <2>1, PickIsCandidate DEF ShownZone
  <2>3. ShownZone \in Zones /\ OffsetText(ShownZone) = OffsetText(z)
    BY <2>2, TextOfEast DEF Candidates
  <2> QED
    BY <2>3, SameText
<1> QED
  BY <1>1, PTL

=============================================================================
