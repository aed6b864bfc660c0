------------------------------ MODULE TimeInfo ------------------------------
(***************************************************************************)
(* PATCH /api/v2/time-info (cmd/snapweb/handlers.go, datetime.go): a patch *)
(* is a map of settings; the first that goes to timedate1 ends the request *)
(* and the NTP server is kept in systemd's timesyncd.conf, which is read,  *)
(* changed and written back in place.  Requests are served concurrently,   *)
(* each in its own goroutine, and nothing locks the file.                  *)
(***************************************************************************)
EXTENDS Naturals, Sequences

CONSTANTS Requests,  \* PATCH requests, each made once
          Servers    \* names of NTP servers

Unset == "unset"     \* the empty server name: take the first server away

ASSUME TimeInfoAssumption == Unset \notin Servers

\* The patches of a time and of a zone have one key, and change neither the file
\* nor whether NTP is used: they are left out here.
Keys == {"ntp", "ntpServer"}

VARIABLES conf,     \* timesyncd.conf
          ntp,      \* whether timedate1 keeps the clock by NTP
          pc,       \* where each request is
          patch,    \* what it asks for
          todo,     \* the keys the loop of setTimeInfo has yet to come to
          loaded,   \* the servers it is about to write
          clean,    \* history: it met no other request, and nothing it asked for failed
          cut       \* history: a write was cut short, or met another one

requestVars == <<pc, patch, todo, loaded>>
vars == <<conf, ntp, requestVars, clean, cut>>

\* A file that ini.Load accepts and that has a section Time, or any other.  A
\* key NTP without a value counts as no key.
Broken == [ok |-> FALSE, servers |-> <<>>]
Whole(servers) == [ok |-> TRUE, servers |-> servers]

InFlight(r) == pc[r] \notin {"idle", "done"}
Writing(r) == pc[r] = "write"

TypeOK ==
    /\ conf.ok \in BOOLEAN /\ conf.servers \in Seq(Servers)
    /\ ntp \in BOOLEAN
    /\ pc \in [Requests -> {"idle", "sent", "loop", "load", "open", "write", "done"}]
    /\ \A r \in Requests : todo[r] \subseteq DOMAIN patch[r] /\ DOMAIN patch[r] \subseteq Keys
    /\ loaded \in [Requests -> Seq(Servers)]
    /\ clean \in [Requests -> BOOLEAN]
    /\ cut \in BOOLEAN

Init ==
    /\ \E servers \in {<<>>} \cup {<<s>> : s \in Servers} : conf = Whole(servers)
    /\ ntp \in BOOLEAN
    /\ pc = [r \in Requests |-> "idle"]
    /\ patch = [r \in Requests |-> <<>>]
    /\ todo = [r \in Requests |-> {}]
    /\ loaded = [r \in Requests |-> <<>>]
    /\ clean = [r \in Requests |-> TRUE]
    /\ cut = FALSE

-----------------------------------------------------------------------------
(* setTimeInfo                                                             *)

Goto(r, l) == pc' = [pc EXCEPT ![r] = l]

\* The handler answers 200 whatever setTimeInfo returns.
Answer(r) == Goto(r, "done")

Fails(r) == clean' = [clean EXCEPT ![r] = FALSE]

\* A patch p, a map from keys to values, is on its way.
Send(r, p) ==
    /\ pc[r] = "idle"
    /\ Goto(r, "sent")
    /\ patch' = [patch EXCEPT ![r] = p]
    /\ clean' = IF \E q \in Requests : InFlight(q)
                  THEN [q \in Requests |-> clean[q] /\ q # r /\ ~InFlight(q)] ELSE clean
    /\ UNCHANGED <<conf, ntp, todo, loaded, cut>>

Arrive(r) ==
    /\ pc[r] = "sent"
    /\ Goto(r, "loop")
    /\ todo' = [todo EXCEPT ![r] = DOMAIN patch[r]]
    /\ UNCHANGED <<conf, ntp, patch, loaded, clean, cut>>

\* The keys come in any order.  SetNTP returns from the loop, whether it fails
\* or not.
SetByTimedate(r) ==
    /\ pc[r] = "loop" /\ "ntp" \in todo[r]
    /\ \/ ntp' = patch[r].ntp /\ UNCHANGED clean
       \/ Fails(r) /\ UNCHANGED ntp
    /\ Answer(r)
    /\ UNCHANGED <<conf, patch, todo, loaded, cut>>

ComeToServer(r) ==
    /\ pc[r] = "loop" /\ "ntpServer" \in todo[r]
    /\ todo' = [todo EXCEPT ![r] = @ \ {"ntpServer"}]
    /\ Goto(r, "load")
    /\ UNCHANGED <<conf, ntp, patch, loaded, clean, cut>>

EndOfPatch(r) ==
    /\ pc[r] = "loop" /\ todo[r] = {}
    /\ Answer(r)
    /\ UNCHANGED <<conf, ntp, patch, todo, loaded, clean, cut>>

-----------------------------------------------------------------------------
(* writeNTPServer                                                          *)

\* A variant that forgets the empty name.
WithAnyServer(servers, s) ==
    IF servers # <<>> /\ Head(servers) = s THEN servers ELSE <<s>> \o servers

\* A new server is put in front; none takes the first away.
WithServer(servers, s) ==
    IF s = Unset THEN (IF servers = <<>> THEN <<>> ELSE Tail(servers))
    ELSE IF servers # <<>> /\ Head(servers) = s THEN servers
    ELSE <<s>> \o servers

\* A variant that opens the file for both and truncates it.
LoadTruncates(r) ==
    /\ pc[r] = "load"
    /\ LET servers == WithServer(conf.servers, patch[r].ntpServer) IN
          /\ loaded' = [loaded EXCEPT ![r] = servers]
          /\ Goto(r, IF servers = conf.servers THEN "loop" ELSE "write")
    /\ conf' = Broken
    /\ UNCHANGED <<ntp, patch, todo, clean, cut>>

\* A file that does not parse, or is being written, is an error.
LoadConf(r) ==
    /\ pc[r] = "load"
    /\ \/ /\ conf.ok
          /\ LET servers == WithServer(conf.servers, patch[r].ntpServer) IN
                IF servers = conf.servers
                  THEN Goto(r, "loop") /\ UNCHANGED loaded
                  ELSE Goto(r, "open") /\ loaded' = [loaded EXCEPT ![r] = servers]
          /\ UNCHANGED <<clean>>
       \/ /\ ~conf.ok
          /\ Fails(r) /\ Answer(r)
          /\ UNCHANGED loaded
    /\ UNCHANGED <<conf, ntp, patch, todo, cut>>

\* saveTimeSyncd opens the file with O_TRUNC ...
OpenConf(r) ==
    /\ pc[r] = "open"
    /\ \/ /\ conf' = Broken
          /\ Goto(r, "write")
          /\ UNCHANGED <<clean>>
       \/ /\ Fails(r) /\ Answer(r)     \* it cannot be opened
          /\ UNCHANGED conf
    /\ UNCHANGED <<ntp, patch, todo, loaded, cut>>

\* ... and writes it from the start; over what another request has written
\* meanwhile, which may be longer and leave a tail that is no setting.
WriteConf(r) ==
    /\ pc[r] = "write"
    /\ \/ conf' = Whole(loaded[r])
       \/ conf.ok /\ conf.servers # loaded[r] /\ conf' = Broken
    /\ cut' = (cut \/ conf.ok)
    /\ Goto(r, "loop") /\ loaded' = [loaded EXCEPT ![r] = <<>>]
    /\ UNCHANGED <<ntp, patch, todo, clean>>

\* A failure of the last Flush is not looked at.
FlushFails(r) ==
    /\ pc[r] = "write"
    /\ Goto(r, "loop") /\ loaded' = [loaded EXCEPT ![r] = <<>>]
    /\ Fails(r)
    /\ cut' = TRUE
    /\ UNCHANGED <<conf, ntp, patch, todo>>

-----------------------------------------------------------------------------

\* The process dies, with all its requests.
Crash ==
    /\ pc' = [r \in Requests |-> IF InFlight(r) THEN "done" ELSE pc[r]]
    /\ clean' = [r \in Requests |-> clean[r] /\ ~InFlight(r)]
    /\ cut' = (cut \/ \E r \in Requests : Writing(r))
    /\ UNCHANGED <<conf, ntp, patch, todo, loaded>>

Patching(r) == Arrive(r) \/ SetByTimedate(r) \/ ComeToServer(r) \/ EndOfPatch(r)
writeNTPServer(r) == LoadConf(r) \/ OpenConf(r) \/ WriteConf(r) \/ FlushFails(r)

Server == \E r \in Requests : Patching(r) \/ writeNTPServer(r)

readNTPServer(c) == IF c.ok /\ c.servers # <<>> THEN Head(c.servers) ELSE Unset

-----------------------------------------------------------------------------
(* Properties                                                              *)

\* The file loses its settings only by a write that is cut short or that
\* overlaps another; a request that finds it without them, as a write in
\* progress leaves it, does not write it back (writeNTPServer's early returns).
BrokenOnlyByCut ==
    ~conf.ok => cut \/ \E r \in Requests : Writing(r)

=============================================================================
