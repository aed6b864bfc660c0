------------------------------ MODULE Startup ------------------------------
(***************************************************************************)
(* The start of the service: the configuration it reads                    *)
(* (snappy/app/configuration.go), which snapd's configure hook             *)
(* (pkg/meta/hooks/configure) rewrites in place while the service may be   *)
(* starting, and the certificate and key it makes when one of them is      *)
(* missing (cmd/snapweb/cert.go, main.go).  Both sides truncate a file and *)
(* then write it, and both can be killed at any point.                     *)
(***************************************************************************)
EXTENDS Naturals

CONSTANTS MaxPairs,   \* key pairs generated
          MaxKills,   \* kills of the service or of the hook, power failures
          MaxHooks    \* runs of the configure hook

ASSUME BoundsAssumption == {MaxPairs, MaxKills, MaxHooks} \subseteq Nat

VARIABLES pc,         \* where the service is
          https,      \* whether the configuration it has read asks for HTTPS
          cert, key,  \* cert.pem and key.pem
          pairs,      \* key pairs generated so far
          settings,   \* settings.json
          hook,       \* where the hook is
          draft,      \* the settings it is about to write
          hooks, kills,
          failed,     \* history: a write has failed since the service started
          pemCut,     \* history: a write of a pair was cut short or failed
          confCut,    \* history: a write of the settings was cut short
          told,       \* history: whether the device came with networks to allow
          served      \* history: the pair that was served last, or 0

pem == <<cert, key, pairs, failed, pemCut>>
service == <<pc, https, served>>
configuration == <<settings, hook, draft, hooks, confCut, told>>
vars == <<service, pem, configuration, kills>>

\* A PEM file is the number of the pair it belongs to, missing, or ends early.
Absent == 0
Torn == MaxPairs + 1
Pairs == 1..MaxPairs

\* Of the settings: HTTPS, and whether there are networks to allow.
Settings == [file : {"absent", "torn", "whole"}, https : BOOLEAN, networks : BOOLEAN]
NoSettings == [file |-> "absent", https |-> TRUE, networks |-> FALSE]
TornSettings == [NoSettings EXCEPT !.file = "torn"]

TypeOK ==
    /\ pc \in {"down", "dump", "certOpen", "certWrite", "keyOpen", "keyWrite", "load",
               "serving", "badConfig", "badPair"}
    /\ {cert, key} \subseteq 0..Torn /\ pairs \in 0..MaxPairs /\ served \in 0..MaxPairs
    /\ {settings, draft} \subseteq Settings
    /\ hook \in {"idle", "open", "write"}
    /\ hooks \in 0..MaxHooks /\ kills \in 0..MaxKills
    /\ {https, failed, pemCut, confCut, told} \subseteq BOOLEAN

\* A new device, whose settings may have been put there for it.
Init ==
    /\ pc = "down" /\ https = TRUE /\ served = 0
    /\ cert = Absent /\ key = Absent /\ pairs = 0
    /\ settings \in {NoSettings} \cup {s \in Settings : s.file = "whole"}
    /\ told = settings.networks
    /\ hook = "idle" /\ draft = NoSettings
    /\ hooks = 0 /\ kills = 0
    /\ failed = FALSE /\ pemCut = FALSE /\ confCut = FALSE

-----------------------------------------------------------------------------
(* The service                                                             *)

\* Variants that make a pair at every start, or that use or give up on one file.
DumpAlways ==
    /\ pc = "dump" /\ pairs < MaxPairs
    /\ pairs' = pairs + 1 /\ pc' = "certOpen"
    /\ UNCHANGED <<https, cert, key, failed, pemCut, configuration, kills, served>>
DumpIfNeither ==
    /\ pc = "dump"
    /\ \/ /\ (cert # Absent \/ key # Absent) /\ pc' = "load" /\ UNCHANGED pairs
       \/ /\ cert = Absent /\ key = Absent
          /\ pairs < MaxPairs /\ pairs' = pairs + 1 /\ pc' = "certOpen"
    /\ UNCHANGED <<https, cert, key, failed, pemCut, configuration, kills, served>>

DumpExits ==
    /\ pc = "dump"
    /\ \/ /\ cert = Absent /\ key = Absent
          /\ pairs < MaxPairs /\ pairs' = pairs + 1 /\ pc' = "certOpen"
       \/ cert # Absent /\ key # Absent /\ pc' = "load" /\ UNCHANGED pairs
       \/ (cert = Absent) # (key = Absent) /\ pc' = "down" /\ UNCHANGED pairs
    /\ UNCHANGED <<https, cert, key, failed, pemCut, configuration, kills, served>>

\* main reads the configuration first; settings that do not parse are fatal,
\* missing ones are the default.  snapd starts a service that has failed again.
ReadConfig ==
    /\ pc \in {"down", "badConfig", "badPair"}
    /\ failed' = FALSE
    /\ \/ /\ settings.file = "torn"
          /\ pc' = "badConfig"
          /\ UNCHANGED https
       \/ /\ settings.file # "torn"
          /\ https' = settings.https
          /\ pc' = IF settings.https THEN "dump" ELSE "serving"
    /\ UNCHANGED <<cert, key, pairs, pemCut, configuration, kills, served>>

\* DumpCertificate: if both files are there, nothing is made.
DumpCertificate ==
    /\ pc = "dump"
    /\ \/ /\ cert # Absent /\ key # Absent
          /\ pc' = "load"
          /\ UNCHANGED pairs
       \/ /\ (cert = Absent \/ key = Absent)
          /\ pairs < MaxPairs /\ pairs' = pairs + 1
          /\ pc' = "certOpen"
    /\ UNCHANGED <<https, cert, key, failed, pemCut, configuration, kills, served>>

OpenCert ==
    /\ pc = "certOpen"
    /\ cert' = Torn /\ pc' = "certWrite"
    /\ UNCHANGED <<https, key, pairs, failed, pemCut, configuration, kills, served>>

OpenKey ==
    /\ pc = "keyOpen"
    /\ key' = Torn /\ pc' = "keyWrite"
    /\ UNCHANGED <<https, cert, pairs, failed, pemCut, configuration, kills, served>>

\* Nobody looks at what pem.Encode returns.
EncodeFails == failed' = TRUE /\ pemCut' = TRUE

WriteCert ==
    /\ pc = "certWrite"
    /\ \/ cert' = pairs /\ UNCHANGED <<failed, pemCut>>
       \/ EncodeFails /\ UNCHANGED cert
    /\ pc' = "keyOpen"
    /\ UNCHANGED <<https, key, pairs, configuration, kills, served>>

WriteKey ==
    /\ pc = "keyWrite"
    /\ \/ key' = pairs /\ UNCHANGED <<failed, pemCut>>
       \/ EncodeFails /\ UNCHANGED key
    /\ pc' = "load"
    /\ UNCHANGED <<https, cert, pairs, configuration, kills, served>>

\* A variant that takes two files that are alike.
ServeMatching ==
    /\ pc = "load"
    /\ \/ cert = key /\ pc' = "serving" /\ served' = cert
       \/ cert # key /\ pc' = "badPair" /\ UNCHANGED served
    /\ UNCHANGED <<https, pem, configuration, kills>>

\* ListenAndServeTLS loads the pair; that it cannot is fatal.
ListenAndServeTLS ==
    /\ pc = "load"
    /\ \/ cert \in Pairs /\ cert = key /\ pc' = "serving" /\ served' = cert
       \/ ~(cert \in Pairs /\ cert = key) /\ pc' = "badPair" /\ UNCHANGED served
    /\ UNCHANGED <<https, pem, configuration, kills>>

-----------------------------------------------------------------------------
(* The configure hook: snapd runs one at a time                            *)

HookReadsNothing ==
    /\ hook = "idle" /\ hooks < MaxHooks
    /\ hooks' = hooks + 1 /\ hook' = "open"
    /\ \E b \in BOOLEAN : draft' = [NoSettings EXCEPT !.file = "whole", !.https = b]
    /\ UNCHANGED <<service, pem, settings, confCut, told, kills>>

\* Settings it cannot read are replaced by none; an option of snapctl that is
\* set replaces its setting, and all others are kept.
HookReads ==
    /\ hook = "idle" /\ hooks < MaxHooks
    /\ hooks' = hooks + 1 /\ hook' = "open"
    /\ LET read == IF settings.file = "whole" THEN settings ELSE NoSettings IN
          \E b \in BOOLEAN : draft' = [read EXCEPT !.file = "whole", !.https = b]
    /\ UNCHANGED <<service, pem, settings, confCut, told, kills>>

HookOpens ==
    /\ hook = "open"
    /\ settings' = TornSettings /\ hook' = "write"
    /\ UNCHANGED <<service, pem, draft, hooks, confCut, told, kills>>

HookWrites ==
    /\ hook = "write"
    /\ settings' = draft /\ hook' = "idle"
    /\ UNCHANGED <<service, pem, draft, hooks, confCut, told, kills>>

-----------------------------------------------------------------------------

\* The service dies, of a kill or of an error that is fatal elsewhere; the power
\* fails and takes the hook too; or the hook alone is killed.
Kill ==
    /\ kills < MaxKills /\ kills' = kills + 1
    /\ \E s, h \in BOOLEAN :
          /\ pc' = IF s THEN "down" ELSE pc
          /\ pemCut' = (pemCut \/ (s /\ pc \in {"certWrite", "keyWrite"}))
          /\ hook' = IF h THEN "idle" ELSE hook
          /\ confCut' = (confCut \/ (h /\ hook = "write"))
    /\ UNCHANGED <<https, served, cert, key, pairs, failed, settings, draft, hooks, told>>

main ==
    \/ ReadConfig \/ DumpCertificate
    \/ OpenCert \/ WriteCert \/ OpenKey \/ WriteKey
    \/ ListenAndServeTLS

configure == HookReads \/ HookOpens \/ HookWrites

Next == main \/ configure \/ Kill

Spec == Init /\ [][Next]_vars

\* The service runs and is started again when it has failed; a hook that has
\* begun is run to its end.
FairSpec == Spec /\ WF_vars(main) /\ WF_vars(HookOpens \/ HookWrites)

-----------------------------------------------------------------------------
(* Properties                                                              *)

\* The service gives up only on a file that is being written, or whose writing
\* was cut short: being killed between the certificate and the key is repaired
\* at the next start (DumpCertificate asks for both).
StopsOnlyByCut ==
    [][/\ pc # "badConfig" /\ pc' = "badConfig" => confCut \/ hook = "write"
       /\ pc # "badPair" /\ pc' = "badPair" => pemCut]_vars

\* Once a pair has been served, every later start that serves HTTPS serves the
\* same one (cert_test.go: the certificate is not generated again).
ServedPairStays == served # 0 => cert = served /\ key = served

\* The networks that a device came with are in its settings, or about to be put
\* back there, after any number of runs of the hook, which knows nothing of them,
\* and of kills: only a kill between its truncation and its write can lose them
\* (configure, lines 19-24 and 63-64).
NetworksSurvive ==
    ~confCut => told = IF hook = "write" THEN draft.networks ELSE settings.networks

\* Unless a write is cut short, the service is up again and again, however
\* often it is killed and whatever the hook does meanwhile.
ServesAgain == <>pemCut \/ <>confCut \/ []<>(pc = "serving")

-----------------------------------------------------------------------------
(* What the documentation says and the code does not keep *)

\* "DumpCertificate create the certificate & key files" (cert.go:35): unless a
\* write failed there and then, the files it leaves are a pair.
DumpLeavesPair == pc = "load" /\ ~failed => cert \in Pairs /\ cert = key

\* Settings that can be read have the networks the device came with.  After a
\* hook that was killed as it wrote, the next one writes them without.
ReadableHasNetworks == settings.file = "whole" => settings.networks = told

=============================================================================
