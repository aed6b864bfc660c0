--------------------------- MODULE Startup_proofs ---------------------------
(***************************************************************************)
(* That a certificate which has been served stays, that settings survive   *)
(* the hook and that only a write cut short stops the service, for any     *)
(* number of pairs made, kills and runs of the hook.                       *)
(***************************************************************************)
EXTENDS Startup, TLAPS

\* A start that is making a pair has no pair that was served before: one that
\* was served leaves both files in place, and DumpCertificate asks for both.
NothingServedYet ==
    pc \in {"certOpen", "certWrite", "keyOpen", "keyWrite"} => served = 0

PairInv ==
    /\ served \in 0..MaxPairs
    /\ ServedPairStays
    /\ NothingServedYet

LEMMA PairInit == Init => PairInv
BY BoundsAssumption DEF Init, PairInv, ServedPairStays, NothingServedYet, Absent

\* A step of the hook, and any other step that leaves the service alone.
LEMMA PairStutter ==
    ASSUME PairInv, UNCHANGED <<service, cert, key>>
    PROVE  PairInv'
BY DEF PairInv, ServedPairStays, NothingServedYet, service

LEMMA PairMain ==
    ASSUME PairInv, main
    PROVE  PairInv'
<1> USE DEF PairInv, ServedPairStays, NothingServedYet
<1>1. CASE ReadConfig
  BY <1>1 DEF ReadConfig
<1>2. CASE DumpCertificate
  <2>1. CASE pc' = "load" /\ UNCHANGED <<served, cert, key>>
    BY <2>1
  <2>2. CASE (cert = Absent \/ key = Absent) /\ pc' = "certOpen" /\ UNCHANGED <<served, cert, key>>
    <3>1. served = 0
      BY <2>2 DEF Absent
    <3>2. QED
      BY <2>2, <3>1
  <2>3. QED
    BY <1>2, <2>1, <2>2 DEF DumpCertificate
<1>3. CASE OpenCert
  BY <1>3 DEF OpenCert
<1>4. CASE WriteCert
  BY <1>4 DEF WriteCert
<1>5. CASE OpenKey
  BY <1>5 DEF OpenKey
<1>6. CASE WriteKey
  BY <1>6 DEF WriteKey
<1>7. CASE ListenAndServeTLS
  <2>1. CASE cert \in Pairs /\ cert = key /\ pc' = "serving" /\ served' = cert /\ UNCHANGED <<cert, key>>
    BY <2>1, BoundsAssumption DEF Pairs
  <2>2. CASE pc' = "badPair" /\ UNCHANGED <<served, cert, key>>
    BY <2>2
  <2>3. QED
    BY <1>7, <2>1, <2>2 DEF ListenAndServeTLS, pem
<1>8. QED
  BY <1>1, <1>2, <1>3, <1>4, <1>5, <1>6, <1>7 DEF main

LEMMA PairKill ==
    ASSUME PairInv, Kill
    PROVE  PairInv'
<1>1. pc' \in {"down", pc} /\ UNCHANGED <<served, cert, key>>
  BY DEF Kill
<1>2. QED
  BY <1>1 DEF PairInv, ServedPairStays, NothingServedYet

LEMMA PairNext == PairInv /\ [Next]_vars => PairInv'
<1> SUFFICES ASSUME PairInv, [Next]_vars PROVE PairInv'
  OBVIOUS
<1>1. CASE main
  BY <1>1, PairMain
<1>2. CASE configure
  <2>1. UNCHANGED <<service, cert, key>>
    BY <1>2 DEF configure, HookReads, HookOpens, HookWrites, pem
  <2>2. QED
    BY <2>1, PairStutter
<1>3. CASE Kill
  BY <1>3, PairKill
<1>4. CASE UNCHANGED vars
  <2>1. UNCHANGED <<service, cert, key>>
    BY <1>4 DEF vars, pem
  <2>2. QED
    BY <2>1, PairStutter
<1>5. QED
  BY <1>1, <1>2, <1>3, <1>4 DEF Next

\* A certificate that was served once is never replaced, whatever is killed or
\* fails to be written, and whatever the hook does (cert.go, DumpCertificate).
THEOREM ServedPair == Spec => []ServedPairStays
<1>1. PairInv => ServedPairStays
  BY DEF PairInv
<1>2. QED
  BY PairInit, PairNext, <1>1, PTL DEF Spec

-----------------------------------------------------------------------------
(* Types                                                                   *)

LEMMA SettingsType ==
    /\ NoSettings \in Settings /\ TornSettings \in Settings
    /\ \A s \in Settings, b \in BOOLEAN : [s EXCEPT !.file = "whole", !.https = b] \in Settings
<1>1. NoSettings \in Settings /\ TornSettings \in Settings
  BY DEF NoSettings, TornSettings, Settings
<1>2. ASSUME NEW s \in Settings, NEW b \in BOOLEAN
      PROVE  [s EXCEPT !.file = "whole", !.https = b] \in Settings
  BY DEF Settings
<1> QED
  BY <1>1, <1>2

LEMMA PemType == /\ Absent \in 0..Torn /\ Torn \in 0..Torn
                 /\ \A k \in 0..MaxPairs : k \in 0..Torn
                 /\ Absent \notin Pairs /\ Torn \notin Pairs /\ Torn # Absent
  BY BoundsAssumption DEF Absent, Torn, Pairs

LEMMA MainTyped ==
    ASSUME TypeOK, main
    PROVE  TypeOK'
<1>1. UNCHANGED <<configuration, kills>>
  BY DEF main, ReadConfig, DumpCertificate, OpenCert, WriteCert, OpenKey, WriteKey,
         ListenAndServeTLS
<1>2. pc' \in {"down", "dump", "certOpen", "certWrite", "keyOpen", "keyWrite", "load",
               "serving", "badConfig", "badPair"}
  BY DEF main, ReadConfig, DumpCertificate, OpenCert, WriteCert, OpenKey, WriteKey,
         ListenAndServeTLS
<1>3. cert' \in 0..Torn /\ key' \in 0..Torn
  BY PemType DEF TypeOK, main, ReadConfig, DumpCertificate, OpenCert, WriteCert, OpenKey,
                 WriteKey, ListenAndServeTLS, pem
<1>4. pairs' \in 0..MaxPairs
  BY BoundsAssumption
     DEF TypeOK, main, ReadConfig, DumpCertificate, OpenCert, WriteCert, OpenKey, WriteKey,
         ListenAndServeTLS, pem
<1>5. served' \in 0..MaxPairs
  BY BoundsAssumption
     DEF TypeOK, main, ReadConfig, DumpCertificate, OpenCert, WriteCert, OpenKey, WriteKey,
         ListenAndServeTLS, Pairs
<1>6. https' \in BOOLEAN /\ failed' \in BOOLEAN /\ pemCut' \in BOOLEAN
  <2>1. settings.https \in BOOLEAN
    BY DEF TypeOK, Settings
  <2> QED
    BY <2>1 DEF TypeOK, main, ReadConfig, DumpCertificate, OpenCert, WriteCert, OpenKey,
                WriteKey, ListenAndServeTLS, pem, EncodeFails
<1> QED
  BY <1>1, <1>2, <1>3, <1>4, <1>5, <1>6 DEF TypeOK, configuration

LEMMA HookTyped ==
    ASSUME TypeOK, configure
    PROVE  TypeOK'
<1>1. UNCHANGED <<pc, https, served, cert, key, pairs, failed, pemCut, confCut, told, kills>>
  BY DEF configure, HookReads, HookOpens, HookWrites, service, pem
<1>2. settings' \in Settings
  BY SettingsType, Zenon DEF TypeOK, configure, HookReads, HookOpens, HookWrites
<1>3. draft' \in Settings
  <2>1. CASE HookReads
    <3> DEFINE read == IF settings.file = "whole" THEN settings ELSE NoSettings
    <3>1. read \in Settings
      BY SettingsType DEF TypeOK
    <3>2. PICK b \in BOOLEAN : draft' = [read EXCEPT !.file = "whole", !.https = b]
      BY <2>1 DEF HookReads
    <3> HIDE DEF read
    <3> QED
      BY <3>1, <3>2, SettingsType
  <2> QED
    BY <2>1 DEF TypeOK, configure, HookOpens, HookWrites
<1>4. hook' \in {"idle", "open", "write"} /\ hooks' \in 0..MaxHooks
  <2>1. MaxHooks \in Nat /\ hooks \in 0..MaxHooks
    BY BoundsAssumption DEF TypeOK
  <2>2. hooks' = hooks \/ (hooks < MaxHooks /\ hooks' = hooks + 1)
    BY DEF configure, HookReads, HookOpens, HookWrites
  <2>3. hook' \in {"idle", "open", "write"}
    BY DEF configure, HookReads, HookOpens, HookWrites
  <2> QED
    BY <2>1, <2>2, <2>3
<1>5. /\ {cert', key'} \subseteq 0..Torn /\ {settings', draft'} \subseteq Settings
      /\ {https', failed', pemCut', confCut', told'} \subseteq BOOLEAN
  <2>1. {cert, key} \subseteq 0..Torn /\ {https, failed, pemCut, confCut, told} \subseteq BOOLEAN
    BY DEF TypeOK
  <2> QED
    BY <1>1, <1>2, <1>3, <2>1
<1> QED
  BY <1>1, <1>4, <1>5 DEF TypeOK

LEMMA NextTyped == TypeOK /\ [Next]_vars => TypeOK'
<1> SUFFICES ASSUME TypeOK, [Next]_vars PROVE TypeOK'
  OBVIOUS
<1>1. CASE Kill
  BY <1>1, BoundsAssumption DEF Kill, TypeOK
<1>2. CASE UNCHANGED vars
  BY <1>2 DEF vars, service, pem, configuration, TypeOK
<1> QED
  BY <1>1, <1>2, MainTyped, HookTyped DEF Next

\* Every variable keeps its type.
THEOREM TypeCorrect == Spec => []TypeOK
<1>1. Init => TypeOK
  <2> SUFFICES ASSUME Init PROVE TypeOK
    OBVIOUS
  <2>1. settings \in Settings /\ draft \in Settings
    BY SettingsType, Zenon DEF Init
  <2>2. /\ cert \in 0..Torn /\ key \in 0..Torn /\ pairs \in 0..MaxPairs /\ served \in 0..MaxPairs
        /\ hooks \in 0..MaxHooks /\ kills \in 0..MaxKills
    BY PemType, BoundsAssumption DEF Init
  <2>3. told \in BOOLEAN
    BY <2>1 DEF Init, Settings
  <2> QED
    BY <2>1, <2>2, <2>3 DEF Init, TypeOK
<1> QED
  BY <1>1, NextTyped, PTL DEF Spec

-----------------------------------------------------------------------------
(* What a file that is not whole tells                                     *)

\* The hook has something to write, and the settings are torn only by it.
HookFits ==
    /\ hook # "idle" => draft.file = "whole"
    /\ hook = "write" => settings.file = "torn"
    /\ settings.file = "torn" => confCut \/ hook = "write"

\* As long as no write of a pair was cut short, a key that is there belongs to
\* the certificate: it is made last, and one that is missing is made again.
PairFits ==
    LET matches == cert \in Pairs /\ cert = key IN
    ~pemCut =>
        CASE pc = "load" -> matches
          [] pc = "keyWrite" -> cert = pairs /\ pairs \in Pairs
          [] pc = "keyOpen" -> cert = pairs /\ pairs \in Pairs /\ key = Absent
          [] pc \in {"certOpen", "certWrite"} -> pairs \in Pairs /\ key = Absent
          [] OTHER -> key = Absent \/ matches

LEMMA HookKept == TypeOK /\ HookFits /\ [Next]_vars => HookFits'
<1> SUFFICES ASSUME TypeOK, HookFits, [Next]_vars PROVE HookFits'
  OBVIOUS
<1>1. CASE main \/ UNCHANGED vars
  <2>1. UNCHANGED configuration
    BY <1>1 DEF main, ReadConfig, DumpCertificate, OpenCert, WriteCert, OpenKey, WriteKey,
                ListenAndServeTLS, vars
  <2> QED
    BY <2>1 DEF configuration, HookFits
<1>2. CASE HookReads
  <2> DEFINE read == IF settings.file = "whole" THEN settings ELSE NoSettings
  <2>1. read \in Settings /\ (settings.file = "whole" => read = settings)
    BY SettingsType DEF TypeOK
  <2>2. PICK b \in BOOLEAN : draft' = [read EXCEPT !.file = "whole", !.https = b]
    BY <1>2 DEF HookReads
  <2> HIDE DEF read
  <2>3. draft'.file = "whole"
    BY <2>1, <2>2 DEF Settings
  <2> QED
    BY <1>2, <2>1, <2>3 DEF HookReads, HookFits
<1>3. CASE HookOpens
  BY <1>3 DEF HookOpens, HookFits, TornSettings, NoSettings
<1>4. CASE HookWrites
  BY <1>4 DEF HookWrites, HookFits
<1>5. CASE Kill
  BY <1>5 DEF Kill, HookFits
<1> QED
  BY <1>1, <1>2, <1>3, <1>4, <1>5 DEF Next, configure

LEMMA PairKept == TypeOK /\ PairFits /\ [Next]_vars => PairFits'
<1> SUFFICES ASSUME TypeOK, PairFits, [Next]_vars PROVE PairFits'
  OBVIOUS
<1>1. CASE ReadConfig
  BY <1>1 DEF ReadConfig, PairFits
<1>2. CASE DumpCertificate
  <2>1. pc = "dump" /\ UNCHANGED <<cert, key, pemCut>>
    BY <1>2 DEF DumpCertificate
  <2>2. ~pemCut => key = Absent \/ (cert \in Pairs /\ cert = key)
    BY <2>1 DEF PairFits
  <2>3. CASE cert # Absent /\ key # Absent /\ pc' = "load"
    BY <2>1, <2>2, <2>3 DEF PairFits
  <2>4. CASE (cert = Absent \/ key = Absent) /\ pairs' = pairs + 1 /\ pairs < MaxPairs /\ pc' = "certOpen"
    <3>1. pairs' \in Pairs
      BY <2>4, BoundsAssumption DEF TypeOK, Pairs
    <3>2. ~pemCut => key = Absent
      BY <2>2, <2>4, PemType
    <3> QED
      BY <2>1, <2>4, <3>1, <3>2 DEF PairFits
  <2> QED
    BY <1>2, <2>3, <2>4 DEF DumpCertificate
<1>3. CASE OpenCert
  BY <1>3 DEF OpenCert, PairFits
<1>4. CASE WriteCert
  BY <1>4 DEF WriteCert, PairFits, EncodeFails
<1>5. CASE OpenKey
  BY <1>5 DEF OpenKey, PairFits
<1>6. CASE WriteKey
  BY <1>6 DEF WriteKey, PairFits, EncodeFails
<1>7. CASE ListenAndServeTLS
  BY <1>7 DEF ListenAndServeTLS, pem, PairFits
<1>8. CASE configure \/ UNCHANGED vars
  BY <1>8 DEF configure, HookReads, HookOpens, HookWrites, service, pem, vars, PairFits
<1>9. CASE Kill
  BY <1>9 DEF Kill, PairFits
<1> QED
  BY <1>1, <1>2, <1>3, <1>4, <1>5, <1>6, <1>7, <1>8, <1>9 DEF Next, main

FileInv == TypeOK /\ HookFits /\ PairFits

LEMMA FileInvariance == Spec => []FileInv
<1>1. Init => HookFits /\ PairFits
  <2>1. \A s \in Settings : s.file = "whole" => s.file # "torn"
    OBVIOUS
  <2> QED
    BY <2>1 DEF Init, HookFits, PairFits, NoSettings
<1> QED
  BY <1>1, TypeCorrect, HookKept, PairKept, PTL DEF Spec, FileInv

\* The service gives up only on a file that is being written, or whose writing
\* was cut short (main.go, DumpCertificate): a kill between the certificate and
\* the key is repaired at the next start.
THEOREM OnlyCutsStop == Spec => StopsOnlyByCut
<1>1. FileInv /\ [Next]_vars =>
        [/\ pc # "badConfig" /\ pc' = "badConfig" => confCut \/ hook = "write"
         /\ pc # "badPair" /\ pc' = "badPair" => pemCut]_vars
  <2> SUFFICES ASSUME FileInv, Next
               PROVE  /\ pc # "badConfig" /\ pc' = "badConfig" => confCut \/ hook = "write"
                      /\ pc # "badPair" /\ pc' = "badPair" => pemCut
    OBVIOUS
  <2>1. ASSUME pc # "badConfig", pc' = "badConfig"
        PROVE  confCut \/ hook = "write"
    <3>1. ReadConfig /\ settings.file = "torn"
      BY <2>1 DEF Next, main, configure, ReadConfig, DumpCertificate, OpenCert, WriteCert,
                  OpenKey, WriteKey, ListenAndServeTLS, HookReads, HookOpens, HookWrites,
                  service, Kill
    <3> QED
      BY <3>1 DEF FileInv, HookFits
  <2>2. ASSUME pc # "badPair", pc' = "badPair"
        PROVE  pemCut
    <3>1. pc = "load" /\ ~(cert \in Pairs /\ cert = key)
      BY <2>2 DEF Next, main, configure, ReadConfig, DumpCertificate, OpenCert, WriteCert,
                  OpenKey, WriteKey, ListenAndServeTLS, HookReads, HookOpens, HookWrites,
                  service, Kill
    <3> QED
      BY <3>1 DEF FileInv, PairFits
  <2> QED
    BY <2>1, <2>2
<1> QED
  BY <1>1, FileInvariance, PTL DEF Spec, StopsOnlyByCut

\* As long as no write of the settings was cut short, the networks are in them
\* but while the hook writes, which then has them.
NetworksFit ==
    ~confCut =>
        /\ settings.file = "absent" => settings = NoSettings
        /\ hook # "idle" => draft.networks = told
        /\ hook # "write" => settings.networks = told

LEMMA NetworksStep == FileInv /\ NetworksFit /\ [Next]_vars => NetworksFit'
<1> SUFFICES ASSUME FileInv, NetworksFit, [Next]_vars PROVE NetworksFit'
  OBVIOUS
<1>1. CASE main \/ UNCHANGED vars
  <2>1. UNCHANGED configuration
    BY <1>1 DEF main, ReadConfig, DumpCertificate, OpenCert, WriteCert, OpenKey, WriteKey,
                ListenAndServeTLS, vars
  <2> QED
    BY <2>1 DEF configuration, NetworksFit
<1>2. CASE HookReads
  <2> DEFINE read == IF settings.file = "whole" THEN settings ELSE NoSettings
  <2>1. read \in Settings
    BY SettingsType DEF FileInv, TypeOK
  <2>2. PICK b \in BOOLEAN : draft' = [read EXCEPT !.file = "whole", !.https = b]
    BY <1>2 DEF HookReads
  <2>3. ~confCut => read.networks = told
    <3>1. ~confCut => settings.file \in {"absent", "whole"} /\ settings.networks = told
      BY <1>2 DEF HookReads, FileInv, HookFits, NetworksFit, TypeOK, Settings
    <3> QED
      BY <3>1 DEF NetworksFit
  <2> HIDE DEF read
  <2>4. draft'.networks = read.networks
    BY <2>1, <2>2 DEF Settings
  <2> QED
    BY <1>2, <2>3, <2>4 DEF HookReads, NetworksFit
<1>3. CASE HookOpens
  BY <1>3 DEF HookOpens, NetworksFit, TornSettings, NoSettings
<1>4. CASE HookWrites
  BY <1>4 DEF HookWrites, NetworksFit, FileInv, HookFits
<1>5. CASE Kill
  BY <1>5 DEF Kill, NetworksFit
<1> QED
  BY <1>1, <1>2, <1>3, <1>4, <1>5 DEF Next, configure

\* The networks a device came with are in its settings, or about to be put back
\* there, after any number of runs of the hook and of kills, unless the hook was
\* killed as it wrote them (configure).
THEOREM NetworksKept == Spec => []NetworksSurvive
<1>1. Init => NetworksFit
  BY DEF Init, NetworksFit
<1>2. NetworksFit => NetworksSurvive
  BY DEF NetworksFit, NetworksSurvive
<1> QED
  BY <1>1, <1>2, NetworksStep, FileInvariance, PTL DEF Spec

=============================================================================
