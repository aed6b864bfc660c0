----------------------------- MODULE SnapViews ------------------------------
(***************************************************************************)
(* What a client sees of a snap over time.  The payload of a snap is made  *)
(* from two reads at two moments: snapd's answer, and the tracker's entry. *)
(* Three history variables, which the program does not have, record what   *)
(* was true of each snap while a request was served, what was answered,    *)
(* and whether anything came between the two reads.                        *)
(***************************************************************************)
EXTENDS SnapOps

VARIABLES truths,    \* what was true of its snap while r was served
          answered,  \* the status r was answered, or "none"
          disturbed  \* whether what r reads was changed, or not found, meanwhile

viewVars == <<vars, truths, answered, disturbed>>

\* What a payload of n says if both reads are made now.
StatusNow(n) ==
    IF IsRunning(states[n], local[n]) THEN {states[n].status}
    ELSE IF local[n] = "absent" THEN {translateStatus(s) : s \in StoreStatus}
                                ELSE {translateStatus(local[n])}

ViewInit ==
    /\ Init
    /\ truths = [r \in Requests |-> {}]
    /\ answered = [r \in Requests |-> "none"]
    /\ disturbed = [r \in Requests |-> FALSE]

Served(r) == kind[r] = "get" /\ pc[r] \notin {"idle", "done"}

\* Before r has its payload, the entry of its snap is stored or dropped, or a
\* call of snapd about it fails although the snap is installed.
Disturbs(r) ==
    /\ Served(r) /\ reply'[r] = Nothing
    /\ \/ states'[name[r]] # states[name[r]]
       \/ pc[r] = "snap" /\ pc'[r] = "findone" /\ isInstalled(local[name[r]])

\* Each step adds what it makes true to what the requests in flight may say.
ViewNext ==
    /\ Next
    /\ truths' = [r \in Requests |->
                    IF Served(r)' THEN truths[r] \cup StatusNow(name[r])' ELSE truths[r]]
    /\ answered' = [r \in Requests |->
                    IF pc'[r] = "done" /\ code'[r] = 200 /\ pc[r] # "done" /\ kind[r] = "get"
                      THEN reply[r][name[r]] ELSE answered[r]]
    /\ disturbed' = [r \in Requests |-> disturbed[r] \/ Disturbs(r)]

ViewSpec == ViewInit /\ [][ViewNext]_viewVars

-----------------------------------------------------------------------------

\* "uninstalled" -> "installing" -> "installed" -> "uninstalling" and repeat
\* (statetracker.go): what GET answers about a snap was so at some moment
\* between the request and the answer.
AnswerWasTrue ==
    \A r \in Requests : answered[r] # "none" => answered[r] \in truths[r]

\* The above can fail in no other way than these: somebody else stored or
\* dropped the entry between the request and the making of the payload, or
\* snapd did not find a snap that is installed.  Whatever else goes on, changes
\* that end and other clients of snapd included, the two reads agree.
TrueUnlessDisturbed ==
    \A r \in Requests :
        answered[r] # "none" /\ ~disturbed[r] => answered[r] \in truths[r]

=============================================================================
