----------------------------- MODULE NetFilter ------------------------------
(***************************************************************************)
(* The address filter in front of every handler (snappy/app/netfilter.go). *)
(* net/http serves requests concurrently and NetFilter has no mutex: the   *)
(* steps below are a request's accesses to the list of networks and to the *)
(* address it remembers.  Interfaces come and go meanwhile.                *)
(*                                                                         *)
(* A network stands for its CIDR notation and an address for a host; each  *)
(* interface has one network.  The list is kept as a set: nothing depends  *)
(* on its order, or on how often a network is in it.                       *)
(***************************************************************************)
EXTENDS Naturals, Sequences

CONSTANTS Requests,    \* HTTP requests
          Addresses,   \* addresses they come from
          NetOf,       \* the network of an address, or None
          Interfaces,  \* the networks of the interfaces, in the order they are listed
          Skipped,     \* networks whose addresses are neither IPv4 nor loopback
          Configurations, \* what settings.json may say of the filter
          None

Networks == {Interfaces[i] : i \in DOMAIN Interfaces}

\* An interface stands for its network; one that the device has not got is not
\* found, and adds none.
Configured == UNION {c.AllowNetworks : c \in Configurations}

ASSUME NetFilterAssumption ==
    /\ Interfaces \in Seq(Networks)
    /\ \A c \in Configurations :
          c \in [AllowNetworks : SUBSET Configured, AllowInterfaces : SUBSET Networks,
                DisableIPFilter : BOOLEAN]
    /\ NetOf \in [Addresses -> Networks \cup Configured \cup {None}]
    /\ None \notin Networks \cup Configured \cup Addresses

VARIABLES filtering,       \* whether there is a filter at all
          allowedNetworks, \* the networks of the list
          acceptCache,     \* the address accepted last, or None
          connected,       \* the networks of the interfaces that are up
          pc,              \* where each request is
          ip,              \* the address it comes from
          next,            \* the interface it looks at next
          header,          \* the list as its append has read it
          reply,           \* what became of it
          steady,          \* history: its network could be found all along
          ever,            \* history: networks that were allowed or up at some time
          overlaps         \* history: requests that have overlapped each other's appends

filterVars == <<allowedNetworks, acceptCache>>
requestVars == <<pc, ip, next, header, reply>>
historyVars == <<steady, ever, overlaps>>
vars == <<filterVars, connected, filtering, requestVars, historyVars>>

Lists == SUBSET (Networks \cup Configured)

TypeOK ==
    /\ filtering \in BOOLEAN
    /\ allowedNetworks \in Lists
    /\ acceptCache \in Addresses \cup {None}
    /\ connected \in SUBSET Networks
    /\ pc \in [Requests -> {"idle", "cache1", "list1", "add", "append", "cache2", "list2", "done"}]
    /\ ip \in [Requests -> Addresses \cup {None}]
    /\ next \in [Requests -> 1 .. Len(Interfaces) + 1]
    /\ header \in [Requests -> Lists]
    /\ reply \in [Requests -> {"none", "served", "refused", "aborted"}]
    /\ steady \in [Requests -> BOOLEAN]
    /\ ever \in Lists
    /\ overlaps \in SUBSET Requests

\* NewFilterHandlerFromConfig: the networks and the interfaces that are
\* configured or, with none, all that are up; an interface that cannot be read is
\* passed over.
Init ==
    /\ connected \in SUBSET Networks
    /\ \E c \in Configurations, readable \in SUBSET (connected \ Skipped) :
         /\ filtering = ~c.DisableIPFilter
         /\ allowedNetworks =
              IF c.DisableIPFilter THEN {}
              ELSE IF c.AllowNetworks = {} /\ c.AllowInterfaces = {} THEN readable
              ELSE c.AllowNetworks \cup (c.AllowInterfaces \cap readable)
    /\ acceptCache = None
    /\ pc = [r \in Requests |-> "idle"]
    /\ ip = [r \in Requests |-> None]
    /\ next = [r \in Requests |-> 1]
    /\ header = [r \in Requests |-> {}]
    /\ reply = [r \in Requests |-> "none"]
    /\ steady = [r \in Requests |-> FALSE]
    /\ ever = allowedNetworks \cup connected
    /\ overlaps = {}

-----------------------------------------------------------------------------
(* A request                                                               *)

Goto(r, l) == pc' = [pc EXCEPT ![r] = l]

Answer(r, a) == Goto(r, "done") /\ reply' = [reply EXCEPT ![r] = a]

\* Without a filter the handler itself is called.
Unfiltered(r, a) ==
    /\ ~filtering /\ pc[r] = "idle"
    /\ Answer(r, "served")
    /\ ip' = [ip EXCEPT ![r] = a]
    /\ UNCHANGED <<filterVars, connected, filtering, next, header, historyVars>>

Arrive(r, a) ==
    /\ filtering /\ pc[r] = "idle"
    /\ Goto(r, "cache1")
    /\ ip' = [ip EXCEPT ![r] = a]
    /\ steady' = [steady EXCEPT ![r] = NetOf[a] \in connected \ Skipped]
    /\ UNCHANGED <<filterVars, connected, filtering, next, header, reply, ever, overlaps>>

\* IsAllowed: the address that was accepted last is accepted again ...
CheckCache(r) ==
    /\ pc[r] \in {"cache1", "cache2"}
    /\ IF acceptCache = ip[r]
         THEN Answer(r, "served")
         ELSE Goto(r, IF pc[r] = "cache1" THEN "list1" ELSE "list2") /\ UNCHANGED reply
    /\ UNCHANGED <<filterVars, connected, filtering, ip, next, header, historyVars>>

\* An IsAllowed that remembers the address before it looks for its network.
RemembersFirst(r) ==
    /\ pc[r] \in {"list1", "list2"}
    /\ acceptCache' = ip[r]
    /\ \/ NetOf[ip[r]] \in allowedNetworks /\ Answer(r, "served")
       \/ /\ NetOf[ip[r]] \notin allowedNetworks
          /\ IF pc[r] = "list1" THEN Goto(r, "add") /\ UNCHANGED reply
                                ELSE Answer(r, "refused")
    /\ UNCHANGED <<allowedNetworks, connected, filtering, ip, next, header, historyVars>>

\* ... otherwise one of the networks must contain it.  FilterHandler asks a
\* second time after it has looked at the interfaces.
CheckList(r) ==
    /\ pc[r] \in {"list1", "list2"}
    /\ \/ /\ NetOf[ip[r]] \in allowedNetworks
          /\ acceptCache' = ip[r]
          /\ Answer(r, "served")
       \/ /\ NetOf[ip[r]] \notin allowedNetworks
          /\ IF pc[r] = "list1" THEN Goto(r, "add") /\ UNCHANGED reply
                                ELSE Answer(r, "refused")
          /\ UNCHANGED acceptCache
    /\ UNCHANGED <<allowedNetworks, connected, filtering, ip, next, header, historyVars>>

Adding(r) == pc[r] \in {"add", "append"}

\* An AddLocalNetworks that leaves out the last interface.
AddsAllButLast(r) ==
    /\ pc[r] = "add" /\ next[r] <= Len(Interfaces)
    /\ IF Interfaces[next[r]] \in connected \ Skipped /\ next[r] < Len(Interfaces)
         THEN /\ Goto(r, "append")
              /\ header' = [header EXCEPT ![r] = allowedNetworks]
              /\ UNCHANGED next
         ELSE /\ next' = [next EXCEPT ![r] = @ + 1]
              /\ UNCHANGED <<pc, header>>
    /\ UNCHANGED <<filterVars, connected, filtering, ip, reply, historyVars>>

\* AddLocalNetworkForInterface, for one interface after the other; append reads
\* the list, and writes it in a step of its own.
AddLocalNetwork(r) ==
    /\ pc[r] = "add" /\ next[r] <= Len(Interfaces)
    /\ IF Interfaces[next[r]] \in connected \ Skipped
         THEN /\ Goto(r, "append")
              /\ header' = [header EXCEPT ![r] = allowedNetworks]
              /\ UNCHANGED next
         ELSE /\ next' = [next EXCEPT ![r] = @ + 1]
              /\ UNCHANGED <<pc, header>>
    /\ overlaps' = overlaps \cup
                     (IF \E q \in Requests \ {r} : Adding(q)
                        THEN {r} \cup {q \in Requests : Adding(q)} ELSE {})
    /\ UNCHANGED <<filterVars, connected, filtering, ip, reply, steady, ever>>

\* The interfaces, or this one, cannot be read.
InterfaceFails(r) ==
    /\ pc[r] = "add" /\ next[r] <= Len(Interfaces)
    /\ \E i \in {next[r] + 1, Len(Interfaces) + 1} : next' = [next EXCEPT ![r] = i]
    /\ steady' = [steady EXCEPT ![r] = FALSE]
    /\ UNCHANGED <<filterVars, connected, filtering, pc, ip, header, reply, ever, overlaps>>

InterfacesDone(r) ==
    /\ pc[r] = "add" /\ next[r] > Len(Interfaces)
    /\ Goto(r, "cache2")
    /\ UNCHANGED <<filterVars, connected, filtering, ip, next, header, reply, historyVars>>

\* An AllowNetwork that ends the loop one interface too far.
EndsTooFar(r) ==
    /\ pc[r] = "append"
    /\ allowedNetworks' = header[r] \cup {Interfaces[next[r]]}
    /\ next' = [next EXCEPT ![r] = Len(Interfaces) + 2]
    /\ Goto(r, "add")
    /\ UNCHANGED <<acceptCache, connected, filtering, ip, header, reply, historyVars>>

\* AllowNetwork writes the list it has read, with the network.  Of two appends
\* that overlap, the one whose store comes last wins, in the shared array or in
\* the list's header.
AllowNetwork(r) ==
    /\ pc[r] = "append"
    /\ LET n == Interfaces[next[r]] IN
         /\ allowedNetworks' \in {header[r] \cup {n}}
                \cup (IF allowedNetworks # header[r] THEN {allowedNetworks} ELSE {})
    /\ next' = [next EXCEPT ![r] = @ + 1]
    /\ Goto(r, "add")
    /\ UNCHANGED <<acceptCache, connected, filtering, ip, header, reply, historyVars>>

\* A read that races with a write can find a new length with an old array; the
\* access panics, and net/http cuts the connection.
Torn(r) ==
    /\ \/ pc[r] \in {"list1", "list2"} /\ \E q \in Requests \ {r} : pc[q] = "append"
       \/ /\ pc[r] \in {"cache1", "cache2"} /\ acceptCache = None
          /\ \E q \in Requests \ {r} : /\ pc[q] \in {"list1", "list2"}
                                       /\ NetOf[ip[q]] \in allowedNetworks
    /\ Answer(r, "aborted")
    /\ UNCHANGED <<filterVars, connected, filtering, ip, next, header, historyVars>>

-----------------------------------------------------------------------------
(* The device                                                              *)

InterfaceUp(n) ==
    /\ n \notin connected
    /\ connected' = connected \cup {n}
    /\ ever' = ever \cup {n}
    /\ UNCHANGED <<filterVars, filtering, requestVars, steady, overlaps>>

InterfaceDown(n) ==
    /\ n \in connected
    /\ connected' = connected \ {n}
    /\ steady' = [r \in Requests |-> steady[r] /\ NetOf[ip[r]] # n]
    /\ UNCHANGED <<filterVars, filtering, requestVars, ever, overlaps>>

FilterHandler(r) ==
    \/ \E a \in Addresses : Unfiltered(r, a) \/ Arrive(r, a)
    \/ CheckCache(r) \/ CheckList(r) \/ AddLocalNetwork(r) \/ InterfaceFails(r)
    \/ InterfacesDone(r) \/ AllowNetwork(r) \/ Torn(r)

Next ==
    \/ \E r \in Requests : FilterHandler(r)
    \/ \E n \in Networks : InterfaceUp(n) \/ InterfaceDown(n)

Spec == Init /\ [][Next]_vars

-----------------------------------------------------------------------------
(* Properties                                                              *)

\* A request is served only when its network was configured, or was on an
\* interface at some time: neither the remembered address nor a list that an
\* overlapping append has overwritten lets in anything else.
ServedBelongs ==
    filtering => \A r \in Requests : reply[r] = "served" => NetOf[ip[r]] \in ever

\* A request from a network that is up all along, and whose interface can be
\* read, is refused only when another request was adding networks meanwhile.
RefusedOnlyByOverlap ==
    \A r \in Requests : reply[r] = "refused" /\ steady[r] => r \in overlaps

-----------------------------------------------------------------------------
(* What the documentation says and the code does not keep *)

\* "This should prevent the case of the snap service being started before some
\* of the local networks are connected and the requester is in that lazy
\* network" (FilterHandler): a requester whose network is up is served.
LazyNetworkIsServed ==
    \A r \in Requests : steady[r] => reply[r] # "refused"

=============================================================================
