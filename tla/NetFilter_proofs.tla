-------------------------- MODULE NetFilter_proofs --------------------------
(***************************************************************************)
(* Proofs about NetFilter, for any interfaces, addresses and requests: who *)
(* is served belongs, and who belongs is refused only by an overlap.       *)
(***************************************************************************)
EXTENDS NetFilter, TLAPS

\* What the list and the address that is remembered stand for was allowed or up
\* at some time; so was what is about to be added to the list.
EverFits ==
    /\ connected \subseteq ever /\ allowedNetworks \subseteq ever
    /\ acceptCache # None => NetOf[acceptCache] \in ever
    /\ \A r \in Requests :
          pc[r] = "append" => /\ next[r] <= Len(Interfaces)
                              /\ header[r] \subseteq ever /\ Interfaces[next[r]] \in ever

IpFits ==
    \A r \in Requests :
        /\ pc[r] # "idle" => ip[r] \in Addresses
        /\ pc[r] = "idle" => ~steady[r] /\ reply[r] = "none"

BelongInv == TypeOK /\ EverFits /\ IpFits /\ ServedBelongs

-----------------------------------------------------------------------------

LEMMA InterfaceFacts ==
    /\ Len(Interfaces) \in Nat
    /\ \A i \in 1 .. Len(Interfaces) : Interfaces[i] \in Networks
    /\ \A n \in Networks : \E i \in 1 .. Len(Interfaces) : Interfaces[i] = n
    /\ \A a \in Addresses : a # None
BY NetFilterAssumption DEF Networks

LEMMA BelongInit == Init => BelongInv
<1> SUFFICES ASSUME Init PROVE BelongInv
  OBVIOUS
<1>1. 1 \in 1 .. Len(Interfaces) + 1
  BY InterfaceFacts
<1>2. /\ filtering \in BOOLEAN /\ allowedNetworks \in Lists
      /\ ever \in Lists /\ connected \subseteq Networks
  <2>1. PICK c \in Configurations, readable \in SUBSET (connected \ Skipped) :
          /\ filtering = ~c.DisableIPFilter
          /\ allowedNetworks =
               IF c.DisableIPFilter THEN {}
               ELSE IF c.AllowNetworks = {} /\ c.AllowInterfaces = {} THEN readable
               ELSE c.AllowNetworks \cup (c.AllowInterfaces \cap readable)
    BY DEF Init
  <2>2. c.AllowNetworks \subseteq Configured
    BY DEF Configured
  <2>3. connected \subseteq Networks /\ ever = allowedNetworks \cup connected
    BY DEF Init
  <2>4. QED
    BY <2>1, <2>2, <2>3 DEF Lists
<1>3. TypeOK
  BY <1>1, <1>2 DEF Init, TypeOK, Lists
<1>4. QED
  BY <1>3 DEF Init, BelongInv, EverFits, IpFits, ServedBelongs

\* Where there is no filter.
LEMMA BelongUnfiltered ==
    ASSUME BelongInv, NEW r \in Requests, NEW a \in Addresses, Unfiltered(r, a)
    PROVE  BelongInv'
<1> USE DEF BelongInv
<1>1. TypeOK' /\ IpFits'
  BY DEF Unfiltered, Answer, Goto, TypeOK, IpFits, filterVars, historyVars
<1>2. EverFits'
  BY DEF Unfiltered, Answer, Goto, TypeOK, EverFits, filterVars, historyVars
<1>3. ServedBelongs'
  BY DEF Unfiltered, ServedBelongs
<1>4. QED
  BY <1>1, <1>2, <1>3

\* A step of a request that adds nothing to the list.
LEMMA BelongAsk ==
    ASSUME BelongInv, NEW r \in Requests,
           \/ \E a \in Addresses : Arrive(r, a)
           \/ CheckCache(r) \/ CheckList(r) \/ InterfacesDone(r) \/ Torn(r)
    PROVE  BelongInv'
<1> USE DEF BelongInv
<1>1. CASE \E a \in Addresses : Arrive(r, a)
  BY <1>1 DEF Arrive, Goto, TypeOK, EverFits, IpFits, ServedBelongs, filterVars
<1>2. CASE CheckCache(r)
  <2>1. TypeOK' /\ IpFits'
    BY <1>2 DEF CheckCache, Answer, Goto, TypeOK, IpFits, filterVars, historyVars
  <2>2. EverFits'
    BY <1>2 DEF CheckCache, Answer, Goto, TypeOK, EverFits, filterVars, historyVars
  <2>3. ServedBelongs'
    <3>1. CASE acceptCache = ip[r]
      <4>1. NetOf[ip[r]] \in ever
        BY <1>2, <3>1, InterfaceFacts DEF CheckCache, EverFits, IpFits
      <4>2. QED
        BY <1>2, <3>1, <4>1
        DEF CheckCache, Answer, Goto, TypeOK, ServedBelongs, filterVars, historyVars
    <3>2. CASE acceptCache # ip[r]
      BY <1>2, <3>2 DEF CheckCache, ServedBelongs, historyVars
    <3>3. QED
      BY <3>1, <3>2
  <2>4. QED
    BY <2>1, <2>2, <2>3
<1>3. CASE CheckList(r)
  <2>1. ip[r] \in Addresses
    BY <1>3 DEF CheckList, IpFits
  <2>2. TypeOK' /\ IpFits'
    <3>1. TypeOK'
      BY <1>3, <2>1 DEF CheckList, Answer, Goto, TypeOK, historyVars
    <3>2. IpFits'
      BY <1>3, <2>1 DEF CheckList, Answer, Goto, TypeOK, IpFits, historyVars
    <3>3. QED
      BY <3>1, <3>2
  <2>3. EverFits'
    BY <1>3, <2>1 DEF CheckList, Answer, Goto, TypeOK, EverFits, historyVars
  <2>4. ServedBelongs'
    BY <1>3 DEF CheckList, Answer, Goto, TypeOK, EverFits, ServedBelongs, historyVars
  <2>5. QED
    BY <2>2, <2>3, <2>4
<1>4. CASE InterfacesDone(r)
  BY <1>4 DEF InterfacesDone, Goto, TypeOK, EverFits, IpFits, ServedBelongs, filterVars, historyVars
<1>5. CASE Torn(r)
  <2>1. pc[r] # "idle"
    BY <1>5 DEF Torn
  <2>2. QED
    BY <1>5, <2>1
    DEF Torn, Answer, Goto, TypeOK, EverFits, IpFits, ServedBelongs, filterVars, historyVars
<1>6. QED
  BY <1>1, <1>2, <1>3, <1>4, <1>5

LEMMA BelongAdd ==
    ASSUME BelongInv, NEW r \in Requests,
           AddLocalNetwork(r) \/ InterfaceFails(r) \/ AllowNetwork(r)
    PROVE  BelongInv'
<1> USE DEF BelongInv
<1>1. next[r] \in Nat /\ 1 <= next[r] /\ next[r] <= Len(Interfaces)
  BY InterfaceFacts DEF TypeOK, EverFits, AddLocalNetwork, InterfaceFails, AllowNetwork
<1>2. Interfaces[next[r]] \in Networks /\ next[r] + 1 \in 1 .. Len(Interfaces) + 1
  BY <1>1, InterfaceFacts
<1>3. CASE AddLocalNetwork(r)
  <2>1. overlaps' \subseteq Requests
    BY <1>3 DEF AddLocalNetwork, TypeOK
  <2>2. TypeOK'
    BY <1>2, <1>3, <2>1 DEF AddLocalNetwork, Goto, TypeOK, filterVars
  <2>3. EverFits'
    BY <1>1, <1>3 DEF AddLocalNetwork, Goto, TypeOK, EverFits, filterVars
  <2>4. IpFits' /\ ServedBelongs'
    BY <1>3 DEF AddLocalNetwork, Goto, TypeOK, IpFits, ServedBelongs, filterVars
  <2>5. QED
    BY <2>2, <2>3, <2>4
<1>4. CASE InterfaceFails(r)
  <2>1. PICK i \in {next[r] + 1, Len(Interfaces) + 1} : next' = [next EXCEPT ![r] = i]
    BY <1>4 DEF InterfaceFails
  <2>2. i \in 1 .. Len(Interfaces) + 1
    BY <1>2, <2>1, InterfaceFacts
  <2>3. TypeOK'
    BY <1>4, <2>1, <2>2 DEF InterfaceFails, TypeOK, filterVars
  <2>4. EverFits'
    BY <1>4, <2>1 DEF InterfaceFails, TypeOK, EverFits, filterVars
  <2>5. IpFits' /\ ServedBelongs'
    BY <1>4 DEF InterfaceFails, TypeOK, IpFits, ServedBelongs, filterVars
  <2>6. QED
    BY <2>3, <2>4, <2>5
<1>5. CASE AllowNetwork(r)
  <2>1. allowedNetworks' \in Lists /\ allowedNetworks' \subseteq ever
    <3>1. header[r] \cup {Interfaces[next[r]]} \in Lists
      BY <1>2 DEF TypeOK, Lists
    <3>2. header[r] \cup {Interfaces[next[r]]} \subseteq ever /\ allowedNetworks \subseteq ever
      BY <1>5 DEF AllowNetwork, EverFits
    <3>3. QED
      BY <1>5, <3>1, <3>2 DEF AllowNetwork, TypeOK
  <2>2. TypeOK'
    BY <1>2, <1>5, <2>1 DEF AllowNetwork, Goto, TypeOK, historyVars
  <2>3. EverFits'
    BY <1>5, <2>1 DEF AllowNetwork, Goto, TypeOK, EverFits, historyVars
  <2>4. IpFits' /\ ServedBelongs'
    BY <1>5 DEF AllowNetwork, Goto, TypeOK, IpFits, ServedBelongs, historyVars
  <2>5. QED
    BY <2>2, <2>3, <2>4
<1>6. QED
  BY <1>3, <1>4, <1>5

LEMMA BelongDevice ==
    ASSUME BelongInv, NEW n \in Networks, InterfaceUp(n) \/ InterfaceDown(n)
    PROVE  BelongInv'
<1> USE DEF BelongInv
<1>1. CASE InterfaceUp(n)
  <2>1. TypeOK'
    BY <1>1 DEF InterfaceUp, TypeOK, Lists, filterVars, requestVars
  <2>2. EverFits' /\ IpFits' /\ ServedBelongs'
    BY <1>1 DEF InterfaceUp, EverFits, IpFits, ServedBelongs, filterVars, requestVars
  <2>3. QED
    BY <2>1, <2>2
<1>2. CASE InterfaceDown(n)
  <2>1. steady' \in [Requests -> BOOLEAN]
    BY <1>2 DEF InterfaceDown, TypeOK
  <2>2. TypeOK'
    BY <1>2, <2>1 DEF InterfaceDown, TypeOK, filterVars, requestVars
  <2>3. EverFits' /\ IpFits' /\ ServedBelongs'
    BY <1>2 DEF InterfaceDown, EverFits, IpFits, ServedBelongs, filterVars, requestVars
  <2>4. QED
    BY <2>2, <2>3
<1>3. QED
  BY <1>1, <1>2

LEMMA BelongNext == BelongInv /\ [Next]_vars => BelongInv'
<1> SUFFICES ASSUME BelongInv, [Next]_vars PROVE BelongInv'
  OBVIOUS
<1>1. CASE UNCHANGED vars
  BY <1>1 DEF vars, filterVars, requestVars, historyVars, BelongInv, TypeOK, EverFits, IpFits,
              ServedBelongs
<1>2. CASE Next
  BY <1>2, BelongUnfiltered, BelongAsk, BelongAdd, BelongDevice DEF Next, FilterHandler
<1>3. QED
  BY <1>1, <1>2

\* Every variable keeps its type; in particular no request looks at an interface
\* beyond the last.
THEOREM TypeCorrect == Spec => []TypeOK
BY BelongInit, BelongNext, PTL DEF Spec, BelongInv

\* Nobody is served but from a network that was configured, or was up at some
\* time (IsAllowed, AllowNetwork): a list that an overlapping append overwrites
\* and an address that is remembered let in nobody else.
THEOREM Served == Spec => []ServedBelongs
BY BelongInit, BelongNext, PTL DEF Spec, BelongInv

-----------------------------------------------------------------------------
(* Who belongs                                                             *)

\* A request that the property speaks of, its network, and how far it is: it
\* has looked at an interface, and at the one of its network.
Lone(r) == steady[r] /\ r \notin overlaps
Net(r) == NetOf[ip[r]]
Started(r) == pc[r] = "append" \/ (pc[r] = "add" /\ next[r] > 1)
Passed(r) ==
    \/ Adding(r) /\ \E i \in 1 .. Len(Interfaces) : i < next[r] /\ Interfaces[i] = Net(r)
    \/ pc[r] \in {"cache2", "list2"}

\* Nobody adds while a lone request does, so that its appends are not lost; what
\* is read for an append after it has the network of that request.
LoneInv ==
    /\ \A r \in Requests : steady[r] => Net(r) \in connected \ Skipped
    /\ \A r \in Requests : pc[r] \in {"idle", "cache1", "list1"} => next[r] = 1
    /\ \A r \in Requests : Lone(r) /\ Started(r) =>
          \A q \in Requests : pc[q] = "append" => q = r
    /\ \A r \in Requests : Lone(r) /\ pc[r] = "append" => header[r] = allowedNetworks
    /\ \A r \in Requests : Lone(r) /\ Passed(r) =>
          /\ Net(r) \in allowedNetworks
          /\ \A q \in Requests : pc[q] = "append" => Net(r) \in header[q]
    /\ RefusedOnlyByOverlap

LEMMA PassedStarted ==
    ASSUME TypeOK, NEW r \in Requests, Passed(r), Adding(r)
    PROVE  Started(r)
BY InterfaceFacts DEF TypeOK, Passed, Started, Adding

LEMMA LoneInit == Init => LoneInv
BY DEF Init, LoneInv, Lone, RefusedOnlyByOverlap

\* A step of one request that leaves the list and the interfaces alone, starts
\* no append and lets it pass no interface.
LEMMA LoneAside ==
    ASSUME BelongInv, LoneInv, NEW r \in Requests,
           UNCHANGED <<allowedNetworks, connected, next, header, overlaps>>,
           \A q \in Requests : q # r => pc'[q] = pc[q] /\ ip'[q] = ip[q]
                                        /\ steady'[q] = steady[q] /\ reply'[q] = reply[q],
           steady'[r] => Net(r)' \in connected \ Skipped,
           pc'[r] # "append", pc'[r] \in {"idle", "cache1", "list1"} => next[r] = 1,
           Lone(r)' /\ Started(r)' => Lone(r) /\ Started(r) /\ Net(r)' = Net(r),
           Lone(r)' /\ Passed(r)' => Lone(r) /\ Passed(r) /\ Net(r)' = Net(r),
           reply'[r] = "refused" /\ steady'[r] => r \in overlaps
    PROVE  LoneInv'
<1>1. \A q \in Requests : q # r =>
         /\ Lone(q)' = Lone(q) /\ Started(q)' = Started(q) /\ Passed(q)' = Passed(q)
         /\ Net(q)' = Net(q)
  BY DEF Lone, Started, Passed, Adding, Net
<1>2. \A q \in Requests : pc'[q] = "append" => q # r /\ pc[q] = "append"
  OBVIOUS
<1>3. \A q \in Requests : steady'[q] => Net(q)' \in connected' \ Skipped
  BY <1>1 DEF LoneInv
<1>4. \A q \in Requests : Lone(q)' /\ Started(q)' =>
         \A p \in Requests : pc'[p] = "append" => p = q
  BY <1>1, <1>2 DEF LoneInv
<1>5. \A q \in Requests : Lone(q)' /\ pc'[q] = "append" => header'[q] = allowedNetworks'
  BY <1>1, <1>2 DEF LoneInv
<1>6. \A q \in Requests : Lone(q)' /\ Passed(q)' =>
          /\ Net(q)' \in allowedNetworks'
          /\ \A p \in Requests : pc'[p] = "append" => Net(q)' \in header'[p]
  BY <1>1, <1>2 DEF LoneInv
<1>7. RefusedOnlyByOverlap'
  BY DEF LoneInv, RefusedOnlyByOverlap
<1>8. \A q \in Requests : pc'[q] \in {"idle", "cache1", "list1"} => next'[q] = 1
  BY DEF LoneInv
<1>9. QED
  BY <1>8, <1>3, <1>4, <1>5, <1>6, <1>7 DEF LoneInv

LEMMA LoneAsk ==
    ASSUME BelongInv, LoneInv, NEW r \in Requests,
           \/ \E a \in Addresses : Arrive(r, a)
           \/ CheckCache(r) \/ CheckList(r) \/ Torn(r)
    PROVE  LoneInv'
<1>1. ASSUME NEW a \in Addresses, Arrive(r, a) PROVE LoneInv'
  <2>1. pc[r] = "idle" /\ pc' = [pc EXCEPT ![r] = "cache1"] /\ ip' = [ip EXCEPT ![r] = a]
        /\ steady' = [steady EXCEPT ![r] = NetOf[a] \in connected \ Skipped]
        /\ UNCHANGED <<allowedNetworks, connected, next, header, overlaps, reply>>
    BY <1>1 DEF Arrive, Goto, filterVars
  <2>2. /\ pc'[r] = "cache1" /\ ip'[r] = a /\ steady'[r] = (NetOf[a] \in connected \ Skipped)
        /\ \A q \in Requests : q # r => pc'[q] = pc[q] /\ ip'[q] = ip[q]
                                        /\ steady'[q] = steady[q] /\ reply'[q] = reply[q]
        /\ reply'[r] = "none"
    BY <2>1 DEF BelongInv, TypeOK, IpFits
  <2>3. ~Started(r)' /\ ~Passed(r)'
    BY <2>2 DEF Started, Passed, Adding
  <2>4. next[r] = 1
    BY <2>1 DEF LoneInv
  <2>5. QED
    BY <2>1, <2>2, <2>3, <2>4, LoneAside DEF Net
<1>2. CASE CheckCache(r)
  <2>1. /\ pc[r] \in {"cache1", "cache2"} /\ pc'[r] \in {"done", "list1", "list2"}
        /\ (pc'[r] = "list2" => pc[r] = "cache2") /\ (pc'[r] = "list1" => pc[r] = "cache1")
        /\ UNCHANGED <<allowedNetworks, connected, ip, next, header, steady, overlaps>>
        /\ \A q \in Requests : q # r => pc'[q] = pc[q] /\ reply'[q] = reply[q]
        /\ (reply'[r] = "refused" => reply[r] = "refused")
    BY <1>2 DEF CheckCache, Answer, Goto, filterVars, historyVars, BelongInv, TypeOK
  <2>2. ~Started(r)' /\ (Passed(r)' => Passed(r)) /\ Net(r)' = Net(r)
        /\ (Lone(r)' => Lone(r))
    BY <2>1 DEF Started, Passed, Adding, Net, Lone
  <2>3. QED
    BY <2>1, <2>2, LoneAside DEF LoneInv, RefusedOnlyByOverlap
<1>3. CASE CheckList(r)
  <2>1. /\ pc[r] \in {"list1", "list2"} /\ pc'[r] \in {"done", "add"}
        /\ (pc'[r] = "add" => pc[r] = "list1")
        /\ UNCHANGED <<allowedNetworks, connected, ip, next, header, steady, overlaps>>
        /\ \A q \in Requests : q # r => pc'[q] = pc[q] /\ reply'[q] = reply[q]
        /\ (reply'[r] = "refused" =>
              reply[r] = "refused" \/ (pc[r] = "list2" /\ Net(r) \notin allowedNetworks))
    BY <1>3 DEF CheckList, Answer, Goto, historyVars, BelongInv, TypeOK, Net
  <2>2. reply'[r] = "refused" /\ steady'[r] => r \in overlaps
    BY <2>1 DEF LoneInv, RefusedOnlyByOverlap, Lone, Passed
  <2>3. ~Started(r)' /\ ~Passed(r)' /\ Net(r)' = Net(r)
    BY <2>1, InterfaceFacts DEF LoneInv, Started, Passed, Adding, Net
  <2>4. QED
    BY <2>1, <2>2, <2>3, LoneAside DEF LoneInv
<1>4. CASE Torn(r)
  <2>1. /\ pc[r] # "idle" /\ pc'[r] = "done"
        /\ UNCHANGED <<allowedNetworks, connected, ip, next, header, steady, overlaps>>
        /\ \A q \in Requests : q # r => pc'[q] = pc[q] /\ reply'[q] = reply[q]
        /\ reply'[r] = "aborted"
    BY <1>4 DEF Torn, Answer, Goto, filterVars, historyVars, BelongInv, TypeOK
  <2>2. QED
    BY <2>1, LoneAside DEF LoneInv, Started, Passed, Adding, Net
<1>5. QED
  BY <1>1, <1>2, <1>3, <1>4

LEMMA LoneUnfiltered ==
    ASSUME BelongInv, LoneInv, NEW r \in Requests, NEW a \in Addresses, Unfiltered(r, a)
    PROVE  LoneInv'
<1>1. /\ pc'[r] = "done" /\ ~steady'[r] /\ reply'[r] = "served"
      /\ UNCHANGED <<allowedNetworks, connected, next, header, steady, overlaps>>
      /\ \A q \in Requests : q # r => pc'[q] = pc[q] /\ ip'[q] = ip[q] /\ reply'[q] = reply[q]
  BY DEF Unfiltered, Answer, Goto, filterVars, historyVars, BelongInv, TypeOK, IpFits
<1>2. QED
  BY <1>1, LoneAside DEF Lone

LEMMA LoneDone ==
    ASSUME BelongInv, LoneInv, NEW r \in Requests, InterfacesDone(r)
    PROVE  LoneInv'
<1>1. /\ pc[r] = "add" /\ pc'[r] = "cache2" /\ next[r] > Len(Interfaces)
      /\ UNCHANGED <<allowedNetworks, connected, ip, next, header, steady, overlaps, reply>>
      /\ \A q \in Requests : q # r => pc'[q] = pc[q]
  BY DEF InterfacesDone, Goto, filterVars, historyVars, BelongInv, TypeOK
<1>2. ASSUME Lone(r)' PROVE Lone(r) /\ Passed(r)
  <2>1. Lone(r) /\ Net(r) \in Networks
    BY <1>1, <1>2 DEF Lone, LoneInv, BelongInv, TypeOK
  <2>2. PICK i \in 1 .. Len(Interfaces) : Interfaces[i] = Net(r)
    BY <2>1, InterfaceFacts
  <2>3. i < next[r]
    BY <1>1, InterfaceFacts DEF BelongInv, TypeOK
  <2>4. QED
    BY <1>1, <2>1, <2>2, <2>3 DEF Passed, Adding
<1>3. ~Started(r)' /\ Net(r)' = Net(r) /\ (steady'[r] => Net(r)' \in connected \ Skipped)
      /\ (reply'[r] = "refused" /\ steady'[r] => r \in overlaps)
  BY <1>1 DEF Started, Net, LoneInv, RefusedOnlyByOverlap
<1>4. QED
  BY <1>1, <1>2, <1>3, LoneAside

LEMMA LoneFails ==
    ASSUME BelongInv, LoneInv, NEW r \in Requests, InterfaceFails(r)
    PROVE  LoneInv'
<1>1. /\ UNCHANGED <<allowedNetworks, connected, pc, ip, header, reply, overlaps>>
      /\ pc[r] = "add" /\ ~steady'[r]
      /\ \A q \in Requests : q # r => next'[q] = next[q] /\ steady'[q] = steady[q]
  BY DEF InterfaceFails, filterVars, BelongInv, TypeOK
<1>2. ~Lone(r)' /\ \A q \in Requests : q # r =>
         Lone(q)' = Lone(q) /\ Started(q)' = Started(q) /\ Passed(q)' = Passed(q)
  BY <1>1 DEF Lone, Started, Passed, Adding, Net
<1>3. QED
  BY <1>1, <1>2 DEF LoneInv, RefusedOnlyByOverlap, Net

LEMMA LoneAdd ==
    ASSUME BelongInv, LoneInv, NEW r \in Requests, AddLocalNetwork(r)
    PROVE  LoneInv'
<1>1. /\ UNCHANGED <<allowedNetworks, connected, ip, steady, reply>>
      /\ pc[r] = "add" /\ next[r] \in Nat /\ 1 <= next[r] /\ next[r] <= Len(Interfaces)
      /\ pc'[r] \in {"add", "append"}
      /\ \A q \in Requests : q # r => pc'[q] = pc[q] /\ next'[q] = next[q]
                                      /\ header'[q] = header[q]
  BY InterfaceFacts DEF AddLocalNetwork, Goto, filterVars, BelongInv, TypeOK
<1>2. \A q \in Requests : Lone(q)' => Lone(q)
  BY <1>1 DEF Lone, AddLocalNetwork
<1>3. ASSUME NEW q \in Requests, q # r, Adding(q) PROVE ~Lone(q)' /\ ~Lone(r)'
  BY <1>3 DEF AddLocalNetwork, Lone
<1>4. \A q \in Requests : q # r => Started(q)' = Started(q) /\ Passed(q)' = Passed(q)
                                   /\ Net(q)' = Net(q) /\ Adding(q)' = Adding(q)
  BY <1>1 DEF Started, Passed, Adding, Net
<1>5. \A q \in Requests : Started(q) \/ pc[q] = "append" => Adding(q)
  BY DEF Started, Adding
<1>6. \/ /\ pc'[r] = "append" /\ header'[r] = allowedNetworks /\ next'[r] = next[r]
      \/ /\ Interfaces[next[r]] \notin connected \ Skipped
         /\ pc'[r] = "add" /\ header'[r] = header[r] /\ next'[r] = next[r] + 1
  BY <1>1 DEF AddLocalNetwork, Goto, BelongInv, TypeOK
<1>7. ASSUME Lone(r)', Passed(r)' PROVE Passed(r)
  <2>1. PICK i \in 1 .. Len(Interfaces) : i < next'[r] /\ Interfaces[i] = Net(r)
    BY <1>1, <1>7 DEF Passed, Net
  <2>2. Net(r) \in connected \ Skipped
    BY <1>2, <1>7 DEF Lone, LoneInv
  <2>3. i < next[r]
    BY <1>1, <1>6, <2>1, <2>2
  <2>4. QED
    BY <1>1, <2>1, <2>3 DEF Passed, Adding
<1>8. \A q \in Requests : Lone(q)' /\ Started(q)' =>
         \A p \in Requests : pc'[p] = "append" => p = q
  BY <1>1, <1>3, <1>4, <1>5
<1>9. \A q \in Requests : Lone(q)' /\ pc'[q] = "append" => header'[q] = allowedNetworks'
  BY <1>1, <1>3, <1>5, <1>6
<1>10. ASSUME NEW q \in Requests, Lone(q)', Passed(q)'
       PROVE  /\ Net(q)' \in allowedNetworks'
              /\ \A p \in Requests : pc'[p] = "append" => Net(q)' \in header'[p]
  <2>1. Lone(q) /\ Passed(q) /\ Net(q)' = Net(q)
    BY <1>1, <1>2, <1>4, <1>7, <1>10 DEF Net
  <2>2. Net(q) \in allowedNetworks /\ \A p \in Requests : pc[p] = "append" => Net(q) \in header[p]
    BY <2>1 DEF LoneInv
  <2>3. QED
    BY <1>1, <1>6, <2>1, <2>2
<1>11. RefusedOnlyByOverlap'
  BY <1>1 DEF LoneInv, RefusedOnlyByOverlap, AddLocalNetwork
<1>12. (\A q \in Requests : steady'[q] => Net(q)' \in connected' \ Skipped)
       /\ \A q \in Requests : pc'[q] \in {"idle", "cache1", "list1"} => next'[q] = 1
  BY <1>1 DEF LoneInv, Net
<1>13. QED
  BY <1>8, <1>9, <1>10, <1>11, <1>12 DEF LoneInv

LEMMA LoneAllow ==
    ASSUME BelongInv, LoneInv, NEW r \in Requests, AllowNetwork(r)
    PROVE  LoneInv'
<1>1. /\ UNCHANGED <<connected, ip, header, steady, reply, overlaps>>
      /\ pc[r] = "append" /\ next[r] \in Nat /\ 1 <= next[r]
      /\ pc'[r] = "add" /\ next'[r] = next[r] + 1
      /\ \A q \in Requests : q # r => pc'[q] = pc[q] /\ next'[q] = next[q]
      /\ \/ allowedNetworks' = header[r] \cup {Interfaces[next[r]]}
         \/ allowedNetworks # header[r] /\ allowedNetworks' = allowedNetworks
  BY InterfaceFacts DEF AllowNetwork, Goto, historyVars, BelongInv, TypeOK
<1>2. \A q \in Requests : Lone(q)' = Lone(q) /\ Net(q)' = Net(q)
  BY <1>1 DEF Lone, Net
<1>3. \A q \in Requests : q # r => Started(q)' = Started(q) /\ Passed(q)' = Passed(q)
  BY <1>1 DEF Started, Passed, Adding, Net
<1>4. \A q \in Requests : q # r /\ Lone(q) => ~Started(q)
  BY <1>1 DEF LoneInv
<1>5. ASSUME Lone(r)
      PROVE  /\ allowedNetworks' = allowedNetworks \cup {Interfaces[next[r]]}
             /\ \A p \in Requests : pc'[p] # "append"
  <2>1. Started(r) /\ header[r] = allowedNetworks
    BY <1>1, <1>5 DEF Started, LoneInv
  <2>2. QED
    BY <1>1, <1>5, <2>1 DEF LoneInv
<1>6. \A q \in Requests : Lone(q)' /\ Started(q)' =>
         \A p \in Requests : pc'[p] = "append" => p = q
  BY <1>2, <1>3, <1>4, <1>5
<1>7. \A q \in Requests : Lone(q)' /\ pc'[q] = "append" => header'[q] = allowedNetworks'
  BY <1>1, <1>2, <1>4 DEF Started
<1>8. ASSUME NEW q \in Requests, Lone(q)', Passed(q)'
      PROVE  /\ Net(q)' \in allowedNetworks'
             /\ \A p \in Requests : pc'[p] = "append" => Net(q)' \in header'[p]
  <2>1. CASE q = r
    <3>1. PICK i \in 1 .. Len(Interfaces) : i < next[r] + 1 /\ Interfaces[i] = Net(r)
      BY <1>1, <1>2, <1>8, <2>1 DEF Passed
    <3>2. CASE i = next[r]
      BY <1>2, <1>5, <1>8, <2>1, <3>1, <3>2
    <3>3. CASE i < next[r]
      <4>1. Passed(r)
        BY <1>1, <3>1, <3>3 DEF Passed, Adding
      <4>2. Net(r) \in allowedNetworks
        BY <1>2, <1>8, <2>1, <4>1 DEF LoneInv
      <4>3. QED
        BY <1>2, <1>5, <1>8, <2>1, <4>2
    <3>4. QED
      BY <1>1, <3>1, <3>2, <3>3
  <2>2. CASE q # r
    <3>1. Lone(q) /\ Passed(q)
      BY <1>2, <1>3, <1>8, <2>2
    <3>2. Net(q) \in allowedNetworks /\ \A p \in Requests : pc[p] = "append" => Net(q) \in header[p]
      BY <3>1 DEF LoneInv
    <3>3. Net(q) \in allowedNetworks'
      BY <1>1, <3>2
    <3>4. QED
      BY <1>1, <1>2, <3>2, <3>3
  <2>3. QED
    BY <2>1, <2>2
<1>9. RefusedOnlyByOverlap' /\ (\A q \in Requests : steady'[q] => Net(q)' \in connected' \ Skipped)
      /\ \A q \in Requests : pc'[q] \in {"idle", "cache1", "list1"} => next'[q] = 1
  BY <1>1, <1>2 DEF LoneInv, RefusedOnlyByOverlap
<1>10. QED
  BY <1>6, <1>7, <1>8, <1>9 DEF LoneInv

LEMMA LoneDevice ==
    ASSUME BelongInv, LoneInv, NEW n \in Networks, InterfaceUp(n) \/ InterfaceDown(n)
    PROVE  LoneInv'
<1>1. UNCHANGED <<filterVars, requestVars, overlaps>>
      /\ \A r \in Requests : steady'[r] => steady[r] /\ Net(r) \in connected' \ Skipped
  BY DEF InterfaceUp, InterfaceDown, LoneInv, Net, BelongInv, TypeOK
<1>2. QED
  BY <1>1 DEF LoneInv, RefusedOnlyByOverlap, Lone, Started, Passed, Adding, Net, filterVars,
              requestVars

LEMMA LoneNext == BelongInv /\ LoneInv /\ [Next]_vars => LoneInv'
<1> SUFFICES ASSUME BelongInv, LoneInv, [Next]_vars PROVE LoneInv'
  OBVIOUS
<1>1. CASE UNCHANGED vars
  BY <1>1 DEF vars, filterVars, requestVars, historyVars, LoneInv, RefusedOnlyByOverlap, Lone,
              Started, Passed, Adding, Net
<1>2. CASE Next
  BY <1>2, LoneUnfiltered, LoneAsk, LoneDone, LoneFails, LoneAdd, LoneAllow, LoneDevice
  DEF Next, FilterHandler
<1>3. QED
  BY <1>1, <1>2

\* A request from a network that is up all along is refused only when another was
\* adding networks meanwhile: the race on the list is the only way in which the
\* second look at the interfaces (FilterHandler) misses one.
THEOREM Refused == Spec => []RefusedOnlyByOverlap
BY BelongInit, BelongNext, LoneInit, LoneNext, PTL DEF Spec, LoneInv

=============================================================================
