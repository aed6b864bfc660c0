--------------------------- MODULE Pages_proofs ----------------------------
(***************************************************************************)
(* Proofs about Pages, for any number of acts: what is shown was drawn by  *)
(* the page that is visited or by one that was left waiting, a page stays  *)
(* empty only after an error, and who was let in is not asked again.       *)
(***************************************************************************)
EXTENDS Pages, SequenceTheorems, TLAPS

\* A request that the controller of a page sent, and that is not answered when
\* the page is left, makes this visit one that is outlived.
LateIsOutlived ==
    \A q \in flight :
        q.ask \in Asks(visits[q.visit]) => q.visit = visit \/ q.visit \in outlived

\* The page of a snap is going to lead to the token's, whatever became of the
\* request for the snap.
Leading ==
    \E q \in flight : q.visit = visit /\ q.ask = "device-info" /\ q.valid = "no"

Awaited(a) ==
    \/ \E q \in flight : q.visit = visit /\ q.ask = a
    \/ Url = "snap" /\ a = "snap" /\ Leading

\* The requests that a page sends at once are sent with one cookie.
SentTogether ==
    Url = "snap" =>
        \A q \in flight : q.visit = visit /\ q.ask = "snap" /\ q.valid = "no" => Leading

\* A page that shows nothing waits for something, and has asked for all that it
\* has not got, unless an error stopped it.
EmptyWaits ==
    content = Blank =>
        /\ Url \in Waits
        /\ \/ visit \in failed
           \/ /\ \E a \in Asks(Url) : <<visit, a>> \notin ok
              /\ \A a \in Asks(Url) : <<visit, a>> \in ok \/ Awaited(a)
              /\ SentTogether

PagesInv == TypeOK /\ LateIsOutlived /\ ForeignOnlyIfOutlived /\ EmptyWaits

-----------------------------------------------------------------------------
(* The pages and what they ask for                                         *)

LEMMA AsksOfPages ==
    /\ \A p \in Page : Asks(p) \subseteq Ask
    /\ \A p \in Waits : Asks(p) # {}
    /\ \A p \in Waits : Asks(p) \cap {"list", "sections", "states", "click", "validate"} = {}
    /\ Waits \subseteq Page /\ "access-control" \notin Waits
    /\ {"states", "click", "validate"} \subseteq Ask
  BY DEF Page, Ask, Asks, HomeAsks, StoreAsks, SettingsAsks, SnapAsks, Waits

LEMMA FirstDrawnFacts ==
    ASSUME NEW p \in Page, NEW v \in Nat, v >= 1
    PROVE  /\ FirstDrawn(v, p) \in [visit: 0 .. v, stage: Stages]
           /\ FirstDrawn(v, p) = Blank \/ FirstDrawn(v, p).visit = v
           /\ FirstDrawn(v, p) = Blank => p \in Waits
  BY DEF FirstDrawn, Page, Waits, Blank, Stages, StoreDrawn, SettingsDrawn, TokenDrawn

\* The requests a page sends as it is mounted.
LEMMA RequestsFacts ==
    ASSUME NEW p \in Page, NEW v \in Nat, v >= 1
    PROVE  /\ Requests(v, p) \subseteq [visit: 1 .. v, ask: Ask, valid: {"yes", "maybe", "no"}]
           /\ \A q \in Requests(v, p) : q.visit = v
           /\ \A a \in Asks(p) : \E q \in Requests(v, p) : q.visit = v /\ q.ask = a
           /\ \A q \in Requests(v, p), a \in Asks(p) :
                 \E r \in Requests(v, p) : r.visit = v /\ r.ask = a /\ r.valid = q.valid
           /\ granted' => \A q \in Requests(v, p) : q.valid = "yes"
<1>1. Asks(p) \subseteq Ask
  BY AsksOfPages
<1>2. \A q \in Requests(v, p) : /\ q \in [visit: {v}, ask: Asks(p), valid: {"yes", "no"}]
                                /\ granted' => q.valid = "yes"
  BY DEF Requests, Request
<1>3. \A a \in Asks(p) : \E q \in Requests(v, p) : q.visit = v /\ q.ask = a
  <2>1. \A a \in Asks(p) : Request(v, a) \in Requests(v, p)
    BY DEF Requests
  <2>2. \A a \in Asks(p) : Request(v, a).visit = v /\ Request(v, a).ask = a
    BY DEF Request
  <2>3. QED
    BY <2>1, <2>2
<1>6. ASSUME NEW q \in Requests(v, p), NEW a \in Asks(p)
      PROVE  \E r \in Requests(v, p) : r.visit = v /\ r.ask = a /\ r.valid = q.valid
  <2>1. PICK b \in Asks(p) : q = Request(v, b)
    BY DEF Requests
  <2>2. /\ Request(v, a) \in Requests(v, p)
        /\ Request(v, a).visit = v /\ Request(v, a).ask = a /\ Request(v, a).valid = q.valid
    BY <2>1 DEF Requests, Request
  <2>3. QED
    BY <2>2
<1>4. \A q \in Requests(v, p) :
         q.visit = v /\ q \in [visit: 1 .. v, ask: Ask, valid: {"yes", "maybe", "no"}]
  BY <1>1, <1>2
<1>5. QED
  BY <1>2, <1>3, <1>4, <1>6

-----------------------------------------------------------------------------
(* Mounting a page keeps the invariant                                     *)

LEMMA DocumentKeeps ==
    ASSUME NEW p \in Page, Document(p),
           granted' \in BOOLEAN, entered' \in BOOLEAN, acts' \in 0 .. MaxActs
    PROVE  PagesInv'
<1> DEFINE v == 1
<1>1. hist' = <<p>> /\ pos' = 1 /\ visits' = <<p>> /\ visit' = 1 /\ Url' = p
  BY DEF Document, visit, Url
<1>2. flight' = Requests(1, p) /\ content' = FirstDrawn(1, p)
  BY DEF Document
<1>3. ok' = {} /\ outlived' = {} /\ failed' = {}
  BY DEF Document
<1>4. TypeOK'
  <2>1. hist' \in Seq(Page) /\ pos' \in 1 .. Len(hist')
    BY <1>1
  <2>2. visits' \in Seq(Page) /\ visits' # <<>> /\ visits'[visit'] = Url'
    BY <1>1
  <2>3. flight' \subseteq [visit: 1 .. visit', ask: Ask, valid: {"yes", "maybe", "no"}]
    BY <1>1, <1>2, RequestsFacts
  <2>4. content' \in [visit: 0 .. visit', stage: Stages]
    BY <1>1, <1>2, FirstDrawnFacts
  <2>5. QED
    BY <1>3, <2>1, <2>2, <2>3, <2>4 DEF TypeOK
<1>5. LateIsOutlived'
  BY <1>1, <1>2, RequestsFacts DEF LateIsOutlived
<1>6. ForeignOnlyIfOutlived'
  BY <1>1, <1>2, FirstDrawnFacts DEF ForeignOnlyIfOutlived
<1>7. EmptyWaits'
  <2>1. ASSUME content' = Blank
        PROVE  p \in Waits
    BY <2>1, <1>2, FirstDrawnFacts
  <2>2. \A a \in Asks(p) : Awaited(a)'
    BY <1>1, <1>2, RequestsFacts DEF Awaited
  <2>3. SentTogether'
    <3>1. SUFFICES ASSUME p = "snap", NEW q \in flight', q.visit = 1, q.valid = "no"
                   PROVE  Leading'
      BY <1>1 DEF SentTogether
    <3>2. "device-info" \in Asks(p)
      BY <3>1 DEF Asks, SnapAsks
    <3>3. \E s \in Requests(1, p) : s.visit = 1 /\ s.ask = "device-info" /\ s.valid = q.valid
      BY <1>2, <3>1, <3>2, RequestsFacts
    <3>4. QED
      BY <1>1, <1>2, <3>1, <3>3 DEF Leading
  <2>4. QED
    BY <1>1, <1>3, <2>1, <2>2, <2>3, AsksOfPages DEF EmptyWaits
<1>8. QED
  BY <1>4, <1>5, <1>6, <1>7 DEF PagesInv

\* A visit, to the entry that the history has come to.
LEMMA VisitKeeps ==
    ASSUME PagesInv, NEW p \in Page, NEW rest \in SUBSET flight, Visit(p, rest),
           hist' \in Seq(Page), pos' \in 1 .. Len(hist'), hist'[pos'] = p,
           granted' \in BOOLEAN, entered' \in BOOLEAN, acts' \in 0 .. MaxActs,
           failed' = failed
    PROVE  PagesInv'
<1> USE DEF PagesInv
<1>1. /\ visit \in Nat /\ visit >= 1 /\ visits \in Seq(Page) /\ visits[visit] = Url
      /\ visits' = Append(visits, p) /\ visit' = visit + 1
      /\ visits'[visit'] = p /\ Url' = p
      /\ \A i \in 1 .. visit : visits'[i] = visits[i]
  BY DEF TypeOK, Visit, visit, Url
<1>2. flight' = rest \cup Requests(visit + 1, p) /\ content' = FirstDrawn(visit + 1, p)
  BY DEF Visit
<1>3. /\ ok' = ok /\ outlived \subseteq outlived' /\ outlived' \subseteq outlived \cup {visit}
      /\ (\E q \in rest : q.visit = visit /\ q.ask \in Asks(Url)) => visit \in outlived'
  BY DEF Visit
<1>4. \A q \in rest : q.visit \in 1 .. visit
  BY DEF TypeOK
<1>10. /\ content' = Blank \/ content'.visit = visit'
       /\ content' = Blank => p \in Waits
  <2>1. visit + 1 \in Nat /\ visit + 1 >= 1
    BY <1>1
  <2>2. /\ FirstDrawn(visit + 1, p) = Blank \/ FirstDrawn(visit + 1, p).visit = visit + 1
        /\ FirstDrawn(visit + 1, p) = Blank => p \in Waits
    BY <2>1, FirstDrawnFacts
  <2>3. QED
    BY <1>1, <1>2, <2>2
<1>5. TypeOK'
  <2>1. visits' \in Seq(Page) /\ visits' # <<>> /\ visits'[visit'] = Url'
    BY <1>1
  <2>0. visit' \in Nat /\ visit' >= 1 /\ visit + 1 = visit'
    BY <1>1
  <2>2. flight' \subseteq [visit: 1 .. visit', ask: Ask, valid: {"yes", "maybe", "no"}]
    <3>1. Requests(visit + 1, p)
            \subseteq [visit: 1 .. visit', ask: Ask, valid: {"yes", "maybe", "no"}]
      BY <2>0, RequestsFacts
    <3>2. rest \subseteq [visit: 1 .. visit', ask: Ask, valid: {"yes", "maybe", "no"}]
      <4>1. flight \subseteq [visit: 1 .. visit, ask: Ask, valid: {"yes", "maybe", "no"}]
        BY DEF TypeOK
      <4>2. 1 .. visit \subseteq 1 .. visit'
        BY <1>1
      <4>3. QED
        BY <4>1, <4>2
    <3>3. QED
      BY <1>2, <3>1, <3>2
  <2>3. ok' \subseteq (1 .. visit') \X Ask
    BY <1>1, <1>3 DEF TypeOK
  <2>4. content' \in [visit: 0 .. visit', stage: Stages]
    BY <1>2, <2>0, FirstDrawnFacts
  <2>5. outlived' \cup failed' \subseteq 1 .. visit'
    <3>1. outlived \cup failed \subseteq 1 .. visit
      BY DEF TypeOK
    <3>2. 1 .. visit \subseteq 1 .. visit' /\ visit \in 1 .. visit'
      BY <1>1
    <3>3. QED
      BY <1>3, <3>1, <3>2
  <2>6. QED
    BY <2>1, <2>2, <2>3, <2>4, <2>5 DEF TypeOK
<1>6. LateIsOutlived'
  <2>1. SUFFICES ASSUME NEW q \in flight', q.ask \in Asks(visits'[q.visit])
                 PROVE  q.visit = visit' \/ q.visit \in outlived'
    BY DEF LateIsOutlived
  <2>2. CASE q \in rest
    <3>1. q \in flight /\ q.ask \in Asks(visits[q.visit])
      BY <1>1, <1>4, <2>1, <2>2
    <3>2. q.visit = visit \/ q.visit \in outlived
      BY <3>1 DEF LateIsOutlived
    <3>3. QED
      BY <1>1, <1>3, <2>2, <3>1, <3>2
  <2>3. CASE q \in Requests(visit + 1, p)
    BY <1>1, <2>3, RequestsFacts
  <2>4. QED
    BY <1>2, <2>2, <2>3
<1>7. ForeignOnlyIfOutlived'
  BY <1>10 DEF ForeignOnlyIfOutlived
<1>8. EmptyWaits'
  <2>1. content' = Blank => p \in Waits
    BY <1>10
  <2>2. \A a \in Asks(p) : Awaited(a)'
    BY <1>1, <1>2, RequestsFacts DEF Awaited
  <2>3. \A a : <<visit', a>> \notin ok'
    BY <1>1, <1>3 DEF TypeOK
  <2>4. SentTogether'
    <3>1. SUFFICES ASSUME p = "snap", NEW q \in flight', q.visit = visit', q.valid = "no"
                   PROVE  Leading'
      BY <1>1 DEF SentTogether
    <3>2. q \in Requests(visit + 1, p)
      BY <1>1, <1>2, <1>4, <3>1
    <3>3. "device-info" \in Asks(p) /\ visit + 1 \in Nat /\ visit + 1 >= 1
      BY <1>1, <3>1 DEF Asks, SnapAsks
    <3>4. \E r \in Requests(visit + 1, p) :
             r.visit = visit + 1 /\ r.ask = "device-info" /\ r.valid = q.valid
      BY <3>2, <3>3, RequestsFacts
    <3>5. QED
      BY <1>1, <1>2, <3>1, <3>4 DEF Leading
  <2>5. QED
    BY <1>1, <2>1, <2>2, <2>3, <2>4, AsksOfPages DEF EmptyWaits
<1>9. QED
  BY <1>5, <1>6, <1>7, <1>8

\* A path that is pushed is visited, or is the one that is shown.
LEMMA PushKeeps ==
    ASSUME PagesInv, NEW p \in Page, p # Url, NEW rest \in SUBSET flight, Push(p, rest),
           granted' \in BOOLEAN, entered' \in BOOLEAN, acts' \in 0 .. MaxActs,
           failed' = failed
    PROVE  PagesInv'
<1>1. hist' = Append(SubSeq(hist, 1, pos), p) /\ pos' = pos + 1 /\ Visit(p, rest)
  BY DEF Push
<1>2. hist \in Seq(Page) /\ pos \in 1 .. Len(hist)
  BY DEF PagesInv, TypeOK
<1>3. SubSeq(hist, 1, pos) \in Seq(Page) /\ Len(SubSeq(hist, 1, pos)) = pos
  BY <1>2
<1>4. hist' \in Seq(Page) /\ pos' \in 1 .. Len(hist') /\ hist'[pos'] = p
  BY <1>1, <1>2, <1>3
<1>5. QED
  BY <1>1, <1>4, VisitKeeps

-----------------------------------------------------------------------------
(* What leaves the page where it is                                        *)

Stays == UNCHANGED <<hist, pos, visits, outlived>>

\* A request is one that was there, with the same cookie if that was the wrong
\* one, or none that a controller sends at once.
Follows(q) ==
    \/ q.ask \in {"states", "click", "validate"}
    \/ \E p \in flight : p.visit = q.visit /\ p.ask = q.ask /\ (q.valid = "no" => p.valid = "no")

\* What will lead to the token's page goes on doing so, or ends in an error.
LeadsOn == Url = "snap" /\ Leading => Leading' \/ visit \in failed'

\* What is drawn is drawn where something was drawn, or by the page that is
\* visited, or by one that is outlived.
DrawnAnew ==
    /\ content' \in [visit: 1 .. visit, stage: Stages]
    /\ content'.visit \in {content.visit, visit} \cup outlived

\* An empty page goes on waiting for what it has not got.
GoesOnWaiting ==
    \/ visit \in failed'
    \/ /\ \E a \in Asks(Url) : <<visit, a>> \notin ok'
       /\ \A a \in Asks(Url) : Awaited(a) => <<visit, a>> \in ok' \/ Awaited(a)'

LEMMA StayKeeps ==
    ASSUME PagesInv, Stays,
           granted' \in BOOLEAN, entered' \in BOOLEAN, acts' \in 0 .. MaxActs,
           flight' \subseteq [visit: 1 .. visit, ask: Ask, valid: {"yes", "maybe", "no"}],
           \A q \in flight' : Follows(q), LeadsOn,
           ok \subseteq ok', ok' \subseteq (1 .. visit) \X Ask,
           failed \subseteq failed', failed' \subseteq 1 .. visit,
           content' = content \/ DrawnAnew,
           content = Blank /\ content' = content => GoesOnWaiting
    PROVE  PagesInv'
<1>1. visit' = visit /\ Url' = Url /\ visits' = visits /\ outlived' = outlived
  BY DEF Stays, visit, Url
<1>2. visit \in Nat /\ content \in [visit: 0 .. visit, stage: Stages]
  BY DEF PagesInv, TypeOK, visit
<1>3. TypeOK'
  <2>1. content' \in [visit: 0 .. visit, stage: Stages]
    BY <1>2 DEF DrawnAnew
  <2>2. QED
    BY <1>1, <2>1 DEF PagesInv, TypeOK, Stays
<1>4. LateIsOutlived'
  <2>1. SUFFICES ASSUME NEW q \in flight', q.ask \in Asks(visits[q.visit])
                 PROVE  q.visit = visit \/ q.visit \in outlived
    BY <1>1 DEF LateIsOutlived
  <2>2. q.ask \notin {"states", "click", "validate"}
    <3>1. visits[q.visit] \in Page
      BY DEF PagesInv, TypeOK, visit
    <3>2. QED
      BY <2>1, <3>1 DEF Page, Asks, HomeAsks, StoreAsks, SettingsAsks, SnapAsks
  <2>3. PICK p \in flight : p.visit = q.visit /\ p.ask = q.ask
    BY <2>2 DEF Follows
  <2>4. QED
    BY <2>1, <2>3 DEF PagesInv, LateIsOutlived
<1>5. ForeignOnlyIfOutlived'
  BY <1>1 DEF PagesInv, ForeignOnlyIfOutlived, DrawnAnew, Blank
<1>6. EmptyWaits'
  <2>1. SUFFICES ASSUME content' = Blank
                 PROVE  EmptyWaits'
    BY DEF EmptyWaits
  <2>2. content = Blank /\ content' = content
    BY <2>1 DEF DrawnAnew, Blank
  <2>3. GoesOnWaiting
    BY <2>2
  <2>4. SentTogether => SentTogether' \/ visit \in failed'
    <3>1. SUFFICES ASSUME SentTogether, visit \notin failed', Url = "snap", NEW q \in flight', q.visit = visit,
                          q.ask = "snap", q.valid = "no"
                   PROVE  Leading'
      BY <1>1 DEF SentTogether
    <3>2. \E p \in flight : p.visit = visit /\ p.ask = "snap" /\ p.valid = "no"
      BY <3>1 DEF Follows
    <3>3. QED
      BY <3>1, <3>2 DEF SentTogether, LeadsOn
  <2>5. QED
    BY <1>1, <2>2, <2>3, <2>4 DEF PagesInv, EmptyWaits, GoesOnWaiting
<1>7. QED
  BY <1>3, <1>4, <1>5, <1>6 DEF PagesInv

\* An answer takes its request away; what else is awaited stays awaited.
LEMMA OthersAwaited ==
    ASSUME PagesInv, Stays, NEW q \in flight, flight \ {q} \subseteq flight', content = Blank,
           LeadsOn
    PROVE  \A a \in Asks(Url) :
              Awaited(a) /\ (q.visit # visit \/ q.ask # a) => Awaited(a)' \/ visit \in failed'
<1>1. visit' = visit /\ Url' = Url
  BY DEF Stays, visit, Url
<1>2. QED
  BY <1>1 DEF Awaited, LeadsOn

\* A request is added by a click or by a form that is shown.
LEMMA AddKeeps ==
    ASSUME PagesInv, NEW a \in {"click", "validate"}, content # Blank,
           flight' = flight \cup {Request(content.visit, a)},
           UNCHANGED <<hist, pos, visits, ok, content, outlived, failed>>,
           granted' \in BOOLEAN, entered' \in BOOLEAN, acts' \in 0 .. MaxActs
    PROVE  PagesInv'
<1>1. content.visit \in 1 .. visit
  BY DEF PagesInv, ForeignOnlyIfOutlived, TypeOK, visit
<1>2. Request(content.visit, a) \in [visit: 1 .. visit, ask: Ask, valid: {"yes", "maybe", "no"}]
  BY <1>1, AsksOfPages DEF Request
<1>3. Request(content.visit, a).ask = a
  BY DEF Request
<1>4. \A q \in flight' : Follows(q)
  BY <1>3 DEF Follows
<1>5. flight' \subseteq [visit: 1 .. visit, ask: Ask, valid: {"yes", "maybe", "no"}]
  BY <1>2 DEF PagesInv, TypeOK
<1>6. LeadsOn
  BY DEF LeadsOn, Leading, visit
<1>7. QED
  BY <1>4, <1>5, <1>6, StayKeeps DEF Stays, PagesInv, TypeOK

-----------------------------------------------------------------------------
(* The invariant                                                           *)

\* A visit that draws nothing at once has sent what it asks for.
LEMMA InitInv == Init => PagesInv
<1> SUFFICES ASSUME Init PROVE PagesInv
  OBVIOUS
<1>1. PICK p \in Page : /\ hist = <<p>> /\ visits = <<p>>
                        /\ flight = {[visit |-> 1, ask |-> a,
                                      valid |-> IF granted THEN "yes" ELSE "no"] : a \in Asks(p)}
                        /\ content = FirstDrawn(1, p) /\ granted \in BOOLEAN
  BY DEF Init
<1>2. /\ pos = 1 /\ ok = {} /\ acts = 0 /\ outlived = {} /\ failed = {} /\ entered = FALSE
      /\ visit = 1 /\ Url = p
  BY <1>1 DEF Init, visit, Url
<1>3. Asks(p) \subseteq Ask
  BY AsksOfPages
<1>4. /\ flight \subseteq [visit: 1 .. 1, ask: Ask, valid: {"yes", "maybe", "no"}]
      /\ \A q \in flight : q.visit = 1
  BY <1>1, <1>3
<1>5. \A a \in Asks(p) : Awaited(a)
  <2>1. SUFFICES ASSUME NEW a \in Asks(p) PROVE Awaited(a)
    OBVIOUS
  <2>2. [visit |-> 1, ask |-> a, valid |-> IF granted THEN "yes" ELSE "no"] \in flight
    BY <1>1
  <2>3. QED
    BY <1>2, <2>2 DEF Awaited
<1>6. TypeOK
  <2>1. content \in [visit: 0 .. visit, stage: Stages]
    BY <1>1, <1>2, FirstDrawnFacts
  <2>2. hist \in Seq(Page) /\ pos \in 1 .. Len(hist)
    BY <1>1, <1>2
  <2>3. visits \in Seq(Page) /\ visits # <<>> /\ visits[visit] = Url
    BY <1>1, <1>2
  <2>4. acts \in 0 .. MaxActs
    BY <1>2, PagesAssumption
  <2>5. QED
    BY <1>1, <1>2, <1>4, <2>1, <2>2, <2>3, <2>4 DEF TypeOK
<1>7. LateIsOutlived
  BY <1>2, <1>4 DEF LateIsOutlived
<1>8. ForeignOnlyIfOutlived
  BY <1>1, <1>2, FirstDrawnFacts DEF ForeignOnlyIfOutlived
<1>9. EmptyWaits
  <2>1. content = Blank => p \in Waits
    BY <1>1, FirstDrawnFacts
  <2>2. SentTogether
    <3>1. SUFFICES ASSUME p = "snap", NEW q \in flight, q.valid = "no"
                   PROVE  Leading
      BY <1>2 DEF SentTogether
    <3>2. "device-info" \in Asks(p)
      BY <3>1 DEF Asks, SnapAsks
    <3>3. [visit |-> 1, ask |-> "device-info", valid |-> q.valid] \in flight
      BY <1>1, <3>1, <3>2
    <3>4. QED
      BY <1>2, <3>1, <3>3 DEF Leading
  <2>3. QED
    BY <1>2, <1>5, <2>1, <2>2, AsksOfPages DEF EmptyWaits
<1>10. QED
  BY <1>6, <1>7, <1>8, <1>9 DEF PagesInv

\* Every step keeps the invariant: one case for each action.
LEMMA NextInv == PagesInv /\ [Next]_vars => PagesInv'
<1> SUFFICES ASSUME PagesInv, [Next]_vars PROVE PagesInv'
  OBVIOUS
<1> USE PagesAssumption
<1>0. /\ TypeOK /\ LateIsOutlived /\ ForeignOnlyIfOutlived /\ EmptyWaits
      /\ granted \in BOOLEAN /\ entered \in BOOLEAN
      /\ Act => acts' \in 0 .. MaxActs
  BY DEF PagesInv, TypeOK, Act
<1>1. ASSUME NEW p \in Page, Load(p)
      PROVE  PagesInv'
  BY <1>0, <1>1, DocumentKeeps DEF Load
<1>2. CASE ClickCard
  <2>1. PICK p \in Page : Push(p, flight)
    BY <1>2 DEF ClickCard, Page
  <2>2. CASE p = Url
    <3>1. UNCHANGED <<tab, granted, outlived, failed, entered>> /\ acts' \in 0 .. MaxActs
      BY <1>0, <1>2, <2>1, <2>2 DEF ClickCard, Push, tab
    <3>2. QED
      BY <1>0, <3>1 DEF PagesInv, TypeOK, LateIsOutlived, ForeignOnlyIfOutlived, EmptyWaits,
         Awaited, Leading, SentTogether, visit, Url, tab
  <2>3. CASE p # Url
    BY <1>0, <1>2, <2>1, <2>3, PushKeeps DEF ClickCard
  <2>4. QED
    BY <2>2, <2>3
<1>3. ASSUME NEW to, Traverse(to)
      PROVE  PagesInv'
  <2>1. hist[to] \in Page
    BY <1>0, <1>3 DEF Traverse, TypeOK
  <2>2. hist' \in Seq(Page) /\ pos' \in 1 .. Len(hist') /\ hist'[pos'] = hist[to]
    BY <1>0, <1>3 DEF Traverse, TypeOK
  <2>3. QED
    BY <1>0, <1>3, <2>1, <2>2, VisitKeeps DEF Traverse
<1>4. CASE ClickSnap
  <2>1. content # Blank
    BY <1>4 DEF ClickSnap, Cards, Shown
  <2>2. QED
    BY <1>0, <1>4, <2>1, AddKeeps DEF ClickSnap
<1>5. ASSUME NEW right \in BOOLEAN, Submit(right)
      PROVE  PagesInv'
  <2>1. content # Blank
    BY <1>5 DEF Submit, Shown
  <2>2. entered' \in BOOLEAN
    BY <1>0, <1>5, Zenon DEF Submit
  <2>3. QED
    BY <1>0, <1>5, <2>1, <2>2, AddKeeps DEF Submit
<1>6. CASE Generate
  <2>1. \A q \in flight' : Follows(q)
    <3>1. SUFFICES ASSUME NEW q \in flight' PROVE Follows(q)
      OBVIOUS
    <3>2. PICK p \in flight : q = [p EXCEPT !.valid = IF @ = "yes" THEN "maybe" ELSE @]
      BY <1>6 DEF Generate
    <3>3. p \in [visit: 1 .. visit, ask: Ask, valid: {"yes", "maybe", "no"}]
      BY <1>0 DEF TypeOK
    <3>4. p.visit = q.visit /\ p.ask = q.ask /\ (q.valid = "no" => p.valid = "no")
      BY <3>2, <3>3
    <3>5. QED
      BY <3>4 DEF Follows
  <2>2. flight' \subseteq [visit: 1 .. visit, ask: Ask, valid: {"yes", "maybe", "no"}]
    BY <1>0, <1>6 DEF Generate, TypeOK
  <2>3. \A q \in flight : \E p \in flight' : p.visit = q.visit /\ p.ask = q.ask
                                               /\ (q.valid = "no" => p.valid = "no")
    <3>1. SUFFICES ASSUME NEW q \in flight
                   PROVE  \E p \in flight' : p.visit = q.visit /\ p.ask = q.ask
                                              /\ (q.valid = "no" => p.valid = "no")
      OBVIOUS
    <3>2. [q EXCEPT !.valid = IF @ = "yes" THEN "maybe" ELSE @] \in flight'
      BY <1>6 DEF Generate
    <3>3. q \in [visit: 1 .. visit, ask: Ask, valid: {"yes", "maybe", "no"}]
      BY <1>0 DEF TypeOK
    <3>4. LET p == [q EXCEPT !.valid = IF @ = "yes" THEN "maybe" ELSE @]
          IN  p.visit = q.visit /\ p.ask = q.ask /\ (q.valid = "no" => p.valid = "no")
      BY <3>3
    <3>5. QED
      BY <3>2, <3>4
  <2>4. visit' = visit /\ Url' = Url
    BY <1>6 DEF Generate, visit, Url
  <2>7. LeadsOn
    BY <2>3, <2>4 DEF LeadsOn, Leading
  <2>5. content = Blank => GoesOnWaiting
    <3>1. \A a : Awaited(a) => Awaited(a)' \/ visit \in failed'
      BY <2>3, <2>4, <2>7 DEF Awaited, LeadsOn
    <3>2. ok' = ok /\ failed' = failed /\ Url' = Url
      BY <1>6 DEF Generate, Url
    <3>3. QED
      BY <1>0, <2>4, <3>1, <3>2 DEF GoesOnWaiting, EmptyWaits
  <2>6. QED
    BY <1>0, <1>6, <2>1, <2>2, <2>5, <2>7, StayKeeps DEF Generate, Stays, TypeOK
<1>7. ASSUME NEW q \in flight, Answer(q)
      PROVE  PagesInv'
  <2> USE <1>0, <1>7
  <2>1. acts' \in 0 .. MaxActs
    BY DEF Answer, TypeOK
  <2>2. /\ q \in [visit: 1 .. visit, ask: Ask, valid: {"yes", "maybe", "no"}]
        /\ visits[q.visit] \in Page
    BY DEF TypeOK, visit
  <2>3. q.ask \in Asks(visits[q.visit]) => q.visit \in {visit} \cup outlived
    BY DEF LateIsOutlived
  <2>4. content = Blank => Url \in Waits /\ visits[visit] = Url
    BY DEF EmptyWaits, TypeOK
  <2>5. CASE AccessGranted(q)
    BY <2>1, <2>5, DocumentKeeps DEF AccessGranted, Page, TypeOK
  <2>6. CASE Unauthorized(q)
    <3>1. flight \ {q} \in SUBSET flight /\ "access-control" \in Page
      BY DEF Page
    <3>2. QED
      BY <2>1, <2>6, <3>1, PushKeeps DEF Unauthorized, TypeOK
  <2> DEFINE Less == flight' = flight \ {q}
  <2>7. Less => /\ \A p \in flight' : Follows(p)
                /\ flight' \subseteq [visit: 1 .. visit, ask: Ask, valid: {"yes", "maybe", "no"}]
    BY DEF Follows, TypeOK
  <2>16. ASSUME Stays, flight \ {q} \subseteq flight',
                \/ q.ask # "device-info" \/ q.valid # "no"
                \/ q.visit # visit \/ q.visit \in failed'
                \/ Url # "snap"
         PROVE  LeadsOn
    <3>1. visit' = visit
      BY <2>16 DEF Stays, visit
    <3>2. QED
      BY <2>16, <3>1 DEF LeadsOn, Leading
  <2>17. \A a \in Outcomes(q) : (a = "200" => q.valid # "no") /\ (a = "401" => q.valid # "yes")
    BY DEF Outcomes
  <2>8. ASSUME Stays, flight \ {q} \subseteq flight', LeadsOn, ok' = ok, failed \subseteq failed',
               content = Blank, q.visit = visit => q.ask \notin Asks(Url)
        PROVE  GoesOnWaiting
    <3>1. \A a \in Asks(Url) : Awaited(a) => Awaited(a)' \/ visit \in failed'
      BY <2>8, OthersAwaited
    <3>2. QED
      BY <2>8, <3>1 DEF EmptyWaits, GoesOnWaiting
  <2>9. ASSUME Gathered(q), q.valid # "no"
        PROVE  PagesInv'
    <3>0. LeadsOn
      BY <2>9, <2>16 DEF Gathered, Stays
    <3>1. content' = content \/ DrawnAnew
      BY <2>2, <2>3, <2>9 DEF Gathered, DrawnAnew, Stages
    <3>2. ok' \subseteq (1 .. visit) \X Ask /\ ok' = ok \cup {<<q.visit, q.ask>>}
      BY <2>2, <2>9 DEF Gathered, TypeOK
    <3>3. ASSUME content = Blank, content' = content
          PROVE  GoesOnWaiting
      <4>1. visit \in failed'
            \/ \A a \in Asks(Url) : Awaited(a) => <<visit, a>> \in ok' \/ Awaited(a)'
        <5>1. ASSUME NEW a \in Asks(Url), Awaited(a), q.visit = visit, q.ask = a
              PROVE  <<visit, a>> \in ok'
          BY <3>2, <5>1
        <5>2. visit \notin failed'
              => \A a \in Asks(Url) : Awaited(a) /\ (q.visit # visit \/ q.ask # a) => Awaited(a)'
          BY <2>9, <3>0, <3>3, OthersAwaited DEF Gathered, Stays
        <5>3. QED
          BY <5>1, <5>2
      <4>2. CASE q.visit = visit
        <5>1. \E a \in Asks(Url) : <<visit, a>> \notin ok'
          BY <2>4, <2>9, <3>3, <4>2 DEF Gathered, Blank
        <5>2. QED
          BY <4>1, <5>1 DEF GoesOnWaiting
      <4>3. CASE q.visit # visit
        BY <2>9, <3>2, <3>3, <4>1, <4>3 DEF GoesOnWaiting, EmptyWaits, Gathered
      <4>4. QED
        BY <4>2, <4>3
    <3>4. QED
      BY <2>1, <2>7, <2>9, <3>0, <3>1, <3>2, <3>3, StayKeeps DEF Gathered, Stays, TypeOK
  <2>10. ASSUME NEW a, Listed(q, a)
         PROVE  PagesInv'
    <3>0. LeadsOn
      BY <2>10, <2>16 DEF Listed, Stays
    <3>1. content' = content \/ DrawnAnew
      BY <2>2, <2>10 DEF Listed, Stage, DrawnAnew, TypeOK, Stages
    <3>2. /\ \A p \in flight' : Follows(p)
          /\ flight' \subseteq [visit: 1 .. visit, ask: Ask, valid: {"yes", "maybe", "no"}]
      <4>1. Request(q.visit, "states") \in
              [visit: 1 .. visit, ask: {"states"}, valid: {"yes", "maybe", "no"}]
        BY <2>2 DEF Request
      <4>2. QED
        BY <2>10, <4>1, AsksOfPages DEF Listed, Follows, TypeOK
    <3>3. content = Blank => GoesOnWaiting
      <4>1. content = Blank => q.ask \notin Asks(Url)
        BY <2>4, <2>10, AsksOfPages DEF Listed
      <4>2. QED
        BY <2>8, <2>10, <3>0, <4>1 DEF Listed, Stays
    <3>4. QED
      BY <2>1, <2>10, <3>0, <3>1, <3>2, <3>3, StayKeeps DEF Listed, Stays, TypeOK
  <2>11. CASE Taken(q)
    <3>0. LeadsOn
      BY <2>11, <2>16 DEF Taken, Stays
    <3>1. content = Blank => GoesOnWaiting
      <4>1. content = Blank => q.ask \notin Asks(Url)
        BY <2>4, <2>11, AsksOfPages DEF Taken
      <4>2. QED
        BY <2>8, <2>11, <3>0, <4>1 DEF Taken, Stays
    <3>2. QED
      BY <2>1, <2>7, <2>11, <3>0, <3>1, StayKeeps DEF Taken, Stays, TypeOK
  <2>12. ASSUME DeviceInfoTaken(q), q.valid # "no"
         PROVE  PagesInv'
    <3>0. LeadsOn
      BY <2>12, <2>16 DEF DeviceInfoTaken, Stays
    <3>1. content' = content \/ DrawnAnew
      BY <2>2, <2>12 DEF DeviceInfoTaken, Stage, DrawnAnew, TypeOK, Stages
    <3>2. content = Blank => GoesOnWaiting
      <4>1. content = Blank => q.visit # visit
        BY <2>4, <2>12 DEF DeviceInfoTaken, Waits
      <4>2. QED
        BY <2>8, <2>12, <3>0, <4>1 DEF DeviceInfoTaken, Stays
    <3>3. QED
      BY <2>1, <2>7, <2>12, <3>0, <3>1, <3>2, StayKeeps DEF DeviceInfoTaken, Stays, TypeOK
  <2>13. ASSUME NEW a, Invalid(q, a)
         PROVE  PagesInv'
    <3>0. LeadsOn
      BY <2>13, <2>16 DEF Invalid, Stays
    <3>1. content' = content \/ DrawnAnew
      BY <2>2, <2>13 DEF Invalid, Stage, DrawnAnew, TypeOK, Stages
    <3>2. content = Blank => GoesOnWaiting
      <4>1. content = Blank => q.ask \notin Asks(Url)
        BY <2>4, <2>13, AsksOfPages DEF Invalid
      <4>2. QED
        BY <2>8, <2>13, <3>0, <4>1 DEF Invalid, Stays
    <3>3. QED
      BY <2>1, <2>7, <2>13, <3>0, <3>1, <3>2, StayKeeps DEF Invalid, Stays, TypeOK
  <2>14. ASSUME NEW a \in {"401", "500"}, Failed(q, a)
         PROVE  PagesInv'
    <3>1. /\ failed \subseteq failed' /\ failed' \subseteq 1 .. visit
          /\ q.visit \in failed' \/ (a = "401" /\ q.valid = "no")
      BY <2>2, <2>14 DEF Failed, TypeOK
    <3>2. Stays /\ flight' = flight \ {q} /\ ok' = ok /\ content' = content
      BY <2>14 DEF Failed, Stays
    <3>3. LeadsOn
      <4>1. q.visit \notin failed' /\ q.ask = "device-info" => Url = "access-control"
        BY <2>14, <3>1 DEF Failed, OfSnap
      <4>2. QED
        BY <2>16, <3>2, <4>1
    <3>4. content = Blank => GoesOnWaiting
      <4>1. CASE visit \in failed'
        BY <4>1 DEF GoesOnWaiting
      <4>2. CASE q.visit = visit => q.ask \notin Asks(Url)
        BY <2>8, <3>1, <3>2, <3>3, <4>2
      <4>3. CASE content = Blank /\ visit \notin failed' /\ q.visit = visit /\ q.ask \in Asks(Url)
        \* A refused request for the snap, while the other one leads to the token.
        <5>1. q.valid = "no" /\ a = "401"
          BY <3>1, <4>3
        <5>2. q.ask = "snap"
          <6>1. Url # "access-control" /\ q.ask # "click"
            BY <2>4, <4>3, AsksOfPages
          <6>2. QED
            BY <2>14, <5>1, <6>1 DEF Failed, OfSnap
        <5>3. Url = "snap"
          BY <2>4, <4>3, <5>2 DEF Waits, Asks, HomeAsks
        <5>4. visit \notin failed /\ SentTogether
          BY <3>1, <4>3 DEF EmptyWaits
        <5>5. Leading'
          BY <3>3, <4>3, <5>1, <5>2, <5>3, <5>4 DEF SentTogether, LeadsOn
        <5>6. Awaited("snap")'
          BY <3>2, <5>3, <5>5 DEF Awaited, Stays, Url
        <5>7. \A b \in Asks(Url) : Awaited(b) => Awaited(b)'
          BY <3>2, <3>3, <4>3, <5>2, <5>6, OthersAwaited
        <5>8. QED
          BY <3>2, <4>3, <5>4, <5>7 DEF GoesOnWaiting, EmptyWaits
      <4>4. QED
        BY <4>1, <4>2, <4>3
    <3>5. QED
      BY <2>1, <2>7, <2>14, <3>1, <3>2, <3>3, <3>4, StayKeeps DEF Failed, TypeOK
  <2>15. QED
    <3>1. PICK a \in Outcomes(q) :
             \/ a = "200" /\ (AccessGranted(q) \/ Gathered(q) \/ Taken(q) \/ DeviceInfoTaken(q))
             \/ Listed(q, a)
             \/ a = "401" /\ Unauthorized(q)
             \/ a \in {"401", "500"} /\ (Invalid(q, a) \/ Failed(q, a))
      BY DEF Answer
    <3>2. QED
      BY <3>1, <2>5, <2>6, <2>9, <2>10, <2>11, <2>12, <2>13, <2>14, <2>17
<1>8. CASE UNCHANGED vars
  BY <1>0, <1>8 DEF PagesInv, vars, tab, TypeOK, LateIsOutlived, ForeignOnlyIfOutlived,
     EmptyWaits, Awaited, Leading, SentTogether, visit, Url
<1>9. QED
  BY <1>1, <1>2, <1>3, <1>4, <1>5, <1>6, <1>7, <1>8 DEF Next, User, Back, Forward

-----------------------------------------------------------------------------

\* The invariant holds of every tab, whatever its users do and in whichever order
\* it is answered.
THEOREM PagesInvariance == Spec => []PagesInv
<1>1. QED
  BY InitInv, NextInv, PTL DEF Spec

\* Every variable keeps its type, and the layout that is mounted is that of the
\* address.
THEOREM TypeCorrect == Spec => []TypeOK
<1>1. PagesInv => TypeOK
  BY DEF PagesInv
<1>2. QED
  BY <1>1, PagesInvariance, PTL

\* What is shown was drawn by the page that is visited, or by one that was left
\* while it waited for its answers (setContent draws for whoever asks).
THEOREM Foreign == Spec => []ForeignOnlyIfOutlived
<1>1. PagesInv => ForeignOnlyIfOutlived
  BY DEF PagesInv
<1>2. QED
  BY <1>1, PagesInvariance, PTL

\* No page stays empty without an error: one that is refused is left for the
\* token's (app.js), and $.when draws the others.
THEOREM Empty == Spec => []EmptyOnlyByError
<1>1. PagesInv => EmptyOnlyByError
  BY DEF PagesInv, EmptyWaits, EmptyOnlyByError, Awaited, Leading
<1>2. QED
  BY <1>1, PagesInvariance, PTL

-----------------------------------------------------------------------------
(* Who was let in                                                          *)

LetIn == LetInForGood /\ (entered => granted)

\* Requests that are sent while the cookie holds the token are served with it.
LEMMA SentServed ==
    ASSUME NEW p, NEW v, granted' = TRUE
    PROVE  /\ \A q \in Requests(v, p) : q.valid = "yes"
           /\ \A a : Request(v, a).valid = "yes"
  BY DEF Requests, Request

LEMMA PushServes ==
    ASSUME LetInForGood, NEW p, NEW rest \in SUBSET flight, Push(p, rest), entered, granted' = TRUE
    PROVE  \A q \in flight' : q.valid = "yes"
  BY SentServed DEF Push, Visit, LetInForGood

LEMMA LetInNext == LetIn /\ TypeOK /\ [Next]_vars => LetIn'
<1> SUFFICES ASSUME LetIn, TypeOK, [Next]_vars, entered'
             PROVE  granted' = TRUE /\ \A q \in flight' : q.valid = "yes"
  BY DEF LetIn, LetInForGood, TypeOK
<1>0. LetInForGood /\ (entered => granted = TRUE) /\ granted \in BOOLEAN /\ entered \in BOOLEAN
  BY DEF LetIn, TypeOK
<1>1. ASSUME NEW p \in Page, Load(p)
      PROVE  granted' = TRUE /\ \A q \in flight' : q.valid = "yes"
  BY <1>0, <1>1, SentServed DEF Load, Document
<1>2. CASE ClickCard
  <2>1. entered /\ granted' = TRUE
    BY <1>0, <1>2 DEF ClickCard
  <2>2. QED
    BY <1>0, <1>2, <2>1, PushServes DEF ClickCard
<1>3. ASSUME NEW to, Traverse(to)
      PROVE  granted' = TRUE /\ \A q \in flight' : q.valid = "yes"
  BY <1>0, <1>3, SentServed DEF Traverse, Visit, LetInForGood
<1>4. CASE ClickSnap
  BY <1>0, <1>4, SentServed DEF ClickSnap, LetInForGood
<1>5. ASSUME NEW right \in BOOLEAN, Submit(right)
      PROVE  granted' = TRUE /\ \A q \in flight' : q.valid = "yes"
  <2>1. entered /\ right = TRUE
    BY <1>0, <1>5, Zenon DEF Submit
  <2>2. QED
    BY <1>0, <1>5, <2>1, SentServed DEF Submit, LetInForGood
<1>6. CASE Generate
  BY <1>6 DEF Generate
<1>7. ASSUME NEW q \in flight, Answer(q)
      PROVE  granted' = TRUE /\ \A p \in flight' : p.valid = "yes"
  <2>1. CASE AccessGranted(q)
    BY <1>0, <2>1, SentServed DEF AccessGranted, Document
  <2>2. CASE Unauthorized(q)
    <3>1. entered /\ granted' = TRUE
      BY <1>0, <2>2 DEF Unauthorized
    <3>2. flight \ {q} \in SUBSET flight
      OBVIOUS
    <3>3. QED
      BY <1>0, <2>2, <3>1, <3>2, PushServes DEF Unauthorized
  <2>3. ASSUME NEW a, Listed(q, a)
        PROVE  granted' = TRUE /\ \A p \in flight' : p.valid = "yes"
    <3>1. entered /\ granted' = TRUE
      BY <1>0, <2>3 DEF Listed
    <3>2. Request(q.visit, "states").valid = "yes"
      BY <3>1, SentServed
    <3>3. flight' \subseteq flight \cup {Request(q.visit, "states")}
      BY <2>3 DEF Listed
    <3>4. QED
      BY <1>0, <3>1, <3>2, <3>3 DEF LetInForGood
  <2>4. ASSUME NEW a,
               Gathered(q) \/ Taken(q) \/ DeviceInfoTaken(q) \/ Invalid(q, a) \/ Failed(q, a)
        PROVE  granted' = TRUE /\ \A p \in flight' : p.valid = "yes"
    <3>1. flight' \subseteq flight /\ entered' = entered /\ granted' = granted
      BY <2>4 DEF Gathered, Taken, DeviceInfoTaken, Invalid, Failed
    <3>2. QED
      BY <1>0, <3>1 DEF LetInForGood
  <2>5. QED
    BY <1>7, <2>1, <2>2, <2>3, <2>4 DEF Answer
<1>8. CASE UNCHANGED vars
  BY <1>0, <1>8 DEF vars, tab, LetInForGood
<1>9. QED
  BY <1>1, <1>2, <1>3, <1>4, <1>5, <1>6, <1>7, <1>8 DEF Next, User, Back, Forward

\* Who was let in is not asked again until the token is replaced or another is
\* submitted: the document that the success of handleSubmit loads drops every
\* request that was sent without the token.
THEOREM LetInStays == Spec => []LetInForGood
<1>1. Init => LetIn
  BY DEF Init, LetIn, LetInForGood
<1>2. LetIn => LetInForGood
  BY DEF LetIn
<1>3. QED
  BY <1>1, <1>2, LetInNext, TypeCorrect, PTL DEF Spec

=============================================================================
