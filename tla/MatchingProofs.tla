--------------------------- MODULE MatchingProofs ---------------------------
(***************************************************************************)
(* For any number of trips, requests and searches, whatever users do and   *)
(* whatever fails: a pair is offered once.  The unique index keeps the     *)
(* second Match out; that the carrier is notified once needs besides that  *)
(* only the search whose transaction created the Match is to tell him.     *)
(***************************************************************************)
EXTENDS Matching, TLAPS

\* What a call is about, and whom it deals with.
CallsFit == \A s \in Searches :
    /\ searches[s].kind = "request" =>
          /\ searches[s].about \in Requests
          /\ searches[s].todo \subseteq Trips /\ searches[s].tell \subseteq Trips
    /\ searches[s].kind = "trip" =>
          /\ searches[s].about \in Trips
          /\ searches[s].todo \subseteq Requests /\ searches[s].tell \subseteq Requests
    /\ searches[s].kind = "none" => searches[s].todo = {} /\ searches[s].tell = {}
    /\ searches[s].at \in {"saveTrip", "tripEvent", "depositEvent"} => searches[s].kind = "trip"
    /\ searches[s].at = "idle" <=> searches[s].kind = "none"
    /\ searches[s].at = "idle" => ~ searches[s].attached

\* Call s is to notify the carrier of pair p.
Tells(s, p) == \E x \in searches[s].tell : PairOf(s, x) = p

OffersTold == \A p \in Pairs :
    /\ offers[p] = IF matches[p] = "none" THEN 0 ELSE 1
    /\ told[p] <= offers[p]
    /\ \A s \in Searches : Tells(s, p) => offers[p] = 1 /\ told[p] = 0
    /\ \A s, o \in Searches : Tells(s, p) /\ Tells(o, p) => s = o

\* The part of the type invariant that offers rest on.
OfferTypes ==
    /\ matches \in [Pairs -> MatchStates]
    /\ offers \in [Pairs -> Nat] /\ told \in [Pairs -> Nat]
    /\ searches \in [Searches -> SearchCall]

MatchingInv == OfferTypes /\ CallsFit /\ OffersTold

-----------------------------------------------------------------------------

LEMMA MatchingInitInv == MatchingInit => MatchingInv
<1> SUFFICES ASSUME MatchingInit PROVE MatchingInv
  OBVIOUS
<1> USE DEF MatchingInit, Idle
<1>1. OfferTypes
  BY DEF OfferTypes, MatchStates, SearchCall
<1>2. CallsFit
  BY DEF CallsFit
<1>3. OffersTold
  BY DEF OffersTold, Tells
<1> QED
  BY <1>1, <1>2, <1>3 DEF MatchingInv

\* A pair tells one trip from another, and one request from another.
LEMMA PairsDiffer ==
  ASSUME MatchingInv, NEW s \in Searches, NEW x \in searches[s].todo \union searches[s].tell
  PROVE  /\ PairOf(s, x) \in Pairs
         /\ \A y \in searches[s].todo \union searches[s].tell : PairOf(s, x) = PairOf(s, y) => x = y
<1>1. CASE searches[s].kind = "request"
  BY <1>1 DEF MatchingInv, CallsFit, PairOf, Pairs
<1>2. CASE searches[s].kind = "trip"
  BY <1>2 DEF MatchingInv, CallsFit, PairOf, Pairs
<1> QED
  BY <1>1, <1>2 DEF MatchingInv, CallsFit, OfferTypes, SearchCall

\* A step that makes no offer and notifies nobody keeps what was offered.
LEMMA OffersKept ==
  ASSUME MatchingInv, offers' = offers, told' = told,
         \A p \in Pairs : matches'[p] = "none" <=> matches[p] = "none",
         \A s \in Searches : \/ searches'[s].tell = {}
                             \/ /\ searches'[s].tell \subseteq searches[s].tell
                                /\ searches'[s].kind = searches[s].kind
                                /\ searches'[s].about = searches[s].about
  PROVE  OffersTold'
<1>1. \A s \in Searches, p \in Pairs : Tells(s, p)' => Tells(s, p)
  BY DEF Tells, PairOf
<1> QED
  BY <1>1 DEF MatchingInv, OffersTold

\* A call that begins.
LEMMA BeginInv ==
  ASSUME MatchingInv, NEW s \in Searches, NEW call \in SearchCall,
         searches' = [searches EXCEPT ![s] = call],
         call.todo = {}, call.tell = {}, call.at # "idle",
         \/ call.kind = "request" /\ call.about \in Requests
            /\ call.at \notin {"saveTrip", "tripEvent", "depositEvent"}
         \/ call.kind = "trip" /\ call.about \in Trips
  PROVE  /\ searches' \in [Searches -> SearchCall]
         /\ CallsFit'
         /\ \A o \in Searches : searches'[o].tell = {} \/ searches'[o] = searches[o]
<1>1. searches' \in [Searches -> SearchCall]
  BY DEF MatchingInv, OfferTypes
<1>2. searches'[s] = call /\ \A o \in Searches : o # s => searches'[o] = searches[o]
  BY DEF MatchingInv, OfferTypes
<1>3. CallsFit'
  BY <1>2 DEF MatchingInv, CallsFit
<1> QED
  BY <1>1, <1>2, <1>3

\* A call that ends.
LEMMA EndInv ==
  ASSUME MatchingInv, NEW s \in Searches, searches' = [searches EXCEPT ![s] = Idle]
  PROVE  /\ searches' \in [Searches -> SearchCall]
         /\ CallsFit'
         /\ \A o \in Searches : searches'[o].tell = {} \/ searches'[o] = searches[o]
<1>1. /\ Idle \in SearchCall /\ Idle.tell = {} /\ Idle.todo = {}
      /\ Idle.kind = "none" /\ Idle.at = "idle" /\ ~ Idle.attached
  BY DEF Idle, SearchCall
<1>2. searches' \in [Searches -> SearchCall]
  BY <1>1 DEF MatchingInv, OfferTypes
<1>3. searches'[s] = Idle /\ \A o \in Searches : o # s => searches'[o] = searches[o]
  BY DEF MatchingInv, OfferTypes
<1>4. CallsFit'
  BY <1>1, <1>3 DEF MatchingInv, CallsFit
<1> QED
  BY <1>1, <1>2, <1>3, <1>4

\* A call that goes on.
LEMMA ContinueInv ==
  ASSUME MatchingInv, NEW s \in Searches, NEW call \in SearchCall,
         searches' = [searches EXCEPT ![s] = call],
         searches[s].at # "idle", call.at # "idle",
         call.kind = searches[s].kind, call.about = searches[s].about,
         call.at \in {"saveTrip", "tripEvent", "depositEvent"} => call.kind = "trip",
         call.kind = "request" => call.todo \union call.tell \subseteq Trips,
         call.kind = "trip" => call.todo \union call.tell \subseteq Requests
  PROVE  searches' \in [Searches -> SearchCall] /\ CallsFit'
<1>1. searches' \in [Searches -> SearchCall]
  BY DEF MatchingInv, OfferTypes
<1>2. searches'[s] = call /\ \A o \in Searches : o # s => searches'[o] = searches[o]
  BY DEF MatchingInv, OfferTypes
<1>3. CallsFit'
  BY <1>2 DEF MatchingInv, CallsFit
<1> QED
  BY <1>1, <1>3

\* Trips, requests and matches that change without a call.
LEMMA DocumentInv ==
  ASSUME MatchingInv,
         \/ \E t \in Trips : PostTrip(t) \/ CancelTrip(t)
         \/ \E r \in Requests : PostRequest(r) \/ Pay(r)
         \/ \E p \in Pairs : Accept(p) \/ Confirm(p) \/ Reject(p) \/ Dispute(p) \/ SlaCancel(p)
  PROVE  MatchingInv'
<1>1. /\ searches' = searches /\ offers' = offers /\ told' = told
      /\ matches' \in [Pairs -> MatchStates]
      /\ \A p \in Pairs : matches'[p] = "none" <=> matches[p] = "none"
  <2>1. CASE \/ \E t \in Trips : PostTrip(t) \/ CancelTrip(t)
             \/ \E r \in Requests : PostRequest(r) \/ Pay(r)
    <3>1. ASSUME NEW t \in Trips, PostTrip(t) \/ CancelTrip(t)
          PROVE  searches' = searches /\ offers' = offers /\ told' = told /\ matches' = matches
      BY <3>1 DEF PostTrip, CancelTrip, messages
    <3>2. ASSUME NEW r \in Requests, PostRequest(r) \/ Pay(r)
          PROVE  searches' = searches /\ offers' = offers /\ told' = told /\ matches' = matches
      BY <3>2 DEF PostRequest, Pay, documents
    <3> QED
      BY <2>1, <3>1, <3>2 DEF MatchingInv, OfferTypes
  <2>2. ASSUME NEW p \in Pairs, Accept(p) \/ Confirm(p) \/ Reject(p) \/ Dispute(p) \/ SlaCancel(p)
        PROVE  /\ searches' = searches /\ offers' = offers /\ told' = told
               /\ matches' \in [Pairs -> MatchStates]
               /\ \A q \in Pairs : matches'[q] = "none" <=> matches[q] = "none"
    BY <2>2 DEF Accept, Confirm, Reject, Dispute, Move, SlaCancel, messages, MatchStates,
                MatchingInv, OfferTypes
  <2> QED
    BY <2>1, <2>2
<1>2. CallsFit'
  BY <1>1 DEF MatchingInv, CallsFit
<1>3. OffersTold'
  BY <1>1, OffersKept
<1> QED
  BY <1>1, <1>2, <1>3 DEF MatchingInv, OfferTypes

\* What a call begins with.
LEMMA SearchIsCall ==
  ASSUME NEW kind \in {"trip", "request"}, NEW x \in Trips \union Requests,
         NEW at \in {"saveTrip", "depositEvent", "requestEvent", "cancelMatches", "search"},
         NEW attached \in BOOLEAN, NEW seen \in BOOLEAN
  PROVE  LET call == Search(kind, x, at, attached, seen) IN
         /\ call \in SearchCall /\ call.kind = kind /\ call.about = x /\ call.at = at
         /\ call.todo = {} /\ call.tell = {}
BY DEF Search, SearchCall

\* Calls that begin.
LEMMA CallBeginInv ==
  ASSUME MatchingInv, NEW s \in Searches,
         \/ \E t \in Trips : \/ EditTrip(s, t) \/ ConfirmDeposit(s, t) \/ AuditSearch(s, t)
                             \/ ConsumeTrip(s, t)
         \/ \E r \in Requests : \/ EditRequest(s, r) \/ CancelRequest(s, r) \/ ViewMatches(s, r)
                                \/ ConsumeRequest(s, r)
  PROVE  MatchingInv'
<1>1. matches' = matches /\ offers' = offers /\ told' = told
  BY DEF EditTrip, ConfirmDeposit, AuditSearch, ConsumeTrip, EditRequest, CancelRequest,
         ViewMatches, ConsumeRequest, documents, messages
<1>2. /\ searches' \in [Searches -> SearchCall]
      /\ CallsFit'
      /\ \A o \in Searches : searches'[o].tell = {} \/ searches'[o] = searches[o]
  <2>1. ASSUME NEW t \in Trips, \/ EditTrip(s, t) \/ ConfirmDeposit(s, t) \/ AuditSearch(s, t)
                               \/ ConsumeTrip(s, t)
        PROVE  /\ searches' \in [Searches -> SearchCall]
               /\ CallsFit'
               /\ \A o \in Searches : searches'[o].tell = {} \/ searches'[o] = searches[o]
    <3>1. Open(t) \in BOOLEAN /\ (tripState[t] = "active") \in BOOLEAN
      BY DEF Open
    <3>2. PICK at \in {"saveTrip", "depositEvent", "search"}, attached \in BOOLEAN, seen \in BOOLEAN :
             searches' = [searches EXCEPT ![s] = Search("trip", t, at, attached, seen)]
      BY <2>1, <3>1 DEF EditTrip, ConfirmDeposit, AuditSearch, ConsumeTrip, Begin
    <3> DEFINE call == Search("trip", t, at, attached, seen)
    <3>3. /\ call \in SearchCall /\ call.kind = "trip" /\ call.about = t /\ call.at = at
          /\ call.todo = {} /\ call.tell = {}
      BY SearchIsCall
    <3> HIDE DEF call
    <3> QED
      BY <3>2, <3>3, BeginInv DEF call
  <2>2. ASSUME NEW r \in Requests, \/ EditRequest(s, r) \/ CancelRequest(s, r) \/ ViewMatches(s, r)
                                  \/ ConsumeRequest(s, r)
        PROVE  /\ searches' \in [Searches -> SearchCall]
               /\ CallsFit'
               /\ \A o \in Searches : searches'[o].tell = {} \/ searches'[o] = searches[o]
    <3>1. PICK at \in {"requestEvent", "cancelMatches", "search"}, attached \in BOOLEAN :
             searches' = [searches EXCEPT ![s] = Search("request", r, at, attached, FALSE)]
      BY <2>2 DEF EditRequest, CancelRequest, ViewMatches, ConsumeRequest, Begin
    <3> DEFINE call == Search("request", r, at, attached, FALSE)
    <3>2. /\ call \in SearchCall /\ call.kind = "request" /\ call.about = r /\ call.at = at
          /\ call.todo = {} /\ call.tell = {}
      BY DEF Search, SearchCall
    <3> HIDE DEF call
    <3> QED
      BY <3>1, <3>2, BeginInv DEF call
  <2> QED
    BY <2>1, <2>2
<1>3. OffersTold'
  BY <1>1, <1>2, OffersKept
<1> QED
  BY <1>1, <1>2, <1>3 DEF MatchingInv, OfferTypes

\* Calls that end.
LEMMA CallEndInv ==
  ASSUME MatchingInv, NEW s \in Searches,
         \/ TripEvent(s) \/ RequestEvent(s) \/ CancelMatches(s) \/ Acknowledge(s)
         \/ Finish(s) \/ Die(s)
  PROVE  MatchingInv'
<1>1. /\ searches' = [searches EXCEPT ![s] = Idle] /\ offers' = offers /\ told' = told
      /\ matches' \in [Pairs -> MatchStates]
      /\ \A p \in Pairs : matches'[p] = "none" <=> matches[p] = "none"
  BY DEF TripEvent, RequestEvent, CancelMatches, Acknowledge, Finish, Die, documents, messages,
         MatchingInv, OfferTypes, MatchStates
<1>2. /\ searches' \in [Searches -> SearchCall]
      /\ CallsFit'
      /\ \A o \in Searches : searches'[o].tell = {} \/ searches'[o] = searches[o]
  BY <1>1, EndInv
<1>3. OffersTold'
  BY <1>1, <1>2, OffersKept
<1> QED
  BY <1>1, <1>2, <1>3 DEF MatchingInv, OfferTypes

\* Calls that go on without an offer.
LEMMA CallGoesInv ==
  ASSUME MatchingInv, NEW s \in Searches,
         \/ SaveTrip(s) \/ DepositEvent(s) \/ FindTrips(s) \/ FindRequests(s)
         \/ GiveUp(s) \/ TimeOut(s)
         \/ \E x \in Trips \union Requests : ProposeFail(s, x) \/ TellFail(s, x)
  PROVE  MatchingInv'
<1>1. matches' = matches /\ offers' = offers /\ told' = told
  BY DEF SaveTrip, DepositEvent, FindTrips, FindRequests, GiveUp, TimeOut, ProposeFail, TellFail,
         documents, messages
<1> DEFINE call == searches'[s]
           Goes == /\ searches' = [searches EXCEPT ![s] = call] /\ call \in SearchCall
                   /\ searches[s].at # "idle" /\ call.at # "idle"
                   /\ call.kind = searches[s].kind /\ call.about = searches[s].about
                   /\ call.at \in {"saveTrip", "tripEvent", "depositEvent"} => call.kind = "trip"
                   /\ call.kind = "request" => call.todo \union call.tell \subseteq Trips
                   /\ call.kind = "trip" => call.todo \union call.tell \subseteq Requests
                   /\ call.tell \subseteq searches[s].tell
<1>2. Goes
  <2> searches \in [Searches -> SearchCall] /\ searches[s] \in SearchCall /\ CallsFit
    BY DEF MatchingInv, OfferTypes
  <2>1. CASE SaveTrip(s)
    BY <2>1 DEF SaveTrip, SearchCall, CallsFit
  <2>2. CASE DepositEvent(s)
    BY <2>2 DEF DepositEvent, SearchCall, CallsFit
  <2>3. CASE FindTrips(s)
    <3>1. PICK found \in SUBSET Trips :
             searches' = [searches EXCEPT ![s].at = "propose", ![s].todo = found]
      BY <2>3 DEF FindTrips, TripsFor
    <3>2. searches[s].kind = "request" /\ searches[s].at = "search"
      BY <2>3 DEF FindTrips
    <3> QED
      BY <3>1, <3>2 DEF SearchCall, CallsFit
  <2>4. CASE FindRequests(s)
    <3>1. PICK found \in SUBSET Requests :
             searches' = [searches EXCEPT ![s].at = "propose", ![s].todo = found]
      <4>1. PICK some \in SUBSET Requests :
               searches' = [searches EXCEPT ![s].at = "propose",
                  ![s].todo = {r \in some : SenderOf[r] # CarrierOf[searches[s].about]}]
        BY <2>4 DEF FindRequests, RequestsFor
      <4> QED
        BY <4>1
    <3>2. searches[s].kind = "trip" /\ searches[s].at = "search"
      BY <2>4 DEF FindRequests
    <3> QED
      BY <3>1, <3>2 DEF SearchCall, CallsFit
  <2>5. CASE GiveUp(s) \/ TimeOut(s)
    <3>1. searches[s].attached /\ searches' = [searches EXCEPT ![s].attached = FALSE]
      BY <2>5 DEF GiveUp, TimeOut
    <3>2. searches[s].at # "idle"
      BY <3>1 DEF CallsFit
    <3> QED
      BY <3>1, <3>2 DEF SearchCall, CallsFit
  <2>6. ASSUME NEW x \in Trips \union Requests, ProposeFail(s, x)
        PROVE  Goes
    BY <2>6 DEF ProposeFail, MayPropose, Left, SearchCall, CallsFit
  <2>7. ASSUME NEW x \in Trips \union Requests, TellFail(s, x)
        PROVE  Goes
    <3>1. /\ call = [searches[s] EXCEPT !.tell = @ \ {x}, !.todo = Left(s, x), !.ok = FALSE]
          /\ searches' = [searches EXCEPT ![s] = call]
          /\ searches[s].tell # {}
      BY <2>7 DEF TellFail
    <3>2. Left(s, x) \subseteq searches[s].todo
      BY DEF Left
    <3>3. /\ call.at = searches[s].at /\ call.kind = searches[s].kind
          /\ call.about = searches[s].about
          /\ call.todo = Left(s, x) /\ call.tell = searches[s].tell \ {x}
      BY <3>1 DEF SearchCall
    <3>4. call \in SearchCall
      BY <3>1, <3>2 DEF SearchCall
    <3> QED
      BY <3>1, <3>2, <3>3, <3>4 DEF CallsFit
  <2> QED
    BY <2>1, <2>2, <2>3, <2>4, <2>5, <2>6, <2>7
<1>3. searches' \in [Searches -> SearchCall] /\ CallsFit'
  BY <1>2, ContinueInv
<1>4. \A o \in Searches : /\ searches'[o].tell \subseteq searches[o].tell
                           /\ searches'[o].kind = searches[o].kind
                           /\ searches'[o].about = searches[o].about
  BY <1>2 DEF MatchingInv, OfferTypes
<1>5. OffersTold'
  BY <1>1, <1>4, OffersKept
<1> QED
  BY <1>1, <1>3, <1>5 DEF MatchingInv, OfferTypes

\* A call with one candidate less, and perhaps one carrier more to notify.
LEMMA CandidateInv ==
  ASSUME MatchingInv, NEW s \in Searches, searches[s].todo \union searches[s].tell # {},
         NEW todo \in SUBSET searches[s].todo,
         NEW tell \in SUBSET (searches[s].todo \union searches[s].tell),
         searches' = [searches EXCEPT ![s].todo = todo, ![s].tell = tell]
  PROVE  /\ searches' \in [Searches -> SearchCall] /\ CallsFit'
         /\ searches'[s].tell = tell
         /\ \A o \in Searches : /\ searches'[o].kind = searches[o].kind
                                /\ searches'[o].about = searches[o].about
                                /\ o # s => searches'[o].tell = searches[o].tell
<1> DEFINE call == [searches[s] EXCEPT !.todo = todo, !.tell = tell]
<1>1. searches[s] \in SearchCall /\ searches \in [Searches -> SearchCall] /\ CallsFit
  BY DEF MatchingInv, OfferTypes
<1>2. searches[s].at # "idle"
  BY <1>1 DEF CallsFit
<1>3. /\ call \in SearchCall /\ call.at = searches[s].at /\ call.kind = searches[s].kind
      /\ call.about = searches[s].about /\ call.todo = todo /\ call.tell = tell
  BY <1>1 DEF SearchCall
<1>4. searches' = [searches EXCEPT ![s] = call]
  BY <1>1 DEF SearchCall
<1>5. /\ call.at \in {"saveTrip", "tripEvent", "depositEvent"} => call.kind = "trip"
      /\ call.kind = "request" => call.todo \union call.tell \subseteq Trips
      /\ call.kind = "trip" => call.todo \union call.tell \subseteq Requests
  BY <1>1, <1>3 DEF CallsFit
<1> HIDE DEF call
<1>6. searches' \in [Searches -> SearchCall] /\ CallsFit'
  BY <1>2, <1>3, <1>4, <1>5, ContinueInv
<1> QED
  BY <1>1, <1>3, <1>4, <1>6

\* An offer is made: nobody had one of this pair to tell.
LEMMA OfferInv ==
  ASSUME MatchingInv, NEW s \in Searches, NEW x \in searches[s].todo,
         NEW tell \in {searches[s].tell, searches[s].tell \union {x}},
         matches[PairOf(s, x)] = "none",
         matches' = [matches EXCEPT ![PairOf(s, x)] = "proposed"],
         offers' = [offers EXCEPT ![PairOf(s, x)] = @ + 1],
         told' = told,
         searches' = [searches EXCEPT ![s].todo = @ \ {x}, ![s].tell = tell]
  PROVE  MatchingInv'
<1>1. PICK p \in Pairs : p = PairOf(s, x)
  BY PairsDiffer
<1>2. /\ searches' \in [Searches -> SearchCall] /\ CallsFit'
      /\ searches'[s].tell = tell
      /\ \A o \in Searches : /\ searches'[o].kind = searches[o].kind
                             /\ searches'[o].about = searches[o].about
                             /\ o # s => searches'[o].tell = searches[o].tell
  <2> DEFINE todo == searches[s].todo \ {x}
  <2>1. searches' = [searches EXCEPT ![s].todo = todo, ![s].tell = tell]
    BY DEF MatchingInv, OfferTypes
  <2> HIDE DEF todo
  <2>2. /\ todo \in SUBSET searches[s].todo
        /\ tell \in SUBSET (searches[s].todo \union searches[s].tell)
        /\ searches[s].todo \union searches[s].tell # {}
    BY DEF todo
  <2> QED
    BY <2>1, <2>2, CandidateInv
<1>3. offers[p] = 0 /\ told[p] = 0 /\ offers'[p] = 1 /\ told'[p] = 0 /\ matches'[p] = "proposed"
  BY <1>1 DEF MatchingInv, OfferTypes, OffersTold
<1>4. \A q \in Pairs : q # p => offers'[q] = offers[q] /\ matches'[q] = matches[q]
  BY <1>1 DEF MatchingInv, OfferTypes
<1>5. \A o \in Searches : ~ Tells(o, p)
  BY <1>3 DEF MatchingInv, OffersTold
<1>6. \A q \in Pairs, o \in Searches : Tells(o, q)' => Tells(o, q) \/ (q = p /\ o = s)
  BY <1>1, <1>2 DEF Tells, PairOf
<1>7. OffersTold'
  BY <1>3, <1>4, <1>5, <1>6 DEF MatchingInv, OffersTold
<1>8. OfferTypes'
  BY <1>1, <1>2 DEF MatchingInv, OfferTypes, MatchStates
<1> QED
  BY <1>2, <1>7, <1>8 DEF MatchingInv

\* The offer is found to be there already, or is made.
LEMMA ProposeInv ==
  ASSUME MatchingInv, NEW s \in Searches, NEW x \in Trips \union Requests,
         Propose(s, x) \/ ProposeUnsure(s, x)
  PROVE  MatchingInv'
<1> DEFINE telling == searches[s].tell \union {x}
<1>1. x \in searches[s].todo /\ told' = told
  BY DEF Propose, ProposeUnsure, MayPropose
<1>2. CASE Propose(s, x) /\ matches[PairOf(s, x)] = "none"
  <2>1. /\ matches' = [matches EXCEPT ![PairOf(s, x)] = "proposed"]
        /\ offers' = [offers EXCEPT ![PairOf(s, x)] = @ + 1]
        /\ searches' = [searches EXCEPT ![s].todo = @ \ {x}, ![s].tell = @ \union {x}]
    BY <1>2 DEF Propose
  <2>2. searches' = [searches EXCEPT ![s].todo = @ \ {x}, ![s].tell = telling]
    BY <2>1 DEF MatchingInv, OfferTypes, SearchCall
  <2> QED
    BY <1>1, <1>2, <2>1, <2>2, OfferInv
<1>3. CASE ProposeUnsure(s, x)
  <2>1. /\ matches' = [matches EXCEPT ![PairOf(s, x)] = "proposed"]
        /\ offers' = [offers EXCEPT ![PairOf(s, x)] = @ + 1]
        /\ searches' = [searches EXCEPT ![s].todo = @ \ {x}]
        /\ matches[PairOf(s, x)] = "none"
    BY <1>3 DEF ProposeUnsure
  <2>2. searches' = [searches EXCEPT ![s].todo = @ \ {x}, ![s].tell = searches[s].tell]
    BY <2>1 DEF MatchingInv, OfferTypes, SearchCall
  <2> QED
    BY <1>1, <2>1, <2>2, OfferInv
<1>4. CASE Propose(s, x) /\ matches[PairOf(s, x)] # "none"
  <2>1. /\ matches' = matches /\ offers' = offers
        /\ searches' = [searches EXCEPT ![s].todo = @ \ {x}]
    BY <1>4 DEF Propose
  <2> DEFINE todo == searches[s].todo \ {x}
  <2>2. searches' = [searches EXCEPT ![s].todo = todo, ![s].tell = searches[s].tell]
    BY <2>1 DEF MatchingInv, OfferTypes, SearchCall
  <2> HIDE DEF todo
  <2>3. /\ todo \in SUBSET searches[s].todo
        /\ searches[s].todo \union searches[s].tell # {}
    BY <1>1 DEF todo
  <2>4. /\ searches' \in [Searches -> SearchCall] /\ CallsFit'
        /\ searches'[s].tell = searches[s].tell
        /\ \A o \in Searches : /\ searches'[o].kind = searches[o].kind
                               /\ searches'[o].about = searches[o].about
                               /\ o # s => searches'[o].tell = searches[o].tell
    BY <1>1, <2>2, <2>3, CandidateInv
  <2>5. OffersTold'
    BY <1>1, <2>1, <2>4, OffersKept
  <2> QED
    BY <1>1, <2>1, <2>4, <2>5 DEF MatchingInv, OfferTypes
<1> QED
  BY <1>2, <1>3, <1>4

\* The carrier is notified by the only call that is to.
LEMMA TellInv ==
  ASSUME MatchingInv, NEW s \in Searches, NEW x \in Trips \union Requests, Tell(s, x)
  PROVE  MatchingInv'
<1>1. /\ x \in searches[s].tell /\ matches' = matches /\ offers' = offers
      /\ told' = [told EXCEPT ![PairOf(s, x)] = @ + 1]
      /\ searches' = [searches EXCEPT ![s].tell = @ \ {x}]
  BY DEF Tell, documents
<1>2. PICK p \in Pairs : p = PairOf(s, x)
  BY <1>1, PairsDiffer
<1>3. /\ searches' \in [Searches -> SearchCall] /\ CallsFit'
      /\ searches'[s].tell = searches[s].tell \ {x}
      /\ \A o \in Searches : /\ searches'[o].kind = searches[o].kind
                             /\ searches'[o].about = searches[o].about
                             /\ o # s => searches'[o].tell = searches[o].tell
  <2>1. searches' = [searches EXCEPT ![s].todo = searches[s].todo, ![s].tell = searches[s].tell \ {x}]
    BY <1>1 DEF MatchingInv, OfferTypes, SearchCall
  <2>2. PICK todo \in SUBSET searches[s].todo,
             tell \in SUBSET (searches[s].todo \union searches[s].tell) :
           /\ tell = searches[s].tell \ {x}
           /\ searches' = [searches EXCEPT ![s].todo = todo, ![s].tell = tell]
    BY <2>1
  <2>3. searches' = [searches EXCEPT ![s].todo = todo, ![s].tell = tell]
    BY <2>2
  <2>4. searches[s].todo \union searches[s].tell # {}
    BY <1>1
  <2>5. /\ searches' \in [Searches -> SearchCall] /\ CallsFit'
        /\ searches'[s].tell = tell
        /\ \A o \in Searches : /\ searches'[o].kind = searches[o].kind
                               /\ searches'[o].about = searches[o].about
                               /\ o # s => searches'[o].tell = searches[o].tell
    BY <2>3, <2>4, CandidateInv
  <2> QED
    BY <2>2, <2>5
<1>4. Tells(s, p)
  BY <1>1, <1>2 DEF Tells
<1>5. told[p] = 0 /\ offers[p] = 1 /\ \A o \in Searches : Tells(o, p) => o = s
  BY <1>4 DEF MatchingInv, OffersTold
<1>6. told'[p] = 1 /\ \A q \in Pairs : q # p => told'[q] = told[q]
  BY <1>1, <1>2, <1>5 DEF MatchingInv, OfferTypes
<1>7. \A o \in Searches, q \in Pairs : Tells(o, q)' => Tells(o, q)
  BY <1>3 DEF Tells, PairOf
<1>8. \A y \in searches[s].tell : PairOf(s, y) = p => y = x
  BY <1>1, <1>2, PairsDiffer
<1>9. \A o \in Searches : ~ Tells(o, p)'
  BY <1>3, <1>5, <1>7, <1>8 DEF Tells, PairOf
<1>10. OffersTold'
  BY <1>1, <1>5, <1>6, <1>7, <1>9 DEF MatchingInv, OffersTold
<1>11. OfferTypes'
  BY <1>1, <1>2, <1>3 DEF MatchingInv, OfferTypes
<1> QED
  BY <1>3, <1>10, <1>11 DEF MatchingInv

-----------------------------------------------------------------------------

LEMMA MatchingStepInv == MatchingInv /\ [MatchingNext]_matchingVars => MatchingInv'
<1> SUFFICES ASSUME MatchingInv, [MatchingNext]_matchingVars PROVE MatchingInv'
  OBVIOUS
<1>1. CASE UNCHANGED matchingVars
  BY <1>1 DEF matchingVars, documents, messages, MatchingInv, OfferTypes, CallsFit, OffersTold,
              Tells, PairOf
<1>2. CASE Users
  BY <1>2, DocumentInv, CallBeginInv DEF Users
<1>3. ASSUME NEW s \in Searches, Run(s)
      PROVE  MatchingInv'
  BY <1>3, CallGoesInv, CallEndInv, ProposeInv, TellInv DEF Run
<1>4. ASSUME NEW x \in Trips \union Requests, ConsumeAbout(x)
      PROVE  MatchingInv'
  BY <1>4, CallBeginInv DEF ConsumeAbout
<1>5. ASSUME NEW s \in Searches, NEW t \in Trips, AuditSearch(s, t)
      PROVE  MatchingInv'
  BY <1>5, CallBeginInv
<1>6. CASE MatchingFaults
  BY <1>6, CallGoesInv, CallEndInv, ProposeInv DEF MatchingFaults
<1> QED
  BY <1>1, <1>2, <1>3, <1>4, <1>5, <1>6 DEF MatchingNext

\* However many searches run at once, and whatever is redelivered, fails or is
\* committed in doubt (createMatchProposal, findMatches and
\* matchTripAgainstPendingRequests), a pair has one Match, one MatchProposed event,
\* and its carrier is notified at most once.
THEOREM PairsOfferedOnce == MatchingSpec => []OfferedOnce
<1>1. MatchingInv => OfferedOnce
  BY DEF MatchingInv, OffersTold, OfferedOnce
<1> QED
  BY <1>1, MatchingInitInv, MatchingStepInv, PTL DEF MatchingSpec

-----------------------------------------------------------------------------
(* Types, and with them that no event is acknowledged more often than it was *)
(* appended: an event that a call has taken is there until the call that took *)
(* it acknowledges it, because no two calls that are waited for are about the *)
(* same trip or request.                                                     *)

\* The orchestrator waits for call s with an event about x.
Taken(s, x) == searches[s].attached /\ searches[s].about = x

EventsTaken ==
    /\ \A s, o \in Searches : searches[s].attached /\ Taken(o, searches[s].about) => s = o
    /\ \A s \in Searches, r \in Requests : Taken(s, r) => requestEvents[r] > 0
    /\ \A s \in Searches, t \in Trips : Taken(s, t) => tripEvents[t] > 0

\* The rest of the type invariant.
DocumentTypes ==
    /\ tripState \in [Trips -> {"none", "active", "cancelled"}]
    /\ deposited \subseteq Trips
    /\ room \in [Trips -> Nat]
    /\ requestState \in [Requests -> {"none", "pending", "matched", "created", "cancelled"}]
    /\ audit \subseteq Trips /\ missed \subseteq Trips
    /\ edits \in Nat /\ faults \in Nat

EventTypes == tripEvents \in [Trips -> Nat] /\ requestEvents \in [Requests -> Nat]

TypesInv == MatchingInv /\ DocumentTypes /\ EventTypes /\ EventsTaken

\* Trips and requests that are written without a call.
LEMMA DocumentTyped ==
  ASSUME TypesInv,
         \/ \E t \in Trips : PostTrip(t) \/ CancelTrip(t)
         \/ \E r \in Requests : PostRequest(r) \/ Pay(r)
         \/ \E p \in Pairs : Accept(p) \/ Confirm(p) \/ Reject(p) \/ Dispute(p) \/ SlaCancel(p)
  PROVE  DocumentTypes'
<1> USE DEF TypesInv, DocumentTypes, documents, Edit, NoEdit
<1>1. ASSUME NEW t \in Trips, PostTrip(t) \/ CancelTrip(t) PROVE DocumentTypes'
  BY <1>1 DEF PostTrip, CancelTrip
<1>2. ASSUME NEW r \in Requests, PostRequest(r) \/ Pay(r) PROVE DocumentTypes'
  BY <1>2 DEF PostRequest, Pay
<1>3. ASSUME NEW p \in Pairs, Accept(p) \/ Confirm(p) \/ Reject(p) \/ Dispute(p)
      PROVE  DocumentTypes'
  BY <1>3 DEF Accept, Confirm, Reject, Dispute, Move, Pairs
<1>4. ASSUME NEW p \in Pairs, SlaCancel(p) PROVE DocumentTypes'
  <2>1. p[1] \in Trips /\ p[2] \in Requests /\ Weight[p[2]] \in Nat
    BY MatchingAssumption DEF Pairs
  <2> QED
    BY <1>4, <2>1 DEF SlaCancel
<1> QED
  BY <1>1, <1>2, <1>3, <1>4

\* A step that writes none of these documents but, perhaps, takes a trip that the
\* audit was still to search for.
DocumentsKept == /\ UNCHANGED <<tripState, deposited, room, requestState, missed>>
                 /\ audit' \subseteq audit
                 /\ edits' \in {edits, edits + 1} /\ faults' \in {faults, faults + 1}

LEMMA KeptTyped ==
  ASSUME DocumentTypes, DocumentsKept
  PROVE  DocumentTypes'
  BY DEF DocumentTypes, DocumentsKept

\* Calls that begin.
LEMMA BeginTyped ==
  ASSUME TypesInv, NEW s \in Searches,
         \/ \E t \in Trips : \/ EditTrip(s, t) \/ ConfirmDeposit(s, t) \/ AuditSearch(s, t)
                             \/ ConsumeTrip(s, t)
         \/ \E r \in Requests : \/ EditRequest(s, r) \/ CancelRequest(s, r) \/ ViewMatches(s, r)
                                \/ ConsumeRequest(s, r)
  PROVE  DocumentTypes'
<1> USE DEF documents, Edit, NoEdit
<1>0. DocumentTypes
  BY DEF TypesInv
<1>1. ASSUME NEW t \in Trips, EditTrip(s, t) \/ AuditSearch(s, t) \/ ConsumeTrip(s, t)
      PROVE  DocumentsKept
  BY <1>1 DEF EditTrip, AuditSearch, ConsumeTrip, DocumentsKept
<1>2. ASSUME NEW r \in Requests, EditRequest(s, r) \/ ViewMatches(s, r) \/ ConsumeRequest(s, r)
      PROVE  DocumentsKept
  BY <1>2 DEF EditRequest, ViewMatches, ConsumeRequest, DocumentsKept
<1>3. ASSUME NEW t \in Trips, ConfirmDeposit(s, t)
      PROVE  DocumentTypes'
  <2>1. /\ UNCHANGED <<tripState, room, requestState, audit, missed, faults>>
        /\ deposited' = deposited \union {t}
        /\ edits' \in {edits, edits + 1}
    BY <1>3 DEF ConfirmDeposit
  <2> QED
    BY <1>0, <2>1 DEF DocumentTypes
<1>4. ASSUME NEW r \in Requests, CancelRequest(s, r)
      PROVE  DocumentTypes'
  <2>1. /\ UNCHANGED <<tripState, deposited, room, audit, missed, faults>>
        /\ requestState' = [requestState EXCEPT ![r] = "cancelled"]
        /\ edits' = edits + 1
    BY <1>4 DEF CancelRequest
  <2> QED
    BY <1>0, <2>1 DEF DocumentTypes
<1> QED
  BY <1>0, <1>1, <1>2, <1>3, <1>4, KeptTyped

\* Calls that run, and faults.
LEMMA RunTyped ==
  ASSUME TypesInv, NEW s \in Searches,
         \/ Run(s) \/ TimeOut(s) \/ Die(s)
         \/ \E x \in Trips \union Requests :
               ProposeUnsure(s, x) \/ ProposeFail(s, x) \/ TellFail(s, x)
  PROVE  DocumentTypes'
<1> USE DEF documents, Fault, NoEdit
<1>0. DocumentTypes
  BY DEF TypesInv
<1>1. searches[s].at \in {"saveTrip", "tripEvent", "depositEvent"} => searches[s].about \in Trips
  BY DEF TypesInv, MatchingInv, CallsFit
<1>2. CASE SaveTrip(s)
  <2>1. PICK w \in Nat : room' = [room EXCEPT ![searches[s].about] = w]
    BY <1>2, MatchingAssumption DEF SaveTrip
  <2>2. UNCHANGED <<tripState, deposited, requestState, audit, missed, edits, faults>>
    BY <1>2 DEF SaveTrip
  <2> QED
    BY <1>0, <2>1, <2>2 DEF DocumentTypes
<1>3. CASE TripEvent(s) \/ Die(s)
  <2>1. missed' \subseteq missed \union Trips
    BY <1>1, <1>3 DEF TripEvent, Die
  <2>2. /\ UNCHANGED <<tripState, deposited, room, requestState, audit, edits>>
        /\ faults' \in {faults, faults + 1}
    BY <1>3 DEF TripEvent, Die
  <2> QED
    BY <1>0, <2>1, <2>2 DEF DocumentTypes
<1>4. CASE \/ RequestEvent(s) \/ CancelMatches(s) \/ FindTrips(s) \/ FindRequests(s)
           \/ Acknowledge(s) \/ GiveUp(s) \/ Finish(s) \/ TimeOut(s) \/ DepositEvent(s)
  <2> SUFFICES DocumentsKept
    BY <1>0, KeptTyped
  <2>1. CASE FindTrips(s) \/ FindRequests(s)
    BY <2>1 DEF FindTrips, FindRequests, DocumentsKept
  <2>2. CASE Acknowledge(s) \/ RequestEvent(s) \/ DepositEvent(s)
    BY <2>2 DEF Acknowledge, RequestEvent, DepositEvent, DocumentsKept
  <2>3. CASE CancelMatches(s)
    BY <2>3 DEF CancelMatches, DocumentsKept
  <2>4. CASE GiveUp(s) \/ Finish(s) \/ TimeOut(s)
    BY <2>4 DEF GiveUp, Finish, TimeOut, DocumentsKept
  <2> QED
    BY <1>4, <2>1, <2>2, <2>3, <2>4
<1>5. ASSUME NEW x \in Trips \union Requests, Tell(s, x) \/ ProposeFail(s, x) \/ TellFail(s, x)
      PROVE  DocumentsKept
  BY <1>5 DEF Tell, ProposeFail, TellFail, DocumentsKept
<1>6. ASSUME NEW x \in Trips \union Requests, Propose(s, x) \/ ProposeUnsure(s, x)
      PROVE  DocumentTypes'
  <2>1. \/ requestState' = requestState
        \/ requestState' = [requestState EXCEPT ![PairOf(s, x)[2]] = "matched"]
    <3>1. CASE Propose(s, x)
      BY <3>1 DEF Propose
    <3>2. CASE ProposeUnsure(s, x)
      BY <3>2 DEF ProposeUnsure
    <3> QED
      BY <1>6, <3>1, <3>2
  <2>2. /\ UNCHANGED <<tripState, deposited, room, audit, missed, edits>>
        /\ faults' \in {faults, faults + 1}
    BY <1>6 DEF Propose, ProposeUnsure
  <2> QED
    BY <1>0, <2>1, <2>2 DEF DocumentTypes
<1> QED
  BY <1>0, <1>2, <1>3, <1>4, <1>5, <1>6, KeptTyped DEF Run

\* A step after which nobody waits for a call that was not waited for, and which
\* acknowledges nothing.
LEMMA TakenKept ==
  ASSUME TypesInv, EventTypes',
         \A s \in Searches : searches'[s].attached =>
            searches[s].attached /\ searches'[s].about = searches[s].about,
         \A r \in Requests : requestEvents'[r] >= requestEvents[r],
         \A t \in Trips : tripEvents'[t] >= tripEvents[t]
  PROVE  EventsTaken'
<1>1. ASSUME NEW s \in Searches, NEW x, Taken(s, x)' PROVE Taken(s, x)
  BY <1>1 DEF Taken
<1>2. \A s, o \in Searches : (searches[s].attached /\ Taken(o, searches[s].about))' => s = o
  BY DEF TypesInv, EventsTaken, Taken
<1>3. ASSUME NEW s \in Searches, NEW r \in Requests, Taken(s, r)' PROVE requestEvents'[r] > 0
  <2>1. requestEvents[r] > 0
    BY <1>1, <1>3 DEF TypesInv, EventsTaken
  <2> QED
    BY <2>1 DEF TypesInv, EventTypes
<1>4. ASSUME NEW s \in Searches, NEW t \in Trips, Taken(s, t)' PROVE tripEvents'[t] > 0
  <2>1. tripEvents[t] > 0
    BY <1>1, <1>4 DEF TypesInv, EventsTaken
  <2> QED
    BY <2>1 DEF TypesInv, EventTypes
<1> QED
  BY <1>2, <1>3, <1>4 DEF EventsTaken

\* The events that a step appends or acknowledges.
Appends == /\ EventTypes'
           /\ \A r \in Requests : requestEvents'[r] >= requestEvents[r]
           /\ \A t \in Trips : tripEvents'[t] >= tripEvents[t]

LEMMA EventsAppended ==
  ASSUME TypesInv, NEW x, NEW n \in {0, 1},
         \/ /\ requestEvents' = [requestEvents EXCEPT ![x] = @ + n]
            /\ tripEvents' = tripEvents
         \/ /\ tripEvents' = [tripEvents EXCEPT ![x] = @ + n]
            /\ requestEvents' = requestEvents
  PROVE  Appends
  BY DEF TypesInv, EventTypes, Appends

LEMMA NothingAppended ==
  ASSUME TypesInv, UNCHANGED <<requestEvents, tripEvents>>
  PROVE  Appends
  BY DEF TypesInv, EventTypes, Appends

\* Which calls are waited for after a step of call s.
LEMMA NotAttached ==
  ASSUME TypesInv, NEW s \in Searches, NEW call \in SearchCall,
         searches' = [searches EXCEPT ![s] = call],
         \/ ~ call.attached
         \/ call.attached = searches[s].attached /\ call.about = searches[s].about
  PROVE  \A o \in Searches : searches'[o].attached =>
            searches[o].attached /\ searches'[o].about = searches[o].about
  BY DEF TypesInv, MatchingInv, OfferTypes

LEMMA UsersTaken ==
  ASSUME TypesInv, Users
  PROVE  EventTypes' /\ EventsTaken'
<1>1. ASSUME NEW t \in Trips, PostTrip(t) \/ CancelTrip(t)
      PROVE  Appends /\ searches' = searches
  <2>1. /\ searches' = searches /\ requestEvents' = requestEvents
        /\ tripEvents' = tripEvents \/ tripEvents' = [tripEvents EXCEPT ![t] = @ + 1]
    BY <1>1 DEF PostTrip, CancelTrip, messages
  <2> QED
    BY <2>1, EventsAppended, NothingAppended
<1>2. ASSUME NEW r \in Requests, PostRequest(r) \/ Pay(r)
      PROVE  Appends /\ searches' = searches
  <2>1. /\ searches' = searches /\ tripEvents' = tripEvents
        /\ requestEvents' = [requestEvents EXCEPT ![r] = @ + 1]
    BY <1>2 DEF PostRequest, Pay
  <2> QED
    BY <2>1, EventsAppended
<1>3. ASSUME NEW p \in Pairs, Accept(p) \/ Confirm(p) \/ Reject(p) \/ Dispute(p) \/ SlaCancel(p)
      PROVE  Appends /\ searches' = searches
  <2>1. searches' = searches /\ UNCHANGED <<requestEvents, tripEvents>>
    BY <1>3 DEF Accept, Confirm, Reject, Dispute, Move, SlaCancel, messages
  <2> QED
    BY <2>1, NothingAppended
<1>4. ASSUME NEW s \in Searches, NEW t \in Trips, EditTrip(s, t) \/ ConfirmDeposit(s, t)
      PROVE  /\ Appends
             /\ \A o \in Searches : searches'[o].attached =>
                   searches[o].attached /\ searches'[o].about = searches[o].about
  <2>1. UNCHANGED <<requestEvents, tripEvents>>
    BY <1>4 DEF EditTrip, ConfirmDeposit, messages
  <2>2. Open(t) \in BOOLEAN /\ (tripState[t] = "active") \in BOOLEAN
    BY DEF Open
  <2>3. PICK at \in {"saveTrip", "depositEvent", "search"}, seen \in BOOLEAN :
           searches' = [searches EXCEPT ![s] = Search("trip", t, at, FALSE, seen)]
    BY <1>4, <2>2 DEF EditTrip, ConfirmDeposit, Begin
  <2>4. /\ Search("trip", t, at, FALSE, seen) \in SearchCall
        /\ ~ Search("trip", t, at, FALSE, seen).attached
    BY DEF Search, SearchCall
  <2> QED
    BY <2>1, <2>3, <2>4, NothingAppended, NotAttached
<1>5. ASSUME NEW s \in Searches, NEW r \in Requests,
             EditRequest(s, r) \/ CancelRequest(s, r) \/ ViewMatches(s, r)
      PROVE  /\ Appends
             /\ \A o \in Searches : searches'[o].attached =>
                   searches[o].attached /\ searches'[o].about = searches[o].about
  <2>1. UNCHANGED <<requestEvents, tripEvents>>
    BY <1>5 DEF EditRequest, CancelRequest, ViewMatches, messages
  <2>2. PICK at \in {"requestEvent", "cancelMatches", "search"} :
           searches' = [searches EXCEPT ![s] = Search("request", r, at, FALSE, FALSE)]
    BY <1>5 DEF EditRequest, CancelRequest, ViewMatches, Begin
  <2>3. /\ Search("request", r, at, FALSE, FALSE) \in SearchCall
        /\ ~ Search("request", r, at, FALSE, FALSE).attached
    BY DEF Search, SearchCall
  <2> QED
    BY <2>1, <2>2, <2>3, NothingAppended, NotAttached
<1> QED
  BY <1>1, <1>2, <1>3, <1>4, <1>5, TakenKept DEF Users, Appends

\* The SLA audit's search is not waited for.
LEMMA AuditTaken ==
  ASSUME TypesInv, NEW s \in Searches, NEW t \in Trips, AuditSearch(s, t)
  PROVE  EventTypes' /\ EventsTaken'
<1>1. /\ searches' = [searches EXCEPT ![s] = Search("trip", t, "search", FALSE, TRUE)]
      /\ UNCHANGED <<requestEvents, tripEvents>>
  BY DEF AuditSearch, Begin, messages
<1>2. /\ Search("trip", t, "search", FALSE, TRUE) \in SearchCall
      /\ ~ Search("trip", t, "search", FALSE, TRUE).attached
  BY DEF Search, SearchCall
<1> QED
  BY <1>1, <1>2, NothingAppended, NotAttached, TakenKept DEF Appends

\* A call takes an event that no other call has.
LEMMA ConsumeTaken ==
  ASSUME TypesInv, NEW x \in Trips \union Requests, ConsumeAbout(x)
  PROVE  EventTypes' /\ EventsTaken'
<1>1. PICK s \in Searches :
         /\ x \in Requests => requestEvents[x] > 0
         /\ x \in Trips => tripEvents[x] > 0
         /\ \A o \in Searches : ~ Taken(o, x)
         /\ searches[s] = Idle
         /\ \E kind \in {"trip", "request"}, seen \in BOOLEAN :
               searches' = [searches EXCEPT ![s] = Search(kind, x, "search", TRUE, seen)]
         /\ UNCHANGED <<requestEvents, tripEvents>>
  BY MatchingAssumption DEF ConsumeAbout, ConsumeRequest, ConsumeTrip, Begin, Taken, messages
<1>2. /\ searches'[s].attached /\ searches'[s].about = x
      /\ \A o \in Searches \ {s} : searches'[o] = searches[o]
  BY <1>1 DEF Search, TypesInv, MatchingInv, OfferTypes
<1>3. \A o \in Searches, y \in Trips \union Requests : Taken(o, y)' => Taken(o, y) \/ (o = s /\ y = x)
  BY <1>2 DEF Taken
<1>4. ASSUME NEW o \in Searches, NEW q \in Searches,
             (searches[o].attached /\ Taken(q, searches[o].about))'
      PROVE  o = q
  <2>1. CASE o = s /\ q # s
    BY <1>1, <1>2, <1>4, <2>1 DEF Taken
  <2>2. CASE o # s /\ q = s
    BY <1>1, <1>2, <1>4, <2>2 DEF Taken
  <2>3. CASE o # s /\ q # s
    BY <1>2, <1>4, <2>3 DEF Taken, TypesInv, EventsTaken
  <2> QED
    BY <2>1, <2>2, <2>3
<1> QED
  BY <1>1, <1>3, <1>4 DEF TypesInv, EventTypes, EventsTaken

\* The event is acknowledged by the call that took it, and by no other.
LEMMA AcknowledgeTaken ==
  ASSUME TypesInv, NEW s \in Searches, Acknowledge(s)
  PROVE  EventTypes' /\ EventsTaken'
<1> DEFINE x == searches[s].about
<1>1. /\ searches[s].attached /\ searches[s].at # "idle"
      /\ searches[s].kind \in {"trip", "request"}
      /\ searches[s].kind = "request" => x \in Requests
      /\ searches[s].kind = "trip" => x \in Trips
      /\ searches' = [searches EXCEPT ![s] = Idle]
  BY DEF Acknowledge, TypesInv, MatchingInv, OfferTypes, SearchCall, CallsFit
<1>2. /\ \A o \in Searches \ {s} : searches'[o] = searches[o]
      /\ ~ searches'[s].attached
  BY <1>1 DEF TypesInv, MatchingInv, OfferTypes, Idle
<1>3. \A o \in Searches : \A y : Taken(o, y)' => Taken(o, y) /\ y # x
  BY <1>1, <1>2 DEF Taken, TypesInv, EventsTaken
<1>4. \A o, q \in Searches : (searches[o].attached /\ Taken(q, searches[o].about))' => o = q
  BY <1>2 DEF Taken, TypesInv, EventsTaken
<1>5. /\ x \in Requests => requestEvents[x] > 0
      /\ x \in Trips => tripEvents[x] > 0
  BY <1>1 DEF TypesInv, EventsTaken, Taken
<1>6. CASE searches[s].kind = "request"
  <2>1. /\ requestEvents' = [requestEvents EXCEPT ![x] = @ - 1] /\ tripEvents' = tripEvents
        /\ x \in Requests /\ requestEvents[x] > 0
    BY <1>1, <1>5, <1>6 DEF Acknowledge
  <2>2. EventTypes'
    BY <2>1 DEF TypesInv, EventTypes
  <2> HIDE DEF x
  <2> QED
    BY <1>3, <1>4, <2>1, <2>2 DEF TypesInv, EventTypes, EventsTaken
<1>7. CASE searches[s].kind = "trip"
  <2>1. /\ tripEvents' = [tripEvents EXCEPT ![x] = @ - 1] /\ requestEvents' = requestEvents
        /\ x \in Trips /\ tripEvents[x] > 0
    BY <1>1, <1>5, <1>7 DEF Acknowledge
  <2>2. EventTypes'
    BY <2>1 DEF TypesInv, EventTypes
  <2> HIDE DEF x
  <2> QED
    BY <1>3, <1>4, <2>1, <2>2 DEF TypesInv, EventTypes, EventsTaken
<1> QED
  BY <1>1, <1>6, <1>7

\* The other steps of a call, and the faults, acknowledge nothing.
LEMMA RunTaken ==
  ASSUME TypesInv, NEW s \in Searches,
         \/ Run(s) /\ ~ Acknowledge(s)
         \/ TimeOut(s) \/ Die(s)
         \/ \E x \in Trips \union Requests :
               ProposeUnsure(s, x) \/ ProposeFail(s, x) \/ TellFail(s, x)
  PROVE  EventTypes' /\ EventsTaken'
<1>1. /\ TypesInv /\ searches \in [Searches -> SearchCall] /\ searches[s] \in SearchCall
      /\ Idle \in SearchCall /\ ~ Idle.attached
  BY DEF TypesInv, MatchingInv, OfferTypes, Idle, SearchCall
<1> DEFINE Waits == \A o \in Searches : searches'[o].attached =>
                       searches[o].attached /\ searches'[o].about = searches[o].about
<1>2. Appends
  <2>1. CASE TripEvent(s) \/ DepositEvent(s)
    <3>1. /\ requestEvents' = requestEvents
          /\ \E n \in {0, 1} : tripEvents' = [tripEvents EXCEPT ![searches[s].about] = @ + n]
      <4>1. tripEvents[searches[s].about] \in Nat
        BY <1>1, <2>1 DEF TripEvent, DepositEvent, TypesInv, EventTypes, MatchingInv, CallsFit
      <4> QED
        BY <2>1, <4>1 DEF TripEvent, DepositEvent
    <3> QED
      BY <1>1, <3>1, EventsAppended
  <2>2. CASE RequestEvent(s)
    BY <1>1, <2>2, EventsAppended DEF RequestEvent
  <2>3. ASSUME NEW x \in Trips \union Requests, Propose(s, x) \/ ProposeUnsure(s, x)
        PROVE  Appends
    <3>1. /\ tripEvents' = tripEvents
          /\ \/ requestEvents' = requestEvents
             \/ requestEvents' = [requestEvents EXCEPT ![PairOf(s, x)[2]] = @ + 1]
      <4>1. CASE Propose(s, x)
        BY <4>1 DEF Propose
      <4>2. CASE ProposeUnsure(s, x)
        BY <4>2 DEF ProposeUnsure
      <4> QED
        BY <2>3, <4>1, <4>2
    <3> QED
      BY <1>1, <3>1, EventsAppended, NothingAppended
  <2>4. CASE \/ SaveTrip(s) \/ CancelMatches(s) \/ FindTrips(s) \/ FindRequests(s) \/ GiveUp(s)
             \/ Finish(s) \/ TimeOut(s) \/ Die(s)
    <3>1. UNCHANGED <<requestEvents, tripEvents>>
      BY <2>4 DEF SaveTrip, CancelMatches, FindTrips, FindRequests, GiveUp, Finish, TimeOut, Die,
                  messages
    <3> QED
      BY <1>1, <3>1, NothingAppended
  <2>5. ASSUME NEW x \in Trips \union Requests, Tell(s, x) \/ ProposeFail(s, x) \/ TellFail(s, x)
        PROVE  Appends
    <3>1. UNCHANGED <<requestEvents, tripEvents>>
      BY <2>5 DEF Tell, ProposeFail, TellFail, messages
    <3> QED
      BY <1>1, <3>1, NothingAppended
  <2> QED
    BY <2>1, <2>2, <2>3, <2>4, <2>5 DEF Run
<1>3. Waits
  <2>1. CASE TripEvent(s) \/ RequestEvent(s) \/ CancelMatches(s) \/ Finish(s) \/ Die(s)
    <3>1. searches' = [searches EXCEPT ![s] = Idle]
      BY <2>1 DEF TripEvent, RequestEvent, CancelMatches, Finish, Die
    <3> QED
      BY <1>1, <3>1, NotAttached
  <2>2. CASE SaveTrip(s) \/ DepositEvent(s) \/ FindTrips(s) \/ FindRequests(s)
    BY <1>1, <2>2 DEF SaveTrip, DepositEvent, FindTrips, FindRequests, SearchCall
  <2>3. CASE GiveUp(s) \/ TimeOut(s)
    BY <1>1, <2>3 DEF GiveUp, TimeOut, SearchCall
  <2>4. ASSUME NEW x \in Trips \union Requests,
               Propose(s, x) \/ ProposeUnsure(s, x) \/ ProposeFail(s, x)
        PROVE  Waits
    BY <1>1, <2>4 DEF Propose, ProposeUnsure, ProposeFail, SearchCall
  <2>5. ASSUME NEW x \in Trips \union Requests, Tell(s, x) \/ TellFail(s, x)
        PROVE  Waits
    <3>1. CASE Tell(s, x)
      BY <1>1, <3>1 DEF Tell
    <3>2. CASE TellFail(s, x)
      <4> DEFINE call == [searches[s] EXCEPT !.tell = @ \ {x}, !.todo = Left(s, x), !.ok = FALSE]
      <4>1. searches' = [searches EXCEPT ![s] = call]
        BY <3>2 DEF TellFail
      <4>2. call.attached = searches[s].attached /\ call.about = searches[s].about
        BY <1>1 DEF SearchCall
      <4> HIDE DEF call
      <4> QED
        BY <1>1, <4>1, <4>2
    <3> QED
      BY <2>5, <3>1, <3>2
  <2> QED
    BY <2>1, <2>2, <2>3, <2>4, <2>5 DEF Run
<1> QED
  BY <1>1, <1>2, <1>3, TakenKept DEF Appends

LEMMA TypesNext == TypesInv /\ [MatchingNext]_matchingVars => TypesInv'
<1> SUFFICES ASSUME TypesInv, [MatchingNext]_matchingVars PROVE TypesInv'
  OBVIOUS
<1>1. MatchingInv'
  BY MatchingStepInv DEF TypesInv
<1>2. CASE UNCHANGED matchingVars
  BY <1>1, <1>2 DEF matchingVars, documents, messages, TypesInv, DocumentTypes, EventTypes,
                    EventsTaken, Taken
<1>3. CASE Users
  BY <1>1, <1>3, DocumentTyped, BeginTyped, UsersTaken DEF Users, TypesInv
<1>4. ASSUME NEW s \in Searches, Run(s) PROVE TypesInv'
  BY <1>1, <1>4, RunTyped, RunTaken, AcknowledgeTaken DEF TypesInv
<1>5. ASSUME NEW x \in Trips \union Requests, ConsumeAbout(x) PROVE TypesInv'
  BY <1>1, <1>5, BeginTyped, ConsumeTaken DEF ConsumeAbout, TypesInv
<1>6. ASSUME NEW s \in Searches, NEW t \in Trips, AuditSearch(s, t) PROVE TypesInv'
  BY <1>1, <1>6, BeginTyped, AuditTaken DEF TypesInv
<1>7. CASE MatchingFaults
  BY <1>1, <1>7, RunTyped, RunTaken DEF MatchingFaults, TypesInv
<1> QED
  BY <1>2, <1>3, <1>4, <1>5, <1>6, <1>7 DEF MatchingNext

\* Every document and every call holds what the code can put there, and however
\* often the orchestrator gives up and is given an event again, no event is
\* acknowledged more often than it was appended.
THEOREM MatchingTypeCorrect == MatchingSpec => []MatchingTypeOK
<1>1. MatchingInit => TypesInv
  <2>1. MatchingInit => DocumentTypes
    <3>1. Rooms \subseteq Nat
      BY MatchingAssumption DEF MatchingAssumption
    <3>2. MatchingInit => room \in [Trips -> Nat]
      BY <3>1 DEF MatchingInit
    <3>3. MatchingInit => /\ tripState \in [Trips -> {"none", "active", "cancelled"}]
                          /\ requestState \in [Requests -> {"none", "pending", "matched",
                                                            "created", "cancelled"}]
      BY DEF MatchingInit
    <3>4. MatchingInit => /\ deposited \subseteq Trips
                          /\ audit \subseteq Trips /\ missed \subseteq Trips
                          /\ edits \in Nat /\ faults \in Nat
      BY DEF MatchingInit
    <3> QED
      BY <3>2, <3>3, <3>4 DEF DocumentTypes
  <2>2. MatchingInit => EventTypes /\ EventsTaken
    BY DEF MatchingInit, EventTypes, EventsTaken, Taken, Idle
  <2> QED
    BY <2>1, <2>2, MatchingInitInv DEF TypesInv
<1>2. TypesInv => MatchingTypeOK
  BY DEF TypesInv, MatchingInv, OfferTypes, DocumentTypes, EventTypes, MatchingTypeOK
<1> QED
  BY <1>1, <1>2, TypesNext, PTL DEF MatchingSpec
=============================================================================
