------------------------------ MODULE Matching ------------------------------
(***************************************************************************)
(* Who is offered to whom: a delivery request is matched with trips, and a *)
(* trip with pending requests, whenever a domain event, a user or the SLA  *)
(* audit asks for it.  Each offer is a MongoDB transaction that creates the *)
(* Match, marks the request as matched and appends two events; the one     *)
(* about the request goes back to the orchestrator, which asks again.      *)
(* Kafka redelivers an event until the core API has answered it with       *)
(* success, and a search goes on when the orchestrator stops waiting.      *)
(***************************************************************************)
EXTENDS Naturals, FiniteSets

CONSTANTS Searches,    \* what may run at once in the core API: one call each
          Trips, Requests,
          CarrierOf, SenderOf,
          Weight,      \* package.weightKg of a request
          Rooms,       \* values of availableCapacity.weightKg a carrier enters
          MaxOffers,   \* slice(0, 5)
          Indexed,     \* routing-search is configured (ROUTING_SEARCH_URL)
          MaxEdits,    \* bound: edits, payments, views and cancellations by users
          MaxFaults    \* bound: transactions that fail, timeouts, deaths

ASSUME MatchingAssumption ==
    /\ Trips \intersect Requests = {}
    /\ Weight \in [Requests -> Nat] /\ Rooms \subseteq Nat
    /\ MaxOffers \in Nat \ {0} /\ Indexed \in BOOLEAN
    /\ MaxEdits \in Nat /\ MaxFaults \in Nat

Pairs == Trips \X Requests

VARIABLES
    tripState,      \* Trip.status, "none" before the trip is posted
    deposited,      \* trips with safetyDepositPaid
    room,           \* Trip.availableCapacity.weightKg
    requestState,   \* DeliveryRequest.status
    matches,        \* Match.status of a pair, "none" without a Match
    offers,         \* MatchProposed events appended for a pair
    told,           \* times the carrier of a pair was notified of the proposal
    tripEvents,     \* trip.lifecycle events that ask for a search, not yet
    requestEvents,  \* acknowledged; and those about a request
    searches,       \* the calls
    audit,          \* trips the SLA audit is still to search for
    missed,         \* history: trips that may have room nobody looks for
    edits, faults

documents   == <<tripState, deposited, room, requestState, matches>>
messages    == <<offers, told, tripEvents, requestEvents>>
matchingVars == <<documents, messages, searches, audit, missed, edits, faults>>

Idle == [at |-> "idle", kind |-> "none", about |-> "none", todo |-> {}, tell |-> {},
         ok |-> TRUE, attached |-> FALSE, seen |-> FALSE]

\* A call: what it is about, the candidates it still has to make an offer to, the
\* offers it made whose carrier it has not notified, whether an offer failed,
\* whether the orchestrator waits for it, and whether the trip it read was active
\* with its deposit paid.
Search(kind, x, at, attached, seen) ==
    [at |-> at, kind |-> kind, about |-> x, todo |-> {}, tell |-> {},
     ok |-> TRUE, attached |-> attached, seen |-> seen]

\* The pair an offer of call s to candidate x is about.
PairOf(s, x) == IF searches[s].kind = "request"
                THEN <<x, searches[s].about>> ELSE <<searches[s].about, x>>

Open(t) == tripState[t] = "active" /\ t \in deposited

MatchingInit ==
    /\ tripState = [t \in Trips |-> "none"]
    /\ deposited = {}
    /\ room \in [Trips -> Rooms]
    /\ requestState = [r \in Requests |-> "none"]
    /\ matches = [p \in Pairs |-> "none"]
    /\ offers = [p \in Pairs |-> 0]
    /\ told = [p \in Pairs |-> 0]
    /\ tripEvents = [t \in Trips |-> 0]
    /\ requestEvents = [r \in Requests |-> 0]
    /\ searches = [s \in Searches |-> Idle]
    /\ audit = {} /\ missed = {}
    /\ edits = 0 /\ faults = 0

Begin(s, call) == searches[s] = Idle /\ searches' = [searches EXCEPT ![s] = call]

Edit  == edits < MaxEdits /\ edits' = edits + 1 /\ UNCHANGED faults
Fault == faults < MaxFaults /\ faults' = faults + 1 /\ UNCHANGED edits
NoEdit == UNCHANGED <<edits, faults>>

-----------------------------------------------------------------------------
(* Trips *)

\* createTrip: the trip and TripPosted in one transaction.
PostTrip(t) ==
    /\ tripState[t] = "none"
    /\ tripState' = [tripState EXCEPT ![t] = "active"]
    /\ \/ /\ deposited' = deposited \union {t}
          /\ tripEvents' = [tripEvents EXCEPT ![t] = @ + 1]
       \/ UNCHANGED <<deposited, tripEvents>>
    /\ UNCHANGED <<room, requestState, matches, offers, told, requestEvents,
                   searches, audit, missed>>
    /\ NoEdit

\* updateTrip reads the trip and finds no match that blocks the edit.
EditTrip(s, t) ==
    /\ tripState[t] # "none"
    /\ \A r \in Requests : matches[<<t, r>>] \notin {"accepted", "confirmed"}
    /\ Begin(s, Search("trip", t, "saveTrip", FALSE, Open(t)))
    /\ Edit
    /\ UNCHANGED <<documents, messages, audit, missed>>

\* It saves the room the carrier has entered, whatever happened since.
SaveTrip(s) ==
    /\ searches[s].at = "saveTrip"
    /\ \E w \in Rooms : room' = [room EXCEPT ![searches[s].about] = w]
    /\ searches' = [searches EXCEPT ![s].at = "tripEvent"]
    /\ UNCHANGED <<tripState, deposited, requestState, matches, messages, audit, missed>>
    /\ NoEdit

\* TripUpdated carries the status and the deposit as read at the beginning; the
\* orchestrator skips it unless the trip was open.
TripEvent(s) ==
    /\ searches[s].at = "tripEvent"
    /\ LET t == searches[s].about IN
       /\ tripEvents' = [tripEvents EXCEPT ![t] = IF searches[s].seen THEN @ + 1 ELSE @]
       /\ missed' = IF Open(t) /\ ~ searches[s].seen THEN missed \union {t} ELSE missed
    /\ searches' = [searches EXCEPT ![s] = Idle]
    /\ UNCHANGED <<documents, offers, told, requestEvents, audit>>
    /\ NoEdit

\* confirmTripDeposit saves the trip; asked again, it goes on to the search.
ConfirmDeposit(s, t) ==
    /\ tripState[t] # "none"
    /\ IF t \in deposited
       THEN Edit /\ Begin(s, Search("trip", t, "search", FALSE, TRUE))
       ELSE NoEdit /\ Begin(s, Search("trip", t, "depositEvent", FALSE,
                                      tripState[t] = "active"))
    /\ deposited' = deposited \union {t}
    /\ UNCHANGED <<tripState, room, requestState, matches, messages, audit, missed>>

\* It appends TripUpdated, and confirmDeposit searches for the trip itself.
DepositEvent(s) ==
    /\ searches[s].at = "depositEvent"
    /\ LET t == searches[s].about IN
       tripEvents' = [tripEvents EXCEPT ![t] = IF searches[s].seen THEN @ + 1 ELSE @]
    /\ searches' = [searches EXCEPT ![s].at = "search"]
    /\ UNCHANGED <<documents, offers, told, requestEvents, audit, missed>>
    /\ NoEdit

\* cancelTrip: matches that are under way block it, its other matches stay as they are.
CancelTrip(t) ==
    /\ tripState[t] = "active"
    /\ \A r \in Requests : matches[<<t, r>>] # "confirmed"
    /\ tripState' = [tripState EXCEPT ![t] = "cancelled"]
    /\ UNCHANGED <<deposited, room, requestState, matches, messages, searches, audit, missed>>
    /\ NoEdit

-----------------------------------------------------------------------------
(* Requests and matches *)

\* createDeliveryRequest: the request and DeliveryRequested in one transaction.
PostRequest(r) ==
    /\ requestState[r] = "none"
    /\ requestState' = [requestState EXCEPT ![r] = "pending"]
    /\ requestEvents' = [requestEvents EXCEPT ![r] = @ + 1]
    /\ UNCHANGED <<tripState, deposited, room, matches, offers, told, tripEvents,
                   searches, audit, missed>>
    /\ NoEdit

\* updateRequest saves a pending request (its new places are not modelled).
EditRequest(s, r) ==
    /\ requestState[r] = "pending"
    /\ Begin(s, Search("request", r, "requestEvent", FALSE, FALSE))
    /\ Edit
    /\ UNCHANGED <<documents, messages, audit, missed>>

\* It appends DeliveryUpdated.
RequestEvent(s) ==
    /\ searches[s].at = "requestEvent"
    /\ requestEvents' = [requestEvents EXCEPT ![searches[s].about] = @ + 1]
    /\ searches' = [searches EXCEPT ![s] = Idle]
    /\ UNCHANGED <<documents, offers, told, tripEvents, audit, missed>>
    /\ NoEdit

\* confirmDeliveryPayment appends DeliveryPaid, whatever the request's status.
Pay(r) ==
    /\ requestState[r] # "none"
    /\ requestEvents' = [requestEvents EXCEPT ![r] = @ + 1]
    /\ UNCHANGED <<documents, offers, told, tripEvents, searches, audit, missed>>
    /\ Edit

\* cancelRequest saves the request,
CancelRequest(s, r) ==
    /\ requestState[r] \notin {"none", "cancelled"}
    /\ Begin(s, Search("request", r, "cancelMatches", FALSE, FALSE))
    /\ requestState' = [requestState EXCEPT ![r] = "cancelled"]
    /\ UNCHANGED <<tripState, deposited, room, matches, messages, audit, missed>>
    /\ Edit

\* and then cancels the matches there are.
CancelMatches(s) ==
    /\ searches[s].at = "cancelMatches"
    /\ matches' = [p \in Pairs |->
          IF p[2] = searches[s].about /\ matches[p] \in {"proposed", "accepted", "confirmed"}
          THEN "cancelled" ELSE matches[p]]
    /\ searches' = [searches EXCEPT ![s] = Idle]
    /\ UNCHANGED <<tripState, deposited, room, requestState, messages, audit, missed>>
    /\ NoEdit

\* The handlers of match.service.ts: the match, and the request's status with it.
Move(p, from, to, status) ==
    /\ matches[p] \in from
    /\ matches' = [matches EXCEPT ![p] = to]
    /\ requestState' = [requestState EXCEPT ![p[2]] = status]
    /\ UNCHANGED <<tripState, deposited, room, messages, searches, audit, missed>>
    /\ NoEdit

Accept(p)  == Move(p, {"proposed"}, "accepted", "matched")
Confirm(p) == Move(p, {"accepted"}, "confirmed", "matched")
Reject(p)  == Move(p, {"proposed", "accepted", "confirmed", "cancelled", "disputed"},
                   "cancelled", "cancelled")
Dispute(p) == Move(p, {"proposed", "accepted", "confirmed", "cancelled", "disputed"},
                   "disputed", "pending")

\* processSlaRematchAudit: the match is cancelled, its weight added to the room of
\* its trip, the request reopened, and the other active trips are searched for.
SlaCancel(p) ==
    /\ matches[p] \in {"accepted", "confirmed"}
    /\ audit = {}
    /\ matches' = [matches EXCEPT ![p] = "cancelled"]
    /\ room' = [room EXCEPT ![p[1]] = @ + Weight[p[2]]]
    /\ requestState' = [requestState EXCEPT ![p[2]] = "created"]
    /\ audit' = {t \in Trips \ {p[1]} : tripState[t] = "active"}
    /\ missed' = missed \union {p[1]}
    /\ UNCHANGED <<tripState, deposited, messages, searches>>
    /\ NoEdit

AuditSearch(s, t) ==
    /\ t \in audit
    /\ Begin(s, Search("trip", t, "search", FALSE, TRUE))
    /\ audit' = audit \ {t}
    /\ UNCHANGED <<documents, messages, missed>>
    /\ NoEdit

-----------------------------------------------------------------------------
(* Searches *)

\* Mutant of ConsumeRequest: the consumer of a partition does not wait for the
\* answer to the event before it takes it again.
ConsumeAgain(s, r) ==
    /\ requestEvents[r] > 0
    /\ Begin(s, Search("request", r, "search", TRUE, FALSE))
    /\ UNCHANGED <<documents, messages, audit, missed>>
    /\ NoEdit

\* The orchestrator takes an event about request r, or about trip t.
ConsumeRequest(s, r) ==
    /\ requestEvents[r] > 0
    /\ \A o \in Searches : ~ (searches[o].attached /\ searches[o].about = r)
    /\ Begin(s, Search("request", r, "search", TRUE, FALSE))
    /\ UNCHANGED <<documents, messages, audit, missed>>
    /\ NoEdit

ConsumeTrip(s, t) ==
    /\ tripEvents[t] > 0
    /\ \A o \in Searches : ~ (searches[o].attached /\ searches[o].about = t)
    /\ Begin(s, Search("trip", t, "search", TRUE, TRUE))
    /\ UNCHANGED <<documents, messages, audit, missed>>
    /\ NoEdit

\* getRequestMatches searches when the request has no match.
ViewMatches(s, r) ==
    /\ requestState[r] # "none"
    /\ \A t \in Trips : matches[<<t, r>>] = "none"
    /\ Begin(s, Search("request", r, "search", FALSE, FALSE))
    /\ Edit
    /\ UNCHANGED <<documents, messages, audit, missed>>

\* The trips findMatches may offer a request to: its own status is not asked for.
TripsFor(r) == {t \in Trips : Open(t) /\ room[t] >= Weight[r] /\ CarrierOf[t] # SenderOf[r]}

\* The requests a trip may be offered: the trip's status is not asked for.
RequestsFor(t) == {r \in Requests : requestState[r] = "pending" /\ Weight[r] <= room[t]}

\* findMatches: the index answers with some trips, or the database with the best of all.
FindTrips(s) ==
    /\ searches[s].at = "search" /\ searches[s].kind = "request"
    /\ \E found \in SUBSET TripsFor(searches[s].about) :
          /\ Cardinality(found) <= MaxOffers
          /\ \/ found = TripsFor(searches[s].about)
             \/ Cardinality(found) = MaxOffers
             \/ Indexed /\ found # {}
          /\ searches' = [searches EXCEPT ![s].at = "propose", ![s].todo = found]
    /\ UNCHANGED <<documents, messages, audit, missed>>
    /\ NoEdit

\* matchTripAgainstPendingRequests: its own requests are skipped.
FindRequests(s) ==
    /\ searches[s].at = "search" /\ searches[s].kind = "trip"
    /\ LET t == searches[s].about IN
       \E found \in SUBSET RequestsFor(t) :
          /\ found = RequestsFor(t) \/ (Indexed /\ found # {})
          /\ searches' = [searches EXCEPT ![s].at = "propose",
                ![s].todo = {r \in found : SenderOf[r] # CarrierOf[t]}]
    /\ UNCHANGED <<documents, messages, audit, missed>>
    /\ NoEdit

\* Offers of findMatches run concurrently, those of a trip one after the other.
MayPropose(s, x) ==
    /\ searches[s].at = "propose"
    /\ x \in searches[s].todo
    /\ searches[s].kind = "request" \/ searches[s].tell = {}

\* Mutant of Propose: the events are appended although the Match was there.
ProposeAndAnnounce(s, x) ==
    /\ MayPropose(s, x)
    /\ LET p == PairOf(s, x)  new == matches[PairOf(s, x)] = "none" IN
       /\ matches' = IF new THEN [matches EXCEPT ![p] = "proposed"] ELSE matches
       /\ offers' = IF new THEN [offers EXCEPT ![p] = @ + 1] ELSE offers
       /\ requestState' = [requestState EXCEPT ![p[2]] = "matched"]
       /\ requestEvents' = [requestEvents EXCEPT ![p[2]] = IF new \/ @ < 2 THEN @ + 1 ELSE @]
       /\ searches' = [searches EXCEPT ![s].todo = @ \ {x},
                          ![s].tell = IF new THEN @ \union {x} ELSE @]
    /\ UNCHANGED <<tripState, deposited, room, told, tripEvents, audit, missed>>
    /\ NoEdit

\* Mutant of Propose: the carrier is notified of a Match that was there.
ProposeAndTell(s, x) ==
    /\ MayPropose(s, x)
    /\ LET p == PairOf(s, x)  new == matches[PairOf(s, x)] = "none" IN
       /\ matches' = IF new THEN [matches EXCEPT ![p] = "proposed"] ELSE matches
       /\ offers' = IF new THEN [offers EXCEPT ![p] = @ + 1] ELSE offers
       /\ requestState' = IF new THEN [requestState EXCEPT ![p[2]] = "matched"] ELSE requestState
       /\ requestEvents' = IF new THEN [requestEvents EXCEPT ![p[2]] = @ + 1] ELSE requestEvents
       /\ searches' = [searches EXCEPT ![s].todo = @ \ {x}, ![s].tell = @ \union {x}]
    /\ UNCHANGED <<tripState, deposited, room, told, tripEvents, audit, missed>>
    /\ NoEdit

\* createMatchProposal.  The unique index on trip and delivery request rejects a
\* second Match of the pair, and with it the whole transaction: the Match there is
\* is returned and nothing else happens.  A commit whose outcome is unknown is run
\* again and ends there too (ProposeUnsure).
Propose(s, x) ==
    /\ MayPropose(s, x)
    /\ LET p == PairOf(s, x) IN
       IF matches[p] = "none"
       THEN /\ matches' = [matches EXCEPT ![p] = "proposed"]
            /\ offers' = [offers EXCEPT ![p] = @ + 1]
            /\ requestState' = [requestState EXCEPT ![p[2]] = "matched"]
            /\ requestEvents' = [requestEvents EXCEPT ![p[2]] = @ + 1]
            /\ searches' = [searches EXCEPT ![s].todo = @ \ {x}, ![s].tell = @ \union {x}]
       ELSE /\ searches' = [searches EXCEPT ![s].todo = @ \ {x}]
            /\ UNCHANGED <<matches, offers, requestState, requestEvents>>
    /\ UNCHANGED <<tripState, deposited, room, told, tripEvents, audit, missed>>
    /\ NoEdit

\* The commit succeeded but was reported as unknown: the transaction is run again,
\* finds the Match, and the carrier is not notified.
ProposeUnsure(s, x) ==
    /\ MayPropose(s, x)
    /\ LET p == PairOf(s, x) IN
       /\ matches[p] = "none"
       /\ matches' = [matches EXCEPT ![p] = "proposed"]
       /\ offers' = [offers EXCEPT ![p] = @ + 1]
       /\ requestState' = [requestState EXCEPT ![p[2]] = "matched"]
       /\ requestEvents' = [requestEvents EXCEPT ![p[2]] = @ + 1]
    /\ searches' = [searches EXCEPT ![s].todo = @ \ {x}]
    /\ UNCHANGED <<tripState, deposited, room, told, tripEvents, audit, missed>>
    /\ Fault

\* What is left to do when an offer fails: Promise.all rejects and the others go on;
\* the loop over the requests of a trip ends.
Left(s, x) == IF searches[s].kind = "request" THEN searches[s].todo \ {x} ELSE {}

\* Five conflicts on the request, or an error that is not transient.
ProposeFail(s, x) ==
    /\ MayPropose(s, x)
    /\ searches' = [searches EXCEPT ![s].todo = Left(s, x), ![s].ok = FALSE]
    /\ UNCHANGED <<documents, messages, audit, missed>>
    /\ Fault

\* emitMatchProposalCreated, after the commit.
Tell(s, x) ==
    /\ x \in searches[s].tell
    /\ told' = [told EXCEPT ![PairOf(s, x)] = @ + 1]
    /\ searches' = [searches EXCEPT ![s].tell = @ \ {x}]
    /\ UNCHANGED <<documents, offers, tripEvents, requestEvents, audit, missed>>
    /\ NoEdit

TellFail(s, x) ==
    /\ x \in searches[s].tell
    /\ searches' = [searches EXCEPT ![s].tell = @ \ {x}, ![s].todo = Left(s, x),
                                    ![s].ok = FALSE]
    /\ UNCHANGED <<documents, messages, audit, missed>>
    /\ Fault

Done(s) == searches[s].at = "propose" /\ searches[s].todo = {} /\ searches[s].tell = {}

\* The core API answers 202 and Kafka's offset moves on.
Acknowledge(s) ==
    /\ searches[s].attached /\ searches[s].ok /\ Done(s)
    /\ IF searches[s].kind = "request"
       THEN /\ requestEvents' = [requestEvents EXCEPT ![searches[s].about] = @ - 1]
            /\ UNCHANGED tripEvents
       ELSE /\ tripEvents' = [tripEvents EXCEPT ![searches[s].about] = @ - 1]
            /\ UNCHANGED requestEvents
    /\ searches' = [searches EXCEPT ![s] = Idle]
    /\ UNCHANGED <<documents, offers, told, audit, missed>>
    /\ NoEdit

\* Mutant of GiveUp: the event is acknowledged although its search has failed.
GiveUpAndAcknowledge(s) ==
    /\ searches[s].attached /\ ~ searches[s].ok
    /\ LET x == searches[s].about IN
       /\ requestEvents' = [r \in Requests |-> IF r = x THEN requestEvents[r] - 1 ELSE requestEvents[r]]
       /\ tripEvents' = [t \in Trips |-> IF t = x THEN tripEvents[t] - 1 ELSE tripEvents[t]]
    /\ searches' = [searches EXCEPT ![s] = Idle]
    /\ UNCHANGED <<documents, offers, told, audit, missed>>
    /\ NoEdit

\* The core API answers with an error: the event will be delivered again.
GiveUp(s) ==
    /\ searches[s].attached /\ ~ searches[s].ok
    /\ searches' = [searches EXCEPT ![s].attached = FALSE]
    /\ UNCHANGED <<documents, messages, audit, missed>>
    /\ NoEdit

\* The orchestrator stops waiting after 12 seconds, or dies; the call goes on.
TimeOut(s) ==
    /\ searches[s].attached
    /\ searches' = [searches EXCEPT ![s].attached = FALSE]
    /\ UNCHANGED <<documents, messages, audit, missed>>
    /\ Fault

Finish(s) ==
    /\ ~ searches[s].attached /\ Done(s)
    /\ searches' = [searches EXCEPT ![s] = Idle]
    /\ UNCHANGED <<documents, messages, audit, missed>>
    /\ NoEdit

\* The process of a call dies.
Die(s) ==
    /\ searches[s].at # "idle"
    /\ searches' = [searches EXCEPT ![s] = Idle]
    /\ missed' = IF searches[s].at \in {"tripEvent", "depositEvent"}
                 THEN missed \union {searches[s].about} ELSE missed
    /\ UNCHANGED <<documents, messages, audit>>
    /\ Fault

-----------------------------------------------------------------------------
Users ==
    \/ \E t \in Trips : PostTrip(t) \/ CancelTrip(t)
    \/ \E r \in Requests : PostRequest(r) \/ Pay(r)
    \/ \E p \in Pairs : Accept(p) \/ Confirm(p) \/ Reject(p) \/ Dispute(p) \/ SlaCancel(p)
    \/ \E s \in Searches, t \in Trips : EditTrip(s, t) \/ ConfirmDeposit(s, t)
    \/ \E s \in Searches, r \in Requests :
          EditRequest(s, r) \/ CancelRequest(s, r) \/ ViewMatches(s, r)

\* The next step of a call that is running.
Run(s) ==
    \/ SaveTrip(s) \/ TripEvent(s) \/ DepositEvent(s) \/ RequestEvent(s)
    \/ CancelMatches(s) \/ FindTrips(s) \/ FindRequests(s)
    \/ \E x \in Trips \union Requests : Propose(s, x) \/ Tell(s, x)
    \/ Acknowledge(s) \/ GiveUp(s) \/ Finish(s)

MatchingFaults == \E s \in Searches :
    \/ TimeOut(s) \/ Die(s)
    \/ \E x \in Trips \union Requests :
          ProposeUnsure(s, x) \/ ProposeFail(s, x) \/ TellFail(s, x)

ConsumeAbout(x) == \E s \in Searches :
    \/ x \in Requests /\ ConsumeRequest(s, x)
    \/ x \in Trips /\ ConsumeTrip(s, x)

MatchingNext ==
    \/ Users
    \/ \E s \in Searches : Run(s)
    \/ \E x \in Trips \union Requests : ConsumeAbout(x)
    \/ \E s \in Searches, t \in Trips : AuditSearch(s, t)
    \/ MatchingFaults

MatchingSpec == MatchingInit /\ [][MatchingNext]_matchingVars

\* A running process goes on, and Kafka goes on delivering.
MatchingFairness ==
    /\ \A s \in Searches : WF_matchingVars(Run(s))
    /\ \A x \in Trips \union Requests : WF_matchingVars(ConsumeAbout(x))

-----------------------------------------------------------------------------
MatchStates == {"none", "proposed", "accepted", "confirmed", "cancelled", "disputed"}

SearchCall ==
    [at : {"idle", "saveTrip", "tripEvent", "depositEvent", "requestEvent",
           "cancelMatches", "search", "propose"},
     kind : {"none", "trip", "request"}, about : Trips \union Requests \union {"none"},
     todo : SUBSET (Trips \union Requests), tell : SUBSET (Trips \union Requests),
     ok : BOOLEAN, attached : BOOLEAN, seen : BOOLEAN]

\* The type invariant; an event is never acknowledged more often than it was
\* appended, although its search may have been given up and run again.
MatchingTypeOK ==
    /\ tripState \in [Trips -> {"none", "active", "cancelled"}]
    /\ deposited \subseteq Trips
    /\ room \in [Trips -> Nat]
    /\ requestState \in [Requests -> {"none", "pending", "matched", "created", "cancelled"}]
    /\ matches \in [Pairs -> MatchStates]
    /\ offers \in [Pairs -> Nat] /\ told \in [Pairs -> Nat]
    /\ tripEvents \in [Trips -> Nat] /\ requestEvents \in [Requests -> Nat]
    /\ searches \in [Searches -> SearchCall]
    /\ audit \subseteq Trips /\ missed \subseteq Trips
    /\ edits \in Nat /\ faults \in Nat

\* However often, from whatever side and how concurrently a pair is searched for,
\* and whatever is redelivered or committed in doubt, it has one Match, one
\* MatchProposed event, and its carrier is notified at most once.
OfferedOnce == \A p \in Pairs :
    /\ offers[p] = IF matches[p] = "none" THEN 0 ELSE 1
    /\ told[p] <= offers[p]

\* A request that waits while some trip has room for it is offered to one: the
\* search of the request and the searches of the trips are never both too early.
\* Trips in missed are not searched for: their room grew without an event, or the
\* event did not say that the trip was open.  (With an index this needs that the
\* request is the only one: the search of a trip ends with what the index lists.)
RequestFound == \A r \in Requests :
    LET Waits == /\ requestState[r] = "pending"
                 /\ \A t \in Trips : matches[<<t, r>>] = "none"
                 /\ TripsFor(r) \ missed # {}
    IN Waits ~> ~ Waits

\* The events an offer appends make the orchestrator search again; these rounds end.
RoundsEnd == <>[](\A r \in Requests : requestEvents[r] = 0)

\* README.md:57 of the repository: locks and transactions "guarantee luggage
\* capacity cannot be over-subscribed".  What the carrier of a trip has accepted
\* fits into the room it entered.
NotOversubscribed ==
    \A t \in Trips : \A p, q \in {<<t, r>> : r \in Requests} :
        p # q /\ matches[p] \in {"accepted", "confirmed"}
              /\ matches[q] \in {"accepted", "confirmed"}
          => Weight[p[2]] + Weight[q[2]] <= room[t]
=============================================================================
