------------------------ MODULE MatchLifecycleProofs ------------------------
(***************************************************************************)
(* The custody chain of MatchLifecycle, for any number of handlers,        *)
(* workers, matches, requests and trips, and whatever Ops, MaxJobs and     *)
(* MaxCrashes are.  The chain is not inductive: a handler that verifies a  *)
(* code relies on a code it finds in Redis, and the code on what another   *)
(* handler read before it stored it.  Inv adds that evidence: every code,  *)
(* every queued job and every call between two awaits is backed by what    *)
(* has really happened to the parcel.                                      *)
(***************************************************************************)
EXTENDS MatchLifecycle, TLAPS

MatchOps == HandlerOps \ {"pay", "cancel"}

\* The steps a handler goes through.
StepsOf(o) ==
    CASE o = "none"             -> {"idle"}
      [] o = "accept"           -> {"check", "save", "project", "unlock"}
      [] o \in {"reject", "dispute"} -> {"save", "project"}
      [] o = "confirm"          -> {"readRequest", "save", "project", "findHold", "hold", "link"}
      [] o \in {"generatePickup", "generateDelivery"} -> {"code", "save", "project", "request"}
      [] o = "verifyPickup"     -> {"count", "compare", "delete", "save", "project", "stamp",
                                    "request", "trip"}
      [] o = "verifyDelivery"   -> {"count", "compare", "delete", "save", "project", "stamp",
                                    "request", "countTrip", "completeTrip", "enqueue"}
      [] o = "pay"              -> {"payment", "findHold", "hold"}
      [] o = "cancel"           -> {"refund", "request", "cancelMatches"}
      [] o = "payout"           -> {"release"}
      [] o = "sla"              -> {"cancelMatches", "reopen"}
      [] OTHER                  -> {}

\* The statuses a handler gives to updateMatchStatus.
TargetsOf(o) ==
    CASE o = "accept"           -> {"carrier_accepted"}
      [] o = "confirm"          -> {"sender_confirmed", "active"}
      [] o = "generatePickup"   -> {"pickup_pending"}
      [] o = "verifyPickup"     -> {"picked_up", "in_transit"}
      [] o = "generateDelivery" -> {"delivery_pending"}
      [] o = "verifyDelivery"   -> {"delivered"}
      [] o = "dispute"          -> {"disputed"}
      [] o \in {"reject", "sla"} -> {"cancelled"}
      [] OTHER                  -> MatchStatuses

\* A call is about a match and its request, or about a request, and is at one
\* of its own steps.
WellFormed(call) ==
    /\ call.at \in StepsOf(call.op)
    /\ call.target \in TargetsOf(call.op)
    /\ call.op \in MatchOps => call.match \in Matches /\ call.request = RequestOf[call.match]
    /\ call.op \in {"pay", "cancel"} => call.request \in Requests
    /\ call.op = "pay" /\ call.at \in {"findHold", "hold"} => call.seen.match \in Matches

\* What must have happened for a call to be where it is.
Backed(call) ==
    /\ call.op = "confirm" /\ call.target = "active" => call.request \in hist.paid
    /\ call.op \in {"generatePickup", "verifyPickup"} => call.request \in hist.paid
    /\ call.op = "verifyPickup" /\ call.at \notin {"count", "compare"} => call.match \in hist.pickedUp
    /\ call.op \in {"generateDelivery", "verifyDelivery"} => call.match \in hist.pickedUp
    /\ call.op = "verifyDelivery" /\ call.at \notin {"count", "compare"} => call.match \in hist.delivered
    /\ call.op = "payout" => call.match \in hist.delivered

CallsOK == \A c \in Calls : WellFormed(calls[c])

Evidence ==
    /\ \A c \in Calls : Backed(calls[c])
    /\ \A m \in codes["pickup"] : RequestOf[m] \in hist.paid
    /\ codes["delivery"] \subseteq hist.pickedUp
    /\ \A m \in Matches : payoutJobs[m] > 0 => m \in hist.delivered
    /\ \A r \in Requests : paymentStatus[r] = "paid" => r \in hist.paid

Inv == TypeOK /\ CallsOK /\ Evidence /\ StatusBacked /\ CustodyChain

-----------------------------------------------------------------------------
(* Calls: where a handler can be, and what Goto, Return and Begin leave.     *)

\* Which handlers can be at a given step.
LEMMA OpsAt ==
  ASSUME TypeOK, CallsOK, NEW c \in Calls
  PROVE  LET o == calls[c].op  s == calls[c].at IN
         /\ o # "none" => s # "idle"
         /\ s \in {"save", "project"} =>
               o \in {"accept", "reject", "dispute", "confirm", "generatePickup",
                      "verifyPickup", "generateDelivery", "verifyDelivery"}
         /\ s \in {"findHold", "hold"} => o \in {"confirm", "pay"}
         /\ s = "code" => o \in {"generatePickup", "generateDelivery"}
         /\ s \in {"count", "compare", "delete", "stamp"} => o \in {"verifyPickup", "verifyDelivery"}
         /\ s = "request" => o \in {"generatePickup", "generateDelivery", "verifyPickup",
                                    "verifyDelivery", "cancel"}
<1>1. /\ calls[c] \in Call
      /\ calls[c].at \in StepsOf(calls[c].op)
      /\ calls[c].op \in HandlerOps \union {"none"}
  BY DEF TypeOK, CallsOK, WellFormed, Call
<1> QED
  BY <1>1 DEF StepsOf, HandlerOps

\* The subject of a call.
LEMMA Subject ==
  ASSUME TypeOK, CallsOK, NEW c \in Calls
  PROVE  /\ calls[c] \in Call
         /\ calls[c].target \in MatchStatuses
         /\ calls[c].op \in MatchOps =>
               /\ calls[c].match \in Matches
               /\ calls[c].request = RequestOf[calls[c].match]
               /\ calls[c].request \in Requests
         /\ calls[c].op \in {"pay", "cancel"} => calls[c].request \in Requests
  BY RequestOfType DEF TypeOK, CallsOK, WellFormed, Call

LEMMA GotoCall ==
  ASSUME TypeOK, CallsOK, NEW c \in Calls, NEW s \in Steps, Goto(c, s),
         s \in StepsOf(calls[c].op),
         calls[c].op = "pay" => calls[c].seen.match \in Matches
  PROVE  /\ calls' \in [Calls -> Call]
         /\ calls'[c] = [calls[c] EXCEPT !.at = s]
         /\ \A d \in Calls \ {c} : calls'[d] = calls[d]
         /\ CallsOK'
<1>0. /\ calls \in [Calls -> Call] /\ calls[c] \in Call
      /\ calls' = [calls EXCEPT ![c].at = s]
  BY DEF TypeOK, Goto
<1>a. [calls[c] EXCEPT !.at = s] \in Call
  BY <1>0 DEF Call
<1>1. /\ calls' \in [Calls -> Call]
      /\ calls'[c] = [calls[c] EXCEPT !.at = s]
      /\ \A d \in Calls \ {c} : calls'[d] = calls[d]
      /\ calls[c] \in Call
  BY <1>0, <1>a
<1>2. WellFormed(calls[c])
  BY DEF CallsOK
<1>3. WellFormed([calls[c] EXCEPT !.at = s])
  BY <1>1, <1>2 DEF WellFormed, Call
<1>4. CallsOK'
  BY <1>1, <1>3 DEF CallsOK, WellFormed
<1> QED
  BY <1>1, <1>4

LEMMA ReturnCall ==
  ASSUME TypeOK, CallsOK, NEW c \in Calls, Return(c)
  PROVE  /\ calls' \in [Calls -> Call]
         /\ calls'[c] = Idle
         /\ \A d \in Calls \ {c} : calls'[d] = calls[d]
         /\ CallsOK'
<1>1. Idle \in Call
  BY DEF Call, Idle, NotRead, Document, Steps, MatchStatuses, RequestStatuses, PaymentStatuses
<1>2. /\ calls' \in [Calls -> Call]
      /\ calls'[c] = Idle
      /\ \A d \in Calls \ {c} : calls'[d] = calls[d]
  BY <1>1 DEF TypeOK, Return
<1>3. WellFormed(Idle)
  BY DEF WellFormed, Idle, StepsOf, TargetsOf, MatchOps, HandlerOps, MatchStatuses
<1>4. CallsOK'
  BY <1>2, <1>3 DEF CallsOK, WellFormed
<1> QED
  BY <1>2, <1>4

LEMMA BeginCall ==
  ASSUME TypeOK, CallsOK, NEW c \in Calls, NEW m \in Matches, NEW o \in MatchOps,
         NEW s \in Steps, NEW t \in MatchStatuses, NEW doc \in Document,
         s \in StepsOf(o), t \in TargetsOf(o),
         Begin(c, o, m, s, t, doc)
  PROVE  /\ calls' \in [Calls -> Call]
         /\ calls'[c] = [op |-> o, match |-> m, request |-> RequestOf[m], at |-> s,
                         target |-> t, seen |-> doc]
         /\ \A d \in Calls \ {c} : calls'[d] = calls[d]
         /\ CallsOK'
<1> DEFINE call == [op |-> o, match |-> m, request |-> RequestOf[m], at |-> s,
                    target |-> t, seen |-> doc]
<1>1. call \in Call
  BY RequestOfType DEF Call, MatchOps
<1>2. /\ calls' \in [Calls -> Call]
      /\ calls'[c] = call
      /\ \A d \in Calls \ {c} : calls'[d] = calls[d]
  BY <1>1 DEF TypeOK, Begin
<1>3. WellFormed(call)
  BY DEF WellFormed, MatchOps
<1>4. CallsOK'
  BY <1>2, <1>3 DEF CallsOK, WellFormed
<1> QED
  BY <1>2, <1>4

-----------------------------------------------------------------------------
(* The evidence, when a step moves one call and changes nothing else that    *)
(* the evidence speaks of.                                                   *)

LEMMA CallMoves ==
  ASSUME Inv, NEW c \in Calls,
         \A d \in Calls \ {c} : calls'[d] = calls[d],
         Backed(calls'[c]),
         UNCHANGED <<matchStatus, paymentStatus, codes, payoutJobs, released, hist>>
  PROVE  Evidence' /\ StatusBacked' /\ CustodyChain'
<1>1. \A d \in Calls : Backed(calls'[d])
  BY DEF Inv, Evidence
<1>2. (\A d \in Calls : Backed(calls[d]))'
  BY <1>1 DEF Backed
<1>3. Evidence'
  BY <1>2 DEF Inv, Evidence
<1> QED
  BY <1>3 DEF Inv, StatusBacked, CustodyChain

\* A call that goes on without a code being compared stays backed.
LEMMA GotoBacked ==
  ASSUME Inv, NEW c \in Calls, NEW s \in Steps,
         calls[c].at \notin {"count", "compare"} \/ s = "compare"
  PROVE  Backed([calls[c] EXCEPT !.at = s])
  BY DEF Inv, TypeOK, Evidence, Backed, Call

LEMMA IdleBacked == Backed(Idle)
  BY DEF Backed, Idle

LEMMA DocumentType ==
  ASSUME TypeOK, NEW r \in Requests
  PROVE  ReadRequest(r) \in Document /\ NotRead \in Document
  BY DEF TypeOK, ReadRequest, NotRead, Document, RequestStatuses, PaymentStatuses

\* How a handler of a match begins: at which step, and with which target.
Entry(o, s, t) == /\ o \in MatchOps /\ s \in Steps /\ t \in MatchStatuses
                  /\ s \in StepsOf(o) /\ t \in TargetsOf(o)

LEMMA Entries ==
  /\ Entry("accept", "check", "carrier_accepted")
  /\ Entry("reject", "save", "cancelled")
  /\ Entry("dispute", "save", "disputed")
  /\ Entry("confirm", "readRequest", "sender_confirmed")
  /\ Entry("generatePickup", "code", "pickup_pending")
  /\ Entry("generateDelivery", "code", "delivery_pending")
  /\ Entry("verifyPickup", "count", "picked_up")
  /\ Entry("verifyDelivery", "count", "delivered")
  /\ Entry("sla", "cancelMatches", "cancelled")
BY DEF Entry, MatchOps, HandlerOps, Steps, MatchStatuses, StepsOf, TargetsOf

\* A call begins and writes nothing but, perhaps, a lock.
LEMMA BeginOnly ==
  ASSUME Inv, NEW c \in Calls, NEW m \in Matches, NEW o, NEW s, NEW t, NEW doc \in Document,
         Entry(o, s, t),
         Begin(c, o, m, s, t, doc),
         acceptLock' \in [Matches -> Calls \union {None, Crashed}],
         UNCHANGED <<documents, codes, money, queue, ghosts>>,
         Backed([op |-> o, match |-> m, request |-> RequestOf[m], at |-> s,
                 target |-> t, seen |-> doc])
  PROVE  Inv'
<1>1. TypeOK /\ CallsOK
  BY DEF Inv
<1>2. /\ calls' \in [Calls -> Call]
      /\ calls'[c] = [op |-> o, match |-> m, request |-> RequestOf[m], at |-> s,
                      target |-> t, seen |-> doc]
      /\ \A d \in Calls \ {c} : calls'[d] = calls[d]
      /\ CallsOK'
  BY <1>1, BeginCall DEF Entry
<1>3. TypeOK'
  BY <1>1, <1>2 DEF TypeOK, documents, matchVars, requestVars, money, queue, ghosts
<1>4. Evidence' /\ StatusBacked' /\ CustodyChain'
  BY <1>2, CallMoves DEF documents, matchVars, requestVars, queue, money, ghosts
<1> QED
  BY <1>2, <1>3, <1>4 DEF Inv

LEMMA RequestBeginOnly ==
  ASSUME Inv, NEW c \in Calls, NEW r \in Requests, NEW o \in {"pay", "cancel"}, NEW s \in Steps,
         s \in StepsOf(o), s \notin {"findHold", "hold"},
         BeginOnRequest(c, o, r, s),
         UNCHANGED <<documents, redis, money, queue, ghosts>>
  PROVE  Inv'
<1> DEFINE call == [op |-> o, match |-> None, request |-> r, at |-> s,
                    target |-> "proposed", seen |-> ReadRequest(r)]
<1>1. TypeOK /\ CallsOK
  BY DEF Inv
<1>2. call \in Call
  BY <1>1, DocumentType DEF Call, HandlerOps, MatchStatuses
<1>3. /\ calls' \in [Calls -> Call]
      /\ calls'[c] = call
      /\ \A d \in Calls \ {c} : calls'[d] = calls[d]
  BY <1>1, <1>2 DEF TypeOK, BeginOnRequest
<1>4. WellFormed(call) /\ Backed(call)
  BY DEF WellFormed, Backed, TargetsOf, MatchOps, MatchStatuses
<1>5. CallsOK'
  BY <1>1, <1>3, <1>4 DEF CallsOK, WellFormed
<1>6. TypeOK'
  BY <1>1, <1>3 DEF TypeOK, documents, matchVars, requestVars, redis, money, queue, ghosts
<1>7. Evidence' /\ StatusBacked' /\ CustodyChain'
  BY <1>3, <1>4, CallMoves DEF documents, matchVars, requestVars, redis, queue, money, ghosts
<1> QED
  BY <1>5, <1>6, <1>7 DEF Inv

-----------------------------------------------------------------------------
(* Each action preserves the invariant: handlers that are called.            *)

LEMMA StartInv ==
  ASSUME Inv, NEW c \in Calls, Start(c)
  PROVE  Inv'
<1> USE Entries
<1>0. TypeOK /\ CallsOK /\ NotRead \in Document
  BY DEF Inv, NotRead, Document, RequestStatuses, PaymentStatuses
<1>a. UNCHANGED redis => acceptLock' \in [Matches -> Calls \union {None, Crashed}]
                         /\ UNCHANGED codes
  BY <1>0 DEF TypeOK, redis
<1>1. ASSUME NEW m \in Matches, AcceptLocked(c, m) PROVE Inv'
  <2>1. acceptLock' \in [Matches -> Calls \union {None, Crashed}]
    BY <1>0, <1>1 DEF AcceptLocked, TypeOK
  <2> QED
    BY <1>0, <1>1, <2>1, BeginOnly DEF AcceptLocked, Backed
<1>2. ASSUME NEW m \in Matches, Reject(c, m) PROVE Inv'
  BY <1>0, <1>a, <1>2, BeginOnly DEF Reject, Backed
<1>3. ASSUME NEW m \in Matches, Dispute(c, m) PROVE Inv'
  BY <1>0, <1>a, <1>3, BeginOnly DEF Dispute, Backed
<1>4. ASSUME NEW m \in Matches, ConfirmCheck(c, m) PROVE Inv'
  BY <1>0, <1>a, <1>4, BeginOnly DEF ConfirmCheck, Backed
<1>5. ASSUME NEW m \in Matches, GeneratePickupCheck(c, m) PROVE Inv'
  <2>1. RequestOf[m] \in Requests /\ ReadRequest(RequestOf[m]) \in Document
    BY <1>0, RequestOfType, DocumentType
  <2>2. RequestOf[m] \in hist.paid
    BY <1>5, <2>1 DEF GeneratePickupCheck, ReadRequest, Inv, Evidence
  <2> QED
    BY <1>0, <1>a, <1>5, <2>1, <2>2, BeginOnly DEF GeneratePickupCheck, Backed
<1>6. ASSUME NEW m \in Matches, GenerateDeliveryCheck(c, m) PROVE Inv'
  <2>1. m \in hist.pickedUp
    BY <1>6 DEF GenerateDeliveryCheck, Inv, StatusBacked
  <2> QED
    BY <1>0, <1>a, <1>6, <2>1, BeginOnly DEF GenerateDeliveryCheck, Backed
<1>7. ASSUME NEW m \in Matches, NEW o \in {"verifyPickup", "verifyDelivery"}, VerifyRead(c, o, m)
      PROVE  Inv'
  <2>1. CASE o = "verifyPickup"
    <3>1. RequestOf[m] \in hist.paid
      BY <1>7, <2>1 DEF VerifyRead, KindOf, Inv, Evidence
    <3> QED
      BY <1>0, <1>a, <1>7, <2>1, <3>1, BeginOnly DEF VerifyRead, Backed
  <2>2. CASE o = "verifyDelivery"
    <3>1. m \in hist.pickedUp
      BY <1>7, <2>2 DEF VerifyRead, KindOf, Inv, Evidence
    <3> QED
      BY <1>0, <1>a, <1>7, <2>2, <3>1, BeginOnly DEF VerifyRead, Backed
  <2> QED
    BY <2>1, <2>2
<1>8. ASSUME NEW m \in Matches, SlaFind(c, m) PROVE Inv'
  BY <1>0, <1>a, <1>8, BeginOnly DEF SlaFind, Backed
<1>9. ASSUME NEW r \in Requests, PayRead(c, r) PROVE Inv'
  BY <1>9, RequestBeginOnly DEF PayRead, Steps, StepsOf
<1>10. ASSUME NEW r \in Requests, CancelRead(c, r) PROVE Inv'
  <2>1. CASE paymentStatus[r] = "paid"
    BY <1>10, <2>1, RequestBeginOnly DEF CancelRead, Steps, StepsOf
  <2>2. CASE paymentStatus[r] # "paid"
    BY <1>10, <2>2, RequestBeginOnly DEF CancelRead, Steps, StepsOf
  <2> QED
    BY <2>1, <2>2
<1> QED
  BY <1>1, <1>2, <1>3, <1>4, <1>5, <1>6, <1>7, <1>8, <1>9, <1>10 DEF Start

-----------------------------------------------------------------------------
(* Each action preserves the invariant: running calls that go on.            *)

\* A call that goes on or returns, and changes nothing the evidence speaks of.
LEMMA GotoOnly ==
  ASSUME Inv, NEW c \in Calls, NEW s \in Steps, Goto(c, s), s \in StepsOf(calls[c].op),
         calls[c].op = "pay" => calls[c].seen.match \in Matches,
         calls[c].at \notin {"count", "compare"} \/ s = "compare"
  PROVE  /\ calls' \in [Calls -> Call]
         /\ CallsOK'
         /\ UNCHANGED hist => (\A d \in Calls : Backed(calls[d]))'
         /\ UNCHANGED <<matchStatus, paymentStatus, codes, payoutJobs, released, hist>>
               => Evidence' /\ StatusBacked' /\ CustodyChain'
<1>1. TypeOK /\ CallsOK
  BY DEF Inv
<1>2. /\ calls' \in [Calls -> Call]
      /\ calls'[c] = [calls[c] EXCEPT !.at = s]
      /\ \A d \in Calls \ {c} : calls'[d] = calls[d]
      /\ CallsOK'
  BY <1>1, GotoCall
<1>3. Backed(calls'[c])
  BY <1>2, GotoBacked
<1>4. UNCHANGED hist => (\A d \in Calls : Backed(calls[d]))'
  BY <1>2, <1>3 DEF Inv, Evidence, Backed
<1> QED
  BY <1>2, <1>3, <1>4, CallMoves

LEMMA ReturnOnly ==
  ASSUME Inv, NEW c \in Calls, Return(c)
  PROVE  /\ calls' \in [Calls -> Call]
         /\ CallsOK'
         /\ UNCHANGED hist => (\A d \in Calls : Backed(calls[d]))'
         /\ UNCHANGED <<matchStatus, paymentStatus, codes, payoutJobs, released, hist>>
               => Evidence' /\ StatusBacked' /\ CustodyChain'
<1>1. TypeOK /\ CallsOK
  BY DEF Inv
<1>2. /\ calls' \in [Calls -> Call]
      /\ calls'[c] = Idle
      /\ \A d \in Calls \ {c} : calls'[d] = calls[d]
      /\ CallsOK'
  BY <1>1, ReturnCall
<1>3. Backed(calls'[c])
  BY <1>2, IdleBacked
<1>4. UNCHANGED hist => (\A d \in Calls : Backed(calls[d]))'
  BY <1>2, <1>3 DEF Inv, Evidence, Backed
<1> QED
  BY <1>2, <1>3, <1>4, CallMoves

\* A call that goes on, with or without changing what the evidence speaks of:
\* the rest of the evidence is what is left to show.
LEMMA SaveStatusInv ==
  ASSUME Inv, NEW c \in Calls, SaveStatus(c)
  PROVE  Inv'
<1> USE DEF StepsOf, Steps
<1>1. /\ calls[c].op \in {"accept", "reject", "dispute", "confirm", "generatePickup",
                          "verifyPickup", "generateDelivery", "verifyDelivery"}
      /\ calls[c].at = "save"
      /\ calls[c].match \in Matches
      /\ calls[c].request = RequestOf[calls[c].match]
      /\ calls[c].target \in MatchStatuses
  BY OpsAt, Subject DEF SaveStatus, Inv, MatchOps, HandlerOps
<1>2. /\ Goto(c, "project")
      /\ UNCHANGED <<requestVars, pickupVerified, deliveryVerified, tripStatus, redis,
                     money, queue, ghosts>>
      /\ matchStatus' = [matchStatus EXCEPT ![calls[c].match] = calls[c].target]
  BY DEF SaveStatus
<1>3. calls' \in [Calls -> Call] /\ CallsOK' /\ (\A d \in Calls : Backed(calls[d]))'
  BY <1>1, <1>2, GotoOnly DEF ghosts
<1>4. TypeOK'
  BY <1>1, <1>2, <1>3 DEF Inv, TypeOK, requestVars, redis, money, queue, ghosts
<1>5. Evidence' /\ CustodyChain'
  BY <1>2, <1>3 DEF Inv, Evidence, CustodyChain, requestVars, redis, money, queue, ghosts
<1>6. StatusBacked'
  <2>1. calls[c].target \in TargetsOf(calls[c].op) /\ Backed(calls[c])
    BY DEF Inv, CallsOK, WellFormed, Evidence
  <2>2. LET m == calls[c].match IN
        /\ calls[c].target \in {"active", "pickup_pending"} => RequestOf[m] \in hist.paid
        /\ calls[c].target \in {"picked_up", "in_transit", "delivery_pending", "delivered"}
              => m \in hist.pickedUp
        /\ calls[c].target = "delivered" => m \in hist.delivered
    BY <1>1, <2>1 DEF TargetsOf, Backed
  <2> QED
    BY <1>2, <2>2 DEF Inv, TypeOK, StatusBacked, ghosts
<1> QED
  BY <1>3, <1>4, <1>5, <1>6 DEF Inv

LEMMA ProjectStatusInv ==
  ASSUME Inv, NEW c \in Calls, ProjectStatus(c)
  PROVE  Inv'
<1>1. /\ calls[c].op \in {"accept", "reject", "dispute", "confirm", "generatePickup",
                          "verifyPickup", "generateDelivery", "verifyDelivery"}
      /\ calls[c].at = "project"
      /\ calls[c].request \in Requests
      /\ calls[c].target \in MatchStatuses
  BY OpsAt, Subject DEF ProjectStatus, Inv, MatchOps, HandlerOps
<1>2. UNCHANGED <<matchStatus, paymentStatus, codes, payoutJobs, released, hist>>
  BY DEF ProjectStatus, matchVars, redis, queue, money, ghosts
<1>3. calls' \in [Calls -> Call] /\ CallsOK' /\ Evidence' /\ StatusBacked' /\ CustodyChain'
  <2> DEFINE next == AfterUpdate(calls[c])
  <2>1. next \in Steps /\ (next = "idle" \/ next \in StepsOf(calls[c].op))
    BY <1>1 DEF AfterUpdate, Steps, StepsOf
  <2>2. CASE next = "idle"
    BY <1>2, <2>2, ReturnOnly DEF ProjectStatus
  <2>3. CASE next # "idle"
    <3>1. Goto(c, next)
      BY <2>3 DEF ProjectStatus
    <3> HIDE DEF next
    <3> QED
      BY <1>1, <1>2, <2>1, <2>3, <3>1, GotoOnly
  <2> QED
    BY <2>2, <2>3
<1>4. TypeOK'
  <2>1. DeliveryStatusOf(calls[c].target) \in RequestStatuses
    BY <1>1 DEF DeliveryStatusOf, RequestStatuses, MatchStatuses
  <2> QED
    BY <1>1, <1>3, <2>1 DEF Inv, TypeOK, ProjectStatus, matchVars, redis, money, queue, ghosts
<1> QED
  BY <1>3, <1>4 DEF Inv

\* The match a hold is for.
LEMMA HoldSubject ==
  ASSUME Inv, NEW c \in Calls, calls[c].at \in {"findHold", "hold"}
  PROVE  /\ calls[c].op \in {"confirm", "pay"}
         /\ MatchToHold(c) \in Matches
         /\ RequestOf[MatchToHold(c)] \in Requests
         /\ calls[c].op = "pay" => calls[c].seen.match \in Matches
<1>1. calls[c].op \in {"confirm", "pay"}
  BY OpsAt DEF Inv
<1>2. calls[c].op = "confirm" => calls[c].match \in Matches
  BY Subject DEF Inv, MatchOps, HandlerOps
<1>3. calls[c].op = "pay" => calls[c].seen.match \in Matches
  BY DEF Inv, CallsOK, WellFormed
<1> QED
  BY <1>1, <1>2, <1>3, RequestOfType DEF MatchToHold

\* The steps that write nothing the evidence speaks of.
LEMMA QuietStepInv ==
  ASSUME Inv, NEW c \in Calls,
         \/ AcceptCheck(c) \/ AcceptUnlock(c) \/ ConfirmLink(c) \/ FindHold(c)
         \/ HoldFunds(c) \/ CancelRefund(c) \/ VerifyFail(c) \/ VerifyStamp(c)
         \/ WriteRequest(c) \/ CountTrip(c) \/ CompleteTrip(c) \/ SlaReopen(c)
         \/ PayReject(c)
  PROVE  Inv'
<1> USE DEF StepsOf, Steps, At, MatchOps, HandlerOps
<1>0. /\ TypeOK /\ CallsOK
      /\ calls[c].op \in MatchOps => /\ calls[c].match \in Matches
                                     /\ calls[c].request \in Requests
      /\ calls[c].op \in {"pay", "cancel"} => calls[c].request \in Requests
  BY Subject DEF Inv
<1>1. CASE AcceptCheck(c)
  <2>1. /\ calls' \in [Calls -> Call]
        /\ CallsOK' /\ Evidence' /\ StatusBacked' /\ CustodyChain'
    BY <1>1, GotoOnly DEF AcceptCheck, documents, matchVars, requestVars, redis, money, queue, ghosts
  <2> QED
    BY <1>0, <1>1, <2>1 DEF Inv, TypeOK, AcceptCheck, documents, matchVars, requestVars, redis,
                            money, queue, ghosts
<1>2. CASE AcceptUnlock(c)
  <2>1. /\ calls' \in [Calls -> Call]
        /\ CallsOK' /\ Evidence' /\ StatusBacked' /\ CustodyChain'
    BY <1>2, ReturnOnly DEF AcceptUnlock, documents, matchVars, requestVars, money, queue, ghosts
  <2> QED
    BY <1>0, <1>2, <2>1 DEF Inv, TypeOK, AcceptUnlock, documents, matchVars, requestVars,
                            money, queue, ghosts
<1>3. CASE ConfirmLink(c)
  <2>1. /\ calls' \in [Calls -> Call]
        /\ CallsOK' /\ Evidence' /\ StatusBacked' /\ CustodyChain'
    BY <1>3, ReturnOnly DEF ConfirmLink, matchVars, redis, money, queue, ghosts
  <2> QED
    BY <1>0, <1>3, <2>1 DEF Inv, TypeOK, ConfirmLink, matchVars, redis, money, queue, ghosts
<1>4. CASE FindHold(c)
  <2>0. /\ calls[c].op \in {"confirm", "pay"}
        /\ calls[c].op = "pay" => calls[c].seen.match \in Matches
        /\ Goto(c, "hold") \/ Return(c) \/ (Goto(c, "link") /\ calls[c].op = "confirm")
    BY <1>4, HoldSubject DEF FindHold, AfterHold
  <2>1. /\ calls' \in [Calls -> Call]
        /\ CallsOK' /\ Evidence' /\ StatusBacked' /\ CustodyChain'
    BY <1>4, <2>0, GotoOnly, ReturnOnly
       DEF FindHold, documents, matchVars, requestVars, redis, money, queue, ghosts
  <2> QED
    BY <1>0, <1>4, <2>1 DEF Inv, TypeOK, FindHold, documents, matchVars, requestVars, redis,
                            money, queue, ghosts
<1>5. CASE HoldFunds(c)
  <2>0. /\ calls[c].op \in {"confirm", "pay"}
        /\ calls[c].op = "pay" => calls[c].seen.match \in Matches
        /\ Return(c) \/ (Goto(c, "link") /\ calls[c].op = "confirm")
        /\ MatchToHold(c) \in Matches /\ RequestOf[MatchToHold(c)] \in Requests
    BY <1>5, HoldSubject DEF HoldFunds, AfterHold
  <2>1. /\ calls' \in [Calls -> Call]
        /\ CallsOK' /\ Evidence' /\ StatusBacked' /\ CustodyChain'
    BY <1>5, <2>0, GotoOnly, ReturnOnly
       DEF HoldFunds, documents, matchVars, requestVars, redis, queue, ghosts
  <2> HIDE DEF StepsOf, Steps, At, MatchOps, HandlerOps
  <2>2. /\ holds' \in [Matches -> Nat]
        /\ escrowHeld' \in [Requests -> Int]
    BY <1>0, <1>5, <2>0 DEF HoldFunds, TypeOK
  <2> QED
    BY <1>0, <1>5, <2>1, <2>2 DEF Inv, TypeOK, HoldFunds, documents, matchVars, requestVars, redis,
                            queue, ghosts
<1>6. CASE CancelRefund(c)
  <2>1. /\ calls' \in [Calls -> Call]
        /\ CallsOK' /\ Evidence' /\ StatusBacked' /\ CustodyChain'
    BY <1>6, GotoOnly DEF CancelRefund, documents, matchVars, requestVars, redis, queue, ghosts
  <2>2. escrowHeld' \in [Requests -> Int]
    BY <1>0, <1>6 DEF CancelRefund, TypeOK
  <2> QED
    BY <1>0, <1>6, <2>1, <2>2 DEF Inv, TypeOK, CancelRefund, documents, matchVars, requestVars, redis,
                            queue, ghosts
<1>7. CASE VerifyFail(c)
  <2>1. /\ calls' \in [Calls -> Call]
        /\ CallsOK' /\ Evidence' /\ StatusBacked' /\ CustodyChain'
    BY <1>7, ReturnOnly DEF VerifyFail, documents, matchVars, requestVars, redis, money, queue, ghosts
  <2> QED
    BY <1>0, <1>7, <2>1 DEF Inv, TypeOK, VerifyFail, documents, matchVars, requestVars, redis,
                            money, queue, ghosts
<1>8. CASE VerifyStamp(c)
  <2>0. calls[c].op \in {"verifyPickup", "verifyDelivery"}
    BY <1>0, <1>8, OpsAt DEF VerifyStamp
  <2>1. /\ calls' \in [Calls -> Call]
        /\ CallsOK' /\ Evidence' /\ StatusBacked' /\ CustodyChain'
    BY <1>8, <2>0, GotoOnly DEF VerifyStamp, requestVars, redis, money, queue, ghosts
  <2> QED
    BY <1>0, <1>8, <2>0, <2>1 DEF Inv, TypeOK, VerifyStamp, requestVars, redis, money, queue, ghosts
<1>9. CASE WriteRequest(c)
  <2>0. calls[c].op \in {"generatePickup", "generateDelivery", "verifyPickup", "verifyDelivery"}
    BY <1>0, <1>9, OpsAt DEF WriteRequest
  <2>1. /\ calls' \in [Calls -> Call]
        /\ CallsOK' /\ Evidence' /\ StatusBacked' /\ CustodyChain'
    <3>1. CASE calls[c].op = "verifyPickup"
      BY <1>9, <3>1, GotoOnly DEF WriteRequest, matchVars, redis, money, queue, ghosts
    <3>2. CASE calls[c].op = "verifyDelivery"
      BY <1>9, <3>2, GotoOnly DEF WriteRequest, matchVars, redis, money, queue, ghosts
    <3>3. CASE calls[c].op \in {"generatePickup", "generateDelivery"}
      BY <1>9, <3>3, ReturnOnly DEF WriteRequest, matchVars, redis, money, queue, ghosts
    <3> QED
      BY <2>0, <3>1, <3>2, <3>3
  <2>2. OwnRequestStatus(calls[c].op) \in RequestStatuses
    BY DEF OwnRequestStatus, RequestStatuses
  <2> QED
    BY <1>0, <1>9, <2>0, <2>1, <2>2 DEF Inv, TypeOK, WriteRequest, matchVars, redis, money, queue, ghosts
<1>10. CASE CountTrip(c)
  <2>1. /\ calls' \in [Calls -> Call]
        /\ CallsOK' /\ Evidence' /\ StatusBacked' /\ CustodyChain'
    BY <1>10, GotoOnly DEF CountTrip, documents, matchVars, requestVars, redis, money, queue, ghosts
  <2> QED
    BY <1>0, <1>10, <2>1 DEF Inv, TypeOK, CountTrip, documents, matchVars, requestVars, redis,
                            money, queue, ghosts
<1>11. CASE CompleteTrip(c)
  <2>1. /\ calls' \in [Calls -> Call]
        /\ CallsOK' /\ Evidence' /\ StatusBacked' /\ CustodyChain'
    BY <1>11, GotoOnly DEF CompleteTrip, matchVars, requestVars, redis, money, queue, ghosts
  <2> QED
    BY <1>0, <1>11, <2>1 DEF Inv, TypeOK, CompleteTrip, matchVars, requestVars, redis, money, queue, ghosts
<1>12. CASE SlaReopen(c)
  <2>1. /\ calls' \in [Calls -> Call]
        /\ CallsOK' /\ Evidence' /\ StatusBacked' /\ CustodyChain'
    BY <1>12, ReturnOnly DEF SlaReopen, matchVars, redis, money, queue, ghosts
  <2> QED
    BY <1>0, <1>12, <2>1 DEF Inv, TypeOK, SlaReopen, matchVars, redis, money, queue, ghosts, RequestStatuses
<1>13. CASE PayReject(c)
  <2>1. /\ calls' \in [Calls -> Call]
        /\ CallsOK' /\ Evidence' /\ StatusBacked' /\ CustodyChain'
    BY <1>13, ReturnOnly DEF PayReject, documents, matchVars, requestVars, redis, money, queue, ghosts
  <2> QED
    BY <1>0, <1>13, <2>1 DEF Inv, TypeOK, PayReject, documents, matchVars, requestVars, redis,
                            money, queue, ghosts
<1> QED
  BY <1>1, <1>2, <1>3, <1>4, <1>5, <1>6, <1>7, <1>8, <1>9, <1>10, <1>11, <1>12, <1>13

-----------------------------------------------------------------------------
(* The steps that write what the evidence speaks of.                         *)

LEMMA ConfirmReadRequestInv ==
  ASSUME Inv, NEW c \in Calls, ConfirmReadRequest(c)
  PROVE  Inv'
<1> DEFINE doc == ReadRequest(calls[c].request)
           call == [calls[c] EXCEPT
                      !.seen = doc,
                      !.target = IF doc.payment = "paid" THEN "active" ELSE "sender_confirmed",
                      !.at = "save"]
<1>1. /\ TypeOK /\ CallsOK /\ calls[c] \in Call
      /\ calls[c].op = "confirm"
      /\ calls[c].match \in Matches
      /\ calls[c].request = RequestOf[calls[c].match]
      /\ calls[c].request \in Requests
      /\ doc \in Document
  BY Subject, DocumentType DEF Inv, ConfirmReadRequest, At, MatchOps, HandlerOps
<1>2. doc.payment = "paid" => calls[c].request \in hist.paid
  BY <1>1 DEF Inv, Evidence, ReadRequest
<1> HIDE DEF doc
<1>3. /\ call \in Call /\ WellFormed(call) /\ Backed(call)
  BY <1>1, <1>2 DEF Call, WellFormed, Backed, StepsOf, TargetsOf, MatchOps, HandlerOps, Steps,
                    MatchStatuses
<1>a. calls \in [Calls -> Call]
  BY <1>1 DEF TypeOK
<1>4. calls' = [calls EXCEPT
         ![c].seen = doc,
         ![c].target = IF doc.payment = "paid" THEN "active" ELSE "sender_confirmed",
         ![c].at = "save"]
  BY DEF ConfirmReadRequest, doc
<1>b. /\ DOMAIN calls' = Calls
      /\ calls'[c] = call
      /\ \A d \in Calls \ {c} : calls'[d] = calls[d]
  BY <1>a, <1>4
<1>c. calls' = [d \in Calls |-> calls'[d]]
  BY <1>a, <1>4
<1> HIDE DEF call
<1>5. /\ calls' \in [Calls -> Call]
      /\ calls'[c] = call
      /\ \A d \in Calls \ {c} : calls'[d] = calls[d]
  BY <1>a, <1>b, <1>c, <1>3
<1>6. CallsOK'
  BY <1>1, <1>3, <1>5 DEF CallsOK, WellFormed
<1>7. Evidence' /\ StatusBacked' /\ CustodyChain'
  BY <1>3, <1>5, CallMoves
     DEF ConfirmReadRequest, documents, matchVars, requestVars, redis, money, queue, ghosts
<1>8. TypeOK'
  BY <1>1, <1>5 DEF TypeOK, ConfirmReadRequest, documents, matchVars, requestVars, redis, money,
                    queue, ghosts
<1> QED
  BY <1>6, <1>7, <1>8 DEF Inv

LEMMA PaySaveInv ==
  ASSUME Inv, NEW c \in Calls, PaySave(c)
  PROVE  Inv'
<1>1. /\ TypeOK /\ CallsOK /\ calls[c] \in Call
      /\ calls[c].op = "pay" /\ calls[c].at = "payment"
      /\ calls[c].request \in Requests
  BY Subject DEF Inv, PaySave, At
<1>2. /\ hist' \in [paid : SUBSET Requests, pickedUp : SUBSET Matches, delivered : SUBSET Matches]
      /\ hist'.paid = hist.paid \union {calls[c].request}
      /\ hist'.pickedUp = hist.pickedUp
      /\ hist'.delivered = hist.delivered
  BY <1>1 DEF PaySave, TypeOK
<1>3. /\ paymentStatus' \in [Requests -> PaymentStatuses]
      /\ \A r \in Requests : paymentStatus'[r] = "paid" =>
            r = calls[c].request \/ paymentStatus[r] = "paid"
  BY <1>1 DEF PaySave, TypeOK, PaymentStatuses
<1>4. /\ calls' \in [Calls -> Call] /\ CallsOK'
      /\ \A d \in Calls : Backed(calls'[d])
  <2>1. CASE calls[c].seen.match = None
    <3>1. /\ calls' \in [Calls -> Call] /\ CallsOK'
          /\ calls'[c] = Idle
          /\ \A d \in Calls \ {c} : calls'[d] = calls[d]
      BY <1>1, <2>1, ReturnCall DEF PaySave
    <3> QED
      BY <3>1, IdleBacked DEF Inv, Evidence
  <2>2. CASE calls[c].seen.match # None
    <3>1. calls[c].seen.match \in Matches /\ Goto(c, "findHold")
      BY <1>1, <2>2 DEF PaySave, Call, Document
    <3>2. /\ calls' \in [Calls -> Call] /\ CallsOK'
          /\ calls'[c] = [calls[c] EXCEPT !.at = "findHold"]
          /\ \A d \in Calls \ {c} : calls'[d] = calls[d]
      BY <1>1, <3>1, GotoCall DEF StepsOf, Steps
    <3>3. Backed([calls[c] EXCEPT !.at = "findHold"])
      BY <1>1, GotoBacked DEF Steps
    <3> QED
      BY <3>2, <3>3 DEF Inv, Evidence
  <2> QED
    BY <2>1, <2>2
<1>5. (\A d \in Calls : Backed(calls[d]))'
  BY <1>2, <1>4 DEF Backed
<1>6. Evidence' /\ StatusBacked' /\ CustodyChain'
  BY <1>2, <1>3, <1>5 DEF Inv, Evidence, StatusBacked, CustodyChain, PaySave, matchVars, redis,
                          money, queue
<1>7. TypeOK'
  BY <1>1, <1>2, <1>3, <1>4 DEF TypeOK, PaySave, matchVars, redis, money, queue
<1> QED
  BY <1>4, <1>6, <1>7 DEF Inv

LEMMA CancelSaveInv ==
  ASSUME Inv, NEW c \in Calls, CancelSave(c)
  PROVE  Inv'
<1>1. /\ TypeOK
      /\ calls[c].op = "cancel" /\ calls[c].at = "request"
      /\ calls[c].request \in Requests
      /\ Goto(c, "cancelMatches")
      /\ UNCHANGED <<matchVars, requestMatch, tripStatus, redis, money, queue, ghosts>>
  BY Subject DEF Inv, CancelSave, At
<1>2. /\ paymentStatus' \in [Requests -> PaymentStatuses]
      /\ \A r \in Requests : paymentStatus'[r] = "paid" => paymentStatus[r] = "paid"
      /\ requestStatus' \in [Requests -> RequestStatuses]
  BY <1>1 DEF CancelSave, TypeOK, PaymentStatuses, RequestStatuses
<1>3. calls' \in [Calls -> Call] /\ CallsOK' /\ (\A d \in Calls : Backed(calls[d]))'
  BY <1>1, GotoOnly DEF StepsOf, Steps, ghosts
<1>4. Evidence' /\ StatusBacked' /\ CustodyChain'
  BY <1>1, <1>2, <1>3 DEF Inv, Evidence, StatusBacked, CustodyChain, matchVars, redis, money, queue,
                          ghosts
<1>5. TypeOK'
  BY <1>1, <1>2, <1>3 DEF TypeOK, matchVars, redis, money, queue, ghosts
<1> QED
  BY <1>3, <1>4, <1>5 DEF Inv

\* Matches are cancelled: by cancelRequest, or by the SLA audit.
LEMMA CancelInv ==
  ASSUME Inv, NEW c \in Calls, CancelMatches(c) \/ SlaCancel(c)
  PROVE  Inv'
<1>1. /\ TypeOK
      /\ UNCHANGED <<requestVars, pickupVerified, deliveryVerified, tripStatus, redis, money, queue,
                     ghosts>>
  BY DEF Inv, CancelMatches, SlaCancel
<1>2. /\ matchStatus' \in [Matches -> MatchStatuses \union {"absent"}]
      /\ \A m \in Matches : matchStatus'[m] \in {matchStatus[m], "cancelled"}
  BY <1>1 DEF CancelMatches, SlaCancel, TypeOK, MatchStatuses
<1>3. calls' \in [Calls -> Call] /\ CallsOK' /\ (\A d \in Calls : Backed(calls[d]))'
  <2>1. CASE CancelMatches(c)
    BY <1>1, <2>1, ReturnOnly DEF CancelMatches, ghosts
  <2>2. CASE SlaCancel(c)
    BY <1>1, <2>2, GotoOnly DEF SlaCancel, At, StepsOf, Steps, ghosts
  <2> QED
    BY <2>1, <2>2
<1>4. Evidence' /\ StatusBacked' /\ CustodyChain'
  BY <1>1, <1>2, <1>3 DEF Inv, Evidence, StatusBacked, CustodyChain, requestVars, redis, money, queue,
                          ghosts
<1>5. TypeOK'
  BY <1>1, <1>2, <1>3 DEF TypeOK, requestVars, redis, money, queue, ghosts
<1> QED
  BY <1>3, <1>4, <1>5 DEF Inv

\* A code is stored, written back or deleted.
LEMMA CodeInv ==
  ASSUME Inv, NEW c \in Calls, StoreCode(c) \/ VerifyCount(c) \/ VerifyDelete(c)
  PROVE  Inv'
<1> DEFINE k == KindOf(calls[c].op)
           m == calls[c].match
<1>1. /\ TypeOK
      /\ UNCHANGED <<documents, acceptLock, money, queue, ghosts>>
  BY DEF Inv, StoreCode, VerifyCount, VerifyDelete
<1>2. /\ calls[c].op \in {"generatePickup", "generateDelivery", "verifyPickup", "verifyDelivery"}
      /\ calls[c].at \in {"count", "delete"} => calls[c].op \in {"verifyPickup", "verifyDelivery"}
      /\ calls[c].at = "code" => calls[c].op \in {"generatePickup", "generateDelivery"}
  BY OpsAt DEF Inv, StoreCode, VerifyCount, VerifyDelete
<1>3. m \in Matches /\ calls[c].request = RequestOf[m] /\ Backed(calls[c])
  BY <1>2, Subject DEF Inv, Evidence, MatchOps, HandlerOps
<1>4. /\ k \in CodeKinds
      /\ k = "pickup" => RequestOf[m] \in hist.paid
      /\ k = "delivery" => m \in hist.pickedUp
  BY <1>2, <1>3 DEF KindOf, CodeKinds, Backed
<1>5. codes' \in {[codes EXCEPT ![k] = @ \union {m}], [codes EXCEPT ![k] = @ \ {m}]}
  BY DEF StoreCode, VerifyCount, VerifyDelete
<1>6. calls' \in [Calls -> Call] /\ CallsOK' /\ (\A d \in Calls : Backed(calls[d]))'
  <2>1. CASE StoreCode(c)
    BY <1>1, <1>2, <2>1, GotoOnly DEF StoreCode, StepsOf, Steps, ghosts
  <2>2. CASE VerifyCount(c)
    BY <1>1, <1>2, <2>2, GotoOnly DEF VerifyCount, StepsOf, Steps, ghosts
  <2>3. CASE VerifyDelete(c)
    BY <1>1, <1>2, <2>3, GotoOnly DEF VerifyDelete, StepsOf, Steps, ghosts
  <2> QED
    BY <2>1, <2>2, <2>3
<1> HIDE DEF k, m
<1>7. /\ codes' \in [CodeKinds -> SUBSET Matches]
      /\ \A x \in codes'["pickup"] : RequestOf[x] \in hist.paid
      /\ codes'["delivery"] \subseteq hist.pickedUp
  BY <1>1, <1>3, <1>4, <1>5 DEF Inv, TypeOK, Evidence, CodeKinds
<1>8. Evidence' /\ StatusBacked' /\ CustodyChain'
  BY <1>1, <1>6, <1>7 DEF Inv, Evidence, StatusBacked, CustodyChain, documents, matchVars, requestVars,
                          money, queue, ghosts
<1>9. TypeOK'
  BY <1>1, <1>6, <1>7 DEF TypeOK, documents, matchVars, requestVars, money, queue, ghosts
<1> QED
  BY <1>6, <1>8, <1>9 DEF Inv

\* The code is right: history records the handover, which its evidence allows.
LEMMA VerifySucceedInv ==
  ASSUME Inv, NEW c \in Calls, VerifySucceed(c)
  PROVE  Inv'
<1> DEFINE m == calls[c].match
<1>1. /\ TypeOK /\ CallsOK /\ calls[c] \in Call
      /\ calls[c].op \in {"verifyPickup", "verifyDelivery"}
      /\ m \in Matches /\ calls[c].request = RequestOf[m]
      /\ Goto(c, "delete")
      /\ UNCHANGED <<documents, crashes, redis, money, queue>>
  BY OpsAt, Subject DEF Inv, VerifySucceed, MatchOps, HandlerOps
<1>2. /\ hist' \in [paid : SUBSET Requests, pickedUp : SUBSET Matches, delivered : SUBSET Matches]
      /\ hist'.paid = hist.paid
      /\ hist'.pickedUp = IF calls[c].op = "verifyPickup" THEN hist.pickedUp \union {m}
                                                          ELSE hist.pickedUp
      /\ hist'.delivered = IF calls[c].op = "verifyPickup" THEN hist.delivered
                                                           ELSE hist.delivered \union {m}
  BY <1>1 DEF VerifySucceed, TypeOK
<1>3. Backed(calls[c])
  BY DEF Inv, Evidence
<1>4. /\ calls' \in [Calls -> Call] /\ CallsOK'
      /\ calls'[c] = [calls[c] EXCEPT !.at = "delete"]
      /\ \A d \in Calls \ {c} : calls'[d] = calls[d]
  BY <1>1, GotoCall DEF StepsOf, Steps
<1>5. (\A d \in Calls : Backed(calls[d]))'
  <2>1. ASSUME NEW d \in Calls \ {c} PROVE Backed(calls[d])'
    <3>1. Backed(calls[d]) /\ calls'[d] = calls[d]
      BY <1>4 DEF Inv, Evidence
    <3> QED
      BY <1>2, <3>1 DEF Backed
  <2>2. Backed(calls[c])'
    BY <1>1, <1>2, <1>3, <1>4 DEF Backed, Call
  <2> QED
    BY <2>1, <2>2
<1>6. CustodyChain'
  <2>1. calls[c].op = "verifyPickup" => RequestOf[m] \in hist.paid
    BY <1>1, <1>3 DEF Backed
  <2>2. calls[c].op = "verifyDelivery" => m \in hist.pickedUp
    BY <1>3 DEF Backed
  <2> QED
    BY <1>1, <1>2, <2>1, <2>2 DEF Inv, CustodyChain, money
<1> HIDE DEF m
<1>7. Evidence' /\ StatusBacked'
  BY <1>1, <1>2, <1>5 DEF Inv, Evidence, StatusBacked, documents, matchVars, requestVars, redis, queue
<1>8. TypeOK'
  BY <1>1, <1>2, <1>4 DEF TypeOK, documents, matchVars, requestVars, redis, money, queue
<1> QED
  BY <1>4, <1>6, <1>7, <1>8 DEF Inv

LEMMA StartTripInv ==
  ASSUME Inv, NEW c \in Calls, StartTrip(c)
  PROVE  Inv'
<1> DEFINE call == [calls[c] EXCEPT !.at = "save", !.target = "in_transit"]
<1>1. /\ TypeOK /\ CallsOK /\ calls[c] \in Call
      /\ calls[c].op = "verifyPickup" /\ calls[c].at = "trip"
      /\ calls[c].match \in Matches /\ calls[c].request = RequestOf[calls[c].match]
      /\ Backed(calls[c])
  BY Subject DEF Inv, Evidence, StartTrip, At, MatchOps, HandlerOps
<1>2. call \in Call /\ WellFormed(call) /\ Backed(call)
  BY <1>1 DEF Call, WellFormed, Backed, StepsOf, TargetsOf, MatchOps, HandlerOps, Steps, MatchStatuses
<1>3. calls' = [calls EXCEPT ![c] = call]
  BY <1>1 DEF StartTrip, Update, TypeOK, Call
<1> HIDE DEF call
<1>4. /\ calls' \in [Calls -> Call]
      /\ calls'[c] = call
      /\ \A d \in Calls \ {c} : calls'[d] = calls[d]
  BY <1>1, <1>2, <1>3 DEF TypeOK
<1>5. CallsOK'
  BY <1>1, <1>2, <1>4 DEF CallsOK, WellFormed
<1>6. Evidence' /\ StatusBacked' /\ CustodyChain'
  BY <1>2, <1>4, CallMoves DEF StartTrip, matchVars, requestVars, redis, money, queue, ghosts
<1>7. TypeOK'
  BY <1>1, <1>4 DEF TypeOK, StartTrip, matchVars, requestVars, redis, money, queue, ghosts
<1> QED
  BY <1>5, <1>6, <1>7 DEF Inv

LEMMA EnqueuePayoutInv ==
  ASSUME Inv, NEW c \in Calls, EnqueuePayout(c)
  PROVE  Inv'
<1> DEFINE m == calls[c].match
<1>1. /\ TypeOK
      /\ calls[c].op = "verifyDelivery" /\ calls[c].at = "enqueue"
      /\ m \in Matches
      /\ Return(c)
      /\ UNCHANGED <<documents, failedJobs, redis, money, ghosts>>
      /\ payoutJobs' = [payoutJobs EXCEPT ![m] = @ + 1]
  BY Subject DEF Inv, EnqueuePayout, At, MatchOps, HandlerOps
<1>2. m \in hist.delivered
  BY <1>1 DEF Inv, Evidence, Backed
<1>3. calls' \in [Calls -> Call] /\ CallsOK' /\ (\A d \in Calls : Backed(calls[d]))'
  BY <1>1, ReturnOnly DEF ghosts
<1> HIDE DEF m
<1>4. /\ payoutJobs' \in [Matches -> Nat]
      /\ \A x \in Matches : payoutJobs'[x] > 0 => x = m \/ payoutJobs[x] > 0
  BY <1>1 DEF TypeOK
<1>5. Evidence' /\ StatusBacked' /\ CustodyChain'
  BY <1>1, <1>2, <1>3, <1>4 DEF Inv, Evidence, StatusBacked, CustodyChain, documents, matchVars,
                                requestVars, redis, money, ghosts
<1>6. TypeOK'
  BY <1>1, <1>3, <1>4 DEF TypeOK, documents, matchVars, requestVars, redis, money, ghosts
<1> QED
  BY <1>3, <1>5, <1>6 DEF Inv

LEMMA ReleaseFundsInv ==
  ASSUME Inv, NEW c \in Calls, ReleaseFunds(c)
  PROVE  Inv'
<1> DEFINE m == calls[c].match
<1>1. /\ TypeOK
      /\ calls[c].op = "payout" /\ calls[c].at = "release"
      /\ m \in Matches /\ RequestOf[m] \in Requests
      /\ Return(c)
      /\ released' = released \union {m}
      /\ UNCHANGED <<documents, holds, redis, queue, ghosts>>
  BY Subject, RequestOfType DEF Inv, ReleaseFunds, At, MatchOps, HandlerOps
<1>2. m \in hist.delivered
  BY <1>1 DEF Inv, Evidence, Backed
<1>3. calls' \in [Calls -> Call] /\ CallsOK' /\ (\A d \in Calls : Backed(calls[d]))'
  BY <1>1, ReturnOnly DEF ghosts
<1>4. escrowHeld' \in [Requests -> Int]
  BY <1>1 DEF ReleaseFunds, TypeOK
<1> HIDE DEF m
<1>5. Evidence' /\ StatusBacked' /\ CustodyChain'
  BY <1>1, <1>2, <1>3 DEF Inv, Evidence, StatusBacked, CustodyChain, documents, matchVars,
                          requestVars, redis, queue, ghosts
<1>6. TypeOK'
  BY <1>1, <1>3, <1>4 DEF TypeOK, documents, matchVars, requestVars, redis, queue, ghosts
<1> QED
  BY <1>3, <1>5, <1>6 DEF Inv

-----------------------------------------------------------------------------
(* Proposals, the payout queue, Redis expiry and calls that end early.       *)

LEMMA ProposeInv ==
  ASSUME Inv, NEW m \in Matches, Propose(m)
  PROVE  Inv'
<1>1. /\ TypeOK /\ RequestOf[m] \in Requests
      /\ UNCHANGED <<pickupVerified, deliveryVerified, paymentStatus, requestMatch, tripStatus,
                     calls, redis, money, queue, ghosts>>
  BY RequestOfType DEF Inv, Propose
<1>2. /\ matchStatus' = [matchStatus EXCEPT ![m] = "proposed"]
      /\ matchStatus' \in [Matches -> MatchStatuses \union {"absent"}]
      /\ requestStatus' \in [Requests -> RequestStatuses]
  BY <1>1 DEF Propose, TypeOK, MatchStatuses, RequestStatuses
<1>3. CallsOK' /\ (\A d \in Calls : Backed(calls[d]))'
  BY <1>1 DEF Inv, CallsOK, WellFormed, Evidence, Backed, ghosts
<1>4. Evidence' /\ StatusBacked' /\ CustodyChain'
  BY <1>1, <1>2, <1>3 DEF Inv, TypeOK, Evidence, StatusBacked, CustodyChain, redis, money, queue, ghosts
<1>5. TypeOK'
  BY <1>1, <1>2 DEF TypeOK, redis, money, queue, ghosts
<1> QED
  BY <1>3, <1>4, <1>5 DEF Inv

LEMMA ExpireInv ==
  ASSUME Inv,
         \/ \E m \in Matches : LockExpire(m)
         \/ \E k \in CodeKinds, m \in Matches : CodeExpire(k, m)
  PROVE  Inv'
<1>1. /\ TypeOK
      /\ UNCHANGED <<documents, calls, money, queue, ghosts>>
  BY DEF Inv, LockExpire, CodeExpire
<1>2. /\ codes' \in [CodeKinds -> SUBSET Matches]
      /\ codes'["pickup"] \subseteq codes["pickup"]
      /\ codes'["delivery"] \subseteq codes["delivery"]
      /\ acceptLock' \in [Matches -> Calls \union {None, Crashed}]
  BY <1>1 DEF LockExpire, CodeExpire, TypeOK, CodeKinds
<1>3. CallsOK' /\ (\A d \in Calls : Backed(calls[d]))'
  BY <1>1 DEF Inv, CallsOK, WellFormed, Evidence, Backed, ghosts
<1>4. Evidence' /\ StatusBacked' /\ CustodyChain'
  BY <1>1, <1>2, <1>3 DEF Inv, Evidence, StatusBacked, CustodyChain, documents, matchVars,
                          requestVars, money, queue, ghosts
<1>5. TypeOK'
  BY <1>1, <1>2 DEF TypeOK, documents, matchVars, requestVars, money, queue, ghosts
<1> QED
  BY <1>3, <1>4, <1>5 DEF Inv

LEMMA PayoutTakeInv ==
  ASSUME Inv, NEW c \in Calls, NEW m \in Matches, PayoutTake(c, m)
  PROVE  Inv'
<1>1. /\ TypeOK /\ CallsOK
      /\ payoutJobs[m] > 0
      /\ UNCHANGED <<documents, failedJobs, redis, money, ghosts>>
  BY DEF Inv, PayoutTake
<1>2. /\ payoutJobs' \in [Matches -> Nat]
      /\ \A x \in Matches : payoutJobs'[x] > 0 => payoutJobs[x] > 0
  BY <1>1 DEF PayoutTake, TypeOK
<1>3. calls' \in [Calls -> Call] /\ CallsOK' /\ (\A d \in Calls : Backed(calls[d]))'
  <2>1. CASE matchStatus[m] = "disputed"
    <3>1. calls' = calls
      BY <2>1 DEF PayoutTake
    <3> QED
      BY <1>1, <3>1 DEF Inv, TypeOK, CallsOK, WellFormed, Evidence, Backed, ghosts
  <2>2. CASE matchStatus[m] # "disputed"
    <3>1. Begin(c, "payout", m, "release", "delivered", NotRead)
      BY <2>2 DEF PayoutTake
    <3>2. NotRead \in Document
      BY DEF NotRead, Document, RequestStatuses, PaymentStatuses
    <3>3. /\ calls' \in [Calls -> Call] /\ CallsOK'
          /\ calls'[c] = [op |-> "payout", match |-> m, request |-> RequestOf[m], at |-> "release",
                          target |-> "delivered", seen |-> NotRead]
          /\ \A d \in Calls \ {c} : calls'[d] = calls[d]
      <4>1. /\ "payout" \in MatchOps /\ "release" \in Steps /\ "delivered" \in MatchStatuses
            /\ "release" \in StepsOf("payout") /\ "delivered" \in TargetsOf("payout")
        BY DEF MatchOps, HandlerOps, Steps, MatchStatuses, StepsOf, TargetsOf
      <4> QED
        BY <1>1, <3>1, <3>2, <4>1, BeginCall
    <3>4. Backed(calls'[c])
      BY <1>1, <3>3 DEF Inv, Evidence, Backed
    <3> QED
      BY <1>1, <3>3, <3>4 DEF Inv, Evidence, Backed, ghosts
  <2> QED
    BY <2>1, <2>2
<1>4. Evidence' /\ StatusBacked' /\ CustodyChain'
  BY <1>1, <1>2, <1>3 DEF Inv, Evidence, StatusBacked, CustodyChain, documents, matchVars,
                          requestVars, redis, money, ghosts
<1>5. TypeOK'
  BY <1>1, <1>2, <1>3 DEF TypeOK, documents, matchVars, requestVars, redis, money, ghosts
<1> QED
  BY <1>3, <1>4, <1>5 DEF Inv

LEMMA EndsEarlyInv ==
  ASSUME Inv, NEW c \in Calls, HandlerCrash(c) \/ WorkerCrash(c) \/ WorkerThrow(c)
  PROVE  Inv'
<1> USE DEF EndsEarly
<1>1. /\ TypeOK /\ CallsOK /\ Return(c)
      /\ crashes' = crashes + 1
      /\ UNCHANGED <<documents, codes, hist, money>>
  BY DEF Inv, HandlerCrash, WorkerCrash, WorkerThrow, redis
<1>2. calls' \in [Calls -> Call] /\ CallsOK' /\ (\A d \in Calls : Backed(calls[d]))'
  BY <1>1, ReturnOnly
<1>3. /\ acceptLock' \in [Matches -> Calls \union {None, Crashed}]
      /\ payoutJobs' \in [Matches -> Nat]
      /\ \A m \in Matches : payoutJobs'[m] > 0 => m \in hist.delivered
      /\ failedJobs' \subseteq Matches
  <2>1. CASE HandlerCrash(c)
    BY <1>1, <2>1 DEF HandlerCrash, Inv, TypeOK, Evidence, queue
  <2>2. CASE WorkerCrash(c) \/ WorkerThrow(c)
    <3>1. calls[c].op = "payout" /\ calls[c].match \in Matches /\ calls[c].match \in hist.delivered
      BY <2>2, Subject DEF WorkerCrash, WorkerThrow, Inv, Evidence, Backed, MatchOps, HandlerOps
    <3> QED
      BY <1>1, <2>2, <3>1 DEF WorkerCrash, WorkerThrow, Inv, TypeOK, Evidence, redis
  <2> QED
    BY <2>1, <2>2
<1>4. Evidence' /\ StatusBacked' /\ CustodyChain'
  BY <1>1, <1>2, <1>3 DEF Inv, Evidence, StatusBacked, CustodyChain, documents, matchVars,
                          requestVars, money
<1>5. TypeOK'
  BY <1>1, <1>2, <1>3 DEF TypeOK, documents, matchVars, requestVars, money
<1> QED
  BY <1>2, <1>4, <1>5 DEF Inv

-----------------------------------------------------------------------------
(* The invariant, and what it gives.                                         *)

LEMMA InitInv == Init => Inv
<1> SUFFICES ASSUME Init PROVE Inv
  OBVIOUS
<1>1. Idle \in Call /\ WellFormed(Idle)
  <2>1. Idle \in Call
    BY DEF Call, Idle, NotRead, Document, Steps, MatchStatuses, RequestStatuses, PaymentStatuses
  <2>2. WellFormed(Idle)
    BY DEF WellFormed, Idle, StepsOf, TargetsOf, MatchOps, HandlerOps, MatchStatuses
  <2> QED
    BY <2>1, <2>2
<1> USE DEF Init
<1>2. TypeOK
  BY <1>1 DEF TypeOK, RequestStatuses, PaymentStatuses, CodeKinds
<1>3. CallsOK
  BY <1>1 DEF CallsOK
<1>4. Evidence
  BY IdleBacked DEF Evidence, CodeKinds
<1>5. StatusBacked /\ CustodyChain
  BY DEF StatusBacked, CustodyChain
<1> QED
  BY <1>2, <1>3, <1>4, <1>5 DEF Inv

LEMMA StutterInv ==
  ASSUME Inv, UNCHANGED vars
  PROVE  Inv'
<1>1. TypeOK'
  BY DEF Inv, TypeOK, vars, documents, matchVars, requestVars, redis, money, queue, ghosts
<1>2. CallsOK' /\ (\A d \in Calls : Backed(calls[d]))'
  BY DEF Inv, CallsOK, WellFormed, Evidence, Backed, vars, ghosts
<1>3. Evidence' /\ StatusBacked' /\ CustodyChain'
  BY <1>2 DEF Inv, Evidence, StatusBacked, CustodyChain, vars, documents, matchVars, requestVars, redis, money,
              queue, ghosts
<1> QED
  BY <1>1, <1>2, <1>3 DEF Inv

LEMMA NextInv == Inv /\ [Next]_vars => Inv'
<1> SUFFICES ASSUME Inv, [Next]_vars PROVE Inv'
  OBVIOUS
<1>1. ASSUME NEW m \in Matches, Propose(m) PROVE Inv'
  BY <1>1, ProposeInv
<1>2. ASSUME NEW c \in Calls, Step(c) PROVE Inv'
  <2>1. CASE SaveStatus(c) \/ ProjectStatus(c)
    BY <2>1, SaveStatusInv, ProjectStatusInv
  <2>2. CASE \/ AcceptCheck(c) \/ AcceptUnlock(c) \/ ConfirmLink(c) \/ FindHold(c)
             \/ HoldFunds(c) \/ CancelRefund(c) \/ VerifyFail(c) \/ VerifyStamp(c)
             \/ WriteRequest(c) \/ CountTrip(c) \/ CompleteTrip(c) \/ SlaReopen(c)
             \/ PayReject(c)
    BY <2>2, QuietStepInv
  <2>3. CASE ConfirmReadRequest(c) \/ PaySave(c) \/ CancelSave(c)
    BY <2>3, ConfirmReadRequestInv, PaySaveInv, CancelSaveInv
  <2>4. CASE CancelMatches(c) \/ SlaCancel(c)
    BY <2>4, CancelInv
  <2>5. CASE StoreCode(c) \/ VerifyCount(c) \/ VerifyDelete(c)
    BY <2>5, CodeInv
  <2>6. CASE VerifySucceed(c) \/ StartTrip(c) \/ EnqueuePayout(c) \/ ReleaseFunds(c)
    BY <2>6, VerifySucceedInv, StartTripInv, EnqueuePayoutInv, ReleaseFundsInv
  <2> QED
    BY <1>2, <2>1, <2>2, <2>3, <2>4, <2>5, <2>6 DEF Step
<1>3. ASSUME NEW c \in Calls, Start(c) PROVE Inv'
  BY <1>3, StartInv
<1>4. ASSUME NEW c \in Calls, HandlerCrash(c) \/ WorkerCrash(c) \/ WorkerThrow(c) PROVE Inv'
  BY <1>4, EndsEarlyInv
<1>5. ASSUME NEW c \in Calls, NEW m \in Matches, PayoutTake(c, m) PROVE Inv'
  BY <1>5, PayoutTakeInv
<1>6. CASE \/ \E m \in Matches : LockExpire(m)
           \/ \E k \in CodeKinds, m \in Matches : CodeExpire(k, m)
  BY <1>6, ExpireInv
<1>7. CASE UNCHANGED vars
  BY <1>7, StutterInv
<1> QED
  BY <1>1, <1>2, <1>3, <1>4, <1>5, <1>6, <1>7 DEF Next

\* The evidence behind every call, code and job is never wrong.
THEOREM Invariance == Spec => []Inv
<1>1. Init => Inv
  BY InitInv
<1>2. Inv /\ [Next]_vars => Inv'
  BY NextInv
<1> QED
  BY <1>1, <1>2, PTL DEF Spec

\* Every document, Redis key and call holds what the code can put there.
THEOREM TypeCorrect == Spec => []TypeOK
<1>1. Inv => TypeOK
  BY DEF Inv
<1> QED
  BY <1>1, Invariance, PTL

\* Nothing is picked up unpaid, delivered without pickup, or paid out without
\* delivery: however many handlers overlap, whatever dies or expires.
THEOREM CustodyHolds == Spec => []CustodyChain
<1>1. Inv => CustodyChain
  BY DEF Inv
<1> QED
  BY <1>1, Invariance, PTL

\* No match document claims a payment or a handover that has not happened.
THEOREM StatusHolds == Spec => []StatusBacked
<1>1. Inv => StatusBacked
  BY DEF Inv
<1> QED
  BY <1>1, Invariance, PTL

-----------------------------------------------------------------------------
(* The handlers implement the custody protocol.                              *)

Custodial == <<hist.paid, hist.pickedUp, hist.delivered, released>>

\* Which step of the protocol each action is.
LEMMA StepImplements ==
  ASSUME Inv, Next
  PROVE  Protocol!Next \/ UNCHANGED Custodial
<1> USE DEF Custodial
<1>1. ASSUME NEW m \in Matches, Propose(m) \/ LockExpire(m) PROVE UNCHANGED Custodial
  BY <1>1 DEF Propose, LockExpire, money, ghosts
<1>2. ASSUME NEW c \in Calls, Start(c) PROVE UNCHANGED Custodial
  BY <1>2 DEF Start, AcceptLocked, Reject, Dispute, ConfirmCheck, GeneratePickupCheck,
              GenerateDeliveryCheck, VerifyRead, SlaFind, PayRead, CancelRead, money, ghosts
<1>3. ASSUME NEW c \in Calls, HandlerCrash(c) \/ WorkerCrash(c) \/ WorkerThrow(c)
      PROVE  UNCHANGED Custodial
  BY <1>3 DEF HandlerCrash, WorkerCrash, WorkerThrow, money
<1>4. ASSUME NEW c \in Calls, NEW m \in Matches, PayoutTake(c, m) PROVE UNCHANGED Custodial
  BY <1>4 DEF PayoutTake, money, ghosts
<1>5. ASSUME NEW k \in CodeKinds, NEW m \in Matches, CodeExpire(k, m) PROVE UNCHANGED Custodial
  BY <1>5 DEF CodeExpire, money, ghosts
<1>6. ASSUME NEW c \in Calls, PaySave(c) PROVE Protocol!Next
  <2>1. calls[c].request \in Requests
    BY <1>6, Subject DEF Inv, PaySave, At
  <2>2. Protocol!Pay(calls[c].request)
    BY <1>6, <2>1 DEF PaySave, Protocol!Pay, Inv, TypeOK, money
  <2> QED
    BY <2>1, <2>2 DEF Protocol!Next
<1>7. ASSUME NEW c \in Calls, VerifySucceed(c) PROVE Protocol!Next
  <2> DEFINE m == calls[c].match
  <2>1. /\ calls[c].op \in {"verifyPickup", "verifyDelivery"}
        /\ m \in Matches /\ calls[c].request = RequestOf[m]
        /\ Backed(calls[c])
    BY <1>7, OpsAt, Subject DEF Inv, Evidence, VerifySucceed, MatchOps, HandlerOps
  <2>2. CASE calls[c].op = "verifyPickup"
    <3>1. RequestOf[m] \in hist.paid
      BY <2>1, <2>2 DEF Backed
    <3>2. Protocol!PickUp(m)
      BY <1>7, <2>2, <3>1 DEF VerifySucceed, Protocol!PickUp, Inv, TypeOK, money
    <3> QED
      BY <2>1, <3>2 DEF Protocol!Next
  <2>3. CASE calls[c].op = "verifyDelivery"
    <3>1. m \in hist.pickedUp
      BY <2>1, <2>3 DEF Backed
    <3>2. Protocol!Deliver(m)
      BY <1>7, <2>3, <3>1 DEF VerifySucceed, Protocol!Deliver, Inv, TypeOK, money
    <3> QED
      BY <2>1, <3>2 DEF Protocol!Next
  <2> QED
    BY <2>1, <2>2, <2>3
<1>8. ASSUME NEW c \in Calls, ReleaseFunds(c) PROVE Protocol!Next \/ UNCHANGED Custodial
  <2> DEFINE m == calls[c].match
  <2>1. m \in Matches /\ m \in hist.delivered
    BY <1>8, Subject DEF Inv, Evidence, Backed, ReleaseFunds, At, MatchOps, HandlerOps
  <2>2. CASE m \in released
    BY <1>8, <2>2 DEF ReleaseFunds, ghosts
  <2>3. CASE m \notin released
    <3>1. Protocol!Release(m)
      BY <1>8, <2>1, <2>3 DEF ReleaseFunds, Protocol!Release, ghosts
    <3> QED
      BY <2>1, <3>1 DEF Protocol!Next
  <2> QED
    BY <2>2, <2>3
<1>9. ASSUME NEW c \in Calls, Step(c) PROVE Protocol!Next \/ UNCHANGED Custodial
  <2>1. CASE PaySave(c) \/ VerifySucceed(c) \/ ReleaseFunds(c)
    BY <1>6, <1>7, <1>8, <2>1
  <2>2. CASE \/ SaveStatus(c) \/ ProjectStatus(c) \/ AcceptCheck(c) \/ AcceptUnlock(c)
             \/ ConfirmReadRequest(c) \/ ConfirmLink(c) \/ FindHold(c) \/ HoldFunds(c)
             \/ CancelRefund(c) \/ CancelSave(c) \/ CancelMatches(c) \/ StoreCode(c)
             \/ VerifyCount(c) \/ VerifyFail(c)
    BY <2>2 DEF SaveStatus, ProjectStatus, AcceptCheck, AcceptUnlock, ConfirmReadRequest,
                ConfirmLink, FindHold, HoldFunds, CancelRefund, CancelSave, CancelMatches,
                StoreCode, VerifyCount, VerifyFail, money, ghosts
  <2>3. CASE \/ VerifyDelete(c) \/ VerifyStamp(c) \/ WriteRequest(c) \/ StartTrip(c)
             \/ CountTrip(c) \/ CompleteTrip(c) \/ EnqueuePayout(c)
             \/ SlaCancel(c) \/ SlaReopen(c) \/ PayReject(c)
    BY <2>3 DEF VerifyDelete, VerifyStamp, WriteRequest, StartTrip, CountTrip, CompleteTrip,
                EnqueuePayout, SlaCancel, SlaReopen, PayReject, documents, money, ghosts
  <2> QED
    BY <1>9, <2>1, <2>2, <2>3 DEF Step
<1> QED
  BY <1>1, <1>2, <1>3, <1>4, <1>5, <1>9 DEF Next

\* However the handlers interleave, crash and expire, they only ever take the
\* steps of the custody protocol.
THEOREM Implementation == Spec => ImplementsCustody
<1>1. Init => Protocol!Init
  BY DEF Init, Protocol!Init
<1>2. Inv /\ [Next]_vars => [Protocol!Next]_(Protocol!vars)
  <2> SUFFICES ASSUME Inv, [Next]_vars
               PROVE  Protocol!Next \/ UNCHANGED Protocol!vars
    BY DEF Protocol!vars
  <2>1. CASE Next
    BY <2>1, StepImplements DEF Custodial, Protocol!vars
  <2>2. CASE UNCHANGED vars
    BY <2>2 DEF vars, money, ghosts, Protocol!vars
  <2> QED
    BY <2>1, <2>2
<1> QED
  BY <1>1, <1>2, Invariance, PTL DEF Spec, ImplementsCustody, Protocol!Spec

-----------------------------------------------------------------------------
(* What a step makes of the call that takes it.  The two theorems after this *)
(* are about steps of several calls, and need of each step only this.        *)

Others(c) == \A d \in Calls \ {c} : calls'[d] = calls[d]

Progress(c) ==
    /\ Others(c)
    /\ \/ calls'[c] = Idle
       \/ calls'[c].op = calls[c].op /\ calls'[c].match = calls[c].match

LEMMA CallProgress ==
  ASSUME TypeOK, NEW c \in Calls
  PROVE  /\ \A s \in Steps : Goto(c, s) => Progress(c) /\ calls'[c].at = s
         /\ Return(c) => Progress(c) /\ calls'[c] = Idle
         /\ \A t \in MatchStatuses : Update(c, t) => Progress(c) /\ calls'[c].at = "save"
  BY DEF TypeOK, Call, Goto, Return, Update, Progress, Others

\* Where a running call can go, the search for an earlier hold apart.
Moves(c) ==
    \/ \E s \in Steps \ {"hold", "save"} : Goto(c, s)
    \/ Return(c)
    \/ (Goto(c, "save") /\ calls[c].op # "accept")

LEMMA StepMoves ==
  ASSUME Inv, NEW c \in Calls, Step(c)
  PROVE  \/ Moves(c) \/ FindHold(c) \/ AcceptCheck(c) \/ ConfirmReadRequest(c) \/ StartTrip(c)
<1> USE DEF Moves, Steps
<1>1. CASE ProjectStatus(c)
  <2>1. AfterUpdate(calls[c]) \in Steps \ {"hold", "save"}
    BY DEF AfterUpdate
  <2> QED
    BY <1>1, <2>1 DEF ProjectStatus
<1>2. CASE \/ SaveStatus(c) \/ AcceptUnlock(c) \/ ConfirmLink(c) \/ HoldFunds(c) \/ PaySave(c)
           \/ PayReject(c) \/ CancelRefund(c) \/ CancelSave(c) \/ CancelMatches(c)
  BY <1>2 DEF SaveStatus, AcceptUnlock, ConfirmLink, HoldFunds, AfterHold, PaySave, PayReject,
              CancelRefund, CancelSave, CancelMatches
<1>3. CASE StoreCode(c) \/ VerifyDelete(c)
  <2>1. calls[c].op # "accept"
    BY <1>3, OpsAt DEF Inv, StoreCode, VerifyDelete
  <2> QED
    BY <1>3, <2>1 DEF StoreCode, VerifyDelete
<1>4. CASE \/ VerifyCount(c) \/ VerifyFail(c) \/ VerifySucceed(c) \/ VerifyStamp(c)
           \/ WriteRequest(c) \/ CountTrip(c) \/ CompleteTrip(c) \/ EnqueuePayout(c)
           \/ ReleaseFunds(c) \/ SlaCancel(c) \/ SlaReopen(c)
  BY <1>4 DEF VerifyCount, VerifyFail, VerifySucceed, VerifyStamp, WriteRequest, CountTrip,
              CompleteTrip, EnqueuePayout, ReleaseFunds, SlaCancel, SlaReopen
<1> QED
  BY <1>1, <1>2, <1>3, <1>4 DEF Step

\* Only two steps lead to the hold and to the acceptance of a match.
LEMMA StepProgress ==
  ASSUME Inv, NEW c \in Calls, Step(c)
  PROVE  /\ Progress(c)
         /\ calls'[c].at = "hold" => FindHold(c)
         /\ calls'[c].op = "accept" /\ calls'[c].at = "save" => AcceptCheck(c)
<1>1. TypeOK /\ calls[c] \in Call
  BY DEF Inv, TypeOK
<1>2. CASE Moves(c)
  <2>1. ASSUME NEW s \in Steps \ {"hold", "save"}, Goto(c, s)
        PROVE  Progress(c) /\ calls'[c].at \notin {"hold", "save"}
    BY <1>1, <2>1, CallProgress
  <2>2. CASE Return(c)
    BY <1>1, <2>2, CallProgress DEF Idle
  <2>3. CASE Goto(c, "save") /\ calls[c].op # "accept"
    BY <1>1, <2>3, CallProgress DEF Progress, Steps, Idle
  <2> QED
    BY <1>2, <2>1, <2>2, <2>3 DEF Moves
<1>3. CASE FindHold(c) \/ AcceptCheck(c)
  <2>1. \/ \E s \in Steps : Goto(c, s)
        \/ Return(c)
    BY <1>3 DEF FindHold, AfterHold, AcceptCheck, Steps
  <2>2. FindHold(c) => calls'[c].op # "accept"
    BY <1>1, <2>1, CallProgress, HoldSubject DEF FindHold, Progress, Idle
  <2>3. AcceptCheck(c) => calls'[c].at # "hold"
    BY <1>1, CallProgress DEF AcceptCheck, Steps
  <2> QED
    BY <1>1, <1>3, <2>1, <2>2, <2>3, CallProgress
<1>4. CASE ConfirmReadRequest(c)
  <2>1. /\ Others(c)
        /\ calls'[c].op = "confirm" /\ calls'[c].match = calls[c].match
        /\ calls'[c].at = "save" /\ calls[c].op = "confirm"
    BY <1>1, <1>4 DEF ConfirmReadRequest, At, TypeOK, Call, Others
  <2> QED
    BY <2>1 DEF Progress
<1>5. CASE StartTrip(c)
  <2>1. /\ Progress(c) /\ calls'[c].at = "save"
        /\ calls[c].op = "verifyPickup"
    BY <1>1, <1>5, CallProgress DEF StartTrip, At, MatchStatuses
  <2> QED
    BY <2>1 DEF Progress, Idle
<1> QED
  BY <1>2, <1>3, <1>4, <1>5, StepMoves

\* Which steps write the match status, the lock and the hold.
LEMMA StepWrites ==
  ASSUME Inv, NEW c \in Calls, Step(c)
  PROVE  /\ SaveStatus(c) \/ \A m \in Matches : matchStatus'[m] \in {matchStatus[m], "cancelled"}
         /\ AcceptUnlock(c) \/ UNCHANGED acceptLock
         /\ HoldFunds(c) \/ UNCHANGED holds
<1> USE DEF documents, matchVars, redis, money
<1>1. CASE \/ ProjectStatus(c) \/ AcceptCheck(c) \/ ConfirmReadRequest(c) \/ ConfirmLink(c)
           \/ FindHold(c) \/ PaySave(c) \/ PayReject(c) \/ CancelRefund(c) \/ CancelSave(c)
           \/ StoreCode(c) \/ VerifyCount(c) \/ VerifyFail(c) \/ VerifySucceed(c)
  BY <1>1 DEF ProjectStatus, AcceptCheck, ConfirmReadRequest, ConfirmLink, FindHold, PaySave,
              PayReject, CancelRefund, CancelSave, StoreCode, VerifyCount, VerifyFail,
              VerifySucceed
<1>2. CASE \/ VerifyDelete(c) \/ VerifyStamp(c) \/ WriteRequest(c) \/ StartTrip(c)
           \/ CountTrip(c) \/ CompleteTrip(c) \/ EnqueuePayout(c) \/ ReleaseFunds(c)
           \/ SlaReopen(c)
  BY <1>2 DEF VerifyDelete, VerifyStamp, WriteRequest, StartTrip, CountTrip, CompleteTrip,
              EnqueuePayout, ReleaseFunds, SlaReopen
<1>3. CASE SaveStatus(c) \/ AcceptUnlock(c) \/ HoldFunds(c)
  BY <1>3 DEF SaveStatus, AcceptUnlock, HoldFunds
<1>4. CASE CancelMatches(c)
  BY <1>4 DEF CancelMatches
<1>5. CASE SlaCancel(c)
  BY <1>5 DEF SlaCancel, Inv, TypeOK
<1> QED
  BY <1>1, <1>2, <1>3, <1>4, <1>5 DEF Step

\* A handler that is called is not a worker, and it begins neither at the hold
\* nor, if it accepts, past the check; it confirms an accepted match only.
LEMMA StartProgress ==
  ASSUME Inv, NEW c \in Calls, Start(c)
  PROVE  /\ Others(c)
         /\ c \notin Workers /\ calls[c] = Idle
         /\ calls'[c].at # "hold"
         /\ calls'[c].op = "confirm" => matchStatus[calls'[c].match] = "carrier_accepted"
         /\ \/ calls'[c].op # "accept" /\ UNCHANGED acceptLock
            \/ \E m \in Matches : AcceptLocked(c, m) /\ calls'[c].match = m /\ calls'[c].at = "check"
         /\ UNCHANGED <<matchStatus, holds>>
<1> USE DEF documents, matchVars, redis, money, Others
<1>1. TypeOK /\ calls \in [Calls -> Call]
  BY DEF Inv, TypeOK
<1>2. ASSUME NEW m \in Matches,
             \/ AcceptLocked(c, m) \/ Reject(c, m) \/ Dispute(c, m) \/ ConfirmCheck(c, m)
             \/ SlaFind(c, m)
      PROVE  /\ Others(c)
             /\ c \notin Workers /\ calls[c] = Idle
             /\ calls'[c].at # "hold"
             /\ calls'[c].op = "confirm" => matchStatus[calls'[c].match] = "carrier_accepted"
             /\ \/ calls'[c].op # "accept" /\ UNCHANGED acceptLock
                \/ AcceptLocked(c, m) /\ calls'[c].match = m /\ calls'[c].at = "check"
             /\ UNCHANGED <<matchStatus, holds>>
  BY <1>1, <1>2 DEF AcceptLocked, Reject, Dispute, ConfirmCheck, SlaFind, Begin
<1>3. ASSUME NEW m \in Matches,
             \/ GeneratePickupCheck(c, m) \/ GenerateDeliveryCheck(c, m)
             \/ \E o \in {"verifyPickup", "verifyDelivery"} : VerifyRead(c, o, m)
      PROVE  /\ Others(c)
             /\ c \notin Workers /\ calls[c] = Idle
             /\ calls'[c].at # "hold"
             /\ calls'[c].op \notin {"confirm", "accept"}
             /\ UNCHANGED <<matchStatus, holds, acceptLock>>
  BY <1>1, <1>3 DEF GeneratePickupCheck, GenerateDeliveryCheck, VerifyRead, Begin
<1>4. ASSUME NEW r \in Requests, PayRead(c, r) \/ CancelRead(c, r)
      PROVE  /\ Others(c)
             /\ c \notin Workers /\ calls[c] = Idle
             /\ calls'[c].at # "hold"
             /\ calls'[c].op \notin {"confirm", "accept"}
             /\ UNCHANGED <<matchStatus, holds, acceptLock>>
  BY <1>1, <1>4 DEF PayRead, CancelRead, BeginOnRequest
<1> QED
  BY <1>2, <1>3, <1>4 DEF Start

\* A worker that takes a job, and a call that dies.
LEMMA PayoutTakeProgress ==
  ASSUME Inv, NEW c \in Calls, NEW m \in Matches, PayoutTake(c, m)
  PROVE  /\ Others(c)
         /\ c \in Workers
         /\ \/ calls'[c] = calls[c]
            \/ calls'[c].op = "payout" /\ calls'[c].at = "release"
         /\ UNCHANGED <<matchStatus, acceptLock, holds>>
  BY DEF PayoutTake, Begin, Inv, TypeOK, documents, matchVars, redis, money, Others

LEMMA EndsEarlyProgress ==
  ASSUME Inv, NEW c \in Calls, HandlerCrash(c) \/ WorkerCrash(c) \/ WorkerThrow(c)
  PROVE  /\ Others(c)
         /\ calls'[c] = Idle
         /\ UNCHANGED <<matchStatus, holds>>
         /\ \A m \in Matches : acceptLock'[m] # acceptLock[m] => acceptLock[m] = c
<1>1. TypeOK /\ Return(c)
  BY DEF Inv, HandlerCrash, WorkerCrash, WorkerThrow, EndsEarly
<1>2. Others(c) /\ calls'[c] = Idle
  BY <1>1, CallProgress DEF Progress
<1> QED
  BY <1>2 DEF HandlerCrash, WorkerCrash, WorkerThrow, documents, matchVars, redis, money

-----------------------------------------------------------------------------
(* One hold for a match, while handlers run one at a time.  Between the      *)
(* exists query and the hold a call relies on an answer that only another    *)
(* handler could outdate, and workers never hold.                            *)

OneHandler == \A c, d \in Calls \ Workers : c = d

HoldsInv ==
    /\ \A w \in Workers : calls[w].op \in {"none", "payout"}
    /\ \A c \in Calls : calls[c].at = "hold" => holds[MatchToHold(c)] = 0
    /\ HeldOnce

\* Whoever holds, or looks for a hold, is the handler.
LEMMA HolderAlone ==
  ASSUME OneHandler, Inv, HoldsInv, NEW c \in Calls, calls[c].at \in {"findHold", "hold"},
         NEW d \in Calls, calls[d].at \in {"findHold", "hold"}
  PROVE  c = d
<1>1. calls[c].op \in {"confirm", "pay"} /\ calls[d].op \in {"confirm", "pay"}
  BY HoldSubject
<1>2. c \notin Workers /\ d \notin Workers
  BY <1>1 DEF HoldsInv
<1> QED
  BY <1>2 DEF OneHandler

LEMMA WorkersKept ==
  ASSUME Inv, HoldsInv, NEW c \in Calls, Others(c),
         c \in Workers => calls'[c].op \in {"none", "payout"}
  PROVE  \A w \in Workers : calls'[w].op \in {"none", "payout"}
  BY WorkersType DEF HoldsInv, Others

\* A step that makes no hold, and after which no new call is about to make one.
LEMMA NoHoldStep ==
  ASSUME Inv, HoldsInv, NEW c \in Calls, Others(c), UNCHANGED holds,
         c \in Workers => calls'[c].op \in {"none", "payout"},
         calls'[c] = calls[c] \/ calls'[c].at # "hold"
  PROVE  HoldsInv'
<1>1. \A w \in Workers : calls'[w].op \in {"none", "payout"}
  BY WorkersKept
<1>2. ASSUME NEW d \in Calls, calls'[d].at = "hold" PROVE calls'[d] = calls[d]
  BY <1>2 DEF Others
<1> QED
  BY <1>1, <1>2 DEF HoldsInv, HeldOnce, MatchToHold

LEMMA StepHolds ==
  ASSUME OneHandler, Inv, HoldsInv, NEW c \in Calls, Step(c)
  PROVE  HoldsInv'
<1>1. Progress(c) /\ (calls'[c].at = "hold" => FindHold(c)) /\ (HoldFunds(c) \/ UNCHANGED holds)
  BY StepProgress, StepWrites
<1>2. Others(c) /\ (c \in Workers => calls'[c].op \in {"none", "payout"})
  BY <1>1 DEF Progress, HoldsInv, Idle
<1>3. CASE HoldFunds(c)
  <2> DEFINE m == MatchToHold(c)
  <2>1. /\ calls[c].at = "hold" /\ m \in Matches /\ holds[m] = 0
        /\ holds' = [holds EXCEPT ![m] = @ + 1]
    BY <1>3, HoldSubject DEF HoldFunds, HoldsInv
  <2>2. calls'[c].at # "hold"
    BY <1>1, <2>1 DEF FindHold
  <2>3. \A d \in Calls : calls'[d].at # "hold"
    BY <1>2, <2>1, <2>2, HolderAlone DEF Others
  <2>4. HeldOnce'
    BY <2>1 DEF Inv, TypeOK, HoldsInv, HeldOnce
  <2>5. \A w \in Workers : calls'[w].op \in {"none", "payout"}
    BY <1>2, WorkersKept
  <2> QED
    BY <2>3, <2>4, <2>5 DEF HoldsInv
<1>4. CASE UNCHANGED holds /\ calls'[c].at # "hold"
  BY <1>2, <1>4, NoHoldStep
<1>5. CASE UNCHANGED holds /\ calls'[c].at = "hold"
  <2>1. FindHold(c) /\ calls[c].at = "findHold"
    BY <1>1, <1>5 DEF FindHold
  <2>2. holds[MatchToHold(c)] = 0 /\ Goto(c, "hold")
    <3>1. CASE holds[MatchToHold(c)] = 0
      BY <2>1, <3>1 DEF FindHold
    <3>2. CASE holds[MatchToHold(c)] # 0
      <4>1. Return(c) \/ Goto(c, "link")
        BY <2>1, <3>2 DEF FindHold, AfterHold
      <4>2. calls'[c].at # "hold"
        BY <4>1, CallProgress DEF Inv, Idle, Steps
      <4> QED
        BY <1>5, <4>2
    <3> QED
      BY <3>1, <3>2
  <2>3. MatchToHold(c)' = MatchToHold(c)
    BY <2>2 DEF Inv, TypeOK, Call, Goto, MatchToHold
  <2>4. \A d \in Calls : calls'[d].at = "hold" => d = c
    BY <1>2, <2>1, HolderAlone DEF Others
  <2>5. \A w \in Workers : calls'[w].op \in {"none", "payout"}
    BY <1>2, WorkersKept
  <2> QED
    BY <1>5, <2>2, <2>3, <2>4, <2>5 DEF HoldsInv, HeldOnce
<1> QED
  BY <1>1, <1>3, <1>4, <1>5

LEMMA NextHolds ==
  ASSUME OneHandler, Inv, HoldsInv, [Next]_vars
  PROVE  HoldsInv'
<1>1. ASSUME NEW c \in Calls, Step(c) PROVE HoldsInv'
  BY <1>1, StepHolds
<1>2. ASSUME NEW c \in Calls, Start(c) PROVE HoldsInv'
  BY <1>2, StartProgress, NoHoldStep
<1>3. ASSUME NEW c \in Calls, HandlerCrash(c) \/ WorkerCrash(c) \/ WorkerThrow(c) PROVE HoldsInv'
  BY <1>3, EndsEarlyProgress, NoHoldStep DEF Idle
<1>4. ASSUME NEW c \in Calls, NEW m \in Matches, PayoutTake(c, m) PROVE HoldsInv'
  <2>1. calls'[c] = calls[c] \/ (calls'[c].op = "payout" /\ calls'[c].at = "release")
    BY <1>4, PayoutTakeProgress
  <2>2. c \in Workers => calls'[c].op \in {"none", "payout"}
    BY <2>1 DEF HoldsInv
  <2> QED
    BY <1>4, <2>1, <2>2, PayoutTakeProgress, NoHoldStep
<1>5. CASE \/ \E m \in Matches : Propose(m) \/ LockExpire(m)
           \/ \E k \in CodeKinds, m \in Matches : CodeExpire(k, m)
           \/ UNCHANGED vars
  <2>1. UNCHANGED <<calls, holds>>
    BY <1>5 DEF Propose, LockExpire, CodeExpire, vars, money
  <2> QED
    BY <2>1 DEF HoldsInv, HeldOnce, MatchToHold
<1> QED
  BY <1>1, <1>2, <1>3, <1>4, <1>5 DEF Next

\* However many workers and matches there are, and whatever dies on the way: while
\* one handler runs at a time, no match is held for twice.  The assumption cannot
\* be left out: the exists query is not part of the hold's transaction, and two
\* handlers that overlap between the two both hold.
THEOREM HeldAtMostOnce ==
  ASSUME OneHandler
  PROVE  Spec => []HeldOnce
<1>1. Init => HoldsInv
  BY WorkersType DEF Init, HoldsInv, HeldOnce, Idle
<1>2. Inv /\ HoldsInv /\ [Next]_vars => HoldsInv'
  BY NextHolds
<1>3. HoldsInv => HeldOnce
  BY DEF HoldsInv
<1> QED
  BY <1>1, <1>2, <1>3, Invariance, PTL DEF Spec

-----------------------------------------------------------------------------
(* The lock of carrierAccept.  A second acceptance can only follow from a    *)
(* status read before the first one was confirmed, and the lock keeps that   *)
(* read and the write it leads to together, as long as it is not lost.       *)

Accepting(c, m)  == calls[c].op = "accept" /\ calls[c].match = m
Confirming(c, m) == calls[c].op = "confirm" /\ calls[c].match = m

AcceptInv ==
    \* an acceptance owns the lock of its match
    /\ \A c \in Calls, m \in Matches : Accepting(c, m) => acceptLock[m] = c
    \* no match is confirmed before it is accepted
    /\ \A c \in Calls, m \in Matches :
          matchStatus[m] \in {"absent", "proposed"} => ~ Confirming(c, m)
    \* nor, from its check to its save, in the middle of an acceptance
    /\ \A c \in Calls, m \in Matches : Accepting(c, m) /\ calls[c].at = "save" =>
          /\ matchStatus[m] \notin {"carrier_accepted", "sender_confirmed", "active"}
          /\ \A d \in Calls : ~ Confirming(d, m)

\* What SaveStatus writes, and who writes the statuses of an accepted match.
LEMMA SaveStatusWrites ==
  ASSUME Inv, NEW c \in Calls, SaveStatus(c)
  PROVE  /\ calls[c].match \in Matches
         /\ \A m \in Matches \ {calls[c].match} : matchStatus'[m] = matchStatus[m]
         /\ matchStatus'[calls[c].match] = calls[c].target
         /\ calls[c].target \notin {"absent", "proposed"}
         /\ calls[c].target = "carrier_accepted" => calls[c].op = "accept"
         /\ calls[c].target \in {"sender_confirmed", "active"} => calls[c].op = "confirm"
         /\ calls[c].at = "save" /\ calls'[c].at = "project"
<1>1. /\ calls[c].op \in {"accept", "reject", "dispute", "confirm", "generatePickup",
                          "verifyPickup", "generateDelivery", "verifyDelivery"}
      /\ calls[c].match \in Matches
      /\ calls[c].target \in TargetsOf(calls[c].op)
  BY OpsAt, Subject DEF SaveStatus, Inv, MatchOps, HandlerOps, CallsOK, WellFormed
<1>2. /\ calls[c].target \notin {"absent", "proposed"}
      /\ calls[c].target = "carrier_accepted" => calls[c].op = "accept"
      /\ calls[c].target \in {"sender_confirmed", "active"} => calls[c].op = "confirm"
  BY <1>1 DEF TargetsOf
<1>3. calls'[c].at = "project"
  BY CallProgress DEF SaveStatus, Inv, Steps
<1> QED
  BY <1>1, <1>2, <1>3 DEF SaveStatus, Inv, TypeOK

\* A step that leaves the locks alone, starts no acceptance and no confirmation,
\* and writes no status of an accepted match.
LEMMA PlainStep ==
  ASSUME AcceptInv, NEW c \in Calls, Others(c),
         \/ calls'[c].op \notin {"accept", "confirm"}
         \/ /\ calls'[c].op = calls[c].op /\ calls'[c].match = calls[c].match
            /\ calls'[c].at = "save" /\ calls'[c].op = "accept" => calls[c].at = "save",
         \A m \in Matches, d \in Calls : Accepting(d, m) /\ d # c => acceptLock'[m] = acceptLock[m],
         \A m \in Matches : Accepting(c, m)' => acceptLock'[m] = acceptLock[m],
         \A m \in Matches :
            /\ matchStatus'[m] \in {"absent", "proposed"} => matchStatus[m] \in {"absent", "proposed"}
            /\ matchStatus'[m] \in {"carrier_accepted", "sender_confirmed", "active"} =>
                  matchStatus[m] \in {"carrier_accepted", "sender_confirmed", "active"}
  PROVE  AcceptInv'
<1>1. ASSUME NEW d \in Calls, NEW m \in Matches, Accepting(d, m)'
      PROVE  Accepting(d, m) /\ acceptLock'[m] = acceptLock[m]
  BY <1>1 DEF Accepting, Others
<1>2. ASSUME NEW d \in Calls, NEW m \in Matches, Confirming(d, m)'
      PROVE  Confirming(d, m)
  BY <1>2 DEF Confirming, Others
<1>3. ASSUME NEW d \in Calls, NEW m \in Matches, Accepting(d, m)', calls'[d].at = "save"
      PROVE  calls[d].at = "save"
  BY <1>3 DEF Accepting, Others
<1> QED
  BY <1>1, <1>2, <1>3 DEF AcceptInv

LEMMA StepAccepts ==
  ASSUME Inv, AcceptInv, NEW c \in Calls, Step(c)
  PROVE  AcceptInv'
<1>1. /\ Others(c)
      /\ \/ calls'[c].op \notin {"accept", "confirm"}
         \/ calls'[c].op = calls[c].op /\ calls'[c].match = calls[c].match
      /\ calls'[c].op = "accept" /\ calls'[c].at = "save" => AcceptCheck(c)
  BY StepProgress DEF Progress, Idle
<1>2. CASE SaveStatus(c)
  <2> DEFINE n == calls[c].match  t == calls[c].target
  <2>0. Inv /\ SaveStatus(c)
    BY <1>2
  <2>1. /\ n \in Matches
        /\ \A m \in Matches \ {n} : matchStatus'[m] = matchStatus[m]
        /\ matchStatus'[n] = t
        /\ t \notin {"absent", "proposed"}
        /\ t = "carrier_accepted" => Accepting(c, n)
        /\ t \in {"sender_confirmed", "active"} => Confirming(c, n)
        /\ calls[c].at = "save" /\ calls'[c].at = "project"
        /\ acceptLock' = acceptLock
    BY <2>0, SaveStatusWrites DEF SaveStatus, redis, Accepting, Confirming
  <2> HIDE DEF n, t
  <2>2. ASSUME NEW d \in Calls, NEW m \in Matches, Accepting(d, m)'
        PROVE  Accepting(d, m)
    BY <1>1, <2>2 DEF Accepting, Others
  <2>3. ASSUME NEW d \in Calls, NEW m \in Matches, Confirming(d, m)'
        PROVE  Confirming(d, m)
    BY <1>1, <2>3 DEF Confirming, Others
  <2>4. ASSUME NEW d \in Calls, NEW m \in Matches, Accepting(d, m)', calls'[d].at = "save"
        PROVE  d # c /\ calls[d].at = "save" /\ Accepting(d, m)
    BY <1>1, <2>1, <2>2, <2>4 DEF Others
  <2>5. ASSUME NEW d \in Calls, NEW m \in Matches, Accepting(d, m)', calls'[d].at = "save"
        PROVE  /\ matchStatus'[m] \notin {"carrier_accepted", "sender_confirmed", "active"}
               /\ \A e \in Calls : ~ Confirming(e, m)'
    <3>1. /\ d # c /\ acceptLock[m] = d
          /\ matchStatus[m] \notin {"carrier_accepted", "sender_confirmed", "active"}
          /\ \A e \in Calls : ~ Confirming(e, m)
      BY <2>4, <2>5 DEF AcceptInv
    <3>2. ~ Accepting(c, m) /\ ~ Confirming(c, m)
      BY <3>1 DEF AcceptInv
    <3>3. m = n => t \notin {"carrier_accepted", "sender_confirmed", "active"}
      BY <2>1, <3>2
    <3> QED
      BY <2>1, <2>3, <3>1, <3>3
  <2>6. \A d \in Calls, m \in Matches : Accepting(d, m)' => acceptLock'[m] = d
    BY <2>1, <2>2 DEF AcceptInv
  <2>7. ASSUME NEW d \in Calls, NEW m \in Matches, matchStatus'[m] \in {"absent", "proposed"}
        PROVE  ~ Confirming(d, m)'
    <3>1. matchStatus[m] \in {"absent", "proposed"}
      BY <2>1, <2>7
    <3> QED
      BY <2>3, <3>1 DEF AcceptInv
  <2> QED
    BY <2>5, <2>6, <2>7 DEF AcceptInv
<1>3. CASE AcceptCheck(c)
  <2> DEFINE n == calls[c].match
  <2>1. /\ Accepting(c, n) /\ n \in Matches
        /\ UNCHANGED <<matchStatus, acceptLock>>
        /\ Goto(c, "save") \/ Goto(c, "unlock")
        /\ Goto(c, "save") \/ calls'[c].at # "save"
    BY <1>3, Subject, CallProgress
       DEF AcceptCheck, At, Inv, Accepting, MatchOps, HandlerOps, documents, matchVars, redis, Steps
  <2>2. CASE calls'[c].at # "save"
    BY <1>1, <2>1, <2>2, PlainStep DEF Accepting
  <2>3. CASE calls'[c].at = "save"
    <3>1. matchStatus[n] = "proposed"
      BY <1>3, <2>3, CallProgress DEF AcceptCheck, Inv, Steps
    <3>2. ASSUME NEW d \in Calls, NEW m \in Matches, Accepting(d, m)' PROVE Accepting(d, m)
      BY <1>1, <3>2 DEF Accepting, Others
    <3>3. ASSUME NEW d \in Calls, NEW m \in Matches, Confirming(d, m)' PROVE Confirming(d, m)
      BY <1>1, <3>3 DEF Confirming, Others
    <3>4. ASSUME NEW d \in Calls, NEW m \in Matches, Accepting(d, m)', calls'[d].at = "save"
          PROVE  (d = c /\ m = n) \/ (Accepting(d, m) /\ calls[d].at = "save")
      BY <1>1, <2>1, <3>2, <3>4 DEF Accepting, Others
    <3> HIDE DEF n
    <3> QED
      BY <2>1, <3>1, <3>2, <3>3, <3>4 DEF AcceptInv
  <2> QED
    BY <2>2, <2>3
<1>4. CASE AcceptUnlock(c)
  <2> DEFINE n == calls[c].match
  <2>1. /\ n \in Matches /\ Accepting(c, n)
        /\ matchStatus' = matchStatus
        /\ calls'[c] = Idle
        /\ \A m \in Matches : acceptLock'[m] # acceptLock[m] => acceptLock[m] = c
    BY <1>4, Subject, CallProgress
       DEF AcceptUnlock, At, Inv, TypeOK, Accepting, MatchOps, HandlerOps, documents, matchVars
  <2>2. \A m \in Matches, d \in Calls : Accepting(d, m) /\ d # c => acceptLock'[m] = acceptLock[m]
    BY <2>1 DEF AcceptInv
  <2> HIDE DEF n
  <2> QED
    BY <1>1, <2>1, <2>2, PlainStep DEF Accepting, Idle
<1>5. CASE ~ SaveStatus(c) /\ ~ AcceptCheck(c) /\ ~ AcceptUnlock(c)
  <2>1. /\ acceptLock' = acceptLock
        /\ \A m \in Matches : matchStatus'[m] \in {matchStatus[m], "cancelled"}
    BY <1>5, StepWrites
  <2> QED
    BY <1>1, <1>5, <2>1, PlainStep
<1> QED
  BY <1>2, <1>3, <1>4, <1>5

LEMMA StartAccepts ==
  ASSUME Inv, AcceptInv, NEW c \in Calls, Start(c)
  PROVE  AcceptInv'
<1>1. /\ Others(c) /\ calls[c] = Idle
      /\ calls'[c].op = "confirm" => matchStatus[calls'[c].match] = "carrier_accepted"
      /\ \/ calls'[c].op # "accept" /\ UNCHANGED acceptLock
         \/ \E m \in Matches : AcceptLocked(c, m) /\ calls'[c].match = m /\ calls'[c].at = "check"
      /\ UNCHANGED matchStatus
  BY StartProgress
<1>2. ASSUME NEW d \in Calls, NEW m \in Matches, Confirming(d, m)'
      PROVE  Confirming(d, m) \/ (d = c /\ matchStatus[m] = "carrier_accepted")
  BY <1>1, <1>2 DEF Confirming, Others
<1>3. ASSUME NEW d \in Calls, NEW m \in Matches, Accepting(d, m)', calls'[d].at = "save"
      PROVE  Accepting(d, m) /\ calls[d].at = "save"
  BY <1>1, <1>3 DEF Accepting, Others
<1>4. ASSUME NEW d \in Calls, NEW m \in Matches, Accepting(d, m)' PROVE acceptLock'[m] = d
  <2>1. CASE UNCHANGED acceptLock /\ calls'[c].op # "accept"
    BY <1>1, <1>4, <2>1 DEF Accepting, Others, AcceptInv
  <2>2. ASSUME NEW n \in Matches, AcceptLocked(c, n), calls'[c].match = n
        PROVE  acceptLock'[m] = d
    <3>1. /\ acceptLock[n] = None
          /\ acceptLock' = [acceptLock EXCEPT ![n] = c]
      BY <2>2 DEF AcceptLocked
    <3>2. CASE d = c
      BY <1>4, <2>2, <3>1, <3>2 DEF Accepting, Inv, TypeOK
    <3>3. CASE d # c
      <4>1. Accepting(d, m) /\ acceptLock[m] = d
        BY <1>1, <1>4, <3>3 DEF Accepting, Others, AcceptInv
      <4>2. m # n
        BY <3>1, <4>1, NoneIsNothing
      <4> QED
        BY <3>1, <4>1, <4>2 DEF Inv, TypeOK
    <3> QED
      BY <3>2, <3>3
  <2> QED
    BY <1>1, <2>1, <2>2
<1>5. ASSUME NEW d \in Calls, NEW m \in Matches, Accepting(d, m)', calls'[d].at = "save"
      PROVE  /\ matchStatus'[m] \notin {"carrier_accepted", "sender_confirmed", "active"}
             /\ \A e \in Calls : ~ Confirming(e, m)'
  BY <1>1, <1>2, <1>3, <1>5 DEF AcceptInv
<1>6. ASSUME NEW d \in Calls, NEW m \in Matches, matchStatus'[m] \in {"absent", "proposed"}
      PROVE  ~ Confirming(d, m)'
  BY <1>1, <1>2, <1>6 DEF AcceptInv
<1> QED
  BY <1>4, <1>5, <1>6 DEF AcceptInv

\* A lock that is not lost is only dropped for a call that has ended.
LEMMA NextAccepts ==
  ASSUME "slowLock" \notin Ops, Inv, AcceptInv, [Next]_vars
  PROVE  AcceptInv'
<1>1. ASSUME NEW c \in Calls, Step(c) PROVE AcceptInv'
  BY <1>1, StepAccepts
<1>2. ASSUME NEW c \in Calls, Start(c) PROVE AcceptInv'
  BY <1>2, StartAccepts
<1>3. ASSUME NEW c \in Calls, HandlerCrash(c) \/ WorkerCrash(c) \/ WorkerThrow(c) PROVE AcceptInv'
  <2>1. /\ Others(c) /\ calls'[c] = Idle
        /\ UNCHANGED matchStatus
        /\ \A m \in Matches : acceptLock'[m] # acceptLock[m] => acceptLock[m] = c
    BY <1>3, EndsEarlyProgress
  <2>2. \A m \in Matches, d \in Calls : Accepting(d, m) /\ d # c => acceptLock'[m] = acceptLock[m]
    BY <2>1 DEF AcceptInv
  <2> QED
    BY <2>1, <2>2, PlainStep DEF Accepting, Idle
<1>4. ASSUME NEW c \in Calls, NEW m \in Matches, PayoutTake(c, m) PROVE AcceptInv'
  <2>1. /\ Others(c) /\ UNCHANGED <<matchStatus, acceptLock>>
        /\ \/ calls'[c] = calls[c]
           \/ calls'[c].op = "payout" /\ calls'[c].at = "release"
    BY <1>4, PayoutTakeProgress
  <2> QED
    BY <2>1, PlainStep
<1>5. ASSUME NEW m \in Matches, Propose(m) PROVE AcceptInv'
  <2>1. /\ UNCHANGED <<calls, acceptLock>>
        /\ matchStatus[m] = "absent"
        /\ matchStatus' = [matchStatus EXCEPT ![m] = "proposed"]
    BY <1>5 DEF Propose, redis
  <2>2. \A x \in Matches : \/ matchStatus'[x] = matchStatus[x]
                           \/ matchStatus[x] = "absent" /\ matchStatus'[x] = "proposed"
    BY <2>1 DEF Inv, TypeOK
  <2> QED
    BY <2>1, <2>2 DEF AcceptInv, Accepting, Confirming
<1>6. ASSUME NEW m \in Matches, LockExpire(m) PROVE AcceptInv'
  <2>1. /\ UNCHANGED <<calls, matchStatus>>
        /\ acceptLock[m] = Crashed
        /\ acceptLock' = [acceptLock EXCEPT ![m] = None]
    BY <1>6 DEF LockExpire, documents, matchVars
  <2>2. \A c \in Calls : ~ Accepting(c, m)
    BY <2>1, NoneIsNothing DEF AcceptInv
  <2> QED
    BY <2>1, <2>2 DEF AcceptInv, Accepting, Confirming, Inv, TypeOK
<1>7. CASE \/ \E k \in CodeKinds, m \in Matches : CodeExpire(k, m)
           \/ UNCHANGED vars
  <2>1. UNCHANGED <<calls, matchStatus, acceptLock>>
    BY <1>7 DEF CodeExpire, vars, documents, matchVars, redis
  <2> QED
    BY <2>1 DEF AcceptInv, Accepting, Confirming
<1> QED
  BY <1>1, <1>2, <1>3, <1>4, <1>5, <1>6, <1>7 DEF Next

\* Who can write that the carrier has accepted.
LEMMA AcceptedBy ==
  ASSUME Inv, AcceptInv, [Next]_vars, NEW m \in Matches,
         matchStatus[m] \in {"sender_confirmed", "active"}
  PROVE  matchStatus'[m] # "carrier_accepted"
<1>1. ASSUME NEW c \in Calls, SaveStatus(c) PROVE matchStatus'[m] # "carrier_accepted"
  <2>1. CASE m = calls[c].match
    <3>1. SUFFICES ASSUME calls[c].target = "carrier_accepted" PROVE FALSE
      BY <1>1, <2>1, SaveStatusWrites
    <3>2. Accepting(c, m) /\ calls[c].at = "save"
      BY <1>1, <2>1, <3>1, SaveStatusWrites DEF Accepting
    <3> QED
      BY <3>2 DEF AcceptInv
  <2>2. CASE m # calls[c].match
    BY <1>1, <2>2, SaveStatusWrites
  <2> QED
    BY <2>1, <2>2
<1>2. ASSUME NEW c \in Calls, Step(c) PROVE matchStatus'[m] # "carrier_accepted"
  BY <1>1, <1>2, StepWrites
<1>3. ASSUME NEW n \in Matches, Propose(n) PROVE matchStatus'[m] # "carrier_accepted"
  BY <1>3 DEF Propose, Inv, TypeOK
<1>4. ASSUME NEW c \in Calls,
             \/ Start(c) \/ HandlerCrash(c) \/ WorkerCrash(c) \/ WorkerThrow(c)
             \/ \E n \in Matches : PayoutTake(c, n)
      PROVE  matchStatus'[m] # "carrier_accepted"
  BY <1>4, StartProgress, EndsEarlyProgress, PayoutTakeProgress
<1>5. CASE \/ \E n \in Matches : LockExpire(n)
           \/ \E k \in CodeKinds, n \in Matches : CodeExpire(k, n)
           \/ UNCHANGED vars
  BY <1>5 DEF LockExpire, CodeExpire, vars, documents, matchVars
<1> QED
  BY <1>2, <1>3, <1>4, <1>5 DEF Next

\* However many handlers overlap and die, a second carrierAccept never takes a
\* confirmed match back, if no lock runs out under a call that still runs.
THEOREM NeverTakenBack ==
  ASSUME "slowLock" \notin Ops
  PROVE  Spec => NoAcceptRegression
<1>1. Init => AcceptInv
  BY DEF Init, AcceptInv, Accepting, Confirming, Idle
<1>2. Inv /\ AcceptInv /\ [Next]_vars => AcceptInv'
  BY NextAccepts
<1>3. Inv /\ AcceptInv /\ [Next]_vars =>
         [\A m \in Matches : matchStatus[m] \in {"sender_confirmed", "active"}
             => matchStatus'[m] # "carrier_accepted"]_vars
  BY AcceptedBy
<1> QED
  BY <1>1, <1>2, <1>3, Invariance, PTL DEF Spec, NoAcceptRegression
=============================================================================
