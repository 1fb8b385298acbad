--------------------------- MODULE MatchLifecycle ---------------------------
(***************************************************************************)
(* The life of a match between a trip and a delivery request: acceptance,  *)
(* confirmation, payment, the two one-time codes, cancellation, dispute,   *)
(* the SLA audit and the payout job.  The Express handlers run             *)
(* concurrently and give up control at every await; one action here is the *)
(* code between two awaits that touch shared state (MongoDB documents, the *)
(* Redis one-time codes and lock, the BullMQ payout queue).                *)
(*                                                                         *)
(* A call is one handler invocation.  Every handler changes a match status *)
(* through updateMatchStatus, so the steps SaveStatus and ProjectStatus    *)
(* are shared, and the call remembers in "op" where it came from.          *)
(***************************************************************************)
EXTENDS Integers

CONSTANTS Calls,      \* what may be running at once: request handlers and
          Workers,    \* payout workers, one per backend process
          Matches, Requests, Trips,
          RequestOf,  \* the delivery request of a match
          TripOf,     \* the trip of a match
          None,       \* no document, no lock owner
          Crashed,    \* a lock owner that no longer runs
          Ops,        \* the operations and faults of the instance
          MaxJobs,    \* bound: payout jobs queued for one match
          MaxDebt,    \* bound: charges an escrow balance may be below zero
          MaxCrashes  \* bound: calls that end early

ASSUME RequestOfType == RequestOf \in [Matches -> Requests]
ASSUME TripOfType    == TripOf \in [Matches -> Trips]
ASSUME WorkersType   == Workers \subseteq Calls
ASSUME NoneIsNothing ==
    /\ None \notin Matches \union Requests \union Calls
    /\ Crashed \notin Calls \union {None}
ASSUME BoundsType == MaxJobs \in Nat /\ MaxDebt \in Nat /\ MaxCrashes \in Nat

MatchStatuses ==
    {"proposed", "carrier_accepted", "sender_confirmed", "active",
     "pickup_pending", "picked_up", "in_transit", "delivery_pending",
     "delivered", "cancelled", "disputed"}

\* "created" is not in the schema's enumeration: the SLA audit writes it.
RequestStatuses ==
    {"pending", "matched", "pickup_otp_sent", "picked_up", "in_transit",
     "delivery_otp_sent", "delivered", "cancelled", "created"}

PaymentStatuses == {"unpaid", "paid", "refunded"}

\* Mutant of DeliveryStatusOf: no default, an unmapped status goes through.
DeliveryStatusUnmapped(s) ==
    CASE s \in {"proposed", "carrier_accepted", "sender_confirmed", "active"} -> "matched"
      [] s = "pickup_pending"   -> "pickup_otp_sent"
      [] s = "delivery_pending" -> "delivery_otp_sent"
      [] OTHER -> s

\* The request status a match status is projected to.
DeliveryStatusOf(s) ==
    CASE s \in {"proposed", "carrier_accepted", "sender_confirmed", "active"} -> "matched"
      [] s = "pickup_pending"   -> "pickup_otp_sent"
      [] s = "delivery_pending" -> "delivery_otp_sent"
      [] s \in {"picked_up", "in_transit", "delivered", "cancelled"} -> s
      [] OTHER -> "pending"

VARIABLES
    matchStatus,      \* Match.status, "absent" before the proposal
    pickupVerified,   \* matches with otp.pickup.verifiedAt
    deliveryVerified, \* matches with otp.delivery.verifiedAt
    requestStatus,    \* DeliveryRequest.status
    paymentStatus,    \* DeliveryRequest.paymentStatus
    requestMatch,     \* DeliveryRequest.match
    tripStatus,       \* Trip.status
    codes,            \* matches with a live one-time code in Redis, per kind
    acceptLock,       \* owner of the Redis lock match:accept:<id>
    holds,            \* escrow_hold ledger rows of a match
    escrowHeld,       \* the request's share of its sender's wallet.escrowHeld, in charges
    payoutJobs,       \* release-payout jobs waiting in BullMQ
    failedJobs,       \* matches with a payout job in BullMQ's failed set
    released,         \* matches with a completed carrier_payout row
    calls,            \* the running handler invocations
    crashes,          \* how many have ended early
    hist              \* history: what has really happened to the parcel

matchVars   == <<matchStatus, pickupVerified, deliveryVerified>>
requestVars == <<requestStatus, paymentStatus, requestMatch>>
documents   == <<matchVars, requestVars, tripStatus>>
redis       == <<codes, acceptLock>>
money       == <<holds, escrowHeld, released>>
queue       == <<payoutJobs, failedJobs>>
ghosts      == <<crashes, hist>>
vars        == <<documents, redis, money, queue, calls, ghosts>>

-----------------------------------------------------------------------------
(* Calls *)

HandlerOps == {"accept", "reject", "confirm", "generatePickup", "verifyPickup",
               "generateDelivery", "verifyDelivery", "dispute", "pay", "cancel",
               "payout", "sla"}

Steps == {"idle", "check", "unlock", "save", "project", "readRequest", "findHold",
          "hold", "link", "code", "count", "compare", "delete", "stamp", "request",
          "trip", "countTrip", "completeTrip", "enqueue", "payment", "refund",
          "cancelMatches", "release", "reopen"}

\* A DeliveryRequest as a handler has read it.
Document == [status  : RequestStatuses,
             payment : PaymentStatuses,
             match   : Matches \union {None}]

NotRead == [status |-> "pending", payment |-> "unpaid", match |-> None]

ReadRequest(r) == [status  |-> requestStatus[r],
                   payment |-> paymentStatus[r],
                   match   |-> requestMatch[r]]

Call == [op      : HandlerOps \union {"none"},
         match   : Matches \union {None},
         request : Requests \union {None},
         at      : Steps,
         target  : MatchStatuses,   \* the status updateMatchStatus is given
         seen    : Document]        \* the request document in memory

Idle == [op |-> "none", match |-> None, request |-> None, at |-> "idle",
         target |-> "proposed", seen |-> NotRead]

\* A call on match m begins and goes on at step s.
Begin(c, o, m, s, t, doc) ==
    /\ calls[c] = Idle
    /\ o \in Ops
    /\ c \in Workers <=> o = "payout"
    /\ matchStatus[m] # "absent"
    /\ calls' = [calls EXCEPT ![c] =
          [op |-> o, match |-> m, request |-> RequestOf[m], at |-> s,
           target |-> t, seen |-> doc]]

\* A call on request r begins, having read the request document.
BeginOnRequest(c, o, r, s) ==
    /\ calls[c] = Idle
    /\ o \in Ops
    /\ c \notin Workers
    /\ calls' = [calls EXCEPT ![c] =
          [op |-> o, match |-> None, request |-> r, at |-> s,
           target |-> "proposed", seen |-> ReadRequest(r)]]

At(c, o, s) == calls[c].op = o /\ calls[c].at = s

Goto(c, s)   == calls' = [calls EXCEPT ![c].at = s]
Update(c, t) == calls' = [calls EXCEPT ![c].at = "save", ![c].target = t]
Return(c)    == calls' = [calls EXCEPT ![c] = Idle]

-----------------------------------------------------------------------------
(* updateMatchStatus.  It does not look at the status it replaces.  Mongoose *)
(* skips the write when the status it read is already the new one, which has *)
(* the effect of this action taken at the time of that read.                 *)

SaveStatus(c) ==
    /\ calls[c].at = "save"
    /\ matchStatus' = [matchStatus EXCEPT ![calls[c].match] = calls[c].target]
    /\ Goto(c, "project")
    /\ UNCHANGED <<requestVars, pickupVerified, deliveryVerified, tripStatus, redis,
                   money, queue, ghosts>>

\* Where each handler goes on after updateMatchStatus.
AfterUpdate(call) ==
    CASE call.op = "accept" -> "unlock"
      [] call.op = "confirm" -> IF call.target = "active" THEN "findHold" ELSE "link"
      [] call.op = "verifyPickup" ->
            IF call.target = "picked_up" THEN "stamp" ELSE "idle"
      [] call.op \in {"generatePickup", "generateDelivery"} -> "request"
      [] call.op = "verifyDelivery" -> "stamp"
      [] OTHER -> "idle"

ProjectStatus(c) ==
    /\ calls[c].at = "project"
    /\ requestStatus' = [requestStatus EXCEPT ![calls[c].request] =
                            DeliveryStatusOf(calls[c].target)]
    /\ LET next == AfterUpdate(calls[c])
       IN  IF next = "idle" THEN Return(c) ELSE Goto(c, next)
    /\ UNCHANGED <<matchVars, paymentStatus, requestMatch, tripStatus, redis, money,
                   queue, ghosts>>

-----------------------------------------------------------------------------
(* A proposal is one MongoDB transaction: the match is inserted and the      *)
(* request marked, or (a duplicate key) neither.  Neither the request's nor  *)
(* the trip's status is looked at.                                           *)

Propose(m) ==
    /\ matchStatus[m] = "absent"
    /\ matchStatus' = [matchStatus EXCEPT ![m] = "proposed"]
    /\ requestStatus' = [requestStatus EXCEPT ![RequestOf[m]] = "matched"]
    /\ UNCHANGED <<pickupVerified, deliveryVerified, paymentStatus, requestMatch,
                   tripStatus, calls, redis, money, queue, ghosts>>

-----------------------------------------------------------------------------
(* carrierAccept: the only handler that takes the Redis lock.                *)

\* Mutant of AcceptLocked: the outcome of acquireLock is ignored.
AcceptUnlocked(c, m) ==
    /\ Begin(c, "accept", m, "check", "carrier_accepted", NotRead)
    /\ acceptLock' = [acceptLock EXCEPT ![m] = c]
    /\ UNCHANGED <<documents, codes, money, queue, ghosts>>

AcceptLocked(c, m) ==
    /\ acceptLock[m] = None
    /\ Begin(c, "accept", m, "check", "carrier_accepted", NotRead)
    /\ acceptLock' = [acceptLock EXCEPT ![m] = c]
    /\ UNCHANGED <<documents, codes, money, queue, ghosts>>

AcceptCheck(c) ==
    /\ At(c, "accept", "check")
    /\ IF matchStatus[calls[c].match] = "proposed"
       THEN Goto(c, "save")
       ELSE Goto(c, "unlock")
    /\ UNCHANGED <<documents, redis, money, queue, ghosts>>

\* Compare and delete in one Lua script: a lock that has expired and been
\* taken by another call is left alone.
AcceptUnlock(c) ==
    LET m == calls[c].match IN
    /\ At(c, "accept", "unlock")
    /\ acceptLock' = [acceptLock EXCEPT ![m] = IF @ = c THEN None ELSE @]
    /\ Return(c)
    /\ UNCHANGED <<documents, codes, money, queue, ghosts>>

\* Mutant of LockExpire: SET without EX, a lock has no time to live.
LockWithoutExpiry(m) == m \notin Matches /\ UNCHANGED vars

\* SET ... EX 10: Redis drops the lock of a call that died, and (slowLock)
\* that of a call that takes longer than its time to live.
LockExpire(m) ==
    /\ acceptLock[m] # None
    /\ acceptLock[m] = Crashed \/ "slowLock" \in Ops
    /\ acceptLock' = [acceptLock EXCEPT ![m] = None]
    /\ UNCHANGED <<documents, codes, calls, money, queue, ghosts>>

-----------------------------------------------------------------------------
(* carrierReject, senderReject, disputeMatch: no status is refused.          *)

Reject(c, m) ==
    /\ Begin(c, "reject", m, "save", "cancelled", NotRead)
    /\ UNCHANGED <<documents, redis, money, queue, ghosts>>

Dispute(c, m) ==
    /\ Begin(c, "dispute", m, "save", "disputed", NotRead)
    /\ UNCHANGED <<documents, redis, money, queue, ghosts>>

-----------------------------------------------------------------------------
(* senderConfirm *)

ConfirmCheck(c, m) ==
    /\ matchStatus[m] = "carrier_accepted"
    /\ Begin(c, "confirm", m, "readRequest", "sender_confirmed", NotRead)
    /\ UNCHANGED <<documents, redis, money, queue, ghosts>>

ConfirmReadRequest(c) ==
    LET doc == ReadRequest(calls[c].request) IN
    /\ At(c, "confirm", "readRequest")
    /\ calls' = [calls EXCEPT
          ![c].seen = doc,
          ![c].target = IF doc.payment = "paid" THEN "active" ELSE "sender_confirmed",
          ![c].at = "save"]
    /\ UNCHANGED <<documents, redis, money, queue, ghosts>>

\* Mongoose validates every path of the document it saves: one that was read with
\* the status the SLA audit writes cannot be saved unchanged.
Savable(doc) == doc.status # "created"

\* request.match = match; request.save(): written unless it was so when read.
ConfirmLink(c) ==
    LET r == calls[c].request  m == calls[c].match IN
    /\ At(c, "confirm", "link")
    /\ requestMatch' = [requestMatch EXCEPT ![r] =
                           IF calls[c].seen.match = m \/ ~Savable(calls[c].seen)
                           THEN @ ELSE m]
    /\ Return(c)
    /\ UNCHANGED <<matchVars, requestStatus, paymentStatus, tripStatus, redis,
                   money, queue, ghosts>>

-----------------------------------------------------------------------------
(* The escrow hold, reached from senderConfirm for the match confirmed and   *)
(* from confirmDeliveryPayment for the match the request had when it was     *)
(* read.                                                                     *)

MatchToHold(c) == IF calls[c].op = "pay" THEN calls[c].seen.match ELSE calls[c].match

AfterHold(c) == IF calls[c].op = "pay" THEN Return(c) ELSE Goto(c, "link")

\* Mutant of FindHold: the ledger is not asked for an earlier hold.
HoldUnasked(c) ==
    /\ calls[c].at = "findHold"
    /\ Goto(c, "hold")
    /\ UNCHANGED <<documents, redis, money, queue, ghosts>>

FindHold(c) ==
    /\ calls[c].at = "findHold"
    /\ IF holds[MatchToHold(c)] = 0 THEN Goto(c, "hold") ELSE AfterHold(c)
    /\ UNCHANGED <<documents, redis, money, queue, ghosts>>

\* holdFunds: the ledger row and the wallet in one transaction.
HoldFunds(c) ==
    LET m == MatchToHold(c) IN
    /\ calls[c].at = "hold"
    /\ holds' = [holds EXCEPT ![m] = @ + 1]
    /\ escrowHeld' = [escrowHeld EXCEPT ![RequestOf[m]] = @ + 1]
    /\ AfterHold(c)
    /\ UNCHANGED <<documents, released, redis, queue, ghosts>>

-----------------------------------------------------------------------------
(* confirmDeliveryPayment *)

PayRead(c, r) ==
    /\ paymentStatus[r] # "paid"
    /\ BeginOnRequest(c, "pay", r, "payment")
    /\ UNCHANGED <<documents, redis, money, queue, ghosts>>

PaySave(c) ==
    LET r == calls[c].request IN
    /\ At(c, "pay", "payment")
    /\ Savable(calls[c].seen)
    /\ paymentStatus' = [paymentStatus EXCEPT ![r] = "paid"]
    /\ hist' = [hist EXCEPT !.paid = @ \union {r}]
    /\ IF calls[c].seen.match = None THEN Return(c) ELSE Goto(c, "findHold")
    /\ UNCHANGED <<matchVars, requestStatus, requestMatch, tripStatus, crashes,
                   redis, money, queue>>

\* The save rejects; the payment's Transaction has been completed by then.
PayReject(c) ==
    /\ At(c, "pay", "payment")
    /\ ~Savable(calls[c].seen)
    /\ Return(c)
    /\ UNCHANGED <<documents, redis, money, queue, ghosts>>

-----------------------------------------------------------------------------
(* cancelRequest *)

CancelRead(c, r) ==
    /\ requestStatus[r] # "cancelled"
    /\ escrowHeld[r] > -MaxDebt
    /\ BeginOnRequest(c, "cancel", r,
          IF paymentStatus[r] = "paid" THEN "refund" ELSE "request")
    /\ UNCHANGED <<documents, redis, money, queue, ghosts>>

CancelRefund(c) ==
    /\ At(c, "cancel", "refund")
    /\ escrowHeld' = [escrowHeld EXCEPT ![calls[c].request] = @ - 1]
    /\ Goto(c, "request")
    /\ UNCHANGED <<documents, holds, released, redis, queue, ghosts>>

CancelSave(c) ==
    LET r == calls[c].request IN
    /\ At(c, "cancel", "request")
    /\ requestStatus' = [requestStatus EXCEPT ![r] = "cancelled"]
    /\ paymentStatus' = [paymentStatus EXCEPT ![r] =
                            IF calls[c].seen.payment = "paid" THEN "refunded" ELSE @]
    /\ Goto(c, "cancelMatches")
    /\ UNCHANGED <<matchVars, requestMatch, tripStatus, redis, money, queue,
                   ghosts>>

BeforePickup == {"proposed", "carrier_accepted", "sender_confirmed", "active",
                 "pickup_pending"}

\* The matches end; a pickup code already in Redis stays there.
CancelMatches(c) ==
    /\ At(c, "cancel", "cancelMatches")
    /\ matchStatus' = [m \in Matches |->
          IF RequestOf[m] = calls[c].request /\ matchStatus[m] \in BeforePickup
          THEN "cancelled" ELSE matchStatus[m]]
    /\ Return(c)
    /\ UNCHANGED <<requestVars, pickupVerified, deliveryVerified, tripStatus, redis,
                   money, queue, ghosts>>

-----------------------------------------------------------------------------
(* One-time codes.  generateOTP stores a code under the match's key with a   *)
(* time to live; verifyOTP reads it, writes it back with one more attempt,   *)
(* compares, and deletes it.  Which digits and how many attempts are not     *)
(* kept here: a verification that finds a code may succeed or fail.          *)

CodeKinds == {"pickup", "delivery"}

KindOf(o) == IF o \in {"generatePickup", "verifyPickup"} THEN "pickup" ELSE "delivery"

\* Mutant of GeneratePickupCheck: the payment is not asked for.
GeneratePickupUnpaid(c, m) ==
    /\ Begin(c, "generatePickup", m, "code", "pickup_pending", ReadRequest(RequestOf[m]))
    /\ UNCHANGED <<documents, redis, money, queue, ghosts>>

\* generatePickupOtp asks that the request is paid, not where the match stands.
GeneratePickupCheck(c, m) ==
    LET doc == ReadRequest(RequestOf[m]) IN
    /\ doc.payment = "paid"
    /\ Begin(c, "generatePickup", m, "code", "pickup_pending", doc)
    /\ UNCHANGED <<documents, redis, money, queue, ghosts>>

\* Mutant of GenerateDeliveryCheck: as generatePickupOtp, no status is refused.
GenerateDeliveryUnchecked(c, m) ==
    /\ Begin(c, "generateDelivery", m, "code", "delivery_pending", NotRead)
    /\ UNCHANGED <<documents, redis, money, queue, ghosts>>

GenerateDeliveryCheck(c, m) ==
    /\ matchStatus[m] \in {"picked_up", "in_transit", "delivery_pending"}
    /\ Begin(c, "generateDelivery", m, "code", "delivery_pending", NotRead)
    /\ UNCHANGED <<documents, redis, money, queue, ghosts>>

StoreCode(c) ==
    /\ calls[c].at = "code"
    /\ codes' = [codes EXCEPT ![KindOf(calls[c].op)] = @ \union {calls[c].match}]
    /\ Goto(c, "save")
    /\ UNCHANGED <<documents, acceptLock, money, queue, ghosts>>

\* Mutant of VerifyRead: the Redis key names the match only, not the kind of code.
VerifyAnyKind(c, o, m) ==
    /\ o \in {"verifyPickup", "verifyDelivery"}
    /\ \E k \in CodeKinds : m \in codes[k]
    /\ o = "verifyDelivery" => payoutJobs[m] < MaxJobs
    /\ Begin(c, o, m, "count", IF o = "verifyPickup" THEN "picked_up" ELSE "delivered",
             NotRead)
    /\ UNCHANGED <<documents, redis, money, queue, ghosts>>

VerifyRead(c, o, m) ==
    /\ o \in {"verifyPickup", "verifyDelivery"}
    /\ m \in codes[KindOf(o)]
    /\ o = "verifyDelivery" => payoutJobs[m] < MaxJobs
    /\ Begin(c, o, m, "count", IF o = "verifyPickup" THEN "picked_up" ELSE "delivered",
             NotRead)
    /\ UNCHANGED <<documents, redis, money, queue, ghosts>>

\* The write-back also restores a code that was deleted or expired meanwhile.
VerifyCount(c) ==
    /\ calls[c].at = "count"
    /\ codes' = [codes EXCEPT ![KindOf(calls[c].op)] = @ \union {calls[c].match}]
    /\ Goto(c, "compare")
    /\ UNCHANGED <<documents, acceptLock, money, queue, ghosts>>

VerifyFail(c) ==
    /\ calls[c].at = "compare"
    /\ Return(c)
    /\ UNCHANGED <<documents, redis, money, queue, ghosts>>

\* The code is right: this is the handover itself, which history records.
VerifySucceed(c) ==
    LET m == calls[c].match IN
    /\ calls[c].at = "compare"
    /\ hist' = IF calls[c].op = "verifyPickup"
               THEN [hist EXCEPT !.pickedUp = @ \union {m}]
               ELSE [hist EXCEPT !.delivered = @ \union {m}]
    /\ Goto(c, "delete")
    /\ UNCHANGED <<documents, crashes, redis, money, queue>>

VerifyDelete(c) ==
    /\ calls[c].at = "delete"
    /\ codes' = [codes EXCEPT ![KindOf(calls[c].op)] = @ \ {calls[c].match}]
    /\ Goto(c, "save")
    /\ UNCHANGED <<documents, acceptLock, money, queue, ghosts>>

CodeExpire(k, m) ==
    /\ "expire" \in Ops
    /\ m \in codes[k]
    /\ codes' = [codes EXCEPT ![k] = @ \ {m}]
    /\ UNCHANGED <<documents, acceptLock, calls, money, queue, ghosts>>

-----------------------------------------------------------------------------
(* What the four code handlers do after updateMatchStatus.                   *)

\* otp.pickup.verifiedAt or otp.delivery.verifiedAt
VerifyStamp(c) ==
    LET m == calls[c].match IN
    /\ calls[c].at = "stamp"
    /\ IF calls[c].op = "verifyPickup"
       THEN /\ pickupVerified' = pickupVerified \union {m}
            /\ UNCHANGED deliveryVerified
       ELSE /\ deliveryVerified' = deliveryVerified \union {m}
            /\ UNCHANGED pickupVerified
    /\ Goto(c, "request")
    /\ UNCHANGED <<requestVars, matchStatus, tripStatus, redis, money, queue,
                   ghosts>>

\* The status the handler itself writes to the request, after updateMatchStatus.
OwnRequestStatus(o) ==
    CASE o = "generatePickup"   -> "pickup_otp_sent"
      [] o = "verifyPickup"     -> "picked_up"
      [] o = "generateDelivery" -> "delivery_otp_sent"
      [] OTHER                  -> "delivered"

\* generatePickupOtp saves the document it read first, so it writes the status
\* only if it differed then; the others write it whatever it is.
WriteRequest(c) ==
    LET o == calls[c].op  r == calls[c].request IN
    /\ calls[c].at = "request"
    /\ o # "cancel"
    /\ requestStatus' = [requestStatus EXCEPT ![r] =
          IF o = "generatePickup" /\ calls[c].seen.status = OwnRequestStatus(o)
          THEN @ ELSE OwnRequestStatus(o)]
    /\ CASE o = "verifyPickup"   -> Goto(c, "trip")
         [] o = "verifyDelivery" -> Goto(c, "countTrip")
         [] OTHER                -> Return(c)
    /\ UNCHANGED <<matchVars, paymentStatus, requestMatch, tripStatus, redis, money,
                   queue, ghosts>>

\* verifyPickupOtpForMatch starts the trip, then calls updateMatchStatus again.
StartTrip(c) ==
    /\ At(c, "verifyPickup", "trip")
    /\ tripStatus' = [tripStatus EXCEPT ![TripOf[calls[c].match]] = "in_transit"]
    /\ Update(c, "in_transit")
    /\ UNCHANGED <<matchVars, requestVars, redis, money, queue, ghosts>>

PendingOnTrip(t) ==
    {m \in Matches : /\ TripOf[m] = t
                     /\ matchStatus[m] \notin {"absent", "delivered", "cancelled", "disputed"}}

CountTrip(c) ==
    /\ At(c, "verifyDelivery", "countTrip")
    /\ IF PendingOnTrip(TripOf[calls[c].match]) = {}
       THEN Goto(c, "completeTrip")
       ELSE Goto(c, "enqueue")
    /\ UNCHANGED <<documents, redis, money, queue, ghosts>>

CompleteTrip(c) ==
    /\ At(c, "verifyDelivery", "completeTrip")
    /\ tripStatus' = [tripStatus EXCEPT ![TripOf[calls[c].match]] = "completed"]
    /\ Goto(c, "enqueue")
    /\ UNCHANGED <<matchVars, requestVars, redis, money, queue, ghosts>>

EnqueuePayout(c) ==
    LET m == calls[c].match IN
    /\ At(c, "verifyDelivery", "enqueue")
    /\ payoutJobs' = [payoutJobs EXCEPT ![m] = @ + 1]
    /\ Return(c)
    /\ UNCHANGED <<documents, failedJobs, redis, money, ghosts>>

-----------------------------------------------------------------------------
(* The payout worker.  It looks at the match status once, before it starts;  *)
(* releaseFunds, one transaction with its own check of the ledger, does not. *)

PayoutTake(c, m) ==
    /\ payoutJobs[m] > 0
    /\ payoutJobs' = [payoutJobs EXCEPT ![m] = @ - 1]
    /\ IF matchStatus[m] = "disputed"
       THEN /\ "payout" \in Ops
            /\ c \in Workers
            /\ calls[c] = Idle
            /\ UNCHANGED calls
       ELSE Begin(c, "payout", m, "release", "delivered", NotRead)
    /\ UNCHANGED <<documents, failedJobs, redis, money, ghosts>>

\* The sender's share of the escrow is taken down to zero at most.
ReleaseFunds(c) ==
    LET m == calls[c].match  r == RequestOf[calls[c].match] IN
    /\ At(c, "payout", "release")
    /\ released' = released \union {m}
    /\ escrowHeld' = [escrowHeld EXCEPT ![r] =
          IF m \in released THEN @ ELSE IF @ > 0 THEN @ - 1 ELSE 0]
    /\ Return(c)
    /\ UNCHANGED <<documents, holds, redis, queue, ghosts>>

-----------------------------------------------------------------------------
(* The SLA audit: a match read without a verified pickup close to departure  *)
(* is cancelled, whatever has become of it since, and its request re-opened. *)

SlaFind(c, m) ==
    /\ matchStatus[m] \in {"carrier_accepted", "sender_confirmed", "pickup_pending"}
    /\ m \notin pickupVerified
    /\ Begin(c, "sla", m, "cancelMatches", "cancelled", NotRead)
    /\ UNCHANGED <<documents, redis, money, queue, ghosts>>

SlaCancel(c) ==
    /\ At(c, "sla", "cancelMatches")
    /\ matchStatus' = [matchStatus EXCEPT ![calls[c].match] = "cancelled"]
    /\ Goto(c, "reopen")
    /\ UNCHANGED <<requestVars, pickupVerified, deliveryVerified, tripStatus, redis,
                   money, queue, ghosts>>

SlaReopen(c) ==
    /\ At(c, "sla", "reopen")
    /\ requestStatus' = [requestStatus EXCEPT ![calls[c].request] = "created"]
    /\ Return(c)
    /\ UNCHANGED <<matchVars, paymentStatus, requestMatch, tripStatus, redis, money,
                   queue, ghosts>>

-----------------------------------------------------------------------------
(* A call ends early: the process dies, or an await rejects.  What it has    *)
(* written stays written, and its lock waits for Redis to drop it.  BullMQ   *)
(* gives the job of a dead worker to the next one; a job that threw is not   *)
(* tried again (it is queued without a number of attempts) and stays in the  *)
(* queue's set of failed jobs.                                               *)

EndsEarly(c) ==
    /\ "crash" \in Ops
    /\ crashes < MaxCrashes
    /\ crashes' = crashes + 1
    /\ Return(c)

HandlerCrash(c) ==
    /\ calls[c].op \notin {"none", "payout"}
    /\ EndsEarly(c)
    /\ acceptLock' = [m \in Matches |->
                         IF acceptLock[m] = c THEN Crashed ELSE acceptLock[m]]
    /\ UNCHANGED <<documents, codes, hist, money, queue>>

WorkerCrash(c) ==
    /\ calls[c].op = "payout"
    /\ EndsEarly(c)
    /\ payoutJobs' = [payoutJobs EXCEPT ![calls[c].match] = @ + 1]
    /\ UNCHANGED <<documents, failedJobs, hist, redis, money>>

\* Mutant of WorkerThrow: the failed job is removed.
WorkerThrowForgets(c) ==
    /\ calls[c].op = "payout"
    /\ EndsEarly(c)
    /\ UNCHANGED <<documents, queue, hist, redis, money>>

WorkerThrow(c) ==
    /\ calls[c].op = "payout"
    /\ EndsEarly(c)
    /\ failedJobs' = failedJobs \union {calls[c].match}
    /\ UNCHANGED <<documents, payoutJobs, hist, redis, money>>

-----------------------------------------------------------------------------

Init ==
    /\ matchStatus = [m \in Matches |-> "absent"]
    /\ pickupVerified = {}
    /\ deliveryVerified = {}
    /\ requestStatus = [r \in Requests |-> "pending"]
    /\ paymentStatus = [r \in Requests |-> "unpaid"]
    /\ requestMatch = [r \in Requests |-> None]
    /\ tripStatus = [t \in Trips |-> "active"]
    /\ codes = [k \in CodeKinds |-> {}]
    /\ acceptLock = [m \in Matches |-> None]
    /\ holds = [m \in Matches |-> 0]
    /\ escrowHeld = [r \in Requests |-> 0]
    /\ payoutJobs = [m \in Matches |-> 0]
    /\ failedJobs = {}
    /\ released = {}
    /\ calls = [c \in Calls |-> Idle]
    /\ crashes = 0
    /\ hist = [paid |-> {}, pickedUp |-> {}, delivered |-> {}]

\* A handler is called, or a worker takes a job.
Start(c) ==
    \/ \E m \in Matches :
          \/ AcceptLocked(c, m) \/ Reject(c, m) \/ Dispute(c, m) \/ ConfirmCheck(c, m)
          \/ GeneratePickupCheck(c, m) \/ GenerateDeliveryCheck(c, m)
          \/ \E o \in {"verifyPickup", "verifyDelivery"} : VerifyRead(c, o, m)
          \/ SlaFind(c, m)
    \/ \E r \in Requests : PayRead(c, r) \/ CancelRead(c, r)

\* A running call goes on.
Step(c) ==
    \/ SaveStatus(c) \/ ProjectStatus(c)
    \/ AcceptCheck(c) \/ AcceptUnlock(c)
    \/ ConfirmReadRequest(c) \/ ConfirmLink(c)
    \/ FindHold(c) \/ HoldFunds(c)
    \/ PaySave(c) \/ PayReject(c)
    \/ CancelRefund(c) \/ CancelSave(c) \/ CancelMatches(c)
    \/ StoreCode(c) \/ VerifyCount(c) \/ VerifyFail(c) \/ VerifySucceed(c)
    \/ VerifyDelete(c) \/ VerifyStamp(c) \/ WriteRequest(c)
    \/ StartTrip(c) \/ CountTrip(c) \/ CompleteTrip(c) \/ EnqueuePayout(c)
    \/ ReleaseFunds(c)
    \/ SlaCancel(c) \/ SlaReopen(c)

Next ==
    \/ \E m \in Matches : Propose(m) \/ LockExpire(m)
    \/ \E c \in Calls :
          \/ Start(c) \/ Step(c)
          \/ HandlerCrash(c) \/ WorkerCrash(c) \/ WorkerThrow(c)
    \/ \E c \in Calls, m \in Matches : PayoutTake(c, m)
    \/ \E k \in CodeKinds, m \in Matches : CodeExpire(k, m)

Spec == Init /\ [][Next]_vars

\* Node's event loop resumes every pending await, BullMQ hands every waiting
\* job to a worker, and Redis expires a lock; nobody is obliged to call a
\* handler.
Fairness ==
    /\ \A c \in Calls : WF_vars(Step(c))
    /\ \A m \in Matches : SF_vars(\E c \in Workers : PayoutTake(c, m))
    /\ \A m \in Matches : WF_vars(LockExpire(m))

FairSpec == Spec /\ Fairness

-----------------------------------------------------------------------------
(* Properties *)

\* Every variable holds what the documents, keys and calls of the code can hold.
TypeOK ==
    /\ matchStatus \in [Matches -> MatchStatuses \union {"absent"}]
    /\ pickupVerified \subseteq Matches
    /\ deliveryVerified \subseteq Matches
    /\ requestStatus \in [Requests -> RequestStatuses]
    /\ paymentStatus \in [Requests -> PaymentStatuses]
    /\ requestMatch \in [Requests -> Matches \union {None}]
    /\ tripStatus \in [Trips -> {"active", "in_transit", "completed"}]
    /\ codes \in [CodeKinds -> SUBSET Matches]
    /\ acceptLock \in [Matches -> Calls \union {None, Crashed}]
    /\ holds \in [Matches -> Nat]
    /\ escrowHeld \in [Requests -> Int]
    /\ payoutJobs \in [Matches -> Nat]
    /\ failedJobs \subseteq Matches
    /\ released \subseteq Matches
    /\ calls \in [Calls -> Call]
    /\ crashes \in Nat
    /\ hist \in [paid : SUBSET Requests, pickedUp : SUBSET Matches,
                 delivered : SUBSET Matches]

\* Dual-OTP escrow: the carrier is paid only for a parcel handed over with the
\* delivery code, it is handed over only after it was picked up with the pickup
\* code, and picked up only after its request was paid for.  No handler checks
\* the whole chain: verifying a code checks no status and no payment at all.
CustodyChain ==
    /\ \A m \in hist.pickedUp : RequestOf[m] \in hist.paid
    /\ hist.delivered \subseteq hist.pickedUp
    /\ released \subseteq hist.delivered

\* A match document never claims more than has happened: updateMatchStatus
\* overwrites any status with any other, yet "active" and later mean that the
\* request was paid, "picked_up" and later that the pickup code was verified, and
\* "delivered" that the delivery code was.
StatusBacked == \A m \in Matches :
    /\ matchStatus[m] \in {"active", "pickup_pending"} => RequestOf[m] \in hist.paid
    /\ matchStatus[m] \in {"picked_up", "in_transit", "delivery_pending", "delivered"}
          => m \in hist.pickedUp
    /\ matchStatus[m] = "delivered" => m \in hist.delivered

\* What withLock is for: as long as no lock expires under its owner, a second
\* carrierAccept never takes a confirmed match back to carrier_accepted.
NoAcceptRegression ==
    [][\A m \in Matches : matchStatus[m] \in {"sender_confirmed", "active"}
          => matchStatus'[m] # "carrier_accepted"]_vars

\* While handlers run one at a time, and may still die half-way, a match is held
\* for at most once: the exists query of senderConfirm and confirmDeliveryPayment.
HeldOnce == \A m \in Matches : holds[m] <= 1

\* No payout is lost in silence: a queued job pays the carrier, finds the match
\* disputed, or is left in the queue's failed set.
JobSettles == \A m \in Matches :
    payoutJobs[m] > 0 ~> (\/ m \in released
                          \/ matchStatus[m] = "disputed"
                          \/ m \in failedJobs)

\* The accept lock does not outlive its owner for ever, even one that crashed.
LockFreed == \A m \in Matches : acceptLock[m] # None ~> acceptLock[m] = None

\* The handlers implement the custody protocol.
Protocol == INSTANCE Custody WITH
    paid <- hist.paid, pickedUp <- hist.pickedUp, delivered <- hist.delivered,
    released <- released

ImplementsCustody == Protocol!Spec

\* README: "Funds remain locked in multi-party platform escrow until physical
\* handoff is cryptographically validated."  From pickup to delivery the request's
\* share of the escrow does not shrink.
LockedUntilHandoff ==
    [][\A m \in Matches : m \in hist.pickedUp /\ m \notin hist.delivered
          => escrowHeld'[RequestOf[m]] >= escrowHeld[RequestOf[m]]]_vars
=============================================================================
