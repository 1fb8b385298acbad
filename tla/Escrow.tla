------------------------------- MODULE Escrow -------------------------------
(***************************************************************************)
(* The movements of money between wallets: holdFunds and releaseFunds,     *)
(* each one MongoDB transaction that runInTransaction starts over when it  *)
(* fails, the payout jobs of BullMQ that call releaseFunds, and the        *)
(* handlers that change a wallet outside any transaction.                  *)
(*                                                                         *)
(* MongoDB gives a transaction a snapshot.  A write of a document that was *)
(* written by someone else since the snapshot, or is being written by      *)
(* another open transaction, is a write conflict; a write outside a        *)
(* transaction waits instead.  A transaction whose process died stays open *)
(* until the server ends it.                                               *)
(***************************************************************************)
EXTENDS Integers

CONSTANTS Calls,       \* what may be running at once: handlers and payout workers
          Jobs,        \* the release-payout jobs that may be queued
          Users, Trips, Matches,
          MatchOf,     \* the match of a job
          CarrierOf, SenderOf, TripOf,
          Deposit, Charge, Payout,  \* amounts of money, the same for every match
          MaxAttempts, \* maxRetries of runInTransaction
          None,        \* no call, nothing to work on
          Crashed,     \* a call whose process died
          Ops,         \* the operations and faults of the instance
          MaxCrashes   \* bound: processes that die

ASSUME MatchOfType   == MatchOf \in [Jobs -> Matches]
ASSUME TripOfType    == TripOf \in [Matches -> Trips]
ASSUME PartiesType   == CarrierOf \in [Trips -> Users] /\ SenderOf \in [Matches -> Users]
\* The search for matches leaves out the trips of the sender.
ASSUME PartiesDiffer == \A m \in Matches : SenderOf[m] # CarrierOf[TripOf[m]]
ASSUME AmountsType   == {Deposit, Charge, Payout} \subseteq Nat \ {0}
ASSUME BoundsType    == MaxAttempts \in Nat \ {0} /\ MaxCrashes \in Nat
ASSUME NoneIsNothing == /\ None \notin Jobs \union Matches \union Trips \union Users
                        /\ {None, Crashed} \intersect Calls = {}
                        /\ None # Crashed

VARIABLES
    held, balance,   \* User.wallet: escrowHeld and balance
    holds, payouts,  \* escrow_hold and completed carrier_payout rows of each match
    paymentStatus,   \* DeliveryRequest.paymentStatus of each match's request
    phase,           \* how far each match has come
    cancelled,       \* the matches whose request is cancelled, the cancelled trips
    depositPaid,     \* trips with safetyDepositPaid
    depositTaken,    \* trips whose safety_deposit row is completed
    inactive,        \* users whose account is deactivated
    job,             \* state of each payout job in BullMQ
    lease,           \* the call that holds the lock of an active job
    stalled,         \* jobs that have stalled once
    calls,           \* the running calls
    txn,             \* the open transaction of each call
    crashes          \* how many processes have died

wallets   == <<held, balance>>
rows      == <<holds, payouts>>
matchDocs == <<paymentStatus, phase>>
tripDocs  == <<depositPaid, depositTaken>>
documents == <<matchDocs, tripDocs, cancelled, inactive>>
queue     == <<job, lease, stalled>>
vars      == <<wallets, rows, documents, queue, calls, txn, crashes>>

PaymentStatuses == {"unpaid", "paid", "refunded"}

\* "linked": request.match is set, from senderConfirm to the delivery code.
Phases == {"open", "linked", "delivered", "disputed", "cancelled"}

JobStates == {"none", "waiting", "active", "completed", "failed"}

CallOps == {"release", "hold", "deposit", "cancelTrip", "refund", "deactivate"}

Steps == {"idle", "begin", "carrier", "sender", "commit", "complete", "credit", "save",
          "orphan"}

Call == [op : CallOps \union {"none"},
         on : Jobs \union Matches \union Trips \union Users \union {None},
         at : Steps,
         attempt : 1..MaxAttempts,
         seen : BOOLEAN]    \* what the handler has read before it writes

Idle == [op |-> "none", on |-> None, at |-> "idle", attempt |-> 1, seen |-> FALSE]

\* A transaction: its snapshot, what it has written, and the users whose wallets
\* others have changed since the snapshot.
Txn == [open : BOOLEAN, held : [Users -> Int], balance : [Users -> Int],
        released : BOOLEAN, writes : SUBSET Users, stale : SUBSET Users]

NoTxn == [open |-> FALSE, held |-> [u \in Users |-> 0], balance |-> [u \in Users |-> 0],
          released |-> FALSE, writes |-> {}, stale |-> {}]

Settle(h, a) == IF h > a THEN h - a ELSE 0

At(c, o, s) == calls[c].op = o /\ calls[c].at = s

Start(c, o, x, s, seen) ==
    /\ o \in Ops
    /\ calls[c] = Idle
    /\ calls' = [calls EXCEPT ![c] =
          [op |-> o, on |-> x, at |-> s, attempt |-> 1, seen |-> seen]]

Goto(c, s) == calls' = [calls EXCEPT ![c].at = s]
Return(c)  == calls' = [calls EXCEPT ![c] = Idle]

-----------------------------------------------------------------------------
(* Documents and their writers *)

\* The match a transaction is about, and its two parties.
On(c)      == IF calls[c].op = "release" THEN MatchOf[calls[c].on] ELSE calls[c].on
Carrier(c) == CarrierOf[TripOf[On(c)]]
Sender(c)  == SenderOf[On(c)]

Locked(u) == \E d \in Calls : u \in txn[d].writes

\* Mutant of Conflict: only documents that are being written.
ConflictOpenOnly(c, u) == \E d \in Calls \ {c} : u \in txn[d].writes

\* A transaction may not write what others write or have written.
Conflict(c, u) == \/ u \in txn[c].stale
                  \/ \E d \in Calls \ {c} : u \in txn[d].writes

\* The open transactions no longer see the newest version of the users in us.
Outdate(t, us) == [d \in Calls |-> [t[d] EXCEPT !.stale = IF t[d].open THEN @ \union us ELSE @]]

\* A write outside any transaction, of one field or more of user u.
Write(u) ==
    /\ ~ Locked(u)
    /\ txn' = Outdate(txn, {u})

Adjust(u, h, b) ==
    /\ Write(u)
    /\ held' = [held EXCEPT ![u] = @ + h]
    /\ balance' = [balance EXCEPT ![u] = @ + b]

-----------------------------------------------------------------------------
(* What the wallet movements need of the rest: confirmation, payment and     *)
(* delivery of a match, its payout job, a dispute.                           *)

Confirm(m) ==
    /\ phase[m] = "open" /\ m \notin cancelled
    /\ phase' = [phase EXCEPT ![m] = "linked"]
    /\ UNCHANGED <<wallets, rows, paymentStatus, cancelled, tripDocs, inactive, queue,
                    calls, txn, crashes>>

Pay(m) ==
    /\ paymentStatus[m] # "paid"
    /\ paymentStatus' = [paymentStatus EXCEPT ![m] = "paid"]
    /\ UNCHANGED <<wallets, rows, phase, cancelled, tripDocs, inactive, queue, calls,
                    txn, crashes>>

\* The job of a delivered match is queued; a second verification queues another.
Deliver(j) ==
    LET m == MatchOf[j] IN
    /\ "release" \in Ops
    /\ job[j] = "none"
    /\ phase[m] \in {"linked", "delivered"}
    /\ phase' = [phase EXCEPT ![m] = "delivered"]
    /\ job' = [job EXCEPT ![j] = "waiting"]
    /\ UNCHANGED <<wallets, rows, paymentStatus, cancelled, tripDocs, inactive, lease,
                    stalled, calls, txn, crashes>>

Dispute(m) ==
    /\ "dispute" \in Ops
    /\ phase[m] = "delivered"
    /\ phase' = [phase EXCEPT ![m] = "disputed"]
    /\ UNCHANGED <<wallets, rows, paymentStatus, cancelled, tripDocs, inactive, queue,
                    calls, txn, crashes>>

-----------------------------------------------------------------------------
(* BullMQ and the payout worker *)

\* The worker takes a job, looks at the match, and then at the ledger.
TakeJob(c, j) ==
    LET m == MatchOf[j]  done == phase[m] = "disputed" \/ payouts[m] > 0 IN
    /\ job[j] = "waiting"
    /\ calls[c] = Idle
    /\ "release" \in Ops
    /\ IF done
       THEN /\ job' = [job EXCEPT ![j] = "completed"]
            /\ UNCHANGED <<lease, calls>>
       ELSE /\ job' = [job EXCEPT ![j] = "active"]
            /\ lease' = [lease EXCEPT ![j] = c]
            /\ Start(c, "release", j, "begin", FALSE)
    /\ UNCHANGED <<wallets, rows, documents, stalled, txn, crashes>>

\* Only the call that still holds the lock of the job can move it.
Settled(c, state) ==
    LET j == calls[c].on IN
    IF calls[c].op = "release" /\ lease[j] = c
    THEN /\ job' = [job EXCEPT ![j] = state]
         /\ lease' = [lease EXCEPT ![j] = None]
    ELSE UNCHANGED <<job, lease>>

\* Mutant of Stall: the lock of a dead worker is taken for a live one's.
StallLiveOnly(j) ==
    /\ "stall" \in Ops
    /\ lease[j] \in Calls
    /\ job' = [job EXCEPT ![j] = "waiting"]
    /\ lease' = [lease EXCEPT ![j] = None]
    /\ stalled' = stalled \union {j}
    /\ UNCHANGED <<wallets, rows, documents, calls, txn, crashes>>

\* The lock of an active job runs out, with its worker dead or only slow.  The
\* job waits again, the second time it fails.
Stall(j) ==
    /\ lease[j] = Crashed \/ (lease[j] # None /\ "stall" \in Ops)
    /\ job' = [job EXCEPT ![j] = IF j \in stalled THEN "failed" ELSE "waiting"]
    /\ lease' = [lease EXCEPT ![j] = None]
    /\ stalled' = stalled \union {j}
    /\ UNCHANGED <<wallets, rows, documents, calls, txn, crashes>>

-----------------------------------------------------------------------------
(* runInTransaction *)

Running(c) == calls[c].at \in {"begin", "carrier", "sender", "commit"}

\* senderConfirm and confirmDeliveryPayment: a hold when the ledger has none.
StartHold(c, m) ==
    /\ paymentStatus[m] = "paid"
    /\ phase[m] = "linked"
    /\ holds[m] = 0
    /\ Start(c, "hold", m, "begin", FALSE)
    /\ UNCHANGED <<wallets, rows, documents, queue, txn, crashes>>

Snapshot(released) ==
    [open |-> TRUE, held |-> held, balance |-> balance, released |-> released,
     writes |-> {}, stale |-> {}]

\* Mutant of Begin: the second check of the ledger is dropped.
BeginUnchecked(c) ==
    /\ calls[c].at = "begin"
    /\ txn' = [txn EXCEPT ![c] = Snapshot(FALSE)]
    /\ Goto(c, IF calls[c].op = "hold" THEN "sender" ELSE "carrier")
    /\ UNCHANGED <<wallets, rows, documents, queue, crashes>>

\* The first operation takes the snapshot.  releaseFunds looks for the payout in
\* it, and when it is there has nothing to write.
Begin(c) ==
    LET released == calls[c].op = "release" /\ payouts[On(c)] > 0 IN
    /\ calls[c].at = "begin"
    /\ txn' = [txn EXCEPT ![c] = Snapshot(released)]
    /\ Goto(c, CASE calls[c].op = "hold" -> "sender"
                 [] released             -> "commit"
                 [] OTHER                -> "carrier")
    /\ UNCHANGED <<wallets, rows, documents, queue, crashes>>

TxnWrite(c, u) ==
    /\ ~ Conflict(c, u)
    /\ txn' = [txn EXCEPT ![c].writes = @ \union {u}]

SaveCarrier(c) ==
    /\ calls[c].at = "carrier"
    /\ TxnWrite(c, Carrier(c))
    /\ Goto(c, "sender")
    /\ UNCHANGED <<wallets, rows, documents, queue, crashes>>

\* What a transaction leaves its sender with.
SenderHeld(c) ==
    LET h == txn[c].held[Sender(c)] IN
    IF calls[c].op = "hold" THEN h + Charge ELSE Settle(h, Charge)

\* Mongoose sends nothing for a document whose fields keep their values.
SaveSender(c) ==
    /\ calls[c].at = "sender"
    /\ IF SenderHeld(c) = txn[c].held[Sender(c)]
       THEN UNCHANGED txn
       ELSE TxnWrite(c, Sender(c))
    /\ Goto(c, "commit")
    /\ UNCHANGED <<wallets, rows, documents, queue, crashes>>

\* The transaction of call c takes effect.
Apply(c) ==
    LET t == txn[c]  m == On(c)
        written(u) == IF u = Sender(c) THEN SenderHeld(c)
                                       ELSE Settle(t.held[u], Deposit)
        pays == calls[c].op = "release" /\ ~ t.released
    IN
    /\ held' = [u \in Users |-> IF u \in t.writes THEN written(u) ELSE held[u]]
    /\ balance' = IF pays
                  THEN [balance EXCEPT ![Carrier(c)] = t.balance[Carrier(c)] + Deposit + Payout]
                  ELSE balance
    /\ holds' = IF calls[c].op = "hold" THEN [holds EXCEPT ![m] = @ + 1] ELSE holds
    /\ payouts' = IF pays THEN [payouts EXCEPT ![m] = @ + 1] ELSE payouts
    /\ txn' = [Outdate(txn, t.writes) EXCEPT ![c] = NoTxn]

\* The payout job fails, or the request does.
Throw(c) == Return(c) /\ Settled(c, "failed") /\ UNCHANGED stalled

\* Mutant of Retry: one attempt too many.
RetryOnceMore(c) ==
    IF calls[c].attempt <= MaxAttempts
    THEN /\ calls' = [calls EXCEPT ![c].at = "begin", ![c].attempt = @ + 1]
         /\ UNCHANGED queue
    ELSE Throw(c)

Retry(c) ==
    IF calls[c].attempt < MaxAttempts
    THEN /\ calls' = [calls EXCEPT ![c].at = "begin", ![c].attempt = @ + 1]
         /\ UNCHANGED queue
    ELSE Throw(c)

Commit(c) ==
    /\ calls[c].at = "commit"
    /\ Apply(c)
    /\ Return(c)
    /\ Settled(c, "completed")
    /\ UNCHANGED <<documents, stalled, crashes>>

\* UnknownTransactionCommitResult: committed, and the function runs again.
CommitUnknown(c) ==
    /\ "transient" \in Ops
    /\ calls[c].at = "commit"
    /\ Apply(c)
    /\ Retry(c)
    /\ UNCHANGED <<documents, crashes>>

\* Mutant of Abort: the transaction is left open.
AbortForgotten(c) == UNCHANGED txn

Abort(c) == txn' = [txn EXCEPT ![c] = NoTxn]

\* Mutant of AbortOnConflict: the error is taken for success.
AbortSwallowed(c) ==
    /\ \/ calls[c].at = "carrier" /\ Conflict(c, Carrier(c))
       \/ calls[c].at = "sender"  /\ Conflict(c, Sender(c))
    /\ Abort(c)
    /\ Return(c)
    /\ Settled(c, "completed")
    /\ UNCHANGED <<wallets, rows, documents, stalled, crashes>>

AbortOnConflict(c) ==
    /\ \/ calls[c].at = "carrier" /\ Conflict(c, Carrier(c))
       \/ /\ calls[c].at = "sender"  /\ Conflict(c, Sender(c))
          /\ SenderHeld(c) # txn[c].held[Sender(c)]
    /\ Abort(c)
    /\ Retry(c)
    /\ UNCHANGED <<wallets, rows, documents, crashes>>

\* Any operation of a transaction, the commit included, may fail: with a label
\* that it may be tried again (as a conflict on the match itself does), or for good.
AbortTransient(c) ==
    /\ "transient" \in Ops
    /\ Running(c)
    /\ Abort(c)
    /\ Retry(c)
    /\ UNCHANGED <<wallets, rows, documents, crashes>>

AbortForGood(c) ==
    /\ "error" \in Ops
    /\ Running(c)
    /\ Abort(c)
    /\ Throw(c)
    /\ UNCHANGED <<wallets, rows, documents, crashes>>

-----------------------------------------------------------------------------
(* confirmTripDeposit: the row, the wallet and the trip are written one after *)
(* the other.                                                                 *)

StartDeposit(c, t) ==
    /\ ~ (t \in depositTaken /\ t \in depositPaid)
    /\ Start(c, "deposit", t, "complete", FALSE)
    /\ UNCHANGED <<wallets, rows, documents, queue, txn, crashes>>

CompleteDeposit(c) ==
    /\ At(c, "deposit", "complete")
    /\ depositTaken' = depositTaken \union {calls[c].on}
    /\ Goto(c, "credit")
    /\ UNCHANGED <<wallets, rows, matchDocs, cancelled, depositPaid, inactive, queue,
                    txn, crashes>>

CreditDeposit(c) ==
    /\ At(c, "deposit", "credit")
    /\ Adjust(CarrierOf[calls[c].on], Deposit, 0)
    /\ Goto(c, "save")
    /\ UNCHANGED <<rows, documents, queue, crashes>>

SaveDeposit(c) ==
    /\ At(c, "deposit", "save")
    /\ depositPaid' = depositPaid \union {calls[c].on}
    /\ Return(c)
    /\ UNCHANGED <<wallets, rows, matchDocs, cancelled, depositTaken, inactive, queue,
                    txn, crashes>>

-----------------------------------------------------------------------------
(* cancelTrip: no match of the trip is in custody when it looks. *)

StartCancelTrip(c, t) ==
    /\ t \notin cancelled
    /\ \A m \in Matches : TripOf[m] = t => phase[m] # "linked"
    /\ Start(c, "cancelTrip", t, "save", t \in depositPaid)
    /\ UNCHANGED <<wallets, rows, documents, queue, txn, crashes>>

SaveCancelTrip(c) ==
    /\ At(c, "cancelTrip", "save")
    /\ cancelled' = cancelled \union {calls[c].on}
    /\ IF calls[c].seen THEN Goto(c, "credit") ELSE Return(c)
    /\ UNCHANGED <<wallets, rows, matchDocs, tripDocs, inactive, queue, txn, crashes>>

ReturnDeposit(c) ==
    /\ At(c, "cancelTrip", "credit")
    /\ Adjust(CarrierOf[calls[c].on], -Deposit, Deposit)
    /\ Return(c)
    /\ UNCHANGED <<rows, documents, queue, crashes>>

-----------------------------------------------------------------------------
(* cancelRequest: the wallet first, then the request and its matches. *)

StartRefund(c, m) ==
    /\ m \notin cancelled
    /\ Start(c, "refund", m, IF paymentStatus[m] = "paid" THEN "credit" ELSE "save",
             paymentStatus[m] = "paid")
    /\ UNCHANGED <<wallets, rows, documents, queue, txn, crashes>>

ReturnCharge(c) ==
    /\ At(c, "refund", "credit")
    /\ Adjust(Sender(c), -Charge, Charge)
    /\ Goto(c, "save")
    /\ UNCHANGED <<rows, documents, queue, crashes>>

\* A linked match is cancelled with its request unless it is under way.
SaveRefund(c) ==
    LET m == calls[c].on IN
    /\ At(c, "refund", "save")
    /\ cancelled' = cancelled \union {m}
    /\ paymentStatus' = [paymentStatus EXCEPT ![m] = IF calls[c].seen THEN "refunded" ELSE @]
    /\ \/ phase[m] \in {"open", "linked"} /\ phase' = [phase EXCEPT ![m] = "cancelled"]
       \/ phase[m] # "open" /\ UNCHANGED phase
    /\ Return(c)
    /\ UNCHANGED <<wallets, rows, tripDocs, inactive, queue, txn, crashes>>

-----------------------------------------------------------------------------
(* deleteMyAccount: looks at the wallet, then writes the user.  The match    *)
(* statuses it also looks for, such as "proposed" and "active", are some of  *)
(* those an open or linked match may have, never all of them.                *)

StartDeactivate(c, u) ==
    /\ u \notin inactive
    /\ held[u] <= 0
    /\ Start(c, "deactivate", u, "save", FALSE)
    /\ UNCHANGED <<wallets, rows, documents, queue, txn, crashes>>

Deactivate(c) ==
    /\ At(c, "deactivate", "save")
    /\ Write(calls[c].on)
    /\ inactive' = inactive \union {calls[c].on}
    /\ Return(c)
    /\ UNCHANGED <<wallets, rows, matchDocs, cancelled, tripDocs, queue, crashes>>

-----------------------------------------------------------------------------
(* A process dies in a call.  Its transaction, if one is open, keeps what it *)
(* has written locked until the server's limit on a transaction's life.      *)

Crash(c) ==
    LET j == calls[c].on IN
    /\ crashes < MaxCrashes
    /\ calls[c].at \notin {"idle", "orphan"}
    /\ crashes' = crashes + 1
    /\ IF txn[c].open THEN Goto(c, "orphan") ELSE Return(c)
    /\ lease' = [i \in Jobs |-> IF lease[i] = c THEN Crashed ELSE lease[i]]
    /\ UNCHANGED <<wallets, rows, documents, job, stalled, txn>>

Expire(c) ==
    /\ calls[c].at = "orphan"
    /\ Abort(c)
    /\ Return(c)
    /\ UNCHANGED <<wallets, rows, documents, queue, crashes>>

-----------------------------------------------------------------------------

Init ==
    /\ held = [u \in Users |-> 0]
    /\ balance = [u \in Users |-> 0]
    /\ holds = [m \in Matches |-> 0]
    /\ payouts = [m \in Matches |-> 0]
    /\ paymentStatus = [m \in Matches |-> "unpaid"]
    /\ phase = [m \in Matches |-> "open"]
    /\ cancelled = {}
    /\ depositPaid = {}
    /\ depositTaken = {}
    /\ inactive = {}
    /\ job = [j \in Jobs |-> "none"]
    /\ lease = [j \in Jobs |-> None]
    /\ stalled = {}
    /\ calls = [c \in Calls |-> Idle]
    /\ txn = [c \in Calls |-> NoTxn]
    /\ crashes = 0

Open(c) ==
    \/ \E m \in Matches : StartHold(c, m) \/ StartRefund(c, m)
    \/ \E t \in Trips : StartDeposit(c, t) \/ StartCancelTrip(c, t)
    \/ \E u \in Users : StartDeactivate(c, u)

\* A running call goes on.
Step(c) ==
    \/ Begin(c) \/ SaveCarrier(c) \/ SaveSender(c) \/ Commit(c) \/ AbortOnConflict(c)
    \/ CompleteDeposit(c) \/ CreditDeposit(c) \/ SaveDeposit(c)
    \/ SaveCancelTrip(c) \/ ReturnDeposit(c)
    \/ ReturnCharge(c) \/ SaveRefund(c)
    \/ Deactivate(c)

Fault(c) == CommitUnknown(c) \/ AbortTransient(c) \/ AbortForGood(c) \/ Crash(c)

Next ==
    \/ \E m \in Matches : Confirm(m) \/ Pay(m) \/ Dispute(m)
    \/ \E j \in Jobs : Deliver(j) \/ Stall(j)
    \/ \E c \in Calls, j \in Jobs : TakeJob(c, j)
    \/ \E c \in Calls : Open(c) \/ Step(c) \/ Fault(c) \/ Expire(c)

Spec == Init /\ [][Next]_vars

\* Node resumes every pending await, the server ends an orphaned transaction,
\* BullMQ finds the jobs of dead workers and hands waiting jobs out.
Fairness ==
    /\ \A c \in Calls : WF_vars(Step(c)) /\ WF_vars(Expire(c))
    /\ \A j \in Jobs : /\ WF_vars(lease[j] = Crashed /\ Stall(j))
                       /\ SF_vars(\E c \in Calls : TakeJob(c, j))

FairSpec == Spec /\ Fairness

-----------------------------------------------------------------------------
(* Properties *)

TypeOK ==
    /\ held \in [Users -> Int]
    /\ balance \in [Users -> Int]
    /\ holds \in [Matches -> Nat]
    /\ payouts \in [Matches -> Nat]
    /\ paymentStatus \in [Matches -> PaymentStatuses]
    /\ phase \in [Matches -> Phases]
    /\ cancelled \subseteq Matches \union Trips
    /\ depositPaid \subseteq Trips
    /\ depositTaken \subseteq Trips
    /\ inactive \subseteq Users
    /\ job \in [Jobs -> JobStates]
    /\ lease \in [Jobs -> Calls \union {None, Crashed}]
    /\ stalled \subseteq Jobs
    /\ calls \in [Calls -> Call]
    /\ txn \in [Calls -> Txn]
    /\ crashes \in Nat

\* escrow.service.ts, "Second idempotency check inside the transaction to handle
\* two payout workers racing to release the same match simultaneously": a match
\* has at most one payout row.  The check reads a snapshot, so it alone does not
\* see to that: the write conflict on the carrier does.
PaidOnce == \A m \in Matches : payouts[m] <= 1

\* A job BullMQ counts as completed has been paid, or its match is disputed: no
\* conflict, stall, retry or lost lock drops a payout in silence.
CompletedPaid == \A j \in Jobs :
    job[j] = "completed" => payouts[MatchOf[j]] = 1 \/ phase[MatchOf[j]] = "disputed"

\* Every payout job ends, though workers die, stall and conflict.
JobEnds == \A j \in Jobs : job[j] = "waiting" ~> job[j] \in {"completed", "failed"}

\* Every call ends: nobody waits for ever for a wallet that a transaction, even
\* one whose process died, has locked.
CallEnds == \A c \in Calls : calls[c] # Idle ~> calls[c] = Idle

\* Each movement of money is atomic, and none undoes another.
Wallets == INSTANCE Ledger

ImplementsLedger == Wallets!Spec

\* escrow.service.ts: "no partial payouts, no double-releases, no missing ledger
\* rows".  What a release credits beyond the payout, the deposit of a trip, is
\* taken from what the carrier has held.
DepositReleasedOnce ==
    [][\A m \in Matches :
         LET u == CarrierOf[TripOf[m]] IN
         payouts'[m] > payouts[m] /\ TripOf[m] \in depositPaid
            => balance'[u] - balance[u] - Payout <= held[u] - held'[u]]_vars

\* security.contract.test.ts: "blocks deactivation if funds are held in escrow".
\* A user does not go while the hold of a match, neither paid out nor cancelled,
\* is theirs.
DeactivationBlocked ==
    [][\A m \in Matches :
         holds[m] > 0 /\ payouts[m] = 0 /\ m \notin cancelled
            => (SenderOf[m] \in inactive' => SenderOf[m] \in inactive)]_vars
=============================================================================
