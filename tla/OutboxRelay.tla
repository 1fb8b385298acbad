----------------------------- MODULE OutboxRelay -----------------------------
(***************************************************************************)
(* The outbox collection and the relays that publish it to Kafka, one per  *)
(* backend process.  A relay claims a batch of pending events one by one,  *)
(* publishes them, and marks each published, or releases it for another    *)
(* try.  A relay that starts requeues whatever is marked as processing:    *)
(* its own leftovers and, when several processes run, the others' batches. *)
(* Events are numbered by createdAt.                                       *)
(***************************************************************************)
EXTENDS Integers, FiniteSets

CONSTANTS Relays,      \* backend processes with OUTBOX_RELAY_ENABLED
          Events,      \* domain events, numbered in the order they are appended
          BatchSize,   \* OUTBOX_BATCH_SIZE
          MaxAttempts, \* OUTBOX_MAX_ATTEMPTS
          MaxCrashes,  \* bound: processes that die
          MaxErrors    \* bound: MongoDB calls of a relay that reject

ASSUME EventsType == Events \subseteq Nat
ASSUME LimitsType == BatchSize \in Nat \ {0} /\ MaxAttempts \in Nat \ {0}
ASSUME FaultsType == MaxCrashes \in Nat /\ MaxErrors \in Nat

VARIABLES
    status,    \* OutboxEvent.status, "absent" before the insert, "pruned" after the TTL
    attempts,  \* OutboxEvent.attempts
    delayed,   \* events whose availableAt lies in the future
    expires,   \* events with expiresAt (kept when the document is pruned)
    sent,      \* events Kafka has at least one copy of
    at,        \* where each relay is
    batch,     \* events a relay has claimed and not dealt with yet
    eligible,  \* events with availableAt <= the "now" of a relay's claim
    exhausted, \* relays whose releaseOutboxEvent has read MaxAttempts attempts
    timer,     \* relays whose first flush is over and interval is set
    dropped,   \* history: events of a batch whose flush was rejected
    crashes, errors

events == <<status, attempts, delayed, expires>>
relays == <<at, batch, eligible, exhausted, timer>>
faults == <<crashes, errors>>
vars   == <<events, sent, relays, dropped, faults>>

Statuses == {"pending", "processing", "published", "failed"}

\* A relay deals with the events of its batch in the order it claimed them,
\* which is that of createdAt: availableAt of an event that another relay gives
\* back lies after the "now" of a claim that is going on.
First(e, S) == e \in S /\ \A f \in S : e <= f

Goto(r, s) == at' = [at EXCEPT ![r] = s]

-----------------------------------------------------------------------------
(* Appending, and time *)

Append(e) ==
    /\ status[e] = "absent"
    /\ \A f \in Events : f < e => status[f] # "absent"
    /\ status' = [status EXCEPT ![e] = "pending"]
    /\ UNCHANGED <<attempts, delayed, expires, sent, relays, dropped, faults>>

\* The back-off of a released event is over.
Available(e) ==
    /\ e \in delayed
    /\ delayed' = delayed \ {e}
    /\ UNCHANGED <<status, attempts, expires, sent, relays, dropped, faults>>

\* MongoDB's TTL monitor looks at expiresAt only.
Prune(e) ==
    /\ e \in expires
    /\ status[e] \in Statuses
    /\ status' = [status EXCEPT ![e] = "pruned"]
    /\ UNCHANGED <<attempts, delayed, expires, sent, relays, dropped, faults>>

-----------------------------------------------------------------------------
(* Starting, and claiming a batch *)

Now == {e \in Events \ delayed : status[e] # "absent"}

Processing == {e \in Events : status[e] = "processing"}

\* Mutant of Start: only the flush, without requeueProcessingOutboxEvents.
StartAnew(r) ==
    /\ at[r] = "down"
    /\ eligible' = [eligible EXCEPT ![r] = Now]
    /\ Goto(r, "claim")
    /\ UNCHANGED <<events, sent, batch, exhausted, timer, dropped, faults>>

\* startOutboxRelay: requeueProcessingOutboxEvents, then the first flush.
Start(r) ==
    /\ at[r] = "down"
    /\ status' = [e \in Events |->
                     IF e \in Processing THEN "pending" ELSE status[e]]
    /\ delayed' = delayed \ Processing
    /\ eligible' = [q \in Relays |->
                       IF q = r THEN Now \union Processing ELSE eligible[q] \ Processing]
    /\ dropped' = dropped \ Processing
    /\ Goto(r, "claim")
    /\ UNCHANGED <<attempts, expires, sent, batch, exhausted, timer, faults>>

\* The interval fires and no flush is running in this process.
BeginFlush(r) ==
    /\ at[r] = "idle"
    /\ eligible' = [eligible EXCEPT ![r] = Now]
    /\ Goto(r, "claim")
    /\ UNCHANGED <<events, sent, batch, exhausted, timer, dropped, faults>>

Claimable(r) == {e \in eligible[r] : status[e] = "pending"}

Claim(r, e) ==
    /\ at[r] = "claim"
    /\ Cardinality(batch[r]) < BatchSize
    /\ First(e, Claimable(r))
    /\ status' = [status EXCEPT ![e] = "processing"]
    /\ attempts' = [attempts EXCEPT ![e] = @ + 1]
    /\ batch' = [batch EXCEPT ![r] = @ \union {e}]
    /\ UNCHANGED <<delayed, expires, sent, at, eligible, exhausted, timer, dropped, faults>>

\* The flush is over: of the first one startOutboxRelay goes on to set the interval.
EndFlush(r) == Goto(r, "idle") /\ timer' = timer \union {r}

EndClaim(r) ==
    /\ at[r] = "claim"
    /\ Cardinality(batch[r]) = BatchSize \/ Claimable(r) = {}
    /\ IF batch[r] = {} THEN EndFlush(r) ELSE Goto(r, "publish") /\ UNCHANGED timer
    /\ eligible' = [eligible EXCEPT ![r] = {}]
    /\ UNCHANGED <<events, sent, batch, exhausted, dropped, faults>>

-----------------------------------------------------------------------------
(* Publishing the batch *)

PublishOk(r, e) ==
    /\ at[r] = "publish"
    /\ First(e, batch[r])
    /\ sent' = sent \union {e}
    /\ Goto(r, "mark")
    /\ UNCHANGED <<events, batch, eligible, exhausted, timer, dropped, faults>>

\* Mutant of PublishFail: the error of the producer is not noticed.
PublishFailUnnoticed(r, e) ==
    /\ at[r] = "publish"
    /\ First(e, batch[r])
    /\ Goto(r, "mark")
    /\ UNCHANGED <<events, sent, batch, eligible, exhausted, timer, dropped, faults>>

\* The producer throws; Kafka may have the message all the same.
PublishFail(r, e) ==
    /\ at[r] = "publish"
    /\ First(e, batch[r])
    /\ sent' \in {sent, sent \union {e}}
    /\ Goto(r, "read")
    /\ UNCHANGED <<events, batch, eligible, exhausted, timer, dropped, faults>>

\* The relay is done with an event and takes the next of its batch.
Done(r, e) ==
    /\ batch' = [batch EXCEPT ![r] = @ \ {e}]
    /\ IF batch[r] = {e} THEN EndFlush(r) ELSE Goto(r, "publish") /\ UNCHANGED timer

\* An update of a document that the TTL monitor has deleted does nothing.
Stored(e) == status[e] # "pruned"

SetPublished(e) ==
    /\ status' = [status EXCEPT ![e] = IF Stored(e) THEN "published" ELSE @]
    /\ expires' = expires \union {e}

\* markOutboxEventPublished, whatever status the event has by now.
Mark(r, e) ==
    /\ at[r] = "mark"
    /\ First(e, batch[r])
    /\ SetPublished(e)
    /\ Done(r, e)
    /\ UNCHANGED <<attempts, delayed, sent, eligible, exhausted, dropped, faults>>

\* The update rejects, before or after MongoDB has carried it out.
MarkError(r, e) ==
    /\ at[r] = "mark"
    /\ First(e, batch[r])
    /\ errors < MaxErrors
    /\ errors' = errors + 1
    /\ SetPublished(e) \/ UNCHANGED <<status, expires>>
    /\ Goto(r, "read")
    /\ UNCHANGED <<attempts, delayed, sent, batch, eligible, exhausted, timer, dropped, crashes>>

\* releaseOutboxEvent reads the event ...
ReadAttempts(r, e) ==
    /\ at[r] = "read"
    /\ First(e, batch[r])
    /\ IF Stored(e)
       THEN /\ exhausted' = IF attempts[e] >= MaxAttempts THEN exhausted \union {r}
                                                    ELSE exhausted
            /\ Goto(r, "release")
            /\ UNCHANGED <<batch, timer>>
       ELSE Done(r, e) /\ UNCHANGED exhausted
    /\ UNCHANGED <<events, sent, eligible, dropped, faults>>

\* Mutant of Release: expiresAt is set whether the event is exhausted or not.
ReleaseExpiring(r, e) ==
    /\ at[r] = "release"
    /\ First(e, batch[r])
    /\ status' = [status EXCEPT ![e] = IF ~Stored(e) THEN @
                                       ELSE IF r \in exhausted THEN "failed" ELSE "pending"]
    /\ expires' = expires \union {e}
    /\ delayed' = IF r \in exhausted THEN delayed ELSE delayed \union {e}
    /\ eligible' = [q \in Relays |->
                       IF r \in exhausted THEN eligible[q] ELSE eligible[q] \ {e}]
    /\ exhausted' = exhausted \ {r}
    /\ Done(r, e)
    /\ UNCHANGED <<attempts, sent, dropped, faults>>

\* Mutant of Release: the loop over the batch ends at the first failure.
ReleaseAndStop(r, e) ==
    /\ at[r] = "release"
    /\ First(e, batch[r])
    /\ status' = [status EXCEPT ![e] = IF ~Stored(e) THEN @
                                       ELSE IF r \in exhausted THEN "failed" ELSE "pending"]
    /\ expires' = IF r \in exhausted THEN expires \union {e} ELSE expires
    /\ delayed' = IF r \in exhausted THEN delayed ELSE delayed \union {e}
    /\ eligible' = [q \in Relays |->
                       IF r \in exhausted THEN eligible[q] ELSE eligible[q] \ {e}]
    /\ exhausted' = exhausted \ {r}
    /\ batch' = [batch EXCEPT ![r] = {}]
    /\ EndFlush(r)
    /\ UNCHANGED <<attempts, sent, dropped, faults>>

\* ... and gives it back for a later try, or up; expiresAt is never unset.
Release(r, e) ==
    /\ at[r] = "release"
    /\ First(e, batch[r])
    /\ status' = [status EXCEPT ![e] = IF ~Stored(e) THEN @
                                       ELSE IF r \in exhausted THEN "failed" ELSE "pending"]
    /\ expires' = IF r \in exhausted THEN expires \union {e} ELSE expires
    /\ delayed' = IF r \in exhausted THEN delayed ELSE delayed \union {e}
    /\ eligible' = [q \in Relays |->
                       IF r \in exhausted THEN eligible[q] ELSE eligible[q] \ {e}]
    /\ exhausted' = exhausted \ {r}
    /\ Done(r, e)
    /\ UNCHANGED <<attempts, sent, dropped, faults>>

-----------------------------------------------------------------------------
(* A flush that is rejected, and a process that dies *)

\* The local variables of a flush are gone.
Forget(r) ==
    /\ batch' = [batch EXCEPT ![r] = {}]
    /\ eligible' = [eligible EXCEPT ![r] = {}]
    /\ exhausted' = exhausted \ {r}

\* claimOutboxBatch or releaseOutboxEvent rejects: nobody catches it, and what
\* is left of the batch stays in "processing".  A first flush takes the process
\* with it, since startOutboxRelay is awaited before the server listens.  That of
\* the interval is a rejection no one handles: it ends the process too, unless
\* Sentry is configured, which handles it and lets the process go on.
FlushError(r) ==
    /\ at[r] \in {"claim", "read", "release"}
    /\ errors < MaxErrors
    /\ errors' = errors + 1
    /\ dropped' = dropped \union batch[r]
    /\ Forget(r)
    /\ \/ Goto(r, "down") /\ timer' = timer \ {r}
       \/ r \in timer /\ Goto(r, "idle") /\ UNCHANGED timer
    /\ UNCHANGED <<events, sent, crashes>>

Crash(r) ==
    /\ at[r] # "down"
    /\ crashes < MaxCrashes
    /\ crashes' = crashes + 1
    /\ Forget(r)
    /\ timer' = timer \ {r}
    /\ Goto(r, "down")
    /\ UNCHANGED <<events, sent, dropped, errors>>

-----------------------------------------------------------------------------

Init ==
    /\ status = [e \in Events |-> "absent"]
    /\ attempts = [e \in Events |-> 0]
    /\ delayed = {} /\ expires = {} /\ sent = {}
    /\ at = [r \in Relays |-> "down"]
    /\ batch = [r \in Relays |-> {}]
    /\ eligible = [r \in Relays |-> {}]
    /\ exhausted = {}
    /\ timer = {} /\ dropped = {}
    /\ crashes = 0 /\ errors = 0

\* A flush goes on.
Flush(r) ==
    \/ EndClaim(r)
    \/ \E e \in Events :
          \/ Claim(r, e) \/ PublishOk(r, e) \/ PublishFail(r, e)
          \/ Mark(r, e) \/ ReadAttempts(r, e) \/ Release(r, e)

Next ==
    \/ \E e \in Events : Append(e) \/ Available(e) \/ Prune(e)
    \/ \E r \in Relays :
          \/ Start(r) \/ BeginFlush(r) \/ Flush(r)
          \/ \E e \in Events : MarkError(r, e)
          \/ FlushError(r) \/ Crash(r)

Spec == Init /\ [][Next]_vars

\* The orchestrator restarts a process that died, the interval fires, a pending
\* await is resumed, and a back-off ends.  Nobody has to append an event.
Fairness ==
    /\ \A r \in Relays : WF_vars(Start(r)) /\ WF_vars(BeginFlush(r)) /\ WF_vars(Flush(r))
    /\ \A e \in Events : WF_vars(Available(e))

FairSpec == Spec /\ Fairness

-----------------------------------------------------------------------------
(* Properties *)

\* Every field, and every relay, holds what the code can put there.
TypeOK ==
    /\ status \in [Events -> Statuses \union {"absent", "pruned"}]
    /\ attempts \in [Events -> Nat]
    /\ delayed \subseteq Events
    /\ expires \subseteq Events
    /\ sent \subseteq Events
    /\ at \in [Relays -> {"down", "idle", "claim", "publish", "mark", "read", "release"}]
    /\ batch \in [Relays -> SUBSET Events]
    /\ eligible \in [Relays -> SUBSET Events]
    /\ exhausted \subseteq Relays
    /\ timer \subseteq Relays
    /\ dropped \subseteq Events
    /\ crashes \in Nat /\ errors \in Nat

\* However many relays claim, requeue and release the same event, and whatever
\* rejects or dies, its document gets a date of deletion only once Kafka has the
\* event or it was tried MaxAttempts times: the relay keeps the outbox's promise.
Promise == INSTANCE Delivery WITH
    appended <- {e \in Events : status[e] # "absent"},
    tries <- attempts,
    closed <- expires

ImplementsDelivery == Promise!Spec

\* No event is left lying: it is published or given up, unless a rejected flush
\* has dropped it in "processing", where it waits for the next start of a relay.
Settles == \A e \in Events :
    status[e] = "pending" ~> e \in expires \union dropped

\* "Pending/processing events have no expiresAt and are never pruned."
PendingKept == \A e \in expires : status[e] \notin {"pending", "processing"}
=============================================================================
