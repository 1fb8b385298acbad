-------------------------- MODULE OutboxRelayProofs --------------------------
(***************************************************************************)
(* For any number of relays and events, whatever BatchSize, MaxAttempts    *)
(* and the number of crashes and errors are: the relays implement the      *)
(* outbox's promise.  The promise rests on what a relay in the middle of a *)
(* flush knows of the event it is dealing with, which requeues and claims  *)
(* by other relays must not make untrue: that Kafka has it, or that it was *)
(* tried often enough.                                                     *)
(***************************************************************************)
EXTENDS MCOutboxRelay, TLAPS

\* What the place of a relay says of the events of its batch.
Evidence ==
    /\ \A r \in Relays : \A e \in batch[r] : attempts[e] > 0 /\ status[e] # "absent"
    /\ \A e \in expires : status[e] # "absent"
    /\ \A r \in Relays : at[r] = "mark" =>
          \A e \in Events : First(e, batch[r]) => e \in sent
    /\ \A r \in exhausted :
          /\ at[r] = "release"
          /\ \A e \in Events : First(e, batch[r]) => attempts[e] >= MaxAttempts

Inv == TypeOK /\ Evidence

-----------------------------------------------------------------------------

LEMMA InitInv == Init => Inv
<1> SUFFICES ASSUME Init PROVE Inv
  OBVIOUS
<1>1. TypeOK
  BY DEF Init, TypeOK
<1>2. Evidence
  BY DEF Init, Evidence
<1> QED
  BY <1>1, <1>2 DEF Inv

\* The steps that no relay takes.
LEMMA EventInv ==
  ASSUME Inv, NEW e \in Events, Append(e) \/ Available(e) \/ Prune(e)
  PROVE  Inv'
<1>1. TypeOK'
  BY DEF Inv, TypeOK, Append, Available, Prune, Statuses, relays, faults
<1>2. Evidence'
  BY DEF Inv, TypeOK, Evidence, First, Append, Available, Prune, Statuses, relays, faults
<1> QED
  BY <1>1, <1>2 DEF Inv

\* A relay starts, claims, or begins or ends its claim.
LEMMA ClaimInv ==
  ASSUME Inv, NEW r \in Relays,
         \/ Start(r) \/ BeginFlush(r) \/ EndClaim(r)
         \/ \E e \in Events : Claim(r, e)
  PROVE  Inv'
<1> USE DEF Inv, TypeOK, events, faults, Goto
<1>1. CASE Start(r)
  <2>1. Processing \subseteq Events /\ Now \subseteq Events
    BY DEF Processing, Now
  <2>2. TypeOK'
    BY <1>1, <2>1 DEF Start, Statuses
  <2>3. \A e \in Events : status'[e] = "absent" => status[e] = "absent"
    BY <1>1 DEF Start
  <2>4. Evidence'
    BY <1>1, <2>3 DEF Start, Evidence, First
  <2> QED
    BY <2>2, <2>4
<1>2. CASE BeginFlush(r)
  <2>1. TypeOK'
    BY <1>2 DEF BeginFlush, Now
  <2>2. Evidence'
    BY <1>2 DEF BeginFlush, Evidence, First
  <2> QED
    BY <2>1, <2>2
<1>3. CASE EndClaim(r)
  <2>1. TypeOK'
    BY <1>3 DEF EndClaim, EndFlush
  <2>2. Evidence'
    BY <1>3 DEF EndClaim, EndFlush, Evidence, First
  <2> QED
    BY <2>1, <2>2
<1>4. ASSUME NEW e \in Events, Claim(r, e) PROVE Inv'
  <2>1. TypeOK'
    BY <1>4 DEF Claim, Statuses
  <2>2. Evidence'
    <3>1. /\ \A f \in Events : attempts'[f] >= attempts[f]
          /\ attempts'[e] > 0
          /\ \A f \in Events : status[f] # "absent" => status'[f] # "absent"
          /\ status'[e] # "absent"
          /\ at[r] = "claim" /\ at' = at /\ sent' = sent /\ exhausted' = exhausted
          /\ batch'[r] = batch[r] \union {e}
          /\ \A q \in Relays \ {r} : batch'[q] = batch[q]
      BY <1>4 DEF Claim
    <3>2. \A q \in Relays : \A f \in batch'[q] : attempts'[f] > 0 /\ status'[f] # "absent"
      <4>1. ASSUME NEW q \in Relays, NEW f \in batch'[q] PROVE attempts'[f] > 0 /\ status'[f] # "absent"
        <5>1. CASE f = e
          BY <3>1, <5>1
        <5>2. CASE f # e
          <6>1. f \in batch[q] /\ f \in Events
            BY <3>1, <4>1, <5>2
          <6>2. attempts[f] > 0 /\ status[f] # "absent" /\ attempts[f] \in Nat
            BY <6>1 DEF Evidence
          <6> QED
            BY <1>4, <3>1, <6>1, <6>2 DEF Claim
        <5> QED
          BY <5>1, <5>2
      <4> QED
        BY <4>1
    <3>3. \A q \in Relays : at[q] \in {"mark", "release"} => q # r
      BY <3>1
    <3>4. \A f \in expires' : status'[f] # "absent"
      BY <1>4, <3>1 DEF Claim, Evidence
    <3>5. \A q \in Relays : at'[q] = "mark" =>
             \A f \in Events : First(f, batch'[q]) => f \in sent'
      BY <3>1, <3>3 DEF Evidence
    <3>6. \A q \in exhausted' :
             /\ at'[q] = "release"
             /\ \A f \in Events : First(f, batch'[q]) => attempts'[f] >= MaxAttempts
      <4>1. ASSUME NEW q \in exhausted
            PROVE  /\ at'[q] = "release"
                   /\ \A f \in Events : First(f, batch'[q]) => attempts'[f] >= MaxAttempts
        <5>1. /\ at[q] = "release" /\ q \in Relays
              /\ \A f \in Events : First(f, batch[q]) => attempts[f] >= MaxAttempts
          BY DEF Evidence
        <5>2. \A f \in Events : attempts'[f] \in Nat /\ attempts[f] \in Nat
          BY <2>1
        <5> QED
          BY <3>1, <3>3, <5>1, <5>2, LimitsType
      <4> QED
        BY <3>1, <4>1
    <3> QED
      BY <3>2, <3>4, <3>5, <3>6 DEF Evidence, First
  <2> QED
    BY <2>1, <2>2
<1> QED
  BY <1>1, <1>2, <1>3, <1>4

\* A relay deals with the first event of its batch.
LEMMA PublishInv ==
  ASSUME Inv, NEW r \in Relays, NEW e \in Events,
         \/ PublishOk(r, e) \/ PublishFail(r, e) \/ Mark(r, e) \/ MarkError(r, e)
         \/ ReadAttempts(r, e) \/ Release(r, e)
  PROVE  Inv'
<1> USE DEF Inv, TypeOK, events, faults, Goto
<1>1. CASE PublishOk(r, e) \/ PublishFail(r, e)
  <2>1. TypeOK'
    BY <1>1 DEF PublishOk, PublishFail
  <2>2. \A f \in Events : First(f, batch[r]) => f = e
    BY <1>1, EventsType DEF PublishOk, PublishFail, First
  <2>3. /\ sent \subseteq sent'
        /\ at'[r] = "mark" => e \in sent'
        /\ at'[r] \in {"mark", "read"} /\ at[r] = "publish"
        /\ \A q \in Relays \ {r} : at'[q] = at[q]
        /\ UNCHANGED <<status, attempts, expires, batch, exhausted>>
    BY <1>1 DEF PublishOk, PublishFail
  <2>4. Evidence'
    BY <2>2, <2>3 DEF Evidence, First
  <2> QED
    BY <2>1, <2>4
<1>2. CASE Mark(r, e)
  <2>1. TypeOK'
    BY <1>2 DEF Mark, SetPublished, Done, EndFlush, Statuses
  <2>2. Evidence'
    BY <1>2 DEF Mark, SetPublished, Done, EndFlush, Evidence, First
  <2> QED
    BY <2>1, <2>2
<1>3. CASE MarkError(r, e)
  <2>1. TypeOK'
    BY <1>3 DEF MarkError, SetPublished, Statuses
  <2>2. Evidence'
    BY <1>3 DEF MarkError, SetPublished, Evidence, First
  <2> QED
    BY <2>1, <2>2
<1>4. CASE ReadAttempts(r, e)
  <2>1. TypeOK'
    BY <1>4 DEF ReadAttempts, Done, EndFlush
  <2>2. Evidence'
    <3>1. CASE Stored(e)
      <4>1. \A f \in Events : First(f, batch[r]) => f = e
        BY <1>4, EventsType DEF ReadAttempts, First
      <4> QED
        BY <1>4, <3>1, <4>1 DEF ReadAttempts, Evidence, First
    <3>2. CASE ~Stored(e)
      BY <1>4, <3>2 DEF ReadAttempts, Done, EndFlush, Evidence, First
    <3> QED
      BY <3>1, <3>2
  <2> QED
    BY <2>1, <2>2
<1>5. CASE Release(r, e)
  <2>1. TypeOK'
    BY <1>5 DEF Release, Done, EndFlush, Statuses
  <2>2. Evidence'
    BY <1>5 DEF Release, Done, EndFlush, Evidence, First
  <2> QED
    BY <2>1, <2>2
<1> QED
  BY <1>1, <1>2, <1>3, <1>4, <1>5

LEMMA FaultInv ==
  ASSUME Inv, NEW r \in Relays, FlushError(r) \/ Crash(r)
  PROVE  Inv'
<1> USE DEF Inv, TypeOK, events, faults, Goto
<1>1. TypeOK'
  BY FaultsType DEF FlushError, Crash, Forget
<1>2. Evidence'
  BY DEF FlushError, Crash, Forget, Evidence, First
<1> QED
  BY <1>1, <1>2

LEMMA NextInv == Inv /\ [Next]_vars => Inv'
<1> SUFFICES ASSUME Inv, [Next]_vars PROVE Inv'
  OBVIOUS
<1>1. ASSUME NEW e \in Events, Append(e) \/ Available(e) \/ Prune(e) PROVE Inv'
  BY <1>1, EventInv
<1>2. ASSUME NEW r \in Relays, Start(r) \/ BeginFlush(r) \/ Flush(r) PROVE Inv'
  BY <1>2, ClaimInv, PublishInv DEF Flush
<1>3. ASSUME NEW r \in Relays, NEW e \in Events, MarkError(r, e) PROVE Inv'
  BY <1>3, PublishInv
<1>4. ASSUME NEW r \in Relays, FlushError(r) \/ Crash(r) PROVE Inv'
  BY <1>4, FaultInv
<1>5. CASE UNCHANGED vars
  BY <1>5 DEF Inv, TypeOK, Evidence, First, vars, events, relays, faults
<1> QED
  BY <1>1, <1>2, <1>3, <1>4, <1>5 DEF Next

\* What each relay knows of its batch is never wrong.
THEOREM Invariance == Spec => []Inv
<1>1. Init => Inv
  BY InitInv
<1>2. Inv /\ [Next]_vars => Inv'
  BY NextInv
<1> QED
  BY <1>1, <1>2, PTL DEF Spec

\* Every field of the collection, and every relay, holds what the code can put there.
THEOREM TypeCorrect == Spec => []TypeOK
<1>1. Inv => TypeOK
  BY DEF Inv
<1> QED
  BY <1>1, Invariance, PTL

-----------------------------------------------------------------------------
(* The relays implement the promise.                                         *)

Appended == {e \in Events : status[e] # "absent"}

LEMMA StepImplements ==
  ASSUME Inv, Next
  PROVE  Promise!Next \/ UNCHANGED <<Appended, attempts, sent, expires>>
<1> USE DEF events
<1>1. ASSUME NEW e \in Events, Append(e) PROVE Promise!Append(e)
  BY <1>1 DEF Append, Promise!Append, Inv, TypeOK
<1>2. ASSUME NEW e \in Events, Available(e) \/ Prune(e)
      PROVE  UNCHANGED <<Appended, attempts, sent, expires>>
  BY <1>2 DEF Available, Prune, Appended, Statuses, Inv, TypeOK
<1>3. ASSUME NEW r \in Relays, Start(r) \/ BeginFlush(r) \/ EndClaim(r) \/ FlushError(r) \/ Crash(r)
      PROVE  UNCHANGED <<Appended, attempts, sent, expires>>
  <2>1. CASE Start(r)
    <3>1. \A e \in Events : status'[e] = "absent" <=> status[e] = "absent"
      BY <2>1 DEF Start, Processing
    <3> QED
      BY <2>1, <3>1 DEF Start, Appended
  <2> QED
    BY <1>3, <2>1 DEF BeginFlush, EndClaim, FlushError, Crash, Appended
<1>4. ASSUME NEW r \in Relays, NEW e \in Events, Claim(r, e) PROVE Promise!Try(e)
  <2>1. status[e] = "pending"
    BY <1>4 DEF Claim, First, Claimable
  <2> QED
    BY <1>4, <2>1 DEF Claim, Promise!Try, Inv, TypeOK
<1>5. ASSUME NEW r \in Relays, NEW e \in Events, PublishOk(r, e) \/ PublishFail(r, e)
      PROVE  Promise!Send(e) \/ UNCHANGED <<Appended, attempts, sent, expires>>
  <2>1. status[e] # "absent" /\ attempts[e] > 0
    BY <1>5 DEF PublishOk, PublishFail, First, Inv, Evidence
  <2> QED
    BY <1>5, <2>1 DEF PublishOk, PublishFail, Promise!Send, Appended
<1>6. ASSUME NEW r \in Relays, NEW e \in Events, Mark(r, e) \/ MarkError(r, e)
      PROVE  Promise!Close(e) \/ UNCHANGED <<Appended, attempts, sent, expires>>
  <2>1. status[e] # "absent" /\ e \in sent
    BY <1>6 DEF Mark, MarkError, First, Inv, Evidence
  <2>2. SetPublished(e) => {f \in Events : status'[f] # "absent"} = {f \in Events : status[f] # "absent"}
    BY <2>1 DEF SetPublished, Inv, TypeOK
  <2> QED
    BY <1>6, <2>1, <2>2 DEF Mark, MarkError, SetPublished, Promise!Close, Appended
<1>7. ASSUME NEW r \in Relays, NEW e \in Events, ReadAttempts(r, e)
      PROVE  UNCHANGED <<Appended, attempts, sent, expires>>
  BY <1>7 DEF ReadAttempts, Appended
<1>8. ASSUME NEW r \in Relays, NEW e \in Events, Release(r, e)
      PROVE  Promise!Close(e) \/ UNCHANGED <<Appended, attempts, sent, expires>>
  <2>1. /\ status[e] # "absent"
        /\ r \in exhausted => attempts[e] >= MaxAttempts
    BY <1>8 DEF Release, First, Inv, Evidence
  <2>2. {f \in Events : status'[f] # "absent"} = {f \in Events : status[f] # "absent"}
    BY <1>8, <2>1 DEF Release, Inv, TypeOK
  <2> QED
    BY <1>8, <2>1, <2>2 DEF Release, Promise!Close, Appended
<1> QED
  BY <1>1, <1>2, <1>3, <1>4, <1>5, <1>6, <1>7, <1>8 DEF Next, Flush, Promise!Next

\* An event's document is dated for deletion only after Kafka has the event or
\* MaxAttempts tries were made, however many relays run.
THEOREM Implementation == Spec => ImplementsDelivery
<1>1. Init => Promise!Init
  BY DEF Init, Promise!Init
<1>2. Inv /\ [Next]_vars => [Promise!Next]_(Promise!vars)
  <2> SUFFICES ASSUME Inv, [Next]_vars
               PROVE  Promise!Next \/ UNCHANGED Promise!vars
    OBVIOUS
  <2>1. CASE Next
    BY <2>1, StepImplements DEF Appended, Promise!vars
  <2>2. CASE UNCHANGED vars
    BY <2>2 DEF vars, events, Promise!vars
  <2> QED
    BY <2>1, <2>2
<1> QED
  BY <1>1, <1>2, Invariance, PTL DEF Spec, ImplementsDelivery, Promise!Spec

-----------------------------------------------------------------------------
(* One relay that runs, among any number that are down.                      *)

OnlyOne(r) == \A q \in Relays \ {r} : at[q] = "down"

\* An event of a batch is "processing", and a relay that is down has no batch:
\* while one relay runs, the batches and the collection agree.
BatchesHeld == \A q \in Relays :
    /\ \A e \in batch[q] : status[e] = "processing"
    /\ at[q] = "down" => batch[q] = {}

AloneInv == errors = 0 /\ BatchesHeld /\ PendingKept

\* The relay that takes a step is the one that runs.
LEMMA AloneStep ==
  ASSUME NEW r, OnlyOne(r), OnlyOne(r)', errors' = 0, Inv, AloneInv,
         NEW q \in Relays,
         \/ Start(q) \/ BeginFlush(q) \/ Flush(q) \/ FlushError(q) \/ Crash(q)
         \/ \E e \in Events : MarkError(q, e)
  PROVE  BatchesHeld' /\ PendingKept'
<1> USE DEF BatchesHeld, AloneInv, PendingKept, Inv, TypeOK, events, faults, relays, Goto
<1>1. at[q] = "down" => at'[q] # "down"
  BY DEF Start, BeginFlush, Flush, EndClaim, Claim, PublishOk, PublishFail, Mark, ReadAttempts,
         Release, FlushError, Crash, MarkError
<1>2. \A p \in Relays \ {q} : at[p] = "down" /\ batch[p] = {}
  BY <1>1 DEF OnlyOne
<1>3. CASE Start(q)
  BY <1>2, <1>3 DEF Start, Processing
<1>4. CASE BeginFlush(q) \/ EndClaim(q)
  BY <1>4 DEF BeginFlush, EndClaim, EndFlush
<1>5. ASSUME NEW e \in Events, Claim(q, e)
      PROVE  BatchesHeld' /\ PendingKept'
  <2>1. status[e] = "pending"
    BY <1>5 DEF Claim, First, Claimable
  <2> QED
    BY <1>5, <2>1 DEF Claim
<1>6. ASSUME NEW e \in Events, PublishOk(q, e) \/ PublishFail(q, e)
      PROVE  BatchesHeld' /\ PendingKept'
  BY <1>6 DEF PublishOk, PublishFail
<1>7. ASSUME NEW e \in Events, Mark(q, e)
      PROVE  BatchesHeld' /\ PendingKept'
  <2>1. /\ status' = [status EXCEPT ![e] = "published"]
        /\ expires' = expires \union {e}
        /\ batch' = [batch EXCEPT ![q] = @ \ {e}]
        /\ at'[q] # "down" /\ \A p \in Relays \ {q} : at'[p] = at[p]
    BY <1>7 DEF Mark, SetPublished, Stored, First, Done, EndFlush
  <2> QED
    BY <1>2, <2>1
<1>8. ASSUME NEW e \in Events, ReadAttempts(q, e)
      PROVE  BatchesHeld' /\ PendingKept'
  BY <1>8 DEF ReadAttempts, Done, EndFlush
<1>9. ASSUME NEW e \in Events, Release(q, e)
      PROVE  BatchesHeld' /\ PendingKept'
  <2>1. e \in batch[q] /\ status[e] = "processing" /\ e \notin expires
    BY <1>9 DEF Release, First
  <2>2. /\ status' = [status EXCEPT ![e] = IF q \in exhausted THEN "failed" ELSE "pending"]
        /\ expires' = IF q \in exhausted THEN expires \union {e} ELSE expires
        /\ batch' = [batch EXCEPT ![q] = @ \ {e}]
        /\ at'[q] # "down" /\ \A p \in Relays \ {q} : at'[p] = at[p]
    BY <1>9, <2>1 DEF Release, Stored, Done, EndFlush
  <2>3. BatchesHeld'
    BY <1>2, <2>2
  <2>4. PendingKept'
    <3>1. CASE q \in exhausted
      BY <2>1, <2>2, <3>1
    <3>2. CASE q \notin exhausted
      BY <2>1, <2>2, <3>2
    <3> QED
      BY <3>1, <3>2
  <2> QED
    BY <2>3, <2>4
<1>10. CASE Crash(q)
  BY <1>10 DEF Crash, Forget
<1>11. ~ FlushError(q) /\ \A e \in Events : ~ MarkError(q, e)
  BY DEF FlushError, MarkError
<1> QED
  BY <1>3, <1>4, <1>5, <1>6, <1>7, <1>8, <1>9, <1>10, <1>11 DEF Flush

LEMMA AloneNext ==
  ASSUME NEW r, OnlyOne(r), OnlyOne(r)', errors' = 0, Inv, AloneInv, [Next]_vars
  PROVE  AloneInv'
<1>1. ASSUME NEW e \in Events, Append(e) \/ Available(e) \/ Prune(e)
      PROVE  BatchesHeld' /\ PendingKept'
  BY <1>1 DEF Append, Available, Prune, Evidence, BatchesHeld, AloneInv, PendingKept, Inv, TypeOK,
              relays
<1>2. CASE UNCHANGED vars
  BY <1>2 DEF vars, events, relays, BatchesHeld, AloneInv, PendingKept
<1> QED
  BY <1>1, <1>2, AloneStep DEF Next, AloneInv

\* With one relay process, and a MongoDB that answers, no event that is still to
\* be published has a date of deletion, however often the process is restarted.
THEOREM SingleRelayKeeps ==
  ASSUME NEW r \in Relays, Relays = {r}, MaxErrors = 0
  PROVE  Spec => []PendingKept
<1>1. Init => AloneInv
  BY DEF Init, AloneInv, BatchesHeld, PendingKept
<1>2. AloneInv /\ [Next]_vars => errors' = 0
  BY DEF AloneInv, Next, vars, faults, Append, Available, Prune, Start, BeginFlush, Flush, EndClaim,
         Claim, PublishOk, PublishFail, Mark, ReadAttempts, Release, FlushError, Crash, MarkError
<1>3. OnlyOne(r) /\ OnlyOne(r)'
  BY DEF OnlyOne
<1>4. Inv /\ AloneInv /\ [Next]_vars => AloneInv'
  BY <1>2, <1>3, AloneNext
<1>5. AloneInv => PendingKept
  BY DEF AloneInv
<1> QED
  BY <1>1, <1>4, <1>5, Invariance, PTL DEF Spec

\* The same of a process that is alone in a larger fleet: what keeps a pending
\* event from deletion is that no other process runs, not that there is none.
THEOREM AloneInFleetKeeps == FleetSpec => []PendingKeptAlone
<1> DEFINE FInv == fleet = {a} => AloneInv /\ OnlyOne(a)
<1>1. FleetInit => Inv /\ FInv
  <2>1. Init => AloneInv /\ OnlyOne(a)
    BY DEF Init, AloneInv, BatchesHeld, PendingKept, OnlyOne
  <2> QED
    BY <2>1, InitInv DEF FleetInit
<1>2. Inv /\ FInv /\ [FleetNext]_<<vars, fleet>> => Inv' /\ FInv'
  <2> SUFFICES ASSUME Inv, FInv, [FleetNext]_<<vars, fleet>>
               PROVE  Inv' /\ FInv'
    OBVIOUS
  <2>1. Inv' /\ fleet' = fleet /\ [Next]_vars
    BY NextInv DEF FleetNext
  <2>2. ASSUME fleet = {a} PROVE AloneInv' /\ OnlyOne(a)'
    <3>1. AloneInv /\ OnlyOne(a)
      BY <2>2
    <3>2. CASE FleetNext
      <4>1. errors' = 0 /\ OnlyOne(a)'
        BY <2>2, <3>2 DEF FleetNext, OnlyOne
      <4> QED
        BY <2>1, <3>1, <4>1, AloneNext
    <3>3. CASE UNCHANGED vars
      <4>1. errors' = 0 /\ OnlyOne(a)'
        BY <3>1, <3>3 DEF vars, relays, faults, OnlyOne, AloneInv
      <4> QED
        BY <2>1, <3>1, <4>1, AloneNext
    <3> QED
      BY <3>2, <3>3
  <2> QED
    BY <2>1, <2>2
<1>3. FInv => PendingKeptAlone
  BY DEF PendingKeptAlone, AloneInv
<1> QED
  BY <1>1, <1>2, <1>3, PTL DEF FleetSpec
=============================================================================
