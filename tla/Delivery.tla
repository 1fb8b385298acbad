------------------------------ MODULE Delivery ------------------------------
(***************************************************************************)
(* What the transactional outbox promises of each domain event: the event  *)
(* reaches Kafka at least once before its document is given a date of      *)
(* deletion, unless that many tries have been made in vain.                *)
(***************************************************************************)
EXTENDS Integers

CONSTANTS Events,    \* the domain events that handlers append
          MaxAttempts

VARIABLES appended,  \* events in the outbox collection
          tries,     \* how often each was claimed by a relay
          sent,      \* events Kafka has at least one copy of
          closed     \* events whose document has, or had, a date of deletion

vars == <<appended, tries, sent, closed>>

Init ==
    /\ appended = {}
    /\ tries = [e \in Events |-> 0]
    /\ sent = {}
    /\ closed = {}

Append(e) ==
    /\ e \notin appended
    /\ appended' = appended \union {e}
    /\ UNCHANGED <<tries, sent, closed>>

Try(e) ==
    /\ e \in appended
    /\ tries' = [tries EXCEPT ![e] = @ + 1]
    /\ UNCHANGED <<appended, sent, closed>>

Send(e) ==
    /\ e \in appended
    /\ tries[e] > 0
    /\ sent' = sent \union {e}
    /\ UNCHANGED <<appended, tries, closed>>

Close(e) ==
    /\ e \in appended
    /\ e \in sent \/ tries[e] >= MaxAttempts
    /\ closed' = closed \union {e}
    /\ UNCHANGED <<appended, tries, sent>>

Next == \E e \in Events : Append(e) \/ Try(e) \/ Send(e) \/ Close(e)

Spec == Init /\ [][Next]_vars
=============================================================================
