---------------------------- MODULE SearchIndex ----------------------------
(***************************************************************************)
(* The route-search index.  search-indexer consumes the lifecycle events of *)
(* trips and delivery requests, and DeliveryPaid from a topic of its own,   *)
(* and posts each to routing-search, which reads the document in Redis,     *)
(* takes it out of the sets of its old place, writes the merged document    *)
(* and puts it into the sets of its new place: four commands that other     *)
(* upserts of the document interleave with.  An event is redelivered until  *)
(* its upsert has answered; an upsert nobody waits for any more goes on.    *)
(***************************************************************************)
EXTENDS Naturals, Sequences, FiniteSets

CONSTANTS Documents, Places,
          Upserts,         \* what may run at once in routing-search: one upsert each
          MaxPublished,    \* bound: events that are published
          MaxIndexFaults   \* bound: requests that time out, deaths of routing-search

Topics == {"lifecycle", "payment"}
Queues == Topics \X Documents

\* An event may leave the place out (DeliveryPaid, and TripUpdated after a deposit).
NoPlace == "no place"

ASSUME SearchIndexAssumption ==
    /\ NoPlace \notin Places
    /\ MaxPublished \in Nat /\ MaxIndexFaults \in Nat

VARIABLES
    topics,      \* events of a queue that are not acknowledged, in order
    latest,      \* the place of a trip or request, as its last event has it
    document,    \* the place in the document idx:trip:<id> or idx:delivery_request:<id>
    members,     \* the sets idx:token:... and idx:h3:...: which document is at which place
    upserts,
    published, indexFaults,
    overlapped,  \* history: documents of which two upserts ran at the same time
    torn         \* history: documents an upsert nobody waited for died halfway

indexVars == <<topics, latest, document, members, upserts, published, indexFaults,
               overlapped, torn>>

NoUpsert == [at |-> "idle", queue |-> "none", place |-> NoPlace, read |-> NoPlace,
             awaited |-> FALSE]

DocumentOf(u) == upserts[u].queue[2]
Running(d) == {u \in Upserts : upserts[u].at # "idle" /\ DocumentOf(u) = d}
Awaited(q) == {u \in Upserts : upserts[u].awaited /\ upserts[u].queue = q}

\* Mutant of Merged: existing.get(...) or payload.get(...)
MergedStored(u) == IF upserts[u].read = NoPlace THEN upserts[u].place ELSE upserts[u].read

\* payload.get(...) or existing.get(...)
Merged(u) == IF upserts[u].place = NoPlace THEN upserts[u].read ELSE upserts[u].place

SearchIndexInit ==
    /\ topics = [q \in Queues |-> <<>>]
    /\ latest = [d \in Documents |-> NoPlace]
    /\ document = [d \in Documents |-> NoPlace]
    /\ members = {}
    /\ upserts = [u \in Upserts |-> NoUpsert]
    /\ published = 0 /\ indexFaults = 0
    /\ overlapped = {} /\ torn = {}

\* The outbox relay publishes an event.
Publish(q, place) ==
    /\ published < MaxPublished
    /\ q[1] = "payment" => place = NoPlace
    /\ published' = published + 1
    /\ topics' = [topics EXCEPT ![q] = Append(@, place)]
    /\ latest' = [latest EXCEPT ![q[2]] = IF place = NoPlace THEN @ ELSE place]
    /\ UNCHANGED <<document, members, upserts, indexFaults, overlapped, torn>>

\* eachMessage: the handler of the topic posts the event.
Consume(u, q) ==
    /\ topics[q] # <<>> /\ Awaited(q) = {}
    /\ upserts[u].at = "idle"
    /\ upserts' = [upserts EXCEPT ![u] = [at |-> "read", queue |-> q,
                      place |-> Head(topics[q]), read |-> NoPlace, awaited |-> TRUE]]
    /\ overlapped' = IF Running(q[2]) = {} THEN overlapped ELSE overlapped \union {q[2]}
    /\ UNCHANGED <<topics, latest, document, members, published, indexFaults, torn>>

\* _load_document
ReadDocument(u) ==
    /\ upserts[u].at = "read"
    /\ upserts' = [upserts EXCEPT ![u].at = "remove", ![u].read = document[DocumentOf(u)]]
    /\ UNCHANGED <<topics, latest, document, members, published, indexFaults,
                   overlapped, torn>>

\* _remove_memberships, one pipeline
RemoveMemberships(u) ==
    /\ upserts[u].at = "remove"
    /\ members' = members \ {<<upserts[u].read, DocumentOf(u)>>}
    /\ upserts' = [upserts EXCEPT ![u].at = "write"]
    /\ UNCHANGED <<topics, latest, document, published, indexFaults, overlapped, torn>>

\* hset, and the document's id in the set of all
WriteDocument(u) ==
    /\ upserts[u].at = "write"
    /\ document' = [document EXCEPT ![DocumentOf(u)] = Merged(u)]
    /\ upserts' = [upserts EXCEPT ![u].at = "add"]
    /\ UNCHANGED <<topics, latest, members, published, indexFaults, overlapped, torn>>

\* Mutant of AddMemberships: a document that has not moved is left alone.
AddIfMoved(u) ==
    /\ upserts[u].at = "add"
    /\ members' = IF Merged(u) \in {NoPlace, upserts[u].read} THEN members
                  ELSE members \union {<<Merged(u), DocumentOf(u)>>}
    /\ upserts' = [upserts EXCEPT ![u].at = "done"]
    /\ UNCHANGED <<topics, latest, document, published, indexFaults, overlapped, torn>>

\* _add_memberships, one pipeline: without a place there is nothing to add.
AddMemberships(u) ==
    /\ upserts[u].at = "add"
    /\ members' = IF Merged(u) = NoPlace THEN members
                  ELSE members \union {<<Merged(u), DocumentOf(u)>>}
    /\ upserts' = [upserts EXCEPT ![u].at = "done"]
    /\ UNCHANGED <<topics, latest, document, published, indexFaults, overlapped, torn>>

\* The upsert has answered: the consumer's offset moves on.
Answer(u) ==
    /\ upserts[u].at = "done"
    /\ topics' = IF upserts[u].awaited
                 THEN [topics EXCEPT ![upserts[u].queue] = Tail(@)] ELSE topics
    /\ upserts' = [upserts EXCEPT ![u] = NoUpsert]
    /\ UNCHANGED <<latest, document, members, published, indexFaults, overlapped, torn>>

\* The indexer stops waiting after 8 seconds, or dies: the event comes again.
StopWaiting(u) ==
    /\ upserts[u].awaited
    /\ indexFaults < MaxIndexFaults /\ indexFaults' = indexFaults + 1
    /\ upserts' = [upserts EXCEPT ![u].awaited = FALSE]
    /\ UNCHANGED <<topics, latest, document, members, published, overlapped, torn>>

\* routing-search dies with all its upserts.
RoutingSearchDies ==
    /\ \E u \in Upserts : upserts[u].at # "idle"
    /\ indexFaults < MaxIndexFaults /\ indexFaults' = indexFaults + 1
    /\ torn' = torn \union {DocumentOf(u) : u \in
                   {x \in Upserts : upserts[x].at # "idle" /\ ~ upserts[x].awaited}}
    /\ upserts' = [u \in Upserts |-> NoUpsert]
    /\ UNCHANGED <<topics, latest, document, members, published, overlapped>>

UpsertStep(u) ==
    \/ ReadDocument(u) \/ RemoveMemberships(u) \/ WriteDocument(u) \/ AddMemberships(u)
    \/ Answer(u)

SearchIndexNext ==
    \/ \E q \in Queues, place \in Places \union {NoPlace} : Publish(q, place)
    \/ \E u \in Upserts : UpsertStep(u) \/ StopWaiting(u)
    \/ \E q \in Queues, u \in Upserts : Consume(u, q)
    \/ RoutingSearchDies

SearchIndexSpec == SearchIndexInit /\ [][SearchIndexNext]_indexVars

\* Kafka delivers what is not acknowledged, and an upsert that runs goes on.
SearchIndexFairness ==
    /\ \A q \in Queues : WF_indexVars(\E u \in Upserts : Consume(u, q))
    /\ \A u \in Upserts : WF_indexVars(UpsertStep(u))

-----------------------------------------------------------------------------
Upsert == [at : {"idle", "read", "remove", "write", "add", "done"},
           queue : Queues \union {"none"}, place : Places \union {NoPlace},
           read : Places \union {NoPlace}, awaited : BOOLEAN]

SearchIndexTypeOK ==
    /\ topics \in [Queues -> Seq(Places \union {NoPlace})]
    /\ latest \in [Documents -> Places \union {NoPlace}]
    /\ document \in [Documents -> Places \union {NoPlace}]
    /\ members \subseteq Places \X Documents
    /\ upserts \in [Upserts -> Upsert]
    /\ published \in Nat /\ indexFaults \in Nat
    /\ overlapped \subseteq Documents /\ torn \subseteq Documents

Pending(d) == \E q \in Queues : q[2] = d /\ topics[q] # <<>>

\* A search finds every document under the place it has, whatever other upserts of
\* it ran in between and however often its events were redelivered: once no event is
\* pending and no upsert runs, the document is in the sets of its place.  An upsert
\* that died while nobody waited for it is the one that is not made good.
Findable == \A d \in Documents :
    ~ Pending(d) /\ Running(d) = {} /\ d \notin torn /\ document[d] # NoPlace
        => <<document[d], d>> \in members

\* The index follows the events: the place of the last one is written, also when
\* events are redelivered, unless two upserts of the document ran at the same time
\* (after a timeout, or because DeliveryPaid comes on another topic): each writes
\* back the whole document it read.
IndexFollows == \A d \in Documents, p \in Places :
    latest[d] = p ~> (document[d] = p \/ latest[d] # p \/ d \in overlapped)
=============================================================================
