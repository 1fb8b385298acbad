-------------------------- MODULE SearchIndexProofs --------------------------
(***************************************************************************)
(* For any number of documents, places and upserts, whatever runs at the   *)
(* same time, times out or dies: what the index has stored can be found.   *)
(* A document that is not in the sets of its place has an upsert that will *)
(* put it there, or an event whose upsert has not begun to change it: an   *)
(* event is acknowledged only when its upsert is through.                  *)
(***************************************************************************)
EXTENDS SearchIndex, TLAPS

NoPlaces == Places \union {NoPlace}

IndexTypes ==
    /\ topics \in [Queues -> Seq(NoPlaces)]
    /\ document \in [Documents -> NoPlaces]
    /\ upserts \in [Upserts -> Upsert]

\* An event that an upsert answers for is still there, and only one answers for it.
UpsertsAnswer ==
    /\ \A u \in Upserts : upserts[u].at # "idle" => upserts[u].queue \in Queues
    /\ \A u \in Upserts : upserts[u].awaited =>
          upserts[u].at # "idle" /\ topics[upserts[u].queue] # <<>>
    /\ \A u, v \in Upserts :
          upserts[u].awaited /\ upserts[v].awaited /\ upserts[u].queue = upserts[v].queue
             => u = v

\* An upsert that will put document d into the sets of the place it has then.
WillAdd(u, d) ==
    /\ upserts[u].at \in {"write", "add"} /\ DocumentOf(u) = d
    /\ upserts[u].at = "add" => Merged(u) = document[d]

\* An event of document d whose upsert is still to change it.
WillCome(q, d) ==
    /\ q[2] = d /\ topics[q] # <<>>
    /\ \A u \in Upserts : upserts[u].awaited /\ upserts[u].queue = q
          => upserts[u].at \in {"read", "remove"}

MadeGood == \A d \in Documents : d \notin torn /\ document[d] # NoPlace =>
    \/ <<document[d], d>> \in members
    \/ \E u \in Upserts : WillAdd(u, d)
    \/ \E q \in Queues : WillCome(q, d)

IndexInv == IndexTypes /\ UpsertsAnswer /\ MadeGood

-----------------------------------------------------------------------------

LEMMA IndexInitInv == SearchIndexInit => IndexInv
BY SearchIndexAssumption
   DEF SearchIndexInit, IndexInv, IndexTypes, UpsertsAnswer, MadeGood, NoPlaces, NoUpsert, Upsert

LEMMA QueueDocument ==
  ASSUME NEW q \in Queues
  PROVE  q[2] \in Documents
BY DEF Queues

LEMMA PublishInv ==
  ASSUME IndexInv, NEW q \in Queues, NEW place \in NoPlaces, Publish(q, place)
  PROVE  IndexInv'
<1> USE DEF IndexInv
<1>1. IndexTypes'
  BY DEF Publish, IndexTypes
<1>2. \A p \in Queues : topics[p] # <<>> => topics'[p] # <<>>
  BY DEF Publish, IndexTypes
<1>3. UNCHANGED <<document, members, upserts, torn>>
  BY DEF Publish
<1>4. UpsertsAnswer'
  <2>1. \A u \in Upserts : upserts[u].awaited => upserts[u].queue \in Queues
    BY DEF UpsertsAnswer
  <2> QED
    BY <1>2, <1>3, <2>1 DEF UpsertsAnswer
<1>5. MadeGood'
  BY <1>2, <1>3 DEF MadeGood, WillAdd, WillCome, DocumentOf, Merged
<1> QED
  BY <1>1, <1>4, <1>5

LEMMA ConsumeInv ==
  ASSUME IndexInv, NEW u \in Upserts, NEW q \in Queues, Consume(u, q)
  PROVE  IndexInv'
<1> USE DEF IndexInv
<1>1. /\ upserts' = [upserts EXCEPT ![u] = [at |-> "read", queue |-> q,
                        place |-> Head(topics[q]), read |-> NoPlace, awaited |-> TRUE]]
      /\ upserts[u].at = "idle" /\ topics[q] # <<>>
      /\ \A v \in Upserts : ~ (upserts[v].awaited /\ upserts[v].queue = q)
      /\ UNCHANGED <<topics, document, members, torn>>
  BY DEF Consume, Awaited
<1>2. IndexTypes'
  BY <1>1 DEF IndexTypes, Upsert, NoPlaces
<1>3. /\ upserts'[u].at = "read" /\ upserts'[u].queue = q
      /\ \A v \in Upserts : v # u => upserts'[v] = upserts[v]
  BY <1>1 DEF IndexTypes
<1>4. UpsertsAnswer'
  BY <1>1, <1>3 DEF UpsertsAnswer
<1>5. MadeGood'
  BY <1>1, <1>3 DEF MadeGood, WillAdd, WillCome, DocumentOf, Merged
<1> QED
  BY <1>2, <1>4, <1>5

\* The steps of an upsert that has begun leave the events and the other upserts alone.
LEMMA StepAnswers ==
  ASSUME IndexInv, NEW u \in Upserts, upserts[u].at # "idle",
         topics' = topics, IndexTypes',
         upserts'[u].at # "idle", upserts'[u].queue = upserts[u].queue,
         upserts'[u].awaited => upserts[u].awaited,
         \A v \in Upserts : v # u => upserts'[v] = upserts[v]
  PROVE  UpsertsAnswer'
BY DEF IndexInv, UpsertsAnswer

LEMMA ReadInv ==
  ASSUME IndexInv, NEW u \in Upserts, ReadDocument(u)
  PROVE  IndexInv'
<1> USE DEF IndexInv
<1>1. /\ upserts' = [upserts EXCEPT ![u].at = "remove", ![u].read = document[DocumentOf(u)]]
      /\ upserts[u].at = "read"
      /\ UNCHANGED <<topics, document, members, torn>>
  BY DEF ReadDocument
<1>2. DocumentOf(u) \in Documents
  BY <1>1, QueueDocument DEF UpsertsAnswer, DocumentOf
<1>3. IndexTypes'
  <2>1. upserts[u] \in Upsert /\ document[DocumentOf(u)] \in Places \union {NoPlace}
    BY <1>2 DEF IndexTypes, NoPlaces
  <2>2. [upserts[u] EXCEPT !.at = "remove", !.read = document[DocumentOf(u)]] \in Upsert
    BY <2>1 DEF Upsert
  <2> QED
    BY <1>1, <2>2 DEF IndexTypes
<1>4. /\ upserts'[u].at = "remove" /\ upserts'[u].queue = upserts[u].queue
      /\ upserts'[u].awaited = upserts[u].awaited
      /\ \A v \in Upserts : v # u => upserts'[v] = upserts[v]
  BY <1>1 DEF IndexTypes, Upsert
<1>5. UpsertsAnswer'
  BY <1>1, <1>3, <1>4, StepAnswers
<1>6. \A d \in Documents, v \in Upserts : WillAdd(v, d) => WillAdd(v, d)'
  BY <1>1, <1>4 DEF WillAdd, DocumentOf, Merged
<1>7. \A d \in Documents, q \in Queues : WillCome(q, d) => WillCome(q, d)'
  BY <1>1, <1>4 DEF WillCome
<1>8. MadeGood'
  BY <1>1, <1>6, <1>7 DEF MadeGood
<1> QED
  BY <1>3, <1>5, <1>8

LEMMA RemoveInv ==
  ASSUME IndexInv, NEW u \in Upserts, RemoveMemberships(u)
  PROVE  IndexInv'
<1> USE DEF IndexInv
<1>1. /\ upserts' = [upserts EXCEPT ![u].at = "write"]
      /\ upserts[u].at = "remove"
      /\ members' = members \ {<<upserts[u].read, DocumentOf(u)>>}
      /\ UNCHANGED <<topics, document, torn>>
  BY DEF RemoveMemberships
<1>2. IndexTypes'
  BY <1>1 DEF IndexTypes, Upsert
<1>3. /\ upserts'[u].at = "write" /\ upserts'[u].queue = upserts[u].queue
      /\ upserts'[u].awaited = upserts[u].awaited
      /\ \A v \in Upserts : v # u => upserts'[v] = upserts[v]
  BY <1>1 DEF IndexTypes, Upsert
<1>4. UpsertsAnswer'
  BY <1>1, <1>2, <1>3, StepAnswers
<1>5. MadeGood'
  <2> SUFFICES ASSUME NEW d \in Documents, d \notin torn, document[d] # NoPlace
               PROVE  \/ <<document[d], d>> \in members'
                      \/ \E v \in Upserts : WillAdd(v, d)'
                      \/ \E q \in Queues : WillCome(q, d)'
    BY <1>1 DEF MadeGood
  <2>1. CASE d = DocumentOf(u)
    BY <1>3, <2>1 DEF WillAdd, DocumentOf
  <2>2. CASE d # DocumentOf(u)
    <3>1. <<document[d], d>> \in members => <<document[d], d>> \in members'
      BY <1>1, <2>2
    <3>2. \A v \in Upserts : WillAdd(v, d) => WillAdd(v, d)'
      BY <1>1, <1>3 DEF WillAdd, DocumentOf, Merged
    <3>3. \A q \in Queues : WillCome(q, d) => WillCome(q, d)'
      BY <1>1, <1>3, <2>2 DEF WillCome, DocumentOf
    <3> QED
      BY <3>1, <3>2, <3>3 DEF MadeGood
  <2> QED
    BY <2>1, <2>2
<1> QED
  BY <1>2, <1>4, <1>5

LEMMA WriteInv ==
  ASSUME IndexInv, NEW u \in Upserts, WriteDocument(u)
  PROVE  IndexInv'
<1> USE DEF IndexInv
<1>1. /\ upserts' = [upserts EXCEPT ![u].at = "add"]
      /\ upserts[u].at = "write"
      /\ document' = [document EXCEPT ![DocumentOf(u)] = Merged(u)]
      /\ UNCHANGED <<topics, members, torn>>
  BY DEF WriteDocument
<1>2. Merged(u) \in NoPlaces /\ DocumentOf(u) \in Documents
  BY <1>1, QueueDocument DEF IndexTypes, Upsert, Merged, NoPlaces, UpsertsAnswer, DocumentOf
<1>3. IndexTypes'
  BY <1>1, <1>2 DEF IndexTypes, Upsert
<1>4. /\ upserts'[u].at = "add" /\ upserts'[u].queue = upserts[u].queue
      /\ upserts'[u].awaited = upserts[u].awaited /\ Merged(u)' = Merged(u)
      /\ \A v \in Upserts : v # u => upserts'[v] = upserts[v]
  BY <1>1 DEF IndexTypes, Upsert, Merged
<1>5. UpsertsAnswer'
  BY <1>1, <1>3, <1>4, StepAnswers
<1>6. MadeGood'
  <2> SUFFICES ASSUME NEW d \in Documents, d \notin torn, document'[d] # NoPlace
               PROVE  \/ <<document'[d], d>> \in members
                      \/ \E v \in Upserts : WillAdd(v, d)'
                      \/ \E q \in Queues : WillCome(q, d)'
    BY <1>1 DEF MadeGood
  <2>1. CASE d = DocumentOf(u)
    <3>1. document'[d] = Merged(u)'
      BY <1>1, <1>2, <1>4, <2>1 DEF IndexTypes
    <3> QED
      BY <1>4, <2>1, <3>1 DEF WillAdd, DocumentOf
  <2>2. CASE d # DocumentOf(u)
    <3>1. document'[d] = document[d]
      BY <1>1, <2>2 DEF IndexTypes
    <3>2. \A v \in Upserts : WillAdd(v, d) => WillAdd(v, d)'
      BY <1>4, <2>2, <3>1 DEF WillAdd, DocumentOf, Merged
    <3>3. \A q \in Queues : WillCome(q, d) => WillCome(q, d)'
      BY <1>1, <1>4, <2>2 DEF WillCome, DocumentOf
    <3> QED
      BY <3>1, <3>2, <3>3 DEF MadeGood
  <2> QED
    BY <2>1, <2>2
<1> QED
  BY <1>3, <1>5, <1>6

LEMMA AddInv ==
  ASSUME IndexInv, NEW u \in Upserts, AddMemberships(u)
  PROVE  IndexInv'
<1> USE DEF IndexInv
<1>1. /\ upserts' = [upserts EXCEPT ![u].at = "done"]
      /\ upserts[u].at = "add"
      /\ members \subseteq members'
      /\ Merged(u) # NoPlace => <<Merged(u), DocumentOf(u)>> \in members'
      /\ UNCHANGED <<topics, document, torn>>
  BY DEF AddMemberships
<1>2. IndexTypes'
  BY <1>1 DEF IndexTypes, Upsert
<1>3. /\ upserts'[u].at = "done" /\ upserts'[u].queue = upserts[u].queue
      /\ upserts'[u].awaited = upserts[u].awaited
      /\ \A v \in Upserts : v # u => upserts'[v] = upserts[v]
  BY <1>1 DEF IndexTypes, Upsert
<1>4. UpsertsAnswer'
  BY <1>1, <1>2, <1>3, StepAnswers
<1>5. MadeGood'
  <2> SUFFICES ASSUME NEW d \in Documents, d \notin torn, document[d] # NoPlace
               PROVE  \/ <<document[d], d>> \in members'
                      \/ \E v \in Upserts : WillAdd(v, d)'
                      \/ \E q \in Queues : WillCome(q, d)'
    BY <1>1 DEF MadeGood
  <2>1. WillAdd(u, d) => <<document[d], d>> \in members'
    BY <1>1 DEF WillAdd
  <2>2. \A v \in Upserts : v # u /\ WillAdd(v, d) => WillAdd(v, d)'
    BY <1>1, <1>3 DEF WillAdd, DocumentOf, Merged
  <2>3. \A q \in Queues : WillCome(q, d) => WillCome(q, d)'
    BY <1>1, <1>3 DEF WillCome
  <2> QED
    BY <1>1, <2>1, <2>2, <2>3 DEF MadeGood
<1> QED
  BY <1>2, <1>4, <1>5

LEMMA UpsertAnswerInv ==
  ASSUME IndexInv, NEW u \in Upserts, Answer(u)
  PROVE  IndexInv'
<1> USE DEF IndexInv
<1> DEFINE p == upserts[u].queue
<1>1. /\ upserts' = [upserts EXCEPT ![u] = NoUpsert]
      /\ upserts[u].at = "done"
      /\ UNCHANGED <<document, members, torn>>
  BY DEF Answer
<1>2. /\ \A q \in Queues : topics'[q] # topics[q] => upserts[u].awaited /\ q = p
      /\ topics' \in [Queues -> Seq(NoPlaces)]
  <2>1. CASE upserts[u].awaited
    <3>1. p \in Queues /\ topics[p] # <<>> /\ topics[p] \in Seq(NoPlaces)
      BY <2>1 DEF UpsertsAnswer, IndexTypes
    <3>2. topics' = [topics EXCEPT ![p] = Tail(topics[p])]
      BY <2>1 DEF Answer
    <3>3. Tail(topics[p]) \in Seq(NoPlaces)
      BY <3>1
    <3> QED
      BY <2>1, <3>1, <3>2, <3>3 DEF IndexTypes
  <2>2. CASE ~ upserts[u].awaited
    <3>1. topics' = topics
      BY <2>2 DEF Answer
    <3> QED
      BY <3>1 DEF IndexTypes
  <2> QED
    BY <2>1, <2>2
<1>3. /\ upserts'[u].at = "idle" /\ ~ upserts'[u].awaited
      /\ \A v \in Upserts : v # u => upserts'[v] = upserts[v]
  BY <1>1 DEF IndexTypes, NoUpsert
<1>4. IndexTypes'
  BY <1>1, <1>2, SearchIndexAssumption DEF IndexTypes, NoUpsert, Upsert
<1>5. UpsertsAnswer'
  BY <1>2, <1>3 DEF UpsertsAnswer
<1>6. \A d \in Documents, v \in Upserts : WillAdd(v, d) => WillAdd(v, d)'
  BY <1>1, <1>3 DEF WillAdd, DocumentOf, Merged
<1>7. \A d \in Documents, q \in Queues : WillCome(q, d) => WillCome(q, d)'
  <2> SUFFICES ASSUME NEW d \in Documents, NEW q \in Queues, WillCome(q, d) PROVE WillCome(q, d)'
    OBVIOUS
  <2>1. ~ (upserts[u].awaited /\ q = p)
    BY <1>1 DEF WillCome
  <2> QED
    BY <1>2, <1>3, <2>1 DEF WillCome
<1>8. MadeGood'
  BY <1>1, <1>6, <1>7 DEF MadeGood
<1> QED
  BY <1>4, <1>5, <1>8

LEMMA StopInv ==
  ASSUME IndexInv, NEW u \in Upserts, StopWaiting(u)
  PROVE  IndexInv'
<1> USE DEF IndexInv
<1>1. /\ upserts' = [upserts EXCEPT ![u].awaited = FALSE]
      /\ upserts[u].awaited
      /\ UNCHANGED <<topics, document, members, torn>>
  BY DEF StopWaiting
<1>2. IndexTypes'
  <2>1. [upserts[u] EXCEPT !.awaited = FALSE] \in Upsert
    BY DEF IndexTypes, Upsert
  <2> QED
    BY <1>1, <2>1 DEF IndexTypes
<1>3. /\ upserts'[u].at = upserts[u].at /\ upserts'[u].queue = upserts[u].queue
      /\ ~ upserts'[u].awaited /\ Merged(u)' = Merged(u)
      /\ \A v \in Upserts : v # u => upserts'[v] = upserts[v]
  BY <1>1 DEF IndexTypes, Upsert, Merged
<1>4. UpsertsAnswer'
  BY <1>1, <1>3 DEF UpsertsAnswer
<1>5. \A d \in Documents, v \in Upserts : WillAdd(v, d) => WillAdd(v, d)'
  BY <1>1, <1>3 DEF WillAdd, DocumentOf, Merged
<1>6. \A d \in Documents, q \in Queues : WillCome(q, d) => WillCome(q, d)'
  BY <1>1, <1>3 DEF WillCome
<1>7. MadeGood'
  BY <1>1, <1>5, <1>6 DEF MadeGood
<1> QED
  BY <1>2, <1>4, <1>7

\* An upsert that dies is made good by its event, which was not acknowledged.
LEMMA DeathInv ==
  ASSUME IndexInv, RoutingSearchDies
  PROVE  IndexInv'
<1> USE DEF IndexInv
<1>1. /\ upserts' = [u \in Upserts |-> NoUpsert]
      /\ UNCHANGED <<topics, document, members>>
      /\ torn \subseteq torn'
      /\ \A u \in Upserts : upserts[u].at # "idle" /\ ~ upserts[u].awaited
             => DocumentOf(u) \in torn'
  BY DEF RoutingSearchDies
<1>2. \A u \in Upserts : upserts'[u].at = "idle" /\ ~ upserts'[u].awaited
  BY <1>1 DEF NoUpsert
<1>3. IndexTypes'
  BY <1>1, SearchIndexAssumption DEF IndexTypes, NoUpsert, Upsert
<1>4. UpsertsAnswer'
  BY <1>2 DEF UpsertsAnswer
<1>5. \A d \in Documents, q \in Queues : WillCome(q, d) => WillCome(q, d)'
  BY <1>1, <1>2 DEF WillCome
<1>6. \A d \in Documents, u \in Upserts : d \notin torn' /\ WillAdd(u, d) =>
         \E q \in Queues : WillCome(q, d)'
  <2> SUFFICES ASSUME NEW d \in Documents, NEW u \in Upserts, d \notin torn', WillAdd(u, d)
               PROVE  \E q \in Queues : WillCome(q, d)'
    OBVIOUS
  <2>1. upserts[u].awaited /\ upserts[u].at # "idle"
    BY <1>1 DEF WillAdd
  <2>2. PICK q \in Queues : q = upserts[u].queue
    BY <2>1 DEF UpsertsAnswer
  <2>3. q[2] = d /\ topics[q] # <<>>
    BY <2>1, <2>2 DEF WillAdd, DocumentOf, UpsertsAnswer
  <2>4. WillCome(q, d)'
    BY <1>1, <1>2, <2>3 DEF WillCome
  <2> QED
    BY <2>4
<1>7. MadeGood'
  BY <1>1, <1>5, <1>6 DEF MadeGood
<1> QED
  BY <1>3, <1>4, <1>7

LEMMA IndexStepInv ==
  ASSUME IndexInv, [SearchIndexNext]_indexVars
  PROVE  IndexInv'
<1>1. CASE SearchIndexNext
  BY <1>1, PublishInv, ConsumeInv, ReadInv, RemoveInv, WriteInv, AddInv, UpsertAnswerInv, StopInv,
     DeathInv DEF SearchIndexNext, UpsertStep, NoPlaces
<1>2. CASE UNCHANGED indexVars
  BY <1>2 DEF indexVars, IndexInv, IndexTypes, UpsertsAnswer, MadeGood, WillAdd, WillCome,
              DocumentOf, Merged
<1> QED
  BY <1>1, <1>2

\* What the places and the history of the documents are made of.
IndexContents ==
    /\ latest \in [Documents -> NoPlaces]
    /\ members \subseteq Places \X Documents
    /\ published \in Nat /\ indexFaults \in Nat
    /\ overlapped \subseteq Documents /\ torn \subseteq Documents

LEMMA ContentsInit == SearchIndexInit => IndexContents
  BY DEF SearchIndexInit, IndexContents, NoPlaces

LEMMA ContentsKept ==
  ASSUME IndexInv, IndexContents, [SearchIndexNext]_indexVars
  PROVE  IndexContents'
<1>1. /\ published' \in {published, published + 1}
      /\ indexFaults' \in {indexFaults, indexFaults + 1}
  BY DEF SearchIndexNext, indexVars, Publish, UpsertStep, ReadDocument, RemoveMemberships,
         WriteDocument, AddMemberships, Answer, StopWaiting, Consume, RoutingSearchDies
<1>2. latest' \in [Documents -> NoPlaces]
  <2>1. ASSUME NEW q \in Queues, NEW place \in NoPlaces, Publish(q, place)
        PROVE  latest' \in [Documents -> NoPlaces]
    BY <2>1, QueueDocument DEF Publish, IndexContents
  <2>2. latest' = latest \/ \E q \in Queues, place \in NoPlaces : Publish(q, place)
    BY DEF SearchIndexNext, indexVars, UpsertStep, ReadDocument, RemoveMemberships,
           WriteDocument, AddMemberships, Answer, StopWaiting, Consume, RoutingSearchDies, NoPlaces
  <2> QED
    BY <2>1, <2>2 DEF IndexContents
<1>3. \A u \in Upserts : upserts[u].at # "idle" => DocumentOf(u) \in Documents
  BY QueueDocument DEF IndexInv, UpsertsAnswer, DocumentOf
<1>4. members' \subseteq Places \X Documents
  <2>1. ASSUME NEW u \in Upserts, AddMemberships(u)
        PROVE  members' \subseteq Places \X Documents
    <3>1. Merged(u) \in NoPlaces
      BY DEF IndexInv, IndexTypes, Upsert, Merged, NoPlaces
    <3>2. DocumentOf(u) \in Documents
      BY <1>3, <2>1 DEF AddMemberships
    <3>3. members' = members
             \/ (Merged(u) # NoPlace /\ members' = members \union {<<Merged(u), DocumentOf(u)>>})
      BY <2>1 DEF AddMemberships
    <3> QED
      BY <3>1, <3>2, <3>3 DEF IndexContents, NoPlaces
  <2>2. members' \subseteq members \/ \E u \in Upserts : AddMemberships(u)
    BY DEF SearchIndexNext, indexVars, Publish, UpsertStep, ReadDocument, RemoveMemberships,
           WriteDocument, Answer, StopWaiting, Consume, RoutingSearchDies
  <2> QED
    BY <2>1, <2>2 DEF IndexContents
<1>5. overlapped' \subseteq Documents
  <2>1. ASSUME NEW q \in Queues, NEW u \in Upserts, Consume(u, q)
        PROVE  overlapped' \subseteq Documents
    BY <2>1, QueueDocument DEF Consume, IndexContents
  <2>2. overlapped' = overlapped \/ \E q \in Queues, u \in Upserts : Consume(u, q)
    BY DEF SearchIndexNext, indexVars, Publish, UpsertStep, ReadDocument, RemoveMemberships,
           WriteDocument, AddMemberships, Answer, StopWaiting, RoutingSearchDies
  <2> QED
    BY <2>1, <2>2 DEF IndexContents
<1>6. torn' \subseteq Documents
  <2>1. CASE RoutingSearchDies
    BY <1>3, <2>1 DEF RoutingSearchDies, IndexContents
  <2>2. torn' = torn \/ RoutingSearchDies
    BY DEF SearchIndexNext, indexVars, Publish, UpsertStep, ReadDocument, RemoveMemberships,
           WriteDocument, AddMemberships, Answer, StopWaiting, Consume
  <2> QED
    BY <2>1, <2>2 DEF IndexContents
<1> QED
  BY <1>1, <1>2, <1>4, <1>5, <1>6 DEF IndexContents

LEMMA IndexInvariance == SearchIndexSpec => []IndexInv
  BY IndexInitInv, IndexStepInv, PTL DEF SearchIndexSpec

-----------------------------------------------------------------------------

\* Once a document has no event pending and no upsert running, a search for the place
\* it is stored with finds it, however its upserts were interleaved, repeated and cut
\* off, unless an upsert that nobody waited for died halfway.
THEOREM DocumentsFindable == SearchIndexSpec => []Findable
<1>1. IndexInv => Findable
  <2> SUFFICES ASSUME IndexInv, NEW d \in Documents, ~ Pending(d), Running(d) = {},
                      d \notin torn, document[d] # NoPlace
               PROVE  <<document[d], d>> \in members
    BY DEF Findable
  <2>1. \A u \in Upserts : ~ WillAdd(u, d)
    BY DEF WillAdd, Running
  <2>2. \A q \in Queues : ~ WillCome(q, d)
    BY DEF WillCome, Pending
  <2> QED
    BY <2>1, <2>2 DEF IndexInv, MadeGood
<1> QED
  BY <1>1, IndexInvariance, PTL
=============================================================================
