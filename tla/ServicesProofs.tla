--------------------------- MODULE ServicesProofs ---------------------------
(***************************************************************************)
(* The process, the city input and the realtime channel, for any number of *)
(* connections, searches, gateways and pages, and then all components that *)
(* MCServices checks in one run.                                           *)
(*                                                                         *)
(* A response is counted down once, though it may both finish and close,   *)
(* and a shutdown that has closed the HTTP server has no connection left.  *)
(* The answer that opens the list of cities is for the text that was       *)
(* typed.  What a page was shown of a message and what its gateway is      *)
(* still to emit of it are not more than Redis carried, unless the message *)
(* came in at that gateway, which then emits it once and ignores the       *)
(* channel.                                                                *)
(***************************************************************************)
EXTENDS MCServices, CheckoutProofs, SearchIndexProofs, UserProofs,
        FiniteSetTheorems, SequenceTheorems, TLAPS

-----------------------------------------------------------------------------
(* The process *)

\* The server follows the start and the shutdown; a process that is alive has an
\* attempt to connect left.
ServerFollows ==
    /\ Alive => retries < MaxRetries
    /\ server # "none" => starting = "up"
    /\ server \in {"closing", "closed"} => shuttingDown
    /\ ~ shuttingDown => \A x \in Steps : steps[x] = "none"
    /\ shuttingDown /\ ~ early => server \in {"closing", "closed"}
    /\ server = "closed" => \A c \in Connections : connections[c] = "closed"
    /\ steps["http_server"] = "done" /\ ~ early => server = "closed"
    /\ exit = "0" /\ ~ early => server = "closed"

RuntimeInv == RuntimeTypeOK /\ CountExact /\ ServerFollows

-----------------------------------------------------------------------------

\* A request more, or less, is one more or less to count.
LEMMA HandlingFinite ==
  /\ IsFiniteSet(Handling) /\ Cardinality(Handling) \in Nat
  /\ \A c \in Connections \ Handling : Cardinality(Handling \union {c}) = Cardinality(Handling) + 1
  /\ \A c \in Handling : Cardinality(Handling \ {c}) = Cardinality(Handling) - 1
<1>1. IsFiniteSet(Handling)
  BY FS_Subset, RuntimeAssumption DEF Handling
<1> QED
  BY <1>1, FS_CardinalityType, FS_AddElement, FS_RemoveElement

LEMMA RuntimeInitInv == RuntimeInit => RuntimeInv
<1> SUFFICES ASSUME RuntimeInit PROVE RuntimeInv
  OBVIOUS
<1> USE RuntimeAssumption DEF RuntimeInit, Steps
<1>1. RuntimeTypeOK
  <2>1. workers \in BOOLEAN /\ shuttingDown \in BOOLEAN /\ early \in BOOLEAN
    BY Zenon
  <2>2. steps \in [Steps -> {"none", "running", "done", "failed"}]
    OBVIOUS
  <2> QED
    BY <2>1, <2>2 DEF RuntimeTypeOK
<1>2. Handling = {}
  BY DEF Handling
<1>3. CountExact
  BY <1>2, FS_EmptySet DEF CountExact
<1>4. ServerFollows
  BY DEF ServerFollows, Alive
<1> QED
  BY <1>1, <1>3, <1>4 DEF RuntimeInv

\* The start of the process.
LEMMA StartInv ==
  ASSUME RuntimeInv, ConnectFails \/ Advance \/ Listen \/ StartFails
  PROVE  RuntimeInv'
<1> USE RuntimeAssumption DEF RuntimeInv, httpVars, shutdownVars, startVars
<1>1. RuntimeTypeOK'
  <2> USE DEF RuntimeTypeOK, Alive
  <2>1. CASE ConnectFails
    <3>1. retries' \in 0 .. MaxRetries
      BY <2>1 DEF ConnectFails, ServerFollows
    <3>2. exit' \in {"none", "1"}
      BY <2>1 DEF ConnectFails
    <3> QED
      BY <2>1, <3>1, <3>2 DEF ConnectFails
  <2>2. CASE Advance
    <3>1. workers' \in BOOLEAN
      BY <2>2 DEF Advance
    <3>2. starting' \in {"ping", "outbox", "schedule"}
      BY <2>2 DEF Advance, After
    <3> QED
      BY <2>2, <3>1, <3>2 DEF Advance
  <2>3. CASE Listen
    BY <2>3 DEF Listen
  <2>4. CASE StartFails
    BY <2>4 DEF StartFails, RuntimeFault
  <2> HIDE DEF RuntimeTypeOK
  <2> QED
    BY <2>1, <2>2, <2>3, <2>4
<1>2. Handling' = Handling /\ inFlight' = inFlight
  BY DEF Handling, ConnectFails, Advance, Listen, StartFails
<1>3. CountExact'
  BY <1>2 DEF CountExact
<1>4. ServerFollows'
  BY DEF ServerFollows, ConnectFails, Advance, After, Listen, StartFails, Alive, RuntimeTypeOK
<1> QED
  BY <1>1, <1>3, <1>4

\* Connections and requests.
LEMMA RequestInv ==
  ASSUME RuntimeInv, NEW c \in Connections,
         \/ OpenConnection(c) \/ Admit(c) \/ FinishResponse(c) \/ CloseResponse(c)
         \/ AbortRequest(c) \/ CloseConnection(c)
  PROVE  RuntimeInv'
<1> USE RuntimeAssumption DEF RuntimeInv, shutdownVars, startVars
<1>1. RuntimeTypeOK'
  BY DEF RuntimeTypeOK, OpenConnection, Admit, FinishResponse, CloseResponse, AbortRequest,
         CloseConnection, Released
<1>2. CountExact'
  <2> USE DEF CountExact, RuntimeTypeOK
  <2>1. CASE Admit(c)
    <3>1. Handling' = Handling \union {c} /\ c \notin Handling
      BY <2>1 DEF Admit, Handling
    <3> QED
      BY <2>1, <3>1, HandlingFinite DEF Admit
  <2>2. CASE FinishResponse(c) \/ AbortRequest(c)
    <3>1. Handling' = Handling \ {c} /\ c \in Handling
      BY <2>2 DEF FinishResponse, AbortRequest, Handling
    <3>2. inFlight > 0
      BY <3>1, HandlingFinite, FS_EmptySet
    <3> QED
      BY <2>2, <3>1, <3>2, HandlingFinite DEF FinishResponse, AbortRequest, Released
  <2>3. CASE OpenConnection(c) \/ CloseResponse(c) \/ CloseConnection(c)
    <3>1. Handling' = Handling /\ inFlight' = inFlight
      BY <2>3 DEF OpenConnection, CloseResponse, CloseConnection, Handling
    <3> QED
      BY <3>1
  <2> QED
    BY <2>1, <2>2, <2>3
<1>3. ServerFollows'
  BY DEF ServerFollows, Alive, OpenConnection, Admit, FinishResponse, CloseResponse, AbortRequest,
         CloseConnection, RuntimeTypeOK
<1> QED
  BY <1>1, <1>2, <1>3

\* The shutdown.
LEMMA ShutdownInv ==
  ASSUME RuntimeInv,
         \/ Shutdown \/ HttpClosed \/ Complete \/ ForcedExit
         \/ \E x \in Resources : CloseResource(x) \/ CloseFails(x)
  PROVE  RuntimeInv'
<1> USE RuntimeAssumption DEF RuntimeInv, startVars, httpVars, shutdownVars, Steps, Alive
<1>1. RuntimeTypeOK'
  <2> USE DEF RuntimeTypeOK
  <2>1. CASE Shutdown
    BY <2>1 DEF Shutdown
  <2>2. CASE HttpClosed
    <3>1. steps' \in [Steps -> {"none", "running", "done", "failed"}] /\ server' = "closed"
      BY <2>2 DEF HttpClosed
    <3> QED
      BY <2>2, <3>1 DEF HttpClosed
  <2>3. CASE Complete \/ ForcedExit
    BY <2>3 DEF Complete, ForcedExit
  <2>4. ASSUME NEW x \in Resources, CloseResource(x) \/ CloseFails(x) PROVE RuntimeTypeOK'
    BY <2>4 DEF CloseResource, CloseFails, RuntimeFault
  <2> HIDE DEF RuntimeTypeOK
  <2> QED
    BY <2>1, <2>2, <2>3, <2>4
<1>2. Handling' = Handling /\ inFlight' = inFlight
  BY DEF Handling, Shutdown, HttpClosed, Complete, ForcedExit, CloseResource, CloseFails
<1>3. CountExact'
  BY <1>2 DEF CountExact
<1>4. ServerFollows'
  <2> USE DEF RuntimeTypeOK, ServerFollows
  <2>1. CASE Shutdown
    BY <2>1 DEF Shutdown
  <2>2. CASE HttpClosed
    <3>1. shuttingDown /\ shuttingDown' = shuttingDown
      BY <2>2, Zenon DEF HttpClosed
    <3>2. /\ server' = "closed" /\ \A c \in Connections : connections'[c] = "closed"
          /\ starting' = "up" /\ retries' < MaxRetries /\ exit' = "none"
      BY <2>2 DEF HttpClosed
    <3>3. shuttingDown'
      BY <3>1, Zenon
    <3> HIDE DEF RuntimeTypeOK, RuntimeInv
    <3> QED
      BY <3>2, <3>3
  <2>3. CASE Complete
    BY <2>3 DEF Complete
  <2>4. CASE ForcedExit
    BY <2>4 DEF ForcedExit
  <2>5. ASSUME NEW x \in Resources, CloseResource(x) \/ CloseFails(x) PROVE ServerFollows'
    BY <2>5 DEF CloseResource, CloseFails
  <2> HIDE DEF ServerFollows
  <2> QED
    BY <2>1, <2>2, <2>3, <2>4, <2>5
<1> QED
  BY <1>1, <1>3, <1>4

LEMMA RuntimeStepInv ==
  ASSUME RuntimeInv, [RuntimeNext]_runtimeVars
  PROVE  RuntimeInv'
<1>1. CASE RuntimeNext
  BY <1>1, StartInv, RequestInv, ShutdownInv DEF RuntimeNext
<1>2. CASE UNCHANGED runtimeVars
  BY <1>2 DEF runtimeVars, startVars, httpVars, shutdownVars, RuntimeInv, RuntimeTypeOK,
              CountExact, Handling, ServerFollows, Alive
<1> QED
  BY <1>1, <1>2

LEMMA RuntimeInvariance == RuntimeSpec => []RuntimeInv
  BY RuntimeInitInv, RuntimeStepInv, PTL DEF RuntimeSpec

-----------------------------------------------------------------------------

\* The load shedder's counter never drifts, whatever ends a request, and stays
\* within its limit.
THEOREM CounterExact == RuntimeSpec => []CountExact
<1>1. RuntimeInv => CountExact
  BY DEF RuntimeInv
<1> QED
  BY <1>1, RuntimeInvariance, PTL

\* A shutdown that exits with success has waited for the requests of every connection.
THEOREM CleanExitFinished == RuntimeSpec => []ExitClean
<1>1. RuntimeInv => ExitClean
  BY DEF RuntimeInv, ServerFollows, ExitClean, Handling
<1> QED
  BY <1>1, RuntimeInvariance, PTL

-----------------------------------------------------------------------------
(* The input for a city *)

\* No answer is newer than the last request; the text that the timer, the request
\* under way or the open list is about is the one in the input, unless a place was
\* selected since it was typed.
TypedTexts ==
    /\ \A f \in fetches : f.id <= requestRef
    /\ ~ overtaken =>
          /\ debounce \in {None, query}
          /\ \A f \in fetches : f.id = requestRef => f.text = query
          /\ activeIndex = "first" => suggestions = query

RouteInv == RouteInputTypeOK /\ TypedTexts

LEMMA RouteInitInv == RouteInputInit => RouteInv
<1> SUFFICES ASSUME RouteInputInit PROVE RouteInv
  OBVIOUS
<1>1. isOpen \in BOOLEAN /\ loading \in BOOLEAN /\ overtaken \in BOOLEAN
  BY Zenon DEF RouteInputInit
<1>2. RouteInputTypeOK
  BY <1>1 DEF RouteInputInit, RouteInputTypeOK
<1>3. TypedTexts
  BY DEF RouteInputInit, TypedTexts, None
<1> QED
  BY <1>2, <1>3 DEF RouteInv

LEMMA RouteTypes ==
  ASSUME RouteInputTypeOK, RouteInputNext
  PROVE  RouteInputTypeOK'
<1>1. isOpen' \in BOOLEAN /\ loading' \in BOOLEAN /\ overtaken' \in BOOLEAN
  <2>1. isOpen \in BOOLEAN /\ loading \in BOOLEAN /\ overtaken \in BOOLEAN
    BY DEF RouteInputTypeOK
  <2> QED
    BY <2>1, Zenon DEF RouteInputNext, Type, TypeShort, SearchText, Fetched, SuggestionsFetched,
                       Select, Arrow, CloseList, Focus
<1>2. /\ query' \in Texts \union PlaceNames \union {Short}
      /\ suggestions' \in Texts \union {None}
      /\ activeIndex' \in {None, "first", "moved"}
      /\ debounce' \in Texts \union {None}
  BY DEF RouteInputTypeOK, RouteInputNext, Type, TypeShort, SearchText, Fetched,
         SuggestionsFetched, Select, Arrow, CloseList, Focus
<1>3. requestRef' \in Nat /\ inputs' \in Nat
  BY DEF RouteInputTypeOK, RouteInputNext, Type, TypeShort, SearchText, Fetched,
         SuggestionsFetched, Select, Arrow, CloseList, Focus, Input
<1>4. \A f \in fetches' : f.id \in Nat /\ f.text \in Texts
  BY DEF RouteInputTypeOK, RouteInputNext, Type, TypeShort, SearchText, Fetched,
         SuggestionsFetched, Select, Arrow, CloseList, Focus
<1> QED
  BY <1>1, <1>2, <1>3, <1>4 DEF RouteInputTypeOK

LEMMA RouteStepInv ==
  ASSUME RouteInv, [RouteInputNext]_routeVars
  PROVE  RouteInv'
<1>1. RouteInputTypeOK /\ TypedTexts
  BY DEF RouteInv
<1>2. CASE UNCHANGED routeVars
  BY <1>1, <1>2 DEF routeVars, RouteInv, RouteInputTypeOK, TypedTexts
<1>3. CASE RouteInputNext
  <2>1. RouteInputTypeOK'
    BY <1>1, <1>3, RouteTypes
  <2> SUFFICES TypedTexts'
    BY <2>1 DEF RouteInv
  <2> DEFINE Kept == ~ overtaken' => ~ overtaken
  <2>2. ASSUME NEW q \in Texts, Type(q) PROVE TypedTexts'
    BY <1>1, <2>2 DEF Type, TypedTexts, RouteInputTypeOK, None
  <2>3. CASE TypeShort
    BY <1>1, <2>3 DEF TypeShort, TypedTexts, RouteInputTypeOK, None
  <2>4. CASE SearchText
    <3>1. Kept
      BY <2>4, Zenon DEF SearchText
    <3> HIDE DEF Kept
    <3> QED
      BY <1>1, <2>4, <3>1 DEF Kept, SearchText, TypedTexts, RouteInputTypeOK
  <2>5. ASSUME NEW f \in fetches, SuggestionsFetched(f) PROVE TypedTexts'
    <3>1. Kept
      BY <2>5, Zenon DEF SuggestionsFetched
    <3> HIDE DEF Kept
    <3> QED
      BY <1>1, <2>5, <3>1 DEF Kept, SuggestionsFetched, TypedTexts
  <2>6. ASSUME NEW p \in PlaceNames, Select(p) PROVE TypedTexts'
    <3>1. ~ overtaken' => /\ ~ overtaken /\ debounce = None
                          /\ \A f \in fetches : f.id # requestRef
      BY <2>6, Zenon DEF Select
    <3>2. /\ activeIndex' = None /\ debounce' = debounce /\ fetches' = fetches
          /\ requestRef' = requestRef
      BY <2>6 DEF Select
    <3> QED
      BY <1>1, <3>1, <3>2 DEF TypedTexts, None
  <2>7. CASE Arrow \/ CloseList \/ Focus
    <3>1. Kept
      BY <2>7, Zenon DEF Arrow, CloseList, Focus
    <3>2. activeIndex' = "first" => activeIndex = "first"
      BY <2>7 DEF Arrow, CloseList, Focus, None
    <3>3. /\ suggestions' = suggestions /\ query' = query /\ debounce' = debounce
          /\ fetches' = fetches /\ requestRef' = requestRef
      BY <2>7 DEF Arrow, CloseList, Focus
    <3> HIDE DEF Kept
    <3> QED
      BY <1>1, <3>1, <3>2, <3>3 DEF Kept, TypedTexts
  <2> QED
    BY <1>3, <2>2, <2>3, <2>4, <2>5, <2>6, <2>7 DEF RouteInputNext, Fetched
<1> QED
  BY <1>2, <1>3

\* Whatever was typed, searched for and answered before, in any order, the Enter key
\* takes a suggestion for the text in the input.
THEOREM EnterTyped == RouteInputSpec => []EnterTakesTyped
<1>1. RouteInv => EnterTakesTyped
  BY DEF RouteInv, TypedTexts, EnterTakesTyped
<1> QED
  BY <1>1, RouteInitInv, RouteStepInv, PTL DEF RouteInputSpec

-----------------------------------------------------------------------------
(* The realtime channel *)

Packets == [message : Messages, origin : Gateways \union {"none"}]

\* The positions of a sequence that hold an element of B.
Positions(q, B) == {i \in DOMAIN q : q[i] \in B}

\* What Redis has sent to gateway g; how often g will emit message m from it.
Entries(g) == {inbox[g][i] : i \in DOMAIN inbox[g]}
Foreign(g, m) == {x \in Packets : x.message = m /\ x.origin # g}
Waiting(g, m) == Cardinality(Positions(inbox[g], Foreign(g, m)))

\* A consumer has a notification in its hands, and the one that owns the partition
\* can move its offset on; a socket in a room has a gateway.
Placed ==
    /\ Len(updates) <= MaxUpdates
    /\ \A k \in Consumers : consumers[k].owner => topic # <<>>
    /\ \A j, k \in Consumers : consumers[j].owner /\ consumers[k].owner => j = k
    /\ \A k \in Consumers : consumers[k].at # "idle" => consumers[k].note \in Notes
    /\ \A s \in Sockets : sockets[s].joined => sockets[s].gateway \in Gateways

\* Nothing tells of a notification before it is stored.
StoredFirst == \A n \in Notes : stored[n] = 0 =>
    /\ notes[n] \in {"new", "queued"}
    /\ \A k \in Consumers : consumers[k].at = "publish" => consumers[k].note # n
    /\ carried[Note(n)] = 0
    /\ \A g \in Gateways : \A x \in Entries(g) : x.message # Note(n)
    /\ \A s \in Sockets : shown[s][Note(n)] = 0

\* Nothing tells of a location before it is reported.
Unreported == \A m \in LocationMessages : m.about > Len(updates) =>
    /\ carried[m] = 0
    /\ \A g \in Gateways : \A x \in Entries(g) : x.message # m
    /\ \A s \in Sockets : shown[s][m] = 0

\* Only gateway g publishes message m: it came in there.
Own(g, m) ==
    /\ \A h \in Gateways : \A x \in Entries(h) : x.message = m => x.origin = g
    /\ m.about \in DOMAIN updates => updates[m.about] \in {g, "none"}

\* What a socket was shown and is still to be shown of m: once by the gateway m came
\* in at, or as often as Redis carried it.
Fits(s, m) ==
    IF sockets[s].joined
    THEN \/ shown[s][m] + Waiting(sockets[s].gateway, m) <= carried[m]
         \/ shown[s][m] <= 1 /\ Own(sockets[s].gateway, m)
    ELSE shown[s][m] <= carried[m] \/ shown[s][m] <= 1

LocationsFit ==
    /\ Unreported
    /\ \A g \in Gateways, m \in LocationMessages : Waiting(g, m) <= carried[m]
    /\ \A s \in Sockets, m \in LocationMessages : Fits(s, m)

RealtimeInv == RealtimeTypeOK /\ Placed /\ StoredFirst /\ LocationsFit

-----------------------------------------------------------------------------
(* Counting the elements of a sequence *)

LEMMA PositionsFinite ==
  ASSUME NEW T, NEW q \in Seq(T), NEW B
  PROVE  IsFiniteSet(Positions(q, B)) /\ Cardinality(Positions(q, B)) \in Nat
<1>1. Positions(q, B) \subseteq 1 .. Len(q) /\ Len(q) \in Nat
  BY DEF Positions
<1>2. IsFiniteSet(1 .. Len(q))
  BY <1>1, FS_Interval
<1> QED
  BY <1>1, <1>2, FS_Subset, FS_CardinalityType

LEMMA PositionsAppended ==
  ASSUME NEW T, NEW q \in Seq(T), NEW x \in T, NEW B
  PROVE  Cardinality(Positions(Append(q, x), B))
            = IF x \in B THEN Cardinality(Positions(q, B)) + 1 ELSE Cardinality(Positions(q, B))
<1>1. /\ Len(q) \in Nat /\ Len(q) + 1 \notin Positions(q, B)
      /\ Positions(q, B) \subseteq 1 .. Len(q)
  BY DEF Positions
<1>2. Positions(Append(q, x), B)
         = IF x \in B THEN Positions(q, B) \union {Len(q) + 1} ELSE Positions(q, B)
  BY DEF Positions
<1> QED
  BY <1>1, <1>2, PositionsFinite, FS_AddElement

\* A place less in front moves the others up, and leaves their number.
LEMMA PositionsTail ==
  ASSUME NEW T, NEW q \in Seq(T), q # <<>>, NEW B
  PROVE  Cardinality(Positions(q, B)) = IF Head(q) \in B
            THEN Cardinality(Positions(Tail(q), B)) + 1 ELSE Cardinality(Positions(Tail(q), B))
<1> DEFINE rest == Positions(q, B) \ {1}
           up == [i \in Positions(Tail(q), B) |-> i + 1]
<1>1. /\ Tail(q) \in Seq(T) /\ Len(q) \in Nat /\ Len(Tail(q)) = Len(q) - 1
      /\ DOMAIN q = 1 .. Len(q) /\ DOMAIN Tail(q) = 1 .. Len(q) - 1 /\ 1 \in DOMAIN q
      /\ \A i \in 1 .. Len(q) - 1 : Tail(q)[i] = q[i + 1]
      /\ Head(q) = q[1]
  <2>1. /\ Tail(q) \in Seq(T) /\ Len(Tail(q)) = Len(q) - 1
        /\ \A i \in 1 .. Len(Tail(q)) : Tail(q)[i] = q[i + 1]
    BY HeadTailProperties
  <2>2. Len(q) \in Nat \ {0}
    BY EmptySeq
  <2> QED
    BY <2>1, <2>2, LenProperties
<1>2. ExistsBijection(Positions(Tail(q), B), rest)
  <2>1. up \in [Positions(Tail(q), B) -> rest]
    BY <1>1 DEF Positions
  <2>2. \A i, j \in Positions(Tail(q), B) : up[i] = up[j] => i = j
    BY <1>1 DEF Positions
  <2>3. \A j \in rest : \E i \in Positions(Tail(q), B) : up[i] = j
    <3>1. ASSUME NEW j \in rest PROVE j - 1 \in Positions(Tail(q), B) /\ up[j - 1] = j
      BY <1>1 DEF Positions
    <3> QED
      BY <3>1
  <2> HIDE DEF up, rest
  <2> QED
    BY <2>1, <2>2, <2>3 DEF ExistsBijection, Bijection, Injection, Surjection, IsInjective
<1>3. Cardinality(rest) = Cardinality(Positions(Tail(q), B))
  BY <1>1, <1>2, PositionsFinite, FS_Bijection
<1>4. Cardinality(rest) = IF Head(q) \in B THEN Cardinality(Positions(q, B)) - 1
                                           ELSE Cardinality(Positions(q, B))
  <2>1. 1 \in Positions(q, B) <=> Head(q) \in B
    BY <1>1 DEF Positions
  <2> QED
    BY <2>1, PositionsFinite, FS_RemoveElement
<1> QED
  BY <1>1, <1>3, <1>4, PositionsFinite

-----------------------------------------------------------------------------
(* What is in an inbox *)

LEMMA MessageKinds ==
  /\ \A n \in Notes : Note(n) \in Messages
  /\ \A e \in LocationEvents, u \in 1 .. MaxUpdates :
        /\ Location(e, u) \in LocationMessages
        /\ Location(e, u).about = u /\ Location(e, u).event = e
  /\ \A m \in LocationMessages : m \in Messages /\ m.about \in 1 .. MaxUpdates
  /\ \A n \in Notes, m \in LocationMessages : Note(n) # m
  /\ \A n, o \in Notes : Note(n) = Note(o) => n = o
  /\ \A m \in Messages : m \in LocationMessages \/ \E n \in Notes : m = Note(n)
<1>1. \A n \in Notes : Note(n).event = "notification:new" /\ Note(n).about = n
  BY DEF Note
<1>2. \A m \in LocationMessages : m.event \in LocationEvents /\ m.about \in 1 .. MaxUpdates
  BY DEF LocationMessages
<1>3. "notification:new" \notin LocationEvents
  BY DEF LocationEvents
<1> QED
  BY <1>1, <1>2, <1>3 DEF Messages, NoteMessages, LocationMessages, Note, Location

LEMMA CountsTyped ==
  ASSUME RealtimeTypeOK
  PROVE  /\ \A s \in Sockets, m \in Messages : shown[s][m] \in Nat
         /\ \A m \in Messages : carried[m] \in Nat
         /\ Len(updates) \in Nat /\ DOMAIN updates = 1 .. Len(updates)
         /\ \A u \in DOMAIN updates : updates[u] \in Gateways \union {"none"}
  BY DEF RealtimeTypeOK

LEMMA InboxTyped ==
  ASSUME RealtimeTypeOK, NEW g \in Gateways
  PROVE  /\ inbox[g] \in Seq(Packets)
         /\ Entries(g) \subseteq Packets
         /\ \A m \in Messages : Waiting(g, m) \in Nat
         /\ inbox[g] # <<>> => /\ Head(inbox[g]) \in Entries(g)
                               /\ Tail(inbox[g]) \in Seq(Packets)
<1>1. inbox[g] \in Seq(Packets)
  BY DEF RealtimeTypeOK, Packets
<1>2. inbox[g] # <<>> => /\ Head(inbox[g]) \in Entries(g)
                         /\ Tail(inbox[g]) \in Seq(Packets)
  <2> SUFFICES ASSUME inbox[g] # <<>>
               PROVE  Head(inbox[g]) \in Entries(g) /\ Tail(inbox[g]) \in Seq(Packets)
    OBVIOUS
  <2>1. 1 \in DOMAIN inbox[g] /\ Head(inbox[g]) = inbox[g][1]
    BY <1>1, EmptySeq, LenProperties
  <2> QED
    BY <1>1, <2>1, HeadTailProperties DEF Entries
<1>3. Entries(g) \subseteq Packets
  BY <1>1, ElementOfSeq, LenProperties DEF Entries
<1> QED
  BY <1>1, <1>2, <1>3, PositionsFinite DEF Waiting

\* A message that is carried is in every inbox, once more.
LEMMA MessageCarried ==
  ASSUME RealtimeTypeOK, NEW m \in Messages, NEW o \in Gateways \union {"none"}, Carry(m, o)
  PROVE  /\ inbox' \in [Gateways -> Seq(Packets)] /\ carried' \in [Messages -> Nat]
         /\ \A x \in Messages : carried'[x] = IF x = m THEN carried[x] + 1 ELSE carried[x]
         /\ \A g \in Gateways :
               Entries(g)' = Entries(g) \union {[message |-> m, origin |-> o]}
         /\ \A g \in Gateways, x \in Messages :
               Waiting(g, x)' = IF x = m /\ o # g THEN Waiting(g, x) + 1 ELSE Waiting(g, x)
<1> DEFINE p == [message |-> m, origin |-> o]
<1>1. p \in Packets /\ p.message = m /\ p.origin = o
  BY DEF Packets
<1>2. /\ inbox' = [g \in Gateways |-> Append(inbox[g], p)]
      /\ carried' = [carried EXCEPT ![m] = @ + 1]
  BY DEF Carry
<1> HIDE DEF p
<1>3. ASSUME NEW g \in Gateways
      PROVE  /\ inbox'[g] = Append(inbox[g], p)
             /\ inbox'[g] \in Seq(Packets)
             /\ Entries(g)' = Entries(g) \union {p}
  <2>1. inbox[g] \in Seq(Packets)
    BY InboxTyped
  <2>2. inbox'[g] = Append(inbox[g], p)
    BY <1>2
  <2>3. /\ Append(inbox[g], p) \in Seq(Packets)
        /\ DOMAIN inbox[g] = 1 .. Len(inbox[g]) /\ Len(inbox[g]) \in Nat
        /\ DOMAIN Append(inbox[g], p) = 1 .. Len(inbox[g]) + 1
        /\ \A i \in 1 .. Len(inbox[g]) : Append(inbox[g], p)[i] = inbox[g][i]
        /\ Append(inbox[g], p)[Len(inbox[g]) + 1] = p
    BY <1>1, <2>1, AppendProperties, LenProperties
  <2> QED
    BY <2>2, <2>3 DEF Entries
<1>4. ASSUME NEW g \in Gateways, NEW x \in Messages
      PROVE  Waiting(g, x)' = IF x = m /\ o # g THEN Waiting(g, x) + 1 ELSE Waiting(g, x)
  <2>1. p \in Foreign(g, x) <=> x = m /\ o # g
    BY <1>1 DEF Foreign
  <2>2. inbox[g] \in Seq(Packets)
    BY InboxTyped
  <2>3. Waiting(g, x)' = Cardinality(Positions(Append(inbox[g], p), Foreign(g, x)))
    BY <1>3 DEF Waiting
  <2> QED
    BY <1>1, <2>1, <2>2, <2>3, PositionsAppended DEF Waiting
<1>5. inbox' \in [Gateways -> Seq(Packets)]
  BY <1>2, <1>3
<1>6. /\ carried' \in [Messages -> Nat]
      /\ \A x \in Messages : carried'[x] = IF x = m THEN carried[x] + 1 ELSE carried[x]
  BY <1>2 DEF RealtimeTypeOK
<1> QED
  BY <1>3, <1>4, <1>5, <1>6 DEF p

\* A message that a gateway takes is no longer in its inbox.
LEMMA MessageTaken ==
  ASSUME RealtimeTypeOK, NEW g \in Gateways, inbox[g] # <<>>,
         inbox' = [inbox EXCEPT ![g] = Tail(@)]
  PROVE  /\ inbox' \in [Gateways -> Seq(Packets)]
         /\ Head(inbox[g]) \in Entries(g)
         /\ \A h \in Gateways : Entries(h)' \subseteq Entries(h)
         /\ \A h \in Gateways, x \in Messages :
               Waiting(h, x) = IF h = g /\ Head(inbox[g]).message = x /\ Head(inbox[g]).origin # g
                               THEN Waiting(h, x)' + 1 ELSE Waiting(h, x)'
<1>1. /\ inbox[g] \in Seq(Packets) /\ Tail(inbox[g]) \in Seq(Packets)
      /\ Head(inbox[g]) \in Entries(g) /\ Head(inbox[g]) \in Packets
  BY InboxTyped
<1>2. inbox' \in [Gateways -> Seq(Packets)]
  BY <1>1 DEF RealtimeTypeOK, Packets
<1>3. ASSUME NEW h \in Gateways
      PROVE  inbox'[h] = IF h = g THEN Tail(inbox[g]) ELSE inbox[h]
  BY DEF RealtimeTypeOK
<1>4. Entries(g)' \subseteq Entries(g)
  <2>1. /\ DOMAIN Tail(inbox[g]) = 1 .. Len(inbox[g]) - 1 /\ DOMAIN inbox[g] = 1 .. Len(inbox[g])
        /\ Len(inbox[g]) \in Nat
        /\ \A i \in 1 .. Len(inbox[g]) - 1 : Tail(inbox[g])[i] = inbox[g][i + 1]
    BY <1>1, HeadTailProperties, LenProperties
  <2> QED
    BY <1>3, <2>1 DEF Entries
<1>5. ASSUME NEW x \in Messages
      PROVE  Waiting(g, x) = IF Head(inbox[g]).message = x /\ Head(inbox[g]).origin # g
                             THEN Waiting(g, x)' + 1 ELSE Waiting(g, x)'
  <2>1. Waiting(g, x)' = Cardinality(Positions(Tail(inbox[g]), Foreign(g, x)))
    BY <1>3 DEF Waiting
  <2>2. Head(inbox[g]) \in Foreign(g, x)
           <=> Head(inbox[g]).message = x /\ Head(inbox[g]).origin # g
    BY <1>1 DEF Foreign
  <2> QED
    BY <1>1, <2>1, <2>2, PositionsTail DEF Waiting
<1>6. ASSUME NEW h \in Gateways, h # g
      PROVE  Entries(h)' = Entries(h) /\ \A x \in Messages : Waiting(h, x)' = Waiting(h, x)
  <2>1. inbox'[h] = inbox[h]
    BY <1>3, <1>6
  <2> QED
    BY <2>1 DEF Entries, Waiting
<1> QED
  BY <1>1, <1>2, <1>4, <1>5, <1>6

-----------------------------------------------------------------------------
(* Every step *)

LEMMA RealtimeInitInv == RealtimeInit => RealtimeInv
<1> SUFFICES ASSUME RealtimeInit PROVE RealtimeInv
  OBVIOUS
<1>1. \A g \in Gateways : Entries(g) = {} /\ \A m : Positions(inbox[g], Foreign(g, m)) = {}
  BY DEF RealtimeInit, Entries, Positions
<1>2. \A g \in Gateways, m \in LocationMessages : Waiting(g, m) = 0
  BY <1>1, FS_EmptySet DEF Waiting
<1>3. RealtimeTypeOK
  <2>1. /\ notes \in [Notes -> {"new", "queued", "publishing", "over"}]
        /\ consumers \in [Consumers -> [at : {"idle", "create", "publish"},
                                        note : Notes \union {"none"}, owner : BOOLEAN]]
        /\ stored \in [Notes -> Nat]
    BY DEF RealtimeInit, NoMessage
  <2>2. /\ inbox \in [Gateways -> Seq([message : Messages, origin : Gateways \union {"none"}])]
        /\ sockets \in [Sockets -> [gateway : Gateways \union {"none"}, joined : BOOLEAN]]
        /\ shown \in [Sockets -> [Messages -> Nat]]
        /\ carried \in [Messages -> Nat]
    BY DEF RealtimeInit
  <2>3. topic \in Seq(Notes) /\ updates \in Seq(Gateways \union {"none"}) /\ realtimeFaults \in Nat
    BY DEF RealtimeInit
  <2> QED
    BY <2>1, <2>2, <2>3 DEF RealtimeTypeOK
<1>4. Placed
  BY RealtimeAssumption DEF RealtimeInit, Placed, NoMessage
<1>5. StoredFirst
  BY <1>1, MessageKinds DEF RealtimeInit, StoredFirst, NoMessage
<1>6. Unreported
  BY <1>1, MessageKinds DEF RealtimeInit, Unreported
<1>7. \A s \in Sockets, m \in LocationMessages : Fits(s, m)
  BY MessageKinds DEF RealtimeInit, Fits
<1>8. \A m \in LocationMessages : carried[m] = 0
  BY MessageKinds DEF RealtimeInit
<1> QED
  BY <1>2, <1>3, <1>4, <1>5, <1>6, <1>7, <1>8 DEF RealtimeInv, LocationsFit

\* A message about a notification leaves the locations alone.
LEMMA LocationsKept ==
  ASSUME RealtimeInv, UNCHANGED <<sockets, updates, shown>>,
         \/ UNCHANGED <<inbox, carried>>
         \/ \E n \in Notes : Carry(Note(n), "none")
  PROVE  LocationsFit'
<1> DEFINE Unmoved ==
      /\ \A m \in LocationMessages : carried'[m] = carried[m]
      /\ \A g \in Gateways, m \in LocationMessages :
            /\ Waiting(g, m)' = Waiting(g, m)
            /\ \A x \in Entries(g)' : x.message = m => x \in Entries(g)
<1>1. Unmoved
  <2>1. CASE UNCHANGED <<inbox, carried>>
    BY <2>1 DEF Waiting, Entries
  <2>2. ASSUME NEW n \in Notes, Carry(Note(n), "none")
        PROVE  Unmoved
    <3>1. \A m \in LocationMessages : m \in Messages /\ m # Note(n)
      BY MessageKinds
    <3>2. /\ \A x \in Messages : carried'[x] = IF x = Note(n) THEN carried[x] + 1 ELSE carried[x]
          /\ \A g \in Gateways :
               Entries(g)' = Entries(g) \union {[message |-> Note(n), origin |-> "none"]}
          /\ \A g \in Gateways, x \in Messages :
               x # Note(n) => Waiting(g, x)' = Waiting(g, x)
      BY <2>2, MessageKinds, MessageCarried DEF RealtimeInv
    <3> QED
      BY <3>1, <3>2
  <2> QED
    BY <2>1, <2>2
<1>2. Unreported'
  BY <1>1 DEF RealtimeInv, LocationsFit, Unreported
<1>3. \A g \in Gateways, m \in LocationMessages : Own(g, m) => Own(g, m)'
  BY <1>1 DEF Own
<1>4. \A s \in Sockets, m \in LocationMessages : Fits(s, m)'
  BY <1>1, <1>3 DEF RealtimeInv, LocationsFit, Fits, Placed
<1> QED
  BY <1>1, <1>2, <1>4 DEF RealtimeInv, LocationsFit

\* A notification that is stored is told of; or nothing new is told.
LEMMA StoredKept ==
  ASSUME RealtimeInv,
         \A n \in Notes : stored'[n] = 0 => stored[n] = 0,
         \A n \in Notes : stored'[n] = 0 => notes'[n] \in {"new", "queued"},
         \A n \in Notes, k \in Consumers :
            stored'[n] = 0 /\ consumers'[k].at = "publish" /\ consumers'[k].note = n
               => consumers[k].at = "publish" /\ consumers[k].note = n,
         shown' = shown,
         \/ UNCHANGED <<inbox, carried>>
         \/ \E n \in Notes : stored[n] # 0 /\ stored' = stored /\ Carry(Note(n), "none")
  PROVE  StoredFirst'
<1> DEFINE NotTold(n) ==
      /\ carried'[Note(n)] = carried[Note(n)]
      /\ \A g \in Gateways : \A x \in Entries(g)' : x.message = Note(n) => x \in Entries(g)
<1>1. ASSUME NEW n \in Notes, stored'[n] = 0 PROVE NotTold(n)
  <2>1. CASE UNCHANGED <<inbox, carried>>
    BY <2>1 DEF Entries
  <2>2. ASSUME NEW o \in Notes, stored[o] # 0, stored' = stored, Carry(Note(o), "none")
        PROVE  NotTold(n)
    <3>1. Note(n) # Note(o) /\ Note(n) \in Messages /\ Note(o) \in Messages
      BY <1>1, <2>2, MessageKinds
    <3>2. /\ carried'[Note(n)] = carried[Note(n)]
          /\ \A g \in Gateways :
               Entries(g)' = Entries(g) \union {[message |-> Note(o), origin |-> "none"]}
      BY <2>2, <3>1, MessageCarried DEF RealtimeInv
    <3> QED
      BY <3>1, <3>2
  <2> QED
    BY <2>1, <2>2
<1> QED
  BY <1>1 DEF RealtimeInv, StoredFirst

\* The core API asks for a notification.
LEMMA NotifyInv ==
  ASSUME RealtimeInv, NEW n \in Notes,
         \/ NotifyByTopic(n) \/ NotifyDirectly(n) \/ PublishDirectly(n) \/ PublishFails(n)
  PROVE  RealtimeInv'
<1>1. /\ RealtimeTypeOK /\ Placed /\ stored[n] \in Nat
      /\ notes[n] = "publishing" => stored[n] # 0
  BY DEF RealtimeInv, RealtimeTypeOK, StoredFirst
<1>2. /\ UNCHANGED <<consumers, sockets, updates, shown>>
      /\ \A o \in Notes : stored'[o] = IF o = n /\ NotifyDirectly(n) THEN stored[o] + 1 ELSE stored[o]
      /\ \A o \in Notes : notes'[o] # notes[o] => o = n
      /\ \/ UNCHANGED <<inbox, carried>>
         \/ stored[n] # 0 /\ stored' = stored /\ Carry(Note(n), "none")
  BY <1>1 DEF NotifyByTopic, NotifyDirectly, PublishDirectly, PublishFails, gatewayVars,
              RealtimeTypeOK
<1>3. RealtimeTypeOK'
  <2>1. /\ notes' \in [Notes -> {"new", "queued", "publishing", "over"}]
        /\ topic' \in Seq(Notes)
        /\ realtimeFaults' \in Nat
    <3>1. /\ \/ topic' = topic
             \/ topic' = Append(topic, n)
          /\ realtimeFaults' \in {realtimeFaults, realtimeFaults + 1}
          /\ \E at \in {"queued", "publishing", "over"} : notes' = [notes EXCEPT ![n] = at]
      BY DEF NotifyByTopic, NotifyDirectly, PublishDirectly, PublishFails, RealtimeFault
    <3>2. /\ notes \in [Notes -> {"new", "queued", "publishing", "over"}]
          /\ topic \in Seq(Notes) /\ realtimeFaults \in Nat
      BY <1>1 DEF RealtimeTypeOK
    <3> QED
      BY <3>1, <3>2
  <2>2. stored' \in [Notes -> Nat]
    <3>1. stored' = stored \/ stored' = [stored EXCEPT ![n] = @ + 1]
      BY DEF NotifyByTopic, NotifyDirectly, PublishDirectly, PublishFails
    <3>2. stored \in [Notes -> Nat]
      BY <1>1 DEF RealtimeTypeOK
    <3> QED
      BY <3>1, <3>2
  <2>3. inbox' \in [Gateways -> Seq(Packets)] /\ carried' \in [Messages -> Nat]
    BY <1>1, <1>2, MessageCarried, MessageKinds DEF RealtimeTypeOK, Packets
  <2> QED
    BY <1>1, <1>2, <2>1, <2>2, <2>3 DEF RealtimeTypeOK, Packets
<1>4. StoredFirst'
  <2>1. \A o \in Notes : stored[o] \in Nat
    BY <1>1 DEF RealtimeTypeOK
  <2>2. notes'[n] \in {"new", "queued"} \/ stored'[n] # 0
    BY <1>1 DEF NotifyByTopic, NotifyDirectly, PublishDirectly, PublishFails, RealtimeTypeOK
  <2>3. \A o \in Notes : stored'[o] = 0 => stored[o] = 0 /\ notes'[o] \in {"new", "queued"}
    BY <1>2, <2>1, <2>2 DEF RealtimeInv, StoredFirst
  <2> QED
    BY <1>2, <2>3, StoredKept
<1>5. LocationsFit'
  BY <1>2, LocationsKept
<1>6. Placed'
  <2>1. topic # <<>> => topic' # <<>>
    BY <1>1 DEF NotifyByTopic, NotifyDirectly, PublishDirectly, PublishFails, RealtimeTypeOK
  <2> QED
    BY <1>1, <1>2, <2>1 DEF Placed
<1> QED
  BY <1>3, <1>4, <1>5, <1>6 DEF RealtimeInv

\* The notification consumer.
LEMMA ConsumerInv ==
  ASSUME RealtimeInv, NEW k \in Consumers,
         TakeMessage(k) \/ ConsumerStep(k) \/ HandleFails(k) \/ LosePartition(k)
  PROVE  RealtimeInv'
<1> DEFINE n == consumers[k].note
<1>1. /\ RealtimeTypeOK /\ Placed
      /\ consumers[k].at = "create" => n \in Notes
      /\ consumers[k].at = "publish" => n \in Notes /\ stored[n] # 0
  BY DEF RealtimeInv, Placed, StoredFirst
<1>2. /\ UNCHANGED <<notes, sockets, updates, shown>>
      /\ CreateNotification(k) \/ stored' = stored
      /\ \/ UNCHANGED <<inbox, carried>>
         \/ n \in Notes /\ stored[n] # 0 /\ stored' = stored /\ Carry(Note(n), "none")
  BY <1>1 DEF TakeMessage, ConsumerStep, CreateNotification, PublishNotification, HandleFails,
              LosePartition, gatewayVars
<1>3. topic' \in Seq(Notes) /\ realtimeFaults' \in Nat
  <2>1. topic' = topic \/ (consumers[k].owner /\ topic' = Tail(topic))
    BY DEF TakeMessage, ConsumerStep, CreateNotification, PublishNotification, HandleFails,
           LosePartition
  <2>2. realtimeFaults' \in Nat
    <3>1. realtimeFaults' \in {realtimeFaults, realtimeFaults + 1}
      BY DEF TakeMessage, ConsumerStep, CreateNotification, PublishNotification, HandleFails,
             LosePartition, RealtimeFault
    <3>2. realtimeFaults \in Nat
      BY <1>1 DEF RealtimeTypeOK
    <3> QED
      BY <3>1, <3>2
  <2>3. topic \in Seq(Notes) /\ (consumers[k].owner => topic # <<>>)
    BY <1>1 DEF RealtimeTypeOK, Placed
  <2> QED
    BY <2>1, <2>2, <2>3
<1>4. /\ consumers' \in [Consumers -> [at : {"idle", "create", "publish"},
                                       note : Notes \union {"none"}, owner : BOOLEAN]]
      /\ \A j \in Consumers : consumers'[j].at # "idle" => consumers'[j].note \in Notes
      /\ \A j \in Consumers : consumers'[j].at = "publish" =>
            /\ consumers'[j].note = consumers[j].note
            /\ consumers[j].at = "publish" \/ (j = k /\ CreateNotification(k))
  <2>1. CASE TakeMessage(k)
    BY <1>1, <2>1 DEF TakeMessage, RealtimeTypeOK, Placed
  <2>2. CASE CreateNotification(k)
    BY <1>1, <2>2 DEF CreateNotification, RealtimeTypeOK, Placed
  <2>3. CASE PublishNotification(k) \/ HandleFails(k)
    <3>1. consumers' = [consumers EXCEPT ![k] = NoMessage]
      BY <2>3 DEF PublishNotification, HandleFails
    <3> QED
      BY <1>1, <3>1 DEF NoMessage, RealtimeTypeOK, Placed
  <2>4. CASE LosePartition(k)
    BY <1>1, <2>4 DEF LosePartition, RealtimeTypeOK, Placed
  <2> QED
    BY <2>1, <2>2, <2>3, <2>4 DEF ConsumerStep
<1>5. /\ stored' \in [Notes -> Nat]
      /\ \A o \in Notes : stored'[o] = IF o = n /\ CreateNotification(k) THEN stored[o] + 1
                                                                        ELSE stored[o]
  <2>1. CASE CreateNotification(k)
    BY <1>1, <2>1 DEF CreateNotification, RealtimeTypeOK
  <2>2. CASE ~ CreateNotification(k)
    BY <1>1, <1>2, <2>2 DEF RealtimeTypeOK
  <2> QED
    BY <2>1, <2>2
<1>6. RealtimeTypeOK'
  <2>1. inbox' \in [Gateways -> Seq(Packets)] /\ carried' \in [Messages -> Nat]
    BY <1>1, <1>2, MessageCarried, MessageKinds DEF RealtimeTypeOK, Packets
  <2> QED
    BY <1>1, <1>2, <1>3, <1>4, <1>5, <2>1 DEF RealtimeTypeOK, Packets
<1>7. StoredFirst'
  <2>1. \A o \in Notes : stored[o] \in Nat
    BY <1>1 DEF RealtimeTypeOK
  <2>2. \A o \in Notes : stored'[o] = 0 => /\ stored[o] = 0 /\ notes'[o] \in {"new", "queued"}
                                           /\ ~ (o = n /\ CreateNotification(k))
    BY <1>2, <1>5, <2>1 DEF RealtimeInv, StoredFirst
  <2>3. \A o \in Notes, j \in Consumers : stored'[o] = 0 /\ consumers'[j].at = "publish"
            /\ consumers'[j].note = o
               => consumers[j].at = "publish" /\ consumers[j].note = o
    BY <1>4, <2>2
  <2> QED
    BY <1>2, <1>5, <2>2, <2>3, StoredKept
<1>8. LocationsFit'
  BY <1>2, LocationsKept
<1>9. Placed'
  <2>1. /\ \A j \in Consumers : consumers'[j].owner => topic' # <<>>
        /\ \A i, j \in Consumers : consumers'[i].owner /\ consumers'[j].owner => i = j
    <3>1. CASE TakeMessage(k)
      <4>1. consumers'[k].owner /\ topic' # <<>> /\ \A j \in Consumers \ {k} : ~ consumers'[j].owner
        BY <1>1, <3>1 DEF TakeMessage, RealtimeTypeOK
      <4> QED
        BY <4>1
    <3>2. CASE PublishNotification(k)
      <4>1. /\ ~ consumers'[k].owner
            /\ \A j \in Consumers \ {k} : consumers'[j] = consumers[j]
            /\ consumers[k].owner \/ topic' = topic
        BY <1>1, <3>2 DEF PublishNotification, RealtimeTypeOK, NoMessage
      <4> QED
        BY <1>1, <4>1 DEF Placed
    <3>3. CASE CreateNotification(k) \/ HandleFails(k) \/ LosePartition(k)
      <4>1. /\ topic' = topic
            /\ \A j \in Consumers : consumers'[j].owner => consumers[j].owner
        <5>1. topic' = topic
          BY <3>3 DEF CreateNotification, HandleFails, LosePartition
        <5>2. consumers \in [Consumers -> [at : {"idle", "create", "publish"},
                                          note : Notes \union {"none"}, owner : BOOLEAN]]
          BY <1>1 DEF RealtimeTypeOK
        <5>3. CASE CreateNotification(k)
          BY <5>1, <5>2, <5>3 DEF CreateNotification
        <5>4. CASE HandleFails(k)
          BY <5>1, <5>2, <5>4 DEF HandleFails, NoMessage
        <5>5. CASE LosePartition(k)
          BY <5>1, <5>2, <5>5 DEF LosePartition
        <5> QED
          BY <3>3, <5>3, <5>4, <5>5
      <4> QED
        BY <1>1, <4>1 DEF Placed
    <3> QED
      BY <3>1, <3>2, <3>3 DEF ConsumerStep
  <2> QED
    BY <1>1, <1>2, <1>4, <2>1 DEF Placed
<1> QED
  BY <1>6, <1>7, <1>8, <1>9 DEF RealtimeInv

-----------------------------------------------------------------------------
(* Gateways *)

\* A report that is over, or whose gateway is gone, is nobody's.
UpdatesLeft ==
    /\ updates' \in Seq(Gateways \union {"none"}) /\ Len(updates') = Len(updates)
    /\ \A u \in DOMAIN updates : updates'[u] \in {updates[u], "none"}

LEMMA UpdatesKept ==
  ASSUME RealtimeTypeOK, updates' = updates
  PROVE  UpdatesLeft
  BY DEF UpdatesLeft, RealtimeTypeOK

LEMMA UpdatesOwned ==
  ASSUME RealtimeTypeOK, UpdatesLeft, NEW g, NEW u, u \in DOMAIN updates',
         u \in DOMAIN updates => updates[u] \in {g, "none"}
  PROVE  updates'[u] \in {g, "none"}
<1>1. DOMAIN updates' = DOMAIN updates
  BY CountsTyped, LenProperties DEF UpdatesLeft
<1> QED
  BY <1>1 DEF UpdatesLeft

\* What a gateway forgets, or a socket misses, is not shown twice.
LEMMA LessToShow ==
  ASSUME RealtimeInv, UNCHANGED <<noteVars, shown, carried>>, UpdatesLeft,
         \A g \in Gateways : Entries(g)' \subseteq Entries(g),
         \A g \in Gateways, m \in Messages : Waiting(g, m)' <= Waiting(g, m) /\ Waiting(g, m)' \in Nat,
         \A s \in Sockets : sockets'[s] = sockets[s] \/ ~ sockets'[s].joined
  PROVE  StoredFirst' /\ LocationsFit'
<1> USE DEF RealtimeInv
<1>1. StoredFirst'
  BY DEF StoredFirst, noteVars
<1>2. Unreported'
  BY DEF LocationsFit, Unreported, UpdatesLeft
<1>3. \A g \in Gateways, m \in LocationMessages : Own(g, m) => Own(g, m)'
  BY UpdatesOwned DEF Own
<1>4. \A g \in Gateways, m \in LocationMessages :
         Waiting(g, m)' <= Waiting(g, m) /\ Waiting(g, m)' \in Nat /\ Waiting(g, m) \in Nat
  BY MessageKinds, InboxTyped
<1>5. \A s \in Sockets, m \in LocationMessages : shown[s][m] \in Nat /\ carried[m] \in Nat
  BY MessageKinds, CountsTyped
<1>6. \A s \in Sockets, m \in LocationMessages : Fits(s, m)'
  <2> SUFFICES ASSUME NEW s \in Sockets, NEW m \in LocationMessages PROVE Fits(s, m)'
    OBVIOUS
  <2>1. Fits(s, m) /\ (sockets[s].joined => sockets[s].gateway \in Gateways)
    BY DEF LocationsFit, Placed
  <2>2. CASE sockets'[s] = sockets[s]
    BY <1>3, <1>4, <1>5, <2>1, <2>2 DEF Fits
  <2>3. CASE ~ sockets'[s].joined
    BY <1>4, <1>5, <2>1, <2>3 DEF Fits
  <2> QED
    BY <2>2, <2>3
<1>7. \A g \in Gateways, m \in LocationMessages : Waiting(g, m)' <= carried'[m]
  <2> SUFFICES ASSUME NEW g \in Gateways, NEW m \in LocationMessages
               PROVE  Waiting(g, m)' <= carried'[m]
    OBVIOUS
  <2>1. Waiting(g, m) <= carried[m] /\ carried[m] \in Nat /\ carried' = carried
    BY MessageKinds, CountsTyped DEF LocationsFit
  <2> QED
    BY <1>4, <2>1
<1> QED
  BY <1>1, <1>2, <1>6, <1>7 DEF LocationsFit

\* A message that its own gateway has carried once more is not shown there.
LEMMA MoreToShow ==
  ASSUME RealtimeInv, NEW m \in Messages, NEW o \in Gateways \union {"none"}, Carry(m, o),
         UNCHANGED <<noteVars, sockets, shown>>, UpdatesLeft,
         \A n \in Notes : m = Note(n) => stored[n] # 0,
         m \in LocationMessages =>
            m.about <= Len(updates) /\ \A g \in Gateways : Own(g, m) => o = g
  PROVE  StoredFirst' /\ LocationsFit'
<1> USE DEF RealtimeInv
<1>1. /\ \A x \in Messages : carried'[x] = IF x = m THEN carried[x] + 1 ELSE carried[x]
      /\ \A g \in Gateways : \A x \in Entries(g)' :
            x \in Entries(g) \/ (x.message = m /\ x.origin = o)
      /\ \A g \in Gateways, x \in Messages :
            Waiting(g, x)' = IF x = m /\ o # g THEN Waiting(g, x) + 1 ELSE Waiting(g, x)
  BY MessageCarried
<1>2. StoredFirst'
  BY <1>1, MessageKinds DEF StoredFirst, noteVars
<1>3. Unreported'
  BY <1>1, MessageKinds DEF LocationsFit, Unreported, UpdatesLeft
<1>4. \A g \in Gateways, x \in LocationMessages : Own(g, x) => Own(g, x)'
  <2> SUFFICES ASSUME NEW g \in Gateways, NEW x \in LocationMessages, Own(g, x)
               PROVE  Own(g, x)'
    OBVIOUS
  <2>1. ASSUME NEW h \in Gateways, NEW y \in Entries(h)', y.message = x
        PROVE  y.origin = g
    BY <1>1, <2>1 DEF Own
  <2>2. x.about \in DOMAIN updates' => updates'[x.about] \in {g, "none"}
    BY UpdatesOwned DEF Own
  <2> QED
    BY <2>1, <2>2 DEF Own
<1>5. \A g \in Gateways, x \in LocationMessages :
         /\ x \in Messages /\ Waiting(g, x) \in Nat /\ carried[x] \in Nat
         /\ Waiting(g, x)' <= Waiting(g, x) + (carried'[x] - carried[x])
         /\ carried'[x] >= carried[x]
  BY <1>1, MessageKinds, InboxTyped, CountsTyped
<1>6. \A s \in Sockets, x \in LocationMessages :
         shown[s][x] \in Nat /\ carried[x] \in Nat /\ carried'[x] \in Nat /\ carried'[x] >= carried[x]
  BY <1>1, MessageKinds, CountsTyped
<1>7. \A s \in Sockets, x \in LocationMessages : Fits(s, x)'
  <2> SUFFICES ASSUME NEW s \in Sockets, NEW x \in LocationMessages PROVE Fits(s, x)'
    OBVIOUS
  <2>1. Fits(s, x) /\ (sockets[s].joined => sockets[s].gateway \in Gateways)
    BY DEF LocationsFit, Placed
  <2>2. CASE sockets[s].joined
    <3> DEFINE g == sockets[s].gateway
    <3>1. Waiting(g, x)' \in Nat
      BY <1>1, <1>5, <2>1, <2>2
    <3> QED
      BY <1>4, <1>5, <1>6, <2>1, <2>2, <3>1 DEF Fits
  <2>3. CASE ~ sockets[s].joined
    BY <1>6, <2>1, <2>3 DEF Fits
  <2> QED
    BY <2>2, <2>3
<1>8. \A g \in Gateways, x \in LocationMessages : Waiting(g, x)' <= carried'[x]
  <2> SUFFICES ASSUME NEW g \in Gateways, NEW x \in LocationMessages
               PROVE  Waiting(g, x)' <= carried'[x]
    OBVIOUS
  <2>1. Waiting(g, x) <= carried[x]
    BY DEF LocationsFit
  <2>2. carried'[x] \in Nat /\ Waiting(g, x)' \in Nat
    BY <1>1, <1>5
  <2> QED
    BY <1>5, <2>1, <2>2
<1> QED
  BY <1>2, <1>3, <1>7, <1>8 DEF LocationsFit

\* A page that is loaded, and a connection that drops.
LEMMA PageInv ==
  ASSUME RealtimeInv, NEW s \in Sockets, NEW g \in Gateways, LoadPage(s, g) \/ Reconnect(s, g)
  PROVE  RealtimeInv'
<1>1. RealtimeTypeOK /\ Placed
  BY DEF RealtimeInv
<1>2. UNCHANGED <<noteVars, inbox, updates, carried>>
  BY DEF LoadPage, Reconnect
<1>3. /\ RealtimeTypeOK'
      /\ \A t \in Sockets \ {s} : sockets'[t] = sockets[t]
      /\ sockets'[s].gateway = g /\ (sockets'[s].joined => LoadPage(s, g))
  <2>1. /\ notes' = notes /\ topic' = topic /\ consumers' = consumers /\ stored' = stored
        /\ inbox' = inbox /\ updates' = updates /\ carried' = carried
    BY <1>2 DEF noteVars
  <2>2. realtimeFaults' \in Nat
    <3>1. realtimeFaults' \in {realtimeFaults, realtimeFaults + 1}
      BY DEF LoadPage, Reconnect, RealtimeFault
    <3>2. realtimeFaults \in Nat
      BY <1>1 DEF RealtimeTypeOK
    <3> QED
      BY <3>1, <3>2
  <2>3. CASE LoadPage(s, g)
    <3>1. /\ sockets' = [sockets EXCEPT ![s] = [gateway |-> g, joined |-> TRUE]]
          /\ shown' = [shown EXCEPT ![s] = [m \in Messages |-> 0]]
      BY <2>3 DEF LoadPage
    <3> QED
      BY <1>1, <2>1, <2>2, <2>3, <3>1 DEF RealtimeTypeOK
  <2>4. CASE Reconnect(s, g)
    <3>1. sockets' = [sockets EXCEPT ![s] = [gateway |-> g, joined |-> FALSE]] /\ shown' = shown
      BY <2>4 DEF Reconnect
    <3> QED
      BY <1>1, <2>1, <2>2, <3>1 DEF RealtimeTypeOK
  <2> QED
    BY <2>3, <2>4
<1>4. Placed'
  BY <1>1, <1>2, <1>3 DEF Placed, noteVars
<1>5. \A h \in Gateways : Entries(h)' = Entries(h) /\ \A m : Waiting(h, m)' = Waiting(h, m)
  BY <1>2 DEF Entries, Waiting
<1>6. StoredFirst' /\ LocationsFit'
  <2>1. CASE Reconnect(s, g)
    <3>1. shown' = shown /\ ~ sockets'[s].joined
      BY <1>1, <2>1 DEF Reconnect, RealtimeTypeOK
    <3>2. \A h \in Gateways, m \in Messages : Waiting(h, m)' = Waiting(h, m) /\ Waiting(h, m) \in Nat
      BY <1>1, <1>5, InboxTyped
    <3> QED
      BY <1>1, <1>2, <1>3, <1>5, <3>1, <3>2, UpdatesKept, LessToShow
  <2>2. CASE LoadPage(s, g)
    <3>1. \A t \in Sockets, m \in Messages : shown'[t][m] = IF t = s THEN 0 ELSE shown[t][m]
      BY <1>1, <2>2 DEF LoadPage, RealtimeTypeOK
    <3>2. StoredFirst'
      BY <1>2, <1>5, <3>1, MessageKinds DEF RealtimeInv, StoredFirst, noteVars
    <3>3. Unreported'
      BY <1>2, <1>5, <3>1, MessageKinds DEF RealtimeInv, LocationsFit, Unreported
    <3>4. \A h \in Gateways, m \in LocationMessages : Waiting(h, m)' <= carried'[m]
      BY <1>2, <1>5 DEF RealtimeInv, LocationsFit
    <3>5. \A h \in Gateways, m \in LocationMessages : Own(h, m) => Own(h, m)'
      BY <1>2, <1>5 DEF Own
    <3>6. ASSUME NEW t \in Sockets, NEW m \in LocationMessages PROVE Fits(t, m)'
      <4>1. m \in Messages /\ carried[m] \in Nat
        BY <1>1, MessageKinds, CountsTyped
      <4>2. CASE t = s
        <5>1. shown'[s][m] = 0 /\ Waiting(g, m)' <= carried'[m] /\ Waiting(g, m)' \in Nat
          BY <1>1, <1>5, <3>1, <3>4, <4>1, InboxTyped
        <5> QED
          BY <1>2, <1>3, <4>1, <4>2, <5>1 DEF Fits
      <4>3. CASE t # s
        <5>1. /\ sockets'[t] = sockets[t] /\ shown'[t][m] = shown[t][m] /\ carried' = carried
              /\ Fits(t, m) /\ (sockets[t].joined => sockets[t].gateway \in Gateways)
          BY <1>1, <1>2, <1>3, <3>1, <4>1, <4>3 DEF RealtimeInv, LocationsFit, Placed
        <5> QED
          BY <1>5, <3>5, <5>1 DEF Fits
      <4> QED
        BY <4>2, <4>3
    <3> QED
      BY <3>2, <3>3, <3>4, <3>6 DEF LocationsFit
  <2> QED
    BY <2>1, <2>2
<1> QED
  BY <1>3, <1>4, <1>6 DEF RealtimeInv

\* What a gateway emits is shown on the pages in the room.
LEMMA MessagesShown ==
  ASSUME RealtimeTypeOK, NEW g \in Gateways, NEW ms, shown' = Shown(g, ms)
  PROVE  /\ shown' \in [Sockets -> [Messages -> Nat]]
         /\ \A s \in Sockets, m \in Messages : shown'[s][m] =
               IF sockets[s].joined /\ sockets[s].gateway = g /\ m \in ms THEN shown[s][m] + 1
                                                                        ELSE shown[s][m]
<1>1. \A s \in Sockets : s \in InRoom(g) <=> sockets[s].joined /\ sockets[s].gateway = g
  BY DEF InRoom, RealtimeTypeOK
<1>2. shown' = [s \in Sockets |-> IF s \notin InRoom(g) THEN shown[s]
                   ELSE [m \in Messages |-> IF m \in ms THEN shown[s][m] + 1 ELSE shown[s][m]]]
  BY DEF Shown
<1>3. ASSUME NEW s \in Sockets
      PROVE  /\ shown'[s] \in [Messages -> Nat]
             /\ \A m \in Messages : shown'[s][m] =
                   IF s \in InRoom(g) /\ m \in ms THEN shown[s][m] + 1 ELSE shown[s][m]
  <2>1. shown[s] \in [Messages -> Nat]
    BY DEF RealtimeTypeOK
  <2> QED
    BY <1>2, <2>1
<1> QED
  BY <1>1, <1>2, <1>3

\* A location that comes in.
LEMMA ReportInv ==
  ASSUME RealtimeInv, NEW s \in Sockets, ReportLocation(s) \/ ReportUnpublished(s)
  PROVE  RealtimeInv'
<1> DEFINE u == Len(updates) + 1
           g == sockets[s].gateway
           ms == {Location(e, u) : e \in LocationEvents}
           first == Location("location:update", u)
<1>1. /\ RealtimeTypeOK /\ Placed
      /\ UNCHANGED <<noteVars, sockets>>
      /\ u \in Nat /\ u \in 1 .. MaxUpdates /\ g \in Gateways
      /\ shown' = Shown(g, ms)
      /\ \E o \in {g, "none"} : updates' = Append(updates, o)
      /\ UNCHANGED <<inbox, carried>> \/ Carry(first, g)
  <2>1. RealtimeTypeOK /\ Placed
    BY DEF RealtimeInv
  <2>2. g \in Gateways \union {"none"} /\ u \in Nat \ {0}
    BY <2>1 DEF RealtimeTypeOK
  <2> QED
    BY <2>1, <2>2, RealtimeAssumption DEF ReportLocation, ReportUnpublished
<1> HIDE DEF u, g, ms, first
<1>2. /\ first \in Messages /\ first \in LocationMessages /\ first.about = u
      /\ \A m \in LocationMessages : m \in ms => m.about = u
      /\ \A n \in Notes : Note(n) \notin ms
  BY <1>1, MessageKinds DEF first, ms, LocationEvents
<1>3. /\ updates' \in Seq(Gateways \union {"none"}) /\ Len(updates') = u
      /\ DOMAIN updates' = 1 .. u /\ updates'[u] \in {g, "none"}
      /\ \A v \in DOMAIN updates : updates'[v] = updates[v]
      /\ DOMAIN updates = 1 .. u - 1 /\ Len(updates) = u - 1
  <2>1. updates \in Seq(Gateways \union {"none"})
    BY <1>1 DEF RealtimeTypeOK
  <2> QED
    BY <1>1, <2>1 DEF u
<1>4. /\ \A m \in LocationMessages : /\ m \in Messages /\ carried[m] \in Nat /\ carried'[m] \in Nat
                                     /\ carried'[m] >= carried[m]
                                     /\ m # first => carried'[m] = carried[m]
      /\ \A h \in Gateways, m \in LocationMessages :
            /\ Waiting(h, m) \in Nat /\ Waiting(h, m)' \in Nat
            /\ Waiting(h, m)' <= Waiting(h, m) + (carried'[m] - carried[m])
      /\ \A h \in Gateways : \A x \in Entries(h)' :
            x \in Entries(h) \/ (x.message = first /\ x.origin = g)
      /\ \A n \in Notes : carried'[Note(n)] = carried[Note(n)]
  <2>1. CASE UNCHANGED <<inbox, carried>>
    <3>1. \A h \in Gateways : Entries(h)' = Entries(h) /\ \A m : Waiting(h, m)' = Waiting(h, m)
      BY <2>1 DEF Entries, Waiting
    <3> QED
      BY <1>1, <2>1, <3>1, MessageKinds, CountsTyped, InboxTyped
  <2>2. CASE Carry(first, g)
    <3>1. /\ \A x \in Messages : carried'[x] = IF x = first THEN carried[x] + 1 ELSE carried[x]
          /\ \A h \in Gateways :
               Entries(h)' = Entries(h) \union {[message |-> first, origin |-> g]}
          /\ \A h \in Gateways, x \in Messages :
               Waiting(h, x)' = IF x = first /\ g # h THEN Waiting(h, x) + 1 ELSE Waiting(h, x)
      BY <1>1, <1>2, <2>2, MessageCarried
    <3>2. /\ \A m \in LocationMessages : m \in Messages /\ carried[m] \in Nat
          /\ \A h \in Gateways, m \in LocationMessages : Waiting(h, m) \in Nat
          /\ \A n \in Notes : Note(n) \in Messages /\ Note(n) # first
      BY <1>1, <1>2, MessageKinds, CountsTyped, InboxTyped
    <3> QED
      BY <3>1, <3>2
  <2> QED
    BY <1>1, <2>1, <2>2
<1>5. /\ shown' \in [Sockets -> [Messages -> Nat]]
      /\ \A t \in Sockets, m \in Messages : shown'[t][m] =
            IF sockets[t].joined /\ sockets[t].gateway = g /\ m \in ms THEN shown[t][m] + 1
                                                                     ELSE shown[t][m]
  BY <1>1, MessagesShown
<1>6. RealtimeTypeOK'
  <2>1. inbox' \in [Gateways -> Seq(Packets)] /\ carried' \in [Messages -> Nat]
    BY <1>1, <1>2, MessageCarried DEF RealtimeTypeOK, Packets
  <2>2. realtimeFaults' \in Nat
    <3>1. realtimeFaults' \in {realtimeFaults, realtimeFaults + 1}
      BY DEF ReportLocation, ReportUnpublished, RealtimeFault
    <3>2. realtimeFaults \in Nat
      BY <1>1 DEF RealtimeTypeOK
    <3> QED
      BY <3>1, <3>2
  <2> QED
    BY <1>1, <1>3, <1>5, <2>1, <2>2 DEF RealtimeTypeOK, Packets, noteVars
<1>7. Placed'
  BY <1>1, <1>3 DEF Placed, noteVars
<1>8. StoredFirst'
  <2>1. \A n \in Notes, t \in Sockets : shown'[t][Note(n)] = shown[t][Note(n)]
    BY <1>2, <1>5, MessageKinds
  <2>2. \A n \in Notes : Note(n) # first
    BY <1>2, MessageKinds
  <2> QED
    BY <1>1, <1>4, <2>1, <2>2 DEF RealtimeInv, StoredFirst, noteVars
<1>9. Unreported'
  <2> SUFFICES ASSUME NEW m \in LocationMessages, m.about > Len(updates')
               PROVE  /\ carried'[m] = 0
                      /\ \A h \in Gateways : \A x \in Entries(h)' : x.message # m
                      /\ \A t \in Sockets : shown'[t][m] = 0
    BY DEF Unreported
  <2>1. m.about > Len(updates) /\ m # first /\ m \notin ms
    BY <1>1, <1>2, <1>3, MessageKinds
  <2>2. /\ carried[m] = 0
        /\ \A h \in Gateways : \A x \in Entries(h) : x.message # m
        /\ \A t \in Sockets : shown[t][m] = 0
    BY <2>1 DEF RealtimeInv, LocationsFit, Unreported
  <2> QED
    BY <1>4, <1>5, <2>1, <2>2
<1>10. \A h \in Gateways, m \in LocationMessages : Waiting(h, m) <= carried[m]
  BY DEF RealtimeInv, LocationsFit
<1>11. \A h \in Gateways, m \in LocationMessages : Waiting(h, m)' <= carried'[m]
  BY <1>4, <1>10
<1>12. ASSUME NEW t \in Sockets, NEW m \in LocationMessages PROVE Fits(t, m)'
  <2>1. Fits(t, m) /\ (sockets[t].joined => sockets[t].gateway \in Gateways)
    BY <1>1 DEF RealtimeInv, LocationsFit, Placed
  <2>2. CASE m.about = u
    <3>1. /\ shown[t][m] = 0
          /\ \A h \in Gateways : \A x \in Entries(h) : x.message # m
      BY <1>1, <1>3, <2>2 DEF RealtimeInv, LocationsFit, Unreported
    <3>2. CASE sockets[t].joined /\ sockets[t].gateway = g
      <4>1. shown'[t][m] <= 1 /\ shown'[t][m] \in Nat
        BY <1>4, <1>5, <3>1
      <4>2. ASSUME NEW h \in Gateways, h = g PROVE Own(h, m)'
        BY <1>3, <1>4, <2>2, <3>1, <4>2 DEF Own
      <4>3. sockets'[t].joined /\ sockets'[t].gateway = g
        BY <1>1, <3>2
      <4> QED
        BY <1>1, <4>1, <4>2, <4>3 DEF Fits
    <3>3. CASE ~ (sockets[t].joined /\ sockets[t].gateway = g)
      <4>1. shown'[t][m] = 0
        BY <1>4, <1>5, <3>1, <3>3
      <4> QED
        BY <1>1, <1>4, <1>11, <2>1, <4>1 DEF Fits
    <3> QED
      BY <3>2, <3>3
  <2>3. CASE m.about # u
    <3>1. m # first /\ m \notin ms
      BY <1>2, <2>3
    <3>2. /\ shown'[t][m] = shown[t][m] /\ carried'[m] = carried[m]
          /\ \A h \in Gateways : Waiting(h, m)' <= Waiting(h, m)
      BY <1>4, <1>5, <3>1
    <3>3. shown[t][m] \in Nat
      BY <1>1, <1>4, CountsTyped
    <3>4. \A h \in Gateways : Own(h, m) => Own(h, m)'
      BY <1>1, <1>3, <1>4, <2>3, <3>1, MessageKinds DEF Own
    <3> QED
      BY <1>1, <1>4, <2>1, <3>2, <3>3, <3>4 DEF Fits
  <2> QED
    BY <2>2, <2>3
<1> QED
  BY <1>6, <1>7, <1>8, <1>9, <1>11, <1>12 DEF RealtimeInv, LocationsFit

LEMMA FaultTyped ==
  ASSUME RealtimeTypeOK, realtimeFaults' = realtimeFaults \/ RealtimeFault
  PROVE  realtimeFaults' \in Nat
  BY DEF RealtimeTypeOK, RealtimeFault

\* The second publish of a location, and its end.
LEMMA SecondInv ==
  ASSUME RealtimeInv, NEW u \in DOMAIN updates, ReportSecond(u) \/ ReportFails(u)
  PROVE  RealtimeInv'
<1> DEFINE second == Location("carrier:location", u)
<1>1. /\ RealtimeTypeOK /\ Placed
      /\ UNCHANGED <<noteVars, sockets, shown>>
      /\ updates' = [updates EXCEPT ![u] = "none"]
      /\ updates[u] \in Gateways
      /\ UNCHANGED <<inbox, carried>> \/ Carry(second, updates[u])
      /\ realtimeFaults' = realtimeFaults \/ RealtimeFault
  <2>1. RealtimeTypeOK /\ Placed
    BY DEF RealtimeInv
  <2>2. updates[u] \in Gateways \union {"none"}
    BY <2>1, CountsTyped
  <2> QED
    BY <2>1, <2>2 DEF ReportSecond, ReportFails
<1>2. /\ second \in Messages /\ second \in LocationMessages /\ second.about = u
      /\ u <= Len(updates)
      /\ \A n \in Notes : Note(n) # second
  <2>1. u \in 1 .. MaxUpdates /\ u <= Len(updates)
    BY <1>1, RealtimeAssumption, CountsTyped DEF Placed
  <2> QED
    BY <2>1, MessageKinds DEF LocationEvents
<1> HIDE DEF second
<1>3. UpdatesLeft
  <2>1. updates \in Seq(Gateways \union {"none"})
    BY <1>1 DEF RealtimeTypeOK
  <2> QED
    BY <1>1, <2>1, ExceptSeq DEF UpdatesLeft
<1>4. inbox' \in [Gateways -> Seq(Packets)] /\ carried' \in [Messages -> Nat]
  BY <1>1, <1>2, MessageCarried DEF RealtimeTypeOK, Packets
<1>5. RealtimeTypeOK' /\ Placed'
  <2>1. RealtimeTypeOK'
    BY <1>1, <1>3, <1>4, FaultTyped DEF RealtimeTypeOK, Packets, UpdatesLeft, noteVars
  <2> QED
    BY <1>1, <1>3, <2>1 DEF Placed, UpdatesLeft, noteVars
<1>6. StoredFirst' /\ LocationsFit'
  <2>1. CASE UNCHANGED <<inbox, carried>>
    <3>1. \A g \in Gateways : Entries(g)' = Entries(g) /\ \A m : Waiting(g, m)' = Waiting(g, m)
      BY <2>1 DEF Entries, Waiting
    <3>2. \A g \in Gateways, m \in Messages : Waiting(g, m)' <= Waiting(g, m) /\ Waiting(g, m)' \in Nat
      BY <1>1, <3>1, InboxTyped
    <3> QED
      BY <1>1, <1>3, <2>1, <3>1, <3>2, LessToShow
  <2>2. CASE Carry(second, updates[u])
    <3>1. \A g \in Gateways : Own(g, second) => updates[u] = g
      <4>1. "none" # updates[u]
        BY DEF ReportSecond, ReportFails
      <4> QED
        BY <1>2, <4>1 DEF Own
    <3> QED
      BY <1>1, <1>2, <1>3, <2>2, <3>1, MoreToShow
  <2> QED
    BY <1>1, <2>1, <2>2
<1> QED
  BY <1>5, <1>6 DEF RealtimeInv

\* A publish that ioredis sends again.
LEMMA AgainInv ==
  ASSUME RealtimeInv, NEW m \in Messages, CarryAgain(m)
  PROVE  RealtimeInv'
<1>1. /\ RealtimeTypeOK /\ Placed
      /\ UNCHANGED <<noteVars, sockets, updates, shown>> /\ RealtimeFault
  BY DEF RealtimeInv, CarryAgain
<1>2. PICK g \in Gateways : \E i \in DOMAIN inbox[g] :
         inbox[g][i].message = m /\ Carry(m, inbox[g][i].origin)
  BY DEF CarryAgain
<1>3. PICK x \in Entries(g) : x.message = m /\ Carry(m, x.origin)
  BY <1>2 DEF Entries
<1>4. x.origin \in Gateways \union {"none"}
  BY <1>1, InboxTyped DEF Packets
<1>5. inbox' \in [Gateways -> Seq(Packets)] /\ carried' \in [Messages -> Nat]
  BY <1>1, <1>3, <1>4, MessageCarried
<1>6. RealtimeTypeOK' /\ Placed'
  <2>1. RealtimeTypeOK'
    BY <1>1, <1>5, FaultTyped DEF RealtimeTypeOK, Packets, noteVars
  <2> QED
    BY <1>1, <2>1 DEF Placed, noteVars
<1>7. \A n \in Notes : m = Note(n) => stored[n] # 0
  BY <1>3 DEF RealtimeInv, StoredFirst
<1>8. m \in LocationMessages =>
         m.about <= Len(updates) /\ \A h \in Gateways : Own(h, m) => x.origin = h
  <2>1. m \in LocationMessages => m.about <= Len(updates)
    BY <1>1, <1>3, MessageKinds, CountsTyped DEF RealtimeInv, LocationsFit, Unreported
  <2> QED
    BY <1>3, <2>1 DEF Own
<1>9. UpdatesLeft
  BY <1>1, UpdatesKept
<1> QED
  BY <1>1, <1>3, <1>4, <1>6, <1>7, <1>8, <1>9, MoreToShow DEF RealtimeInv

\* A gateway that starts again.
LEMMA GatewayDiesInv ==
  ASSUME RealtimeInv, NEW g \in Gateways, GatewayDies(g)
  PROVE  RealtimeInv'
<1>1. /\ RealtimeTypeOK /\ Placed
      /\ UNCHANGED <<noteVars, shown, carried>> /\ RealtimeFault
  BY DEF RealtimeInv, GatewayDies
<1>2. /\ inbox' \in [Gateways -> Seq(Packets)]
      /\ \A h \in Gateways : inbox'[h] = IF h = g THEN <<>> ELSE inbox[h]
  <2>1. inbox \in [Gateways -> Seq(Packets)]
    BY <1>1 DEF RealtimeTypeOK, Packets
  <2>2. inbox' = [inbox EXCEPT ![g] = <<>>] /\ <<>> \in Seq(Packets)
    BY DEF GatewayDies
  <2> QED
    BY <2>1, <2>2
<1>3. UpdatesLeft
  <2>1. /\ updates \in Seq(Gateways \union {"none"})
        /\ updates' = [u \in DOMAIN updates |-> IF updates[u] = g THEN "none" ELSE updates[u]]
    BY <1>1 DEF GatewayDies, RealtimeTypeOK
  <2>2. Len(updates) \in Nat /\ DOMAIN updates = 1 .. Len(updates)
    BY <2>1
  <2>3. updates' \in [1 .. Len(updates) -> Gateways \union {"none"}]
    BY <2>1, <2>2
  <2>4. updates' \in Seq(Gateways \union {"none"})
    BY <2>2, <2>3, SeqDef
  <2> QED
    BY <2>1, <2>2, <2>3, <2>4, LenProperties DEF UpdatesLeft
<1>4. \A s \in Sockets : /\ sockets'[s] = sockets[s] \/ ~ sockets'[s].joined
                         /\ sockets'[s] \in [gateway : Gateways \union {"none"}, joined : BOOLEAN]
  BY <1>1 DEF GatewayDies, RealtimeTypeOK
<1>5. \A h \in Gateways :
         /\ Entries(h)' \subseteq Entries(h)
         /\ \A m \in Messages : Waiting(h, m)' <= Waiting(h, m) /\ Waiting(h, m)' \in Nat
  <2> SUFFICES ASSUME NEW h \in Gateways
               PROVE  /\ Entries(h)' \subseteq Entries(h)
                      /\ \A m \in Messages : Waiting(h, m)' <= Waiting(h, m) /\ Waiting(h, m)' \in Nat
    OBVIOUS
  <2>1. \A m \in Messages : Waiting(h, m) \in Nat
    BY <1>1, InboxTyped
  <2>2. CASE h = g
    <3>1. Entries(h)' = {} /\ \A m : Positions(inbox'[h], Foreign(h, m)) = {}
      BY <1>2, <2>2 DEF Entries, Positions
    <3>2. \A m : Waiting(h, m)' = 0
      BY <3>1, FS_EmptySet DEF Waiting
    <3> QED
      BY <2>1, <3>1, <3>2
  <2>3. CASE h # g
    <3>1. Entries(h)' = Entries(h) /\ \A m : Waiting(h, m)' = Waiting(h, m)
      BY <1>2, <2>3 DEF Entries, Waiting
    <3> QED
      BY <2>1, <3>1
  <2> QED
    BY <2>2, <2>3
<1>6. RealtimeTypeOK'
  <2>1. sockets' \in [Sockets -> [gateway : Gateways \union {"none"}, joined : BOOLEAN]]
    <3>1. sockets' = [s \in Sockets |-> sockets'[s]]
      BY DEF GatewayDies
    <3> QED
      BY <1>4, <3>1
  <2> QED
    BY <1>1, <1>2, <1>3, <2>1, FaultTyped DEF RealtimeTypeOK, Packets, noteVars, UpdatesLeft
<1>7. Placed'
  BY <1>1, <1>3, <1>4 DEF Placed, noteVars, UpdatesLeft
<1> QED
  BY <1>1, <1>3, <1>4, <1>5, <1>6, <1>7, LessToShow DEF RealtimeInv

\* What comes over the channel.
LEMMA ReceiveInv ==
  ASSUME RealtimeInv, NEW g \in Gateways, Receive(g)
  PROVE  RealtimeInv'
<1> DEFINE x == Head(inbox[g])
           m == x.message
<1>1. /\ RealtimeTypeOK /\ Placed
      /\ UNCHANGED <<noteVars, sockets, updates, carried, realtimeFaults>>
      /\ inbox[g] # <<>> /\ inbox' = [inbox EXCEPT ![g] = Tail(@)]
      /\ shown' = IF x.origin = g THEN shown ELSE Shown(g, {m})
  BY DEF RealtimeInv, Receive
<1>2. /\ inbox' \in [Gateways -> Seq(Packets)]
      /\ x \in Entries(g) /\ x \in Packets /\ m \in Messages
      /\ \A h \in Gateways : Entries(h)' \subseteq Entries(h)
      /\ \A h \in Gateways, y \in Messages :
            Waiting(h, y) = IF h = g /\ m = y /\ x.origin # g THEN Waiting(h, y)' + 1
                                                              ELSE Waiting(h, y)'
      /\ \A h \in Gateways, y \in Messages : Waiting(h, y) \in Nat
  <2>1. x \in Entries(g) /\ x \in Packets
    BY <1>1, InboxTyped
  <2> QED
    BY <1>1, <2>1, MessageTaken, InboxTyped DEF Packets
<1> HIDE DEF x, m
<1>3. /\ shown' \in [Sockets -> [Messages -> Nat]]
      /\ \A s \in Sockets, y \in Messages : shown'[s][y] =
            IF /\ sockets[s].joined /\ sockets[s].gateway = g
               /\ y = m /\ x.origin # g
            THEN shown[s][y] + 1 ELSE shown[s][y]
  <2>1. CASE x.origin = g
    BY <1>1, <2>1 DEF RealtimeTypeOK
  <2>2. CASE x.origin # g
    <3> DEFINE ms == {m}
    <3>1. shown' = Shown(g, ms)
      BY <1>1, <2>2
    <3>2. \A y : y \in ms <=> y = m
      OBVIOUS
    <3> HIDE DEF ms
    <3>3. /\ shown' \in [Sockets -> [Messages -> Nat]]
          /\ \A s \in Sockets, y \in Messages : shown'[s][y] =
               IF sockets[s].joined /\ sockets[s].gateway = g /\ y \in ms
               THEN shown[s][y] + 1 ELSE shown[s][y]
      <4>1. RealtimeTypeOK
        BY <1>1
      <4> QED
        BY <3>1, <4>1, MessagesShown
    <3> QED
      BY <2>2, <3>2, <3>3
  <2> QED
    BY <2>1, <2>2
<1>4. RealtimeTypeOK' /\ Placed'
  <2>1. RealtimeTypeOK'
    BY <1>1, <1>2, <1>3 DEF RealtimeTypeOK, Packets, noteVars
  <2> QED
    BY <1>1, <2>1 DEF Placed, noteVars
<1>5. StoredFirst'
  <2>1. \A n \in Notes : stored[n] = 0 => m # Note(n)
    BY <1>2 DEF RealtimeInv, StoredFirst, m
  <2> QED
    <3>1. \A n \in Notes, s \in Sockets :
             stored[n] = 0 => Note(n) \in Messages /\ shown'[s][Note(n)] = shown[s][Note(n)]
      BY <1>3, <2>1, MessageKinds
    <3>2. UNCHANGED <<stored, notes, consumers, carried>>
      BY <1>1 DEF noteVars
    <3> QED
      BY <1>2, <3>1, <3>2 DEF RealtimeInv, StoredFirst
<1>6. Unreported'
  <2>1. \A y \in LocationMessages : y.about > Len(updates) => m # y
    BY <1>2 DEF RealtimeInv, LocationsFit, Unreported, m
  <2> QED
    <3>1. \A y \in LocationMessages, s \in Sockets :
             y.about > Len(updates) => shown'[s][y] = shown[s][y]
      BY <1>3, <2>1, MessageKinds
    <3> QED
      BY <1>1, <1>2, <3>1 DEF RealtimeInv, LocationsFit, Unreported
<1>7. \A h \in Gateways, y \in Messages : Waiting(h, y)' \in Nat /\ Waiting(h, y)' <= Waiting(h, y)
  <2>1. \A h \in Gateways, y \in Messages : Waiting(h, y)' \in Nat
    BY <1>4, InboxTyped, PositionsFinite DEF Waiting, RealtimeTypeOK
  <2> QED
    BY <1>2, <2>1
<1>8. \A h \in Gateways, y \in LocationMessages : Waiting(h, y)' <= carried'[y]
  <2> SUFFICES ASSUME NEW h \in Gateways, NEW y \in LocationMessages
               PROVE  Waiting(h, y)' <= carried'[y]
    OBVIOUS
  <2>1. /\ Waiting(h, y) <= carried[y] /\ carried[y] \in Nat /\ carried' = carried
        /\ y \in Messages
    BY <1>1, MessageKinds, CountsTyped DEF RealtimeInv, LocationsFit
  <2> QED
    BY <1>2, <1>7, <2>1
<1>9. \A h \in Gateways, y \in LocationMessages : Own(h, y) => Own(h, y)'
  BY <1>1, <1>2 DEF Own
<1>10. ASSUME NEW s \in Sockets, NEW y \in LocationMessages PROVE Fits(s, y)'
  <2>1. /\ Fits(s, y) /\ (sockets[s].joined => sockets[s].gateway \in Gateways)
        /\ y \in Messages /\ shown[s][y] \in Nat /\ carried[y] \in Nat /\ carried' = carried
        /\ sockets'[s] = sockets[s]
    BY <1>1, MessageKinds, CountsTyped DEF RealtimeInv, LocationsFit, Placed
  <2>2. CASE sockets[s].joined /\ sockets[s].gateway = g /\ y = m /\ x.origin # g
    <3>1. ~ Own(g, y)
      BY <1>2, <2>2 DEF Own, m
    <3>2. shown[s][y] + Waiting(g, y) <= carried[y]
      BY <2>1, <2>2, <3>1 DEF Fits
    <3>3. shown'[s][y] = shown[s][y] + 1 /\ Waiting(g, y) = Waiting(g, y)' + 1
      BY <1>2, <1>3, <2>1, <2>2
    <3>4. Waiting(g, y)' \in Nat
      BY <1>7, <2>1
    <3> QED
      BY <2>1, <2>2, <3>2, <3>3, <3>4 DEF Fits
  <2>3. CASE ~ (sockets[s].joined /\ sockets[s].gateway = g /\ y = m /\ x.origin # g)
    <3>1. shown'[s][y] = shown[s][y]
      BY <1>3, <2>1, <2>3
    <3>2. \A h \in Gateways : /\ Waiting(h, y)' <= Waiting(h, y)
                              /\ Waiting(h, y)' \in Nat /\ Waiting(h, y) \in Nat
      BY <1>2, <1>7, <2>1
    <3> QED
      BY <1>9, <2>1, <3>1, <3>2 DEF Fits
  <2> QED
    BY <2>2, <2>3
<1> QED
  BY <1>4, <1>5, <1>6, <1>8, <1>10 DEF RealtimeInv, LocationsFit

LEMMA RealtimeStepInv ==
  ASSUME RealtimeInv, [RealtimeNext]_realtimeVars
  PROVE  RealtimeInv'
<1>1. CASE UNCHANGED realtimeVars
  <2>1. /\ UNCHANGED <<noteVars, inbox, sockets, updates, shown, carried, realtimeFaults>>
    BY <1>1 DEF realtimeVars, gatewayVars
  <2>2. \A g \in Gateways : Entries(g)' = Entries(g) /\ \A m : Waiting(g, m)' = Waiting(g, m)
    BY <2>1 DEF Entries, Waiting
  <2>3. RealtimeTypeOK' /\ Placed'
    BY <2>1 DEF noteVars, RealtimeInv, RealtimeTypeOK, Placed
  <2>4. StoredFirst'
    BY <2>1, <2>2 DEF noteVars, RealtimeInv, StoredFirst
  <2>5. Unreported'
    BY <2>1, <2>2 DEF RealtimeInv, Unreported, LocationsFit
  <2>6. \A s \in Sockets, m \in LocationMessages : Fits(s, m)'
    <3>1. \A g \in Gateways, m \in LocationMessages : Own(g, m) => Own(g, m)'
      BY <2>1, <2>2 DEF Own
    <3> QED
      BY <2>1, <2>2, <3>1 DEF RealtimeInv, LocationsFit, Placed, Fits
  <2> QED
    BY <2>1, <2>2, <2>3, <2>4, <2>5, <2>6 DEF RealtimeInv, LocationsFit
<1>2. CASE RealtimeNext
  BY <1>2, NotifyInv, ConsumerInv, PageInv, ReportInv, SecondInv, ReceiveInv, GatewayDiesInv,
     AgainInv DEF RealtimeNext
<1> QED
  BY <1>1, <1>2

LEMMA RealtimeInvariance == RealtimeSpec => []RealtimeInv
  BY RealtimeInitInv, RealtimeStepInv, PTL DEF RealtimeSpec

\* A page is never told of a notification that its list does not have, whichever way
\* it came, however often it was delivered, and whatever failed on the way.
THEOREM ToldIsStored == RealtimeSpec => []ShownStored
<1>1. RealtimeInv => ShownStored
  <2> SUFFICES ASSUME RealtimeInv, NEW n \in Notes, stored[n] = 0
               PROVE  carried[Note(n)] = 0 /\ \A s \in Sockets : shown[s][Note(n)] = 0
    <3>1. RealtimeInv => \A n \in Notes : stored[n] \in Nat
      BY DEF RealtimeInv, RealtimeTypeOK
    <3> QED
      BY <3>1 DEF ShownStored
  <2> QED
    BY DEF RealtimeInv, StoredFirst
<1> QED
  BY <1>1, RealtimeInvariance, PTL

\* With any number of gateways and pages, a location comes to a page from its own
\* gateway or over the channel, and never from both.
THEOREM LocationOnce == RealtimeSpec => []OncePerSocket
<1>1. RealtimeInv => OncePerSocket
  <2> SUFFICES ASSUME RealtimeInv, NEW s \in Sockets, NEW m \in LocationMessages
               PROVE  shown[s][m] <= IF carried[m] > 1 THEN carried[m] ELSE 1
    BY DEF OncePerSocket
  <2>1. /\ Fits(s, m) /\ (sockets[s].joined => sockets[s].gateway \in Gateways)
        /\ shown[s][m] \in Nat /\ carried[m] \in Nat
        /\ \A g \in Gateways : Waiting(g, m) \in Nat
    BY MessageKinds, CountsTyped, InboxTyped DEF RealtimeInv, LocationsFit, Placed
  <2> QED
    BY <2>1 DEF Fits
<1> QED
  BY <1>1, RealtimeInvariance, PTL

-----------------------------------------------------------------------------
(* All components *)

ServicesInv ==
    /\ CheckoutInv /\ IndexInv /\ IndexContents /\ SessionInv
    /\ RealtimeInv /\ RouteInv /\ RuntimeInv /\ AccountInv

\* A step of one component is no step of the others.
LEMMA ServicesStepInv ==
  ASSUME ServicesInv, [ServicesNext]_servicesVars
  PROVE  ServicesInv'
<1>1. [CheckoutNext]_checkoutVars /\ [SearchIndexNext]_indexVars
  BY DEF ServicesNext, servicesVars
<1>2. [SessionNext]_sessionVars /\ [RealtimeNext]_realtimeVars
  BY DEF ServicesNext, servicesVars
<1>3. [RouteInputNext]_routeVars /\ [RuntimeNext]_runtimeVars /\ [AccountNext]_accountVars
  BY DEF ServicesNext, servicesVars
<1> QED
  BY <1>1, <1>2, <1>3, CheckoutStepInv, IndexStepInv, ContentsKept, SessionStepInv,
     RealtimeStepInv, RouteStepInv, RuntimeStepInv, AccountStepInv DEF ServicesInv

\* The documents, topics, calls, sockets and counters of every component around the
\* delivery only ever hold what its code can put there.
THEOREM ServicesTypeCorrect == ServicesSpec => []ServicesTypeOK
<1>1. ServicesInit => ServicesInv
  BY CheckoutInitInv, IndexInitInv, ContentsInit, SessionInitInv, RealtimeInitInv,
     RouteInitInv, RuntimeInitInv, AccountInitInv DEF ServicesInit, ServicesInv
<1>2. ServicesInv => ServicesTypeOK
  <2>1. IndexInv /\ IndexContents => SearchIndexTypeOK
    BY DEF IndexInv, IndexTypes, IndexContents, SearchIndexTypeOK, NoPlaces
  <2> QED
    BY <2>1 DEF ServicesInv, ServicesTypeOK, CheckoutInv, SessionInv, RealtimeInv, RouteInv,
                RuntimeInv, AccountInv
<1> QED
  BY <1>1, <1>2, ServicesStepInv, PTL DEF ServicesSpec
=============================================================================
