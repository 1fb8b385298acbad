------------------------------ MODULE Runtime ------------------------------
(***************************************************************************)
(* A process of the core API from its start to its exit: the resources it  *)
(* opens one after the other, the requests of its HTTP server, of which     *)
(* loadShedder admits a limited number, and its shutdown, which closes      *)
(* everything at the same time and does not wait longer than ten seconds.  *)
(***************************************************************************)
EXTENDS Naturals, FiniteSets

CONSTANTS Connections,       \* connections of clients, kept alive between requests
          MaxInFlight,       \* MAX_IN_FLIGHT_REQUESTS
          Resources,         \* what else the shutdown closes, workers among it
          MaxRetries,        \* MAX_RETRIES of connectDB
          MaxRuntimeFaults   \* bound: steps of the start or the shutdown that fail

ASSUME RuntimeAssumption ==
    /\ IsFiniteSet(Connections)
    /\ MaxInFlight \in Nat \ {0} /\ MaxRetries \in Nat \ {0} /\ MaxRuntimeFaults \in Nat
    /\ "workers" \in Resources /\ "http_server" \notin Resources

VARIABLES
    starting,      \* what start() awaits; up when it has resolved
    retries,
    workers,       \* createWorkers has run
    server,        \* none, listening, closing or closed
    connections,   \* closed, idle, handling a request, or ending its response
    inFlight,      \* the app setting hopdrop.inFlight
    shuttingDown,
    steps,         \* of the shutdown: none, running, done or failed
    exit,          \* none, or the exit code
    early,         \* history: the signal came before there was a server
    runtimeFaults

startVars   == <<starting, retries, workers>>
httpVars    == <<connections, inFlight>>
shutdownVars == <<shuttingDown, steps, early>>
runtimeVars == <<startVars, server, httpVars, shutdownVars, exit, runtimeFaults>>

Steps == Resources \union {"http_server"}

RuntimeInit ==
    /\ starting = "connect" /\ retries = 0 /\ workers = FALSE
    /\ server = "none"
    /\ connections = [c \in Connections |-> "closed"] /\ inFlight = 0
    /\ shuttingDown = FALSE /\ steps = [x \in Steps |-> "none"]
    /\ early = FALSE
    /\ exit = "none" /\ runtimeFaults = 0

Alive == exit = "none"
RuntimeFault ==
    runtimeFaults < MaxRuntimeFaults /\ runtimeFaults' = runtimeFaults + 1

-----------------------------------------------------------------------------
(* Start *)

\* Mutant of ConnectFails: one attempt too many.
ConnectFailsLate ==
    /\ Alive /\ starting = "connect"
    /\ retries' = retries + 1
    /\ exit' = IF retries + 1 > MaxRetries THEN "1" ELSE exit
    /\ UNCHANGED <<starting, workers, server, httpVars, shutdownVars, runtimeFaults>>

\* A failed attempt of connectDB is followed by another one, the last by an exit.
ConnectFails ==
    /\ Alive /\ starting = "connect"
    /\ retries' = retries + 1
    /\ exit' = IF retries + 1 >= MaxRetries THEN "1" ELSE exit
    /\ UNCHANGED <<starting, workers, server, httpVars, shutdownVars, runtimeFaults>>

After == [connect |-> "ping", ping |-> "outbox", outbox |-> "schedule"]

\* connectDatabase, the pings, startOutbox; createWorkers runs with the last of them.
Advance ==
    /\ Alive /\ starting \in DOMAIN After
    /\ starting' = After[starting]
    /\ workers' = (workers \/ starting = "outbox")
    /\ UNCHANGED <<retries, server, httpVars, shutdownVars, exit, runtimeFaults>>

\* The audits are scheduled; the server is built and listens at once.
Listen ==
    /\ Alive /\ starting = "schedule"
    /\ starting' = "up"
    /\ server' = "listening"
    /\ UNCHANGED <<retries, workers, httpVars, shutdownVars, exit, runtimeFaults>>

\* start() rejects, for instance on a connection a shutdown has closed.
StartFails ==
    /\ Alive /\ starting \in {"ping", "outbox", "schedule"}
    /\ exit' = "1"
    /\ RuntimeFault
    /\ UNCHANGED <<startVars, server, httpVars, shutdownVars>>

-----------------------------------------------------------------------------
(* Requests *)

OpenConnection(c) ==
    /\ Alive /\ server = "listening" /\ connections[c] = "closed"
    /\ connections' = [connections EXCEPT ![c] = "idle"]
    /\ UNCHANGED <<startVars, server, inFlight, shutdownVars, exit, runtimeFaults>>

\* loadShedder admits a request, on any connection that is still there; over the
\* limit it is answered with 503 and nothing changes.
Admit(c) ==
    /\ Alive /\ connections[c] = "idle" /\ inFlight < MaxInFlight
    /\ connections' = [connections EXCEPT ![c] = "handling"]
    /\ inFlight' = inFlight + 1
    /\ UNCHANGED <<startVars, server, shutdownVars, exit, runtimeFaults>>

\* Math.max(0, ...)
Released == IF inFlight = 0 THEN 0 ELSE inFlight - 1

\* res "finish"
FinishResponse(c) ==
    /\ Alive /\ connections[c] = "handling"
    /\ connections' = [connections EXCEPT ![c] = "ending"]
    /\ inFlight' = Released
    /\ UNCHANGED <<startVars, server, shutdownVars, exit, runtimeFaults>>

\* Mutant of CloseResponse: the flag released is missing.
CloseAndRelease(c) ==
    /\ Alive /\ connections[c] = "ending"
    /\ connections' = [connections EXCEPT ![c] = "idle"]
    /\ inFlight' = Released
    /\ UNCHANGED <<startVars, server, shutdownVars, exit, runtimeFaults>>

\* res "close" after "finish": released already.
CloseResponse(c) ==
    /\ Alive /\ connections[c] = "ending"
    /\ connections' = [connections EXCEPT ![c] = "idle"]
    /\ UNCHANGED <<startVars, server, inFlight, shutdownVars, exit, runtimeFaults>>

\* The client is gone: "close" alone.
AbortRequest(c) ==
    /\ Alive /\ connections[c] = "handling"
    /\ connections' = [connections EXCEPT ![c] = "closed"]
    /\ inFlight' = Released
    /\ UNCHANGED <<startVars, server, shutdownVars, exit, runtimeFaults>>

\* keepAliveTimeout, or the client closes
CloseConnection(c) ==
    /\ Alive /\ connections[c] = "idle"
    /\ connections' = [connections EXCEPT ![c] = "closed"]
    /\ UNCHANGED <<startVars, server, inFlight, shutdownVars, exit, runtimeFaults>>

-----------------------------------------------------------------------------
(* Shutdown *)

\* SIGTERM or SIGINT; a second one returns.  server.close() also closes the idle
\* connections; without a server, and for workers that do not exist, there is
\* nothing to close.
Shutdown ==
    /\ Alive /\ ~ shuttingDown
    /\ shuttingDown' = TRUE
    /\ early' = (server = "none")
    /\ steps' = [x \in Steps |->
          IF (x = "http_server" /\ server = "none") \/ (x = "workers" /\ ~ workers)
          THEN "done" ELSE "running"]
    /\ server' = IF server = "none" THEN "none" ELSE "closing"
    /\ connections' = [c \in Connections |->
          IF connections[c] = "idle" /\ server # "none" THEN "closed" ELSE connections[c]]
    /\ UNCHANGED <<startVars, inFlight, exit, runtimeFaults>>

\* Mutant of HttpClosed: closeHttpServer does not wait for the callback.
HttpClosedAtOnce ==
    /\ Alive /\ server = "closing"
    /\ server' = "closed"
    /\ steps' = [steps EXCEPT !["http_server"] = "done"]
    /\ UNCHANGED <<startVars, httpVars, shuttingDown, early, exit, runtimeFaults>>

\* The callback of server.close(): the last connection has ended.
HttpClosed ==
    /\ Alive /\ server = "closing"
    /\ \A c \in Connections : connections[c] = "closed"
    /\ server' = "closed"
    /\ steps' = [steps EXCEPT !["http_server"] = "done"]
    /\ UNCHANGED <<startVars, httpVars, shuttingDown, early, exit, runtimeFaults>>

CloseResource(x) ==
    /\ Alive /\ steps[x] = "running"
    /\ steps' = [steps EXCEPT ![x] = "done"]
    /\ UNCHANGED <<startVars, server, httpVars, shuttingDown, early, exit, runtimeFaults>>

CloseFails(x) ==
    /\ Alive /\ steps[x] = "running"
    /\ steps' = [steps EXCEPT ![x] = "failed"]
    /\ RuntimeFault
    /\ UNCHANGED <<startVars, server, httpVars, shuttingDown, early, exit>>

\* Promise.allSettled
Complete ==
    /\ Alive /\ shuttingDown
    /\ \A x \in Steps : steps[x] \in {"done", "failed"}
    /\ exit' = IF \E x \in Steps : steps[x] = "failed" THEN "1" ELSE "0"
    /\ UNCHANGED <<startVars, server, httpVars, shutdownVars, runtimeFaults>>

\* Mutant of ForcedExit: the timer starts when the server is closed.
ForcedLater ==
    /\ Alive /\ shuttingDown /\ server # "closing"
    /\ exit' = "1"
    /\ UNCHANGED <<startVars, server, httpVars, shutdownVars, runtimeFaults>>

\* forcedExitTimer
ForcedExit ==
    /\ Alive /\ shuttingDown
    /\ exit' = "1"
    /\ UNCHANGED <<startVars, server, httpVars, shutdownVars, runtimeFaults>>

-----------------------------------------------------------------------------
RuntimeNext ==
    \/ ConnectFails \/ Advance \/ Listen \/ StartFails
    \/ \E c \in Connections :
          \/ OpenConnection(c) \/ Admit(c) \/ FinishResponse(c) \/ CloseResponse(c)
          \/ AbortRequest(c) \/ CloseConnection(c)
    \/ Shutdown \/ HttpClosed \/ Complete \/ ForcedExit
    \/ \E x \in Resources : CloseResource(x) \/ CloseFails(x)

RuntimeSpec == RuntimeInit /\ [][RuntimeNext]_runtimeVars

\* Only the timer is sure to come: a job or a client may take as long as it likes.
RuntimeFairness == WF_runtimeVars(ForcedExit)

-----------------------------------------------------------------------------
RuntimeTypeOK ==
    /\ starting \in {"connect", "ping", "outbox", "schedule", "up"}
    /\ retries \in 0 .. MaxRetries /\ workers \in BOOLEAN
    /\ server \in {"none", "listening", "closing", "closed"}
    /\ connections \in [Connections -> {"closed", "idle", "handling", "ending"}]
    /\ inFlight \in Nat
    /\ shuttingDown \in BOOLEAN /\ early \in BOOLEAN
    /\ steps \in [Steps -> {"none", "running", "done", "failed"}]
    /\ exit \in {"none", "0", "1"}
    /\ runtimeFaults \in Nat

Handling == {c \in Connections : connections[c] = "handling"}

\* The counter of the load shedder is the number of requests that are handled,
\* whether they finish, are aborted or are cut off: it never drifts, so it neither
\* refuses requests for ever nor lets too many in.
CountExact == inFlight = Cardinality(Handling) /\ inFlight <= MaxInFlight

\* An exit that reports success has cut off no request, also one that came over a
\* connection kept alive while the server was closing, unless the signal came while
\* the process was starting: then the server that start() opens is not closed.
ExitClean == exit = "0" /\ ~ early => Handling = {}

\* A process that is told to stop exits, whatever its clients and jobs do.
ExitComes == shuttingDown ~> exit # "none"
=============================================================================
