------------------------------ MODULE Realtime ------------------------------
(***************************************************************************)
(* How news reach a page.  The core API asks for a notification; the       *)
(* notification consumer (or the core API itself, without Kafka) stores it *)
(* and publishes it on a Redis channel, from which every realtime gateway  *)
(* emits it to the sockets that joined the room.  A carrier's location     *)
(* comes in at one gateway, which emits it to its own sockets and publishes *)
(* it for the others.  Gateways and consumers restart, sockets drop, and   *)
(* the channel keeps nothing.                                              *)
(***************************************************************************)
EXTENDS Naturals, Sequences, FiniteSets

CONSTANTS Gateways, Consumers,
          Sockets,            \* sockets of pages that show one match and one user
          Senders,            \* those that report the carrier's location
          Notes,              \* notifications of the user
          MaxUpdates,         \* bound: locations reported
          MaxRealtimeFaults   \* bound: deaths, errors, dropped connections

ASSUME RealtimeAssumption ==
    /\ Senders \subseteq Sockets
    /\ MaxUpdates \in Nat /\ MaxRealtimeFaults \in Nat

LocationEvents == {"location:update", "carrier:location"}

\* What the channel carries: notification:new, or an event of a location update.
NoteMessages == {[event |-> "notification:new", about |-> n] : n \in Notes}
LocationMessages == {[event |-> e, about |-> u] : e \in LocationEvents, u \in 1 .. MaxUpdates}
Messages == NoteMessages \union LocationMessages

Note(n) == [event |-> "notification:new", about |-> n]
Location(e, u) == [event |-> e, about |-> u]

VARIABLES
    notes,      \* a notification: new, queued, publishing, over
    topic,      \* notification.dispatch, the partition of the user
    consumers,  \* the message a consumer handles
    stored,     \* Notification documents
    inbox,      \* what Redis has sent to a gateway's subscriber
    sockets,    \* the gateway of a socket, whether it is in its rooms
    updates,    \* reported locations: where a gateway handles them
    shown,      \* times the page of a socket got a message
    carried,    \* history: times a message was published
    realtimeFaults

noteVars    == <<notes, topic, consumers, stored>>
gatewayVars == <<inbox, sockets, updates, shown, carried>>
realtimeVars == <<noteVars, gatewayVars, realtimeFaults>>

NoMessage == [at |-> "idle", note |-> "none", owner |-> FALSE]

RealtimeInit ==
    /\ notes = [n \in Notes |-> "new"]
    /\ topic = <<>>
    /\ consumers = [k \in Consumers |-> NoMessage]
    /\ stored = [n \in Notes |-> 0]
    /\ inbox = [g \in Gateways |-> <<>>]
    /\ sockets = [s \in Sockets |-> [gateway |-> "none", joined |-> FALSE]]
    /\ updates = <<>>
    /\ shown = [s \in Sockets |-> [m \in Messages |-> 0]]
    /\ carried = [m \in Messages |-> 0]
    /\ realtimeFaults = 0

RealtimeFault ==
    realtimeFaults < MaxRealtimeFaults /\ realtimeFaults' = realtimeFaults + 1

\* PUBLISH: every subscriber is sent the message, with the gateway it came from.
Carry(m, origin) ==
    /\ inbox' = [g \in Gateways |-> Append(inbox[g], [message |-> m, origin |-> origin])]
    /\ carried' = [carried EXCEPT ![m] = @ + 1]

-----------------------------------------------------------------------------
(* Notifications *)

\* notifyUser with Kafka: the event is in the outbox, and the relay publishes it.
NotifyByTopic(n) ==
    /\ notes[n] = "new"
    /\ notes' = [notes EXCEPT ![n] = "queued"]
    /\ topic' = Append(topic, n)
    /\ UNCHANGED <<consumers, stored, gatewayVars, realtimeFaults>>

\* notifyUser without: the document, and then the channel.
NotifyDirectly(n) ==
    /\ notes[n] = "new"
    /\ notes' = [notes EXCEPT ![n] = "publishing"]
    /\ stored' = [stored EXCEPT ![n] = @ + 1]
    /\ UNCHANGED <<topic, consumers, gatewayVars, realtimeFaults>>

\* publishRealtimeEvent
PublishDirectly(n) ==
    /\ notes[n] = "publishing"
    /\ notes' = [notes EXCEPT ![n] = "over"]
    /\ Carry(Note(n), "none")
    /\ UNCHANGED <<topic, consumers, stored, sockets, updates, shown, realtimeFaults>>

\* It only logs an error; a process that dies leaves the same behind.
PublishFails(n) ==
    /\ notes[n] = "publishing"
    /\ notes' = [notes EXCEPT ![n] = "over"]
    /\ RealtimeFault
    /\ UNCHANGED <<topic, consumers, stored, gatewayVars>>

\* eachMessage of the consumer that owns the partition.
TakeMessage(k) ==
    /\ topic # <<>>
    /\ \A j \in Consumers : ~ consumers[j].owner
    /\ consumers[k] = NoMessage
    /\ consumers' = [consumers EXCEPT ![k] = [at |-> "create", note |-> Head(topic),
                                              owner |-> TRUE]]
    /\ UNCHANGED <<notes, topic, stored, gatewayVars, realtimeFaults>>

\* Mutant of CreateNotification: the page is told first.
PublishFirst(k) ==
    /\ consumers[k].at = "create"
    /\ consumers' = [consumers EXCEPT ![k].at = "publish"]
    /\ Carry(Note(consumers[k].note), "none")
    /\ UNCHANGED <<notes, topic, stored, sockets, updates, shown, realtimeFaults>>

\* Notification.create: once more when the message is delivered once more.
CreateNotification(k) ==
    /\ consumers[k].at = "create"
    /\ consumers' = [consumers EXCEPT ![k].at = "publish"]
    /\ stored' = [stored EXCEPT ![consumers[k].note] = @ + 1]
    /\ UNCHANGED <<notes, topic, gatewayVars, realtimeFaults>>

\* publishRealtime; the offset moves on if the partition is still the consumer's.
PublishNotification(k) ==
    /\ consumers[k].at = "publish"
    /\ Carry(Note(consumers[k].note), "none")
    /\ topic' = IF consumers[k].owner THEN Tail(topic) ELSE topic
    /\ consumers' = [consumers EXCEPT ![k] = NoMessage]
    /\ UNCHANGED <<notes, stored, sockets, updates, shown, realtimeFaults>>

\* Mutant of HandleFails: the error is logged and not thrown.
FailAndCommit(k) ==
    /\ consumers[k] # NoMessage
    /\ topic' = IF consumers[k].owner THEN Tail(topic) ELSE topic
    /\ consumers' = [consumers EXCEPT ![k] = NoMessage]
    /\ RealtimeFault
    /\ UNCHANGED <<notes, stored, gatewayVars>>

\* MongoDB or Redis rejects, or the consumer dies: the message comes again.
HandleFails(k) ==
    /\ consumers[k] # NoMessage
    /\ consumers' = [consumers EXCEPT ![k] = NoMessage]
    /\ RealtimeFault
    /\ UNCHANGED <<notes, topic, stored, gatewayVars>>

\* The consumer's session times out: another one gets the partition, it goes on.
LosePartition(k) ==
    /\ consumers[k].owner
    /\ consumers' = [consumers EXCEPT ![k].owner = FALSE]
    /\ RealtimeFault
    /\ UNCHANGED <<notes, topic, stored, gatewayVars>>

-----------------------------------------------------------------------------
(* Gateways *)

\* A page is loaded: useSocket connects, and emits join:user and join:match.
LoadPage(s, g) ==
    /\ sockets[s].gateway = "none" \/ ~ sockets[s].joined
    /\ sockets' = [sockets EXCEPT ![s] = [gateway |-> g, joined |-> TRUE]]
    /\ shown' = [shown EXCEPT ![s] = [m \in Messages |-> 0]]
    /\ UNCHANGED <<noteVars, inbox, updates, carried, realtimeFaults>>

\* A connection drops and comes back, perhaps to another gateway.  The effect of
\* useSocket does not run again: the socket is in no room any more.
Reconnect(s, g) ==
    /\ sockets[s].gateway # "none"
    /\ sockets' = [sockets EXCEPT ![s] = [gateway |-> g, joined |-> FALSE]]
    /\ RealtimeFault
    /\ UNCHANGED <<noteVars, inbox, updates, shown, carried>>

\* The sockets of a gateway that are in the rooms.
InRoom(g) == {s \in Sockets : sockets[s] = [gateway |-> g, joined |-> TRUE]}

\* emitMessage
Shown(g, ms) ==
    [s \in Sockets |-> IF s \notin InRoom(g) THEN shown[s]
                       ELSE [m \in Messages |-> IF m \in ms THEN shown[s][m] + 1 ELSE shown[s][m]]]

\* location:update: both events to the gateway's own sockets, then the first publish.
ReportLocation(s) ==
    LET u == Len(updates) + 1  g == sockets[s].gateway IN
    /\ s \in Senders /\ g # "none" /\ u <= MaxUpdates
    /\ shown' = Shown(g, {Location(e, u) : e \in LocationEvents})
    /\ Carry(Location("location:update", u), g)
    /\ updates' = Append(updates, g)
    /\ UNCHANGED <<noteVars, sockets, realtimeFaults>>

\* Its first publish is rejected: the second is not tried.
ReportUnpublished(s) ==
    LET u == Len(updates) + 1  g == sockets[s].gateway IN
    /\ s \in Senders /\ g # "none" /\ u <= MaxUpdates
    /\ shown' = Shown(g, {Location(e, u) : e \in LocationEvents})
    /\ updates' = Append(updates, "none")
    /\ RealtimeFault
    /\ UNCHANGED <<noteVars, inbox, sockets, carried>>

\* The second publish, when Redis has answered the first: answers come in order.
ReportSecond(u) ==
    /\ updates[u] # "none"
    /\ \A v \in 1 .. u - 1 : updates[v] # updates[u]
    /\ Carry(Location("carrier:location", u), updates[u])
    /\ updates' = [updates EXCEPT ![u] = "none"]
    /\ UNCHANGED <<noteVars, sockets, shown, realtimeFaults>>

\* The second publish is rejected.
ReportFails(u) ==
    /\ updates[u] # "none"
    /\ updates' = [updates EXCEPT ![u] = "none"]
    /\ RealtimeFault
    /\ UNCHANGED <<noteVars, inbox, sockets, shown, carried>>

\* Mutant of Receive: a gateway does not know its own messages.
ReceiveAll(g) ==
    /\ inbox[g] # <<>>
    /\ shown' = Shown(g, {Head(inbox[g]).message})
    /\ inbox' = [inbox EXCEPT ![g] = Tail(@)]
    /\ UNCHANGED <<noteVars, sockets, updates, carried, realtimeFaults>>

\* The subscriber's handler: its own messages are ignored.
Receive(g) ==
    /\ inbox[g] # <<>>
    /\ shown' = IF Head(inbox[g]).origin = g THEN shown
                ELSE Shown(g, {Head(inbox[g]).message})
    /\ inbox' = [inbox EXCEPT ![g] = Tail(@)]
    /\ UNCHANGED <<noteVars, sockets, updates, carried, realtimeFaults>>

\* Redis loses the connection after a PUBLISH: ioredis sends it again.
CarryAgain(m) ==
    /\ \E g \in Gateways : \E i \in DOMAIN inbox[g] :
          inbox[g][i].message = m /\ Carry(m, inbox[g][i].origin)
    /\ RealtimeFault
    /\ UNCHANGED <<noteVars, sockets, updates, shown>>

\* A gateway dies and starts again, under a new instance id and without rooms.
GatewayDies(g) ==
    /\ inbox' = [inbox EXCEPT ![g] = <<>>]
    /\ updates' = [u \in DOMAIN updates |-> IF updates[u] = g THEN "none" ELSE updates[u]]
    /\ sockets' = [s \in Sockets |-> IF sockets[s].gateway = g
                       THEN [gateway |-> g, joined |-> FALSE] ELSE sockets[s]]
    /\ RealtimeFault
    /\ UNCHANGED <<noteVars, shown, carried>>

-----------------------------------------------------------------------------
ConsumerStep(k) == CreateNotification(k) \/ PublishNotification(k)

RealtimeNext ==
    \/ \E n \in Notes :
          NotifyByTopic(n) \/ NotifyDirectly(n) \/ PublishDirectly(n) \/ PublishFails(n)
    \/ \E k \in Consumers :
          TakeMessage(k) \/ ConsumerStep(k) \/ HandleFails(k) \/ LosePartition(k)
    \/ \E s \in Sockets, g \in Gateways : LoadPage(s, g) \/ Reconnect(s, g)
    \/ \E s \in Sockets : ReportLocation(s) \/ ReportUnpublished(s)
    \/ \E u \in DOMAIN updates : ReportSecond(u) \/ ReportFails(u)
    \/ \E g \in Gateways : Receive(g) \/ GatewayDies(g)
    \/ \E m \in Messages : CarryAgain(m)

RealtimeSpec == RealtimeInit /\ [][RealtimeNext]_realtimeVars

\* Kafka delivers what is not committed, and a consumer that runs goes on.
RealtimeFairness ==
    /\ WF_realtimeVars(\E k \in Consumers : TakeMessage(k))
    /\ \A k \in Consumers : WF_realtimeVars(ConsumerStep(k))

-----------------------------------------------------------------------------
RealtimeTypeOK ==
    /\ notes \in [Notes -> {"new", "queued", "publishing", "over"}]
    /\ topic \in Seq(Notes)
    /\ consumers \in [Consumers -> [at : {"idle", "create", "publish"},
                                    note : Notes \union {"none"}, owner : BOOLEAN]]
    /\ stored \in [Notes -> Nat]
    /\ inbox \in [Gateways -> Seq([message : Messages, origin : Gateways \union {"none"}])]
    /\ sockets \in [Sockets -> [gateway : Gateways \union {"none"}, joined : BOOLEAN]]
    /\ updates \in Seq(Gateways \union {"none"})
    /\ shown \in [Sockets -> [Messages -> Nat]]
    /\ carried \in [Messages -> Nat]
    /\ realtimeFaults \in Nat

\* What a page is told it finds again when it loads the list: a notification that
\* reaches a page, or is on its way to one, is stored, also when consumers fail
\* halfway, lose the partition or get the message again.
ShownStored == \A n \in Notes :
    /\ carried[Note(n)] > 0 => stored[n] > 0
    /\ \A s \in Sockets : shown[s][Note(n)] > 0 => stored[n] > 0

\* A page gets a location once, from its gateway or over the channel, never from
\* both; only what Redis carried several times comes several times.
OncePerSocket == \A s \in Sockets, m \in LocationMessages :
    shown[s][m] <= IF carried[m] > 1 THEN carried[m] ELSE 1

\* A notification in the topic is stored, however often consumers fail or change.
NotificationStored == \A n \in Notes : notes[n] = "queued" ~> stored[n] > 0
=============================================================================
