--------------------------- MODULE MessageServer ---------------------------
(***************************************************************************)
(* The way of a notification: apl-server publishes it (uri/message.cpp),   *)
(* RabbitMQ routes it to the queue of msg-server, msg-server takes it      *)
(* (main.cpp), looks the addressees up in DB_SESSION and asks the push     *)
(* service to deliver it (message-factory.cpp).                            *)
(*                                                                         *)
(* Users and sellers are both identified by a mobile number, so that one   *)
(* identifier may have a session in either role.                           *)
(***************************************************************************)
EXTENDS Identifiers, Naturals, Sequences, FiniteSets

CONSTANTS
    Channels,     \* push_channel_id values
    NoChannel,    \* the empty push_channel_id
    NoSession,    \* stands for the absence of a session document
    MaxMessages   \* bound: how many messages are published

ASSUME MessageAssumption == 
    /\ NoChannel \notin Channels
    /\ NoSession \notin Channels \cup {NoChannel}
    /\ MaxMessages \in Nat

VARIABLES
    session,      \* DB_SESSION: the document of each role and identifier, or NoSession
    published,    \* the messages that reached the broker, in order
    queue,        \* the queue of msg-server: positions in published
    server,       \* what msg-server does
    current,      \* the message it handles, 0 when there is none
    cursor,       \* the session documents its query returned and it has not pushed to
    done,         \* messages whose handling has ended
    lost,         \* messages that nobody will handle
    requests,     \* the requests the push service received, in order
    held          \* history: the session documents the addressees of the current
                  \* message have had since msg-server took it

deliveryVars == <<session, published, queue, server, current, cursor, done, lost, requests, held>>

-----------------------------------------------------------------------------

Roles == {"user", "seller"}
Ids == Users \cup Sellers
IdsOf(r) == IF r = "user" THEN Users ELSE Sellers

\* A session document is the channel of the device that logged in, which may
\* be empty.  (The device_type decides only on the format of the request.)
Session == Channels \cup {NoChannel}

\* What the pushMessageTo... functions publish: one addressee, or a list.
Notice == [method : {"single", "batch"}, to : Roles, targets : SUBSET Ids]

\* A document of the cursor, with the role and the identifier it was stored under.
SessionDocument == [role : Roles, id : Ids, session : Session]

\* A request to the push service: the application key is chosen by the role.
\* doc, the session document the request is for, is not part of what is sent.
PushRequest == [msg : 1..MaxMessages, key : Roles, doc : SessionDocument,
                channel : Session]

\* The documents of DB_SESSION.
OpenSessions ==
    {[role |-> x[1], id |-> x[2], session |-> session[x[1]][x[2]]] :
        x \in {y \in Roles \X Ids : session[y[1]][y[2]] # NoSession}}

\* Of the session documents D, those of the addressees of m in the role it is for.
To(m, D) == {d \in D : d.role = m.to /\ d.id \in m.targets}

\* The states of msg-server in which its queue exists and is bound to the key "rcar".
Bound == {"bound", "idle", "query", "send"}

-----------------------------------------------------------------------------
(***************************************************************************)
(* apl-server                                                              *)
(***************************************************************************)

\* Session::Post stores the device that logs in, over the one before.
Login(r, i, s) ==
    /\ session' = [session EXCEPT ![r][i] = s]
    /\ held' = IF current = 0 THEN held
               ELSE held \cup To(published[current], {[role |-> r, id |-> i, session |-> s]})
    /\ UNCHANGED <<published, queue, server, current, cursor, done, lost, requests>>

\* pushMessage reaches the broker, which drops a message no queue is bound for.
\* Only pushMessageToSellers publishes a list without elements.
Publish(m) ==
    /\ Len(published) < MaxMessages
    /\ m.method = "single" => Cardinality(m.targets) = 1
    /\ m.targets = {} => m.to = "seller"
    /\ m.targets \subseteq IdsOf(m.to)
    /\ published' = Append(published, m)
    /\ IF server \in Bound
       THEN /\ queue' = Append(queue, Len(published) + 1)
            /\ UNCHANGED lost
       ELSE /\ lost' = lost \cup {Len(published) + 1}
            /\ UNCHANGED queue
    /\ UNCHANGED <<session, server, current, cursor, done, requests, held>>

-----------------------------------------------------------------------------
(***************************************************************************)
(* msg-server                                                              *)
(***************************************************************************)

\* A new queue is declared and bound; only then does the server consume from it.
Start ==
    /\ server = "down"
    /\ server' = "bound"
    /\ UNCHANGED <<session, published, queue, current, cursor, done, lost, requests, held>>

StartConsuming ==
    /\ server = "bound"
    /\ server' = "idle"
    /\ UNCHANGED <<session, published, queue, current, cursor, done, lost, requests, held>>

\* Variant: the message stays in the queue until it is handled.
ConsumeKeeps ==
    /\ server = "idle"
    /\ queue # <<>>
    /\ current' = Head(queue)
    /\ held' = To(published[Head(queue)], OpenSessions)
    /\ server' = "query"
    /\ UNCHANGED <<session, published, queue, cursor, done, lost, requests>>

\* Variant: the message that came last is taken first.
ConsumeNewest ==
    /\ server = "idle"
    /\ queue # <<>>
    /\ current' = queue[Len(queue)]
    /\ held' = To(published[queue[Len(queue)]], OpenSessions)
    /\ queue' = SubSeq(queue, 1, Len(queue) - 1)
    /\ server' = "query"
    /\ UNCHANGED <<session, published, cursor, done, lost, requests>>

\* The broker forgets the message when it hands it over (no_ack).
Consume ==
    /\ server = "idle"
    /\ queue # <<>>
    /\ current' = Head(queue)
    /\ held' = To(published[Head(queue)], OpenSessions)
    /\ queue' = Tail(queue)
    /\ server' = "query"
    /\ UNCHANGED <<session, published, cursor, done, lost, requests>>

HandlingEnds ==
    /\ server' = "idle"
    /\ current' = 0
    /\ cursor' = {}
    /\ held' = {}
    /\ done' = done \cup {current}

\* Variant: the query does not name the role.
MatchesAnyRole(m) ==
    {d \in OpenSessions : d.id \in m.targets}

\* The sessions of the addressees.
Matches(m) == {d \in OpenSessions : d.role = m.to /\ d.id \in m.targets}

\* handleMessagePushToSingle leaves out a session without a channel,
\* handleMessagePushToBatch does not look.
QuerySessions ==
    /\ server = "query"
    /\ LET m == published[current]
       IN cursor' = {d \in Matches(m) : m.method = "single" => d.session # NoChannel}
    /\ server' = "send"
    /\ UNCHANGED <<session, published, queue, current, done, lost, requests, held>>

\* serialize() of PushToSingleMessage puts the channel into the request, that
\* of PushToBatchMessage puts nothing.
FormatRequest(d) ==
    [msg |-> current, key |-> published[current].to, doc |-> d,
     channel |-> IF published[current].method = "single" THEN d.session ELSE NoChannel]

\* Variant: the cursor does not move on.
SendAgain(d) ==
    /\ server = "send"
    /\ d \in cursor
    /\ Len(requests) < MaxMessages * Cardinality(Ids) + 1
    /\ \/ requests' = Append(requests, FormatRequest(d))
       \/ UNCHANGED requests
    /\ UNCHANGED <<session, published, queue, server, current, cursor, done, lost, held>>

\* One request() to the push service, whose failure is ignored.
Send(d) ==
    /\ server = "send"
    /\ d \in cursor
    /\ cursor' = cursor \ {d}
    /\ \/ requests' = Append(requests, FormatRequest(d))
       \/ UNCHANGED requests
    /\ UNCHANGED <<session, published, queue, server, current, done, lost, held>>

EndOfCursor ==
    /\ server = "send"
    /\ cursor = {}
    /\ HandlingEnds
    /\ UNCHANGED <<session, published, queue, lost, requests>>

\* Variant: the message is handled again after an exception.
HandlingExceptionRetries ==
    /\ server \in {"query", "send"}
    /\ server' = "query"
    /\ cursor' = {}
    /\ UNCHANGED <<session, published, queue, current, done, lost, requests, held>>

\* A DBException ends the handling of the message, whatever it has pushed so far.
HandlingException ==
    /\ server \in {"query", "send"}
    /\ HandlingEnds
    /\ UNCHANGED <<session, published, queue, lost, requests>>

\* The queue is deleted with its last consumer, and what it holds with it.
QueueGoes ==
    /\ lost' = lost \cup {queue[k] : k \in 1..Len(queue)} \cup ({current} \ {0})
    /\ queue' = <<>>
    /\ current' = 0
    /\ cursor' = {}
    /\ held' = {}

\* msg-server dies.  (Before it consumes, its queue stays behind, and nobody
\* can name it.)
MsgServerCrash ==
    /\ server # "down"
    /\ server' = "down"
    /\ QueueGoes
    /\ UNCHANGED <<session, published, done, requests>>

\* The connection to the broker breaks.  Every amqp_consume_message fails from
\* then on, and run() calls it again and again.
ConnectionLost ==
    /\ server = "idle"
    /\ server' = "spinning"
    /\ QueueGoes
    /\ UNCHANGED <<session, published, done, requests>>

-----------------------------------------------------------------------------

DeliveryInit ==
    /\ session = [r \in Roles |-> [i \in Ids |-> NoSession]]
    /\ published = <<>>
    /\ queue = <<>>
    /\ server = "down"
    /\ current = 0
    /\ cursor = {}
    /\ done = {}
    /\ lost = {}
    /\ requests = <<>>
    /\ held = {}

HandleMessage == Consume \/ QuerySessions \/ (\E d \in cursor : Send(d)) \/ EndOfCursor \/ HandlingException

DeliveryNext ==
    \/ \E r \in Roles, s \in Session : \E i \in IdsOf(r) : Login(r, i, s)
    \/ \E m \in Notice : Publish(m)
    \/ Start
    \/ StartConsuming
    \/ HandleMessage
    \/ MsgServerCrash
    \/ ConnectionLost

DeliverySpec == DeliveryInit /\ [][DeliveryNext]_deliveryVars

\* msg-server runs whenever it can; nobody is bound to start it.
FairSpec == DeliverySpec /\ WF_deliveryVars(StartConsuming \/ HandleMessage)

-----------------------------------------------------------------------------
(***************************************************************************)
(* Properties                                                              *)
(***************************************************************************)

InQueue == {queue[k] : k \in 1..Len(queue)}

\* The type of every variable.
DeliveryTypeOK ==
    /\ session \in [Roles -> [Ids -> Session \cup {NoSession}]]
    /\ published \in Seq(Notice)
    /\ queue \in Seq(1..MaxMessages)
    /\ server \in Bound \cup {"down", "spinning"}
    /\ current \in 0..MaxMessages
    /\ cursor \in SUBSET SessionDocument
    /\ done \in SUBSET (1..MaxMessages)
    /\ lost \in SUBSET (1..MaxMessages)
    /\ requests \in Seq(PushRequest)
    /\ held \in SUBSET SessionDocument

\* Every message that reached the broker is in one place: waiting, being
\* handled, handled, or lost with the queue of a server that went away.
Accounted ==
    /\ \A k, l \in 1..Len(queue) : k # l => queue[k] # queue[l]
    /\ \A i \in 1..Len(published) :
        Cardinality({p \in {"queue", "current", "done", "lost"} :
            \/ p = "queue"   /\ i \in InQueue
            \/ p = "current" /\ i = current
            \/ p = "done"    /\ i \in done
            \/ p = "lost"    /\ i \in lost}) = 1

\* A step that makes a request makes it for the message at hand, with the
\* application key of the role the message is for and, where one addressee is
\* meant, the channel of a session that this addressee has had in that role since
\* the message was taken.
PushesToTheAddressee ==
    requests' # requests =>
        LET q == requests'[Len(requests')]
            m == published[current]
        IN /\ q.msg = current /\ q.key = m.to
           /\ q.doc \in held /\ q.doc.role = m.to /\ q.doc.id \in m.targets
           /\ m.method = "single" => q.channel = q.doc.session /\ q.channel \in Channels
           /\ m.method = "batch" => q.channel = NoChannel

\* No request goes to anybody but an addressee, nor to a device that the addressee
\* had given up before msg-server took the message, whoever logs in while it is
\* handled: somebody who is a user and a seller under one identifier is not reached
\* on the device of the other role.
PushedToTheAddressee == [][PushesToTheAddressee]_deliveryVars

\* The handlers of message-factory.cpp push a message at most once for each
\* addressee, and the messages in the order in which they were published,
\* whatever exceptions and crashes cut the handlers short.
OnceAndInOrder ==
    \A k, l \in 1..Len(requests) : k < l =>
        \/ requests[k].msg < requests[l].msg
        \/ requests[k].msg = requests[l].msg /\ requests[k].doc.id # requests[l].doc.id

\* A message that is queued is handled in the end, or lost with its queue.
HandledOrLost ==
    \A i \in 1..MaxMessages : i \in InQueue ~> i \in done \cup lost
=============================================================================
