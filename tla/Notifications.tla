---------------------------- MODULE Notifications ----------------------------
(***************************************************************************)
(* The handlers of orders (module Orders) and the delivery of what they    *)
(* push (module MessageServer), from the request of a user or seller to    *)
(* the request that msg-server makes to the push service.  The two servers *)
(* share nothing but the broker and DB_SESSION: a push of Orders that      *)
(* reaches the broker is a Publish of MessageServer.                       *)
(***************************************************************************)
EXTENDS Orders, MessageServer

VARIABLE
    about       \* the message of Orders behind each published one

notificationVars == <<vars, deliveryVars, about>>

-----------------------------------------------------------------------------

\* pushMessageToSellers publishes a list, pushMessageToUser one addressee.
Routed(m) ==
    [method |-> IF m.to = "seller" THEN "batch" ELSE "single",
     to |-> m.to, targets |-> m.targets]

\* pushMessage() of a handler reaches the broker.
PushArrives(s) ==
    LET m == Notification(req[s], seen[s])
    IN /\ Push(s)
       /\ m \in pushed'
       /\ Publish(Routed(m))
       /\ about' = Append(about, m)

\* It does not, and nobody is told.
PushFails(s) ==
    /\ Push(s)
    /\ UNCHANGED <<pushed, deliveryVars, about>>

\* Every other step of the application server.
Application(s) ==
    /\ \/ Receive(s)
       \/ Query(s) \/ Write(s) \/ DBException(s) \/ Crash(s)
       \/ \E u \in Users : RegisterUser(s, u) \/ DeleteUser(s, u)
    /\ UNCHANGED <<deliveryVars, about>>

\* A user or seller logs in, on any server.
LogsIn ==
    /\ \E r \in Roles, c \in Session : \E i \in IdsOf(r) : Login(r, i, c)
    /\ UNCHANGED <<vars, about>>

Deliver ==
    /\ StartConsuming \/ HandleMessage
    /\ UNCHANGED <<vars, about>>

\* msg-server is started, dies or loses the broker.
Outage ==
    /\ Start \/ MsgServerCrash \/ ConnectionLost
    /\ UNCHANGED <<vars, about>>

-----------------------------------------------------------------------------

NotificationsInit ==
    /\ Init
    /\ DeliveryInit
    /\ about = <<>>

NotificationsNext ==
    \/ \E s \in Servers : Application(s) \/ PushArrives(s) \/ PushFails(s)
    \/ LogsIn
    \/ Deliver
    \/ Outage

NotificationsSpec == NotificationsInit /\ [][NotificationsNext]_notificationVars

-----------------------------------------------------------------------------
(***************************************************************************)
(* Properties                                                              *)
(***************************************************************************)

\* Whoever the push service is asked to tell of an offer is the user who placed
\* the order, by the channel of a session of this user and nobody else's, and finds
\* the offer among the replies when looking the order up, unless the order is gone
\* by then: across the handler, the broker and msg-server, and whatever of them
\* failed or was repeated in between.  (That the session was the user's when the
\* message was handled is PushedToTheAddressee.)
PushedOffersAreRecorded ==
    \A k \in DOMAIN requests :
        LET q == requests[k]
            m == about[q.msg]
            doc == db[m.order]
        IN (m.to = "user" /\ Present(doc)) =>
                /\ q.key = "user" /\ q.doc.role = "user" /\ q.doc.id = doc.user
                /\ q.channel = q.doc.session
                /\ m.order \in RepliedOrders(m.seller)

Settled(i) == i \in done \cup lost

\* With one application server, a user is told of an offer only when the news
\* of the order to the sellers has been dealt with: user::Order::Post pushes
\* before the next request is taken, and msg-server keeps the order.
OrdersAreAnnouncedFirst ==
    \A k \in DOMAIN requests, i \in DOMAIN about :
        (/\ about[requests[k].msg].to = "user"
         /\ about[i].to = "seller"
         /\ about[i].order = about[requests[k].msg].order) => Settled(i)
=============================================================================
