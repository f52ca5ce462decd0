------------------------------- MODULE Orders -------------------------------
(***************************************************************************)
(* The order handlers of apl-server (uri/user/order.cpp and                *)
(* uri/seller/order.cpp) over the Mongo collection DB_ORDER.               *)
(*                                                                         *)
(* A server process runs a libevent loop: one handler at a time, from its  *)
(* first line to its last.  A handler is a query, at most one write and at *)
(* most one push to RabbitMQ, each a call to another process that may fail *)
(* or be cut short by a crash of the server, so each is a step of its own. *)
(* docs/nginx.conf proxies to a single process; Servers is a parameter, so *)
(* that the properties that depend on this can be told from the others.    *)
(***************************************************************************)
EXTENDS Identifiers, Naturals, Sequences

CONSTANTS
    Servers,    \* apl-server processes
    OrderIds,   \* order_id values, results of OID::gen()
    NoId,       \* the empty string, which getStringField() gives for a missing field
    MaxReplies  \* bound: no seller agrees on an order that has so many replies

ASSUME IdsAssumption == NoId \notin Users \cup Sellers
ASSUME BoundAssumption == MaxReplies \in Nat

VARIABLES
    db,         \* DB_ORDER: the document of each order, or NoOrder
    usr,        \* DB_USR: the registered users
    used,       \* the identifiers OID::gen() has returned
    pushed,     \* the messages published to the exchange
    pc,         \* where each server is in the handler it runs
    req,        \* the request each server handles, or handled last
    seen,       \* the document its query returned
    answer      \* the api_result of the last request, once it is finished

vars == <<db, usr, used, pushed, pc, req, seen, answer>>

-----------------------------------------------------------------------------
(***************************************************************************)
(* Documents, requests, messages                                           *)
(***************************************************************************)

\* "selected" is a status user::Order::Put tests for and no handler writes.
Statuses == {"new", "canceled", "confirmed", "selected", "completed"}

NoOrder == [user |-> NoId, status |-> "absent", target |-> {},
            replies |-> <<>>, selected |-> NoId]

Document == [user : Users \cup {NoId}, status : Statuses \cup {"absent"},
             target : SUBSET Sellers, replies : Seq(Sellers),
             selected : Sellers \cup {NoId}]

Present(doc) == doc.status # "absent"

\* The strings a client may put in the "status" parameter of a Put.
UserAsks   == {"canceled", "agree", "delete", "cancel", "other"}
SellerAsks == {"agree", "ignore", "canceled", "completed", "other"}

Ops == {"none", "user.Post", "user.Put", "user.Delete", "seller.Put"}

Request == [op : Ops, user : Users \cup {NoId}, seller : Sellers \cup {NoId},
            order : OrderIds \cup {NoId},
            ask : UserAsks \cup SellerAsks \cup {NoId}, target : SUBSET Sellers]

NoRequest == [op |-> "none", user |-> NoId, seller |-> NoId, order |-> NoId,
              ask |-> NoId, target |-> {}]

\* A request that has passed the checks of its handler's parameters.
Complete(r) ==
    /\ r.op # "none"
    /\ r.order \in OrderIds
    /\ r.op = "user.Post" => r.user \in Users
    /\ r.op = "seller.Put" => r.seller \in Sellers

\* error.h; "none" while the request is being handled, "lost" when no reply was sent.
Codes == {"APIE_OK", "APIE_INVALID_CLIENT_REQ", "APIE_SERVER_INTERNAL",
          "APIE_USER_NO_EXIST", "APIE_NO_SERVICE"}

\* What pushMessageToSellers and pushMessageToUser publish.
Message == [to : {"seller", "user"}, targets : SUBSET (Users \cup Sellers \cup {NoId}),
            order : OrderIds, seller : Sellers \cup {NoId}]

SellersMessage(r) ==
    [to |-> "seller", targets |-> r.target, order |-> r.order, seller |-> NoId]

\* Variant: the registered users are addressed beside the owner.
UserMessageToAll(r, doc) ==
    [to |-> "user", targets |-> usr \cup {doc.user}, order |-> r.order, seller |-> r.seller]

UserMessage(r, doc) ==
    [to |-> "user", targets |-> {doc.user}, order |-> r.order, seller |-> r.seller]

-----------------------------------------------------------------------------
(***************************************************************************)
(* What a handler decides after its query: "write", or the api_result it   *)
(* returns at once.                                                        *)
(***************************************************************************)

\* A target_seller that is neither empty nor an array names no sellers.
UserPostDecision(r) ==
    CASE r.user \notin usr                  -> "APIE_USER_NO_EXIST"
      [] r.user \in usr /\ r.target = {}    -> "APIE_NO_SERVICE"
      [] OTHER                              -> "write"

UserPutDecision(r, doc) ==
    CASE doc.status = "absent"   -> "APIE_OK"
      [] doc.status = "new"      -> IF r.ask \in {"canceled", "agree"} THEN "write" ELSE "APIE_OK"
      [] doc.status = "canceled" -> IF r.ask = "delete" THEN "write" ELSE "APIE_OK"
      [] doc.status = "selected" -> IF r.ask \in {"cancel", "delete"} THEN "write" ELSE "APIE_OK"
      [] OTHER                   -> "APIE_SERVER_INTERNAL"

UserDeleteDecision(r, doc) ==
    IF Present(doc) /\ doc.user = r.user THEN "write" ELSE "APIE_OK"

\* Variant: agree does not look at the status of the order.
SellerPutDecisionAnyStatus(r, doc) ==
    CASE doc.status = "absent" -> "APIE_INVALID_CLIENT_REQ"
      [] doc.status # "absent" /\ r.ask # "other" -> "write"
      [] OTHER -> "APIE_OK"

SellerPutDecision(r, doc) ==
    CASE doc.status = "absent" -> "APIE_INVALID_CLIENT_REQ"
      [] doc.status # "absent" /\ r.ask = "agree" ->
            IF doc.status = "new" THEN "write" ELSE "APIE_SERVER_INTERNAL"
      [] doc.status # "absent" /\ r.ask \in {"ignore", "canceled", "completed"} -> "write"
      [] OTHER -> "APIE_OK"

Decision(r, doc) ==
    CASE r.op = "user.Post"   -> UserPostDecision(r)
      [] r.op = "user.Put"    -> UserPutDecision(r, doc)
      [] r.op = "user.Delete" -> UserDeleteDecision(r, doc)
      [] OTHER                -> SellerPutDecision(r, doc)

(***************************************************************************)
(* What the write leaves stored: r is the request, doc the document the    *)
(* query returned, cur the one the write finds.  An update or a remove     *)
(* that matches no document changes nothing.                               *)
(***************************************************************************)

UserPostEffect(r) ==
    [user |-> r.user, status |-> "new", target |-> r.target,
     replies |-> <<>>, selected |-> NoId]

UserPutEffect(r, cur) ==
    CASE r.ask \in {"canceled", "cancel"} -> [cur EXCEPT !.status = "canceled"]
      [] r.ask = "agree"  -> [cur EXCEPT !.status = "confirmed", !.selected = r.seller]
      [] OTHER            -> NoOrder

UserDeleteEffect(r, cur) == IF cur.user = r.user THEN NoOrder ELSE cur

\* Variant: every reply is stored with $set.
AgreeEffectAlwaysSet(r, doc, cur) == [cur EXCEPT !.replies = <<r.seller>>]

\* The first reply is stored with $set on the whole array, a later one with $push.
AgreeEffect(r, doc, cur) ==
    [cur EXCEPT !.replies = IF doc.replies = <<>> THEN <<r.seller>>
                                                  ELSE Append(cur.replies, r.seller)]

\* Variant: a seller's "canceled" is taken and nothing is pulled.
SellerPutEffectNoPull(r, doc, cur) ==
    CASE r.ask = "agree"     -> AgreeEffect(r, doc, cur)
      [] r.ask = "completed" -> [cur EXCEPT !.status = "completed"]
      [] r.ask = "canceled"  -> cur
      [] OTHER               -> [cur EXCEPT !.target = cur.target \ {r.seller}]

\* Variant: the whole array is unset.
SellerPutEffectPullsAll(r, doc, cur) ==
    CASE r.ask = "agree"     -> AgreeEffect(r, doc, cur)
      [] r.ask = "completed" -> [cur EXCEPT !.status = "completed"]
      [] OTHER               -> [cur EXCEPT !.target = {}]

SellerPutEffect(r, doc, cur) ==
    CASE r.ask = "agree"     -> AgreeEffect(r, doc, cur)
      [] r.ask = "completed" -> [cur EXCEPT !.status = "completed"]
      [] OTHER               -> [cur EXCEPT !.target = cur.target \ {r.seller}]

\* Variant: updates are upserts.
EffectUpsert(r, doc, cur) ==
    CASE r.op = "user.Post"   -> UserPostEffect(r)
      [] r.op = "user.Put"    -> UserPutEffect(r, cur)
      [] r.op = "user.Delete" -> UserDeleteEffect(r, cur)
      [] OTHER                -> SellerPutEffect(r, doc, cur)

Effect(r, doc, cur) ==
    CASE r.op = "user.Post"                   -> UserPostEffect(r)
      [] r.op # "user.Post" /\ ~Present(cur)  -> cur
      [] Present(cur) /\ r.op = "user.Put"    -> UserPutEffect(r, cur)
      [] Present(cur) /\ r.op = "user.Delete" -> UserDeleteEffect(r, cur)
      [] OTHER                                -> SellerPutEffect(r, doc, cur)

\* The handlers that notify somebody after their write.
Notifies(r) == r.op = "user.Post" \/ (r.op = "seller.Put" /\ r.ask = "agree")

Notification(r, doc) ==
    IF r.op = "user.Post" THEN SellersMessage(r) ELSE UserMessage(r, doc)

-----------------------------------------------------------------------------
(***************************************************************************)
(* Requests come in                                                        *)
(***************************************************************************)

\* The handler has checked the parameters and is about to query Mongo.
Accept(s, r) ==
    /\ pc[s] = "idle"
    /\ pc' = [pc EXCEPT ![s] = "query"]
    /\ req' = [req EXCEPT ![s] = r]
    /\ answer' = [answer EXCEPT ![s] = "none"]
    /\ UNCHANGED <<db, usr, pushed, seen>>

UserOrderPost(s, u, T, o) ==
    /\ o \notin used
    /\ used' = used \cup {o}
    /\ Accept(s, [op |-> "user.Post", user |-> u, seller |-> NoId, order |-> o,
                  ask |-> NoId, target |-> T])

UserOrderPut(s, u, o, ask, sel) ==
    /\ ask # "agree" => sel = NoId
    /\ Accept(s, [op |-> "user.Put", user |-> u, seller |-> sel, order |-> o,
                  ask |-> ask, target |-> {}])
    /\ UNCHANGED used

UserOrderDelete(s, u, o) ==
    /\ Accept(s, [op |-> "user.Delete", user |-> u, seller |-> NoId, order |-> o,
                  ask |-> NoId, target |-> {}])
    /\ UNCHANGED used

SellerOrderPut(s, sel, o, ask) ==
    /\ ask = "agree" => Len(db[o].replies) < MaxReplies
    /\ Accept(s, [op |-> "seller.Put", user |-> NoId, seller |-> sel, order |-> o,
                  ask |-> ask, target |-> {}])
    /\ UNCHANGED used

\* Variant: the early return is missing.
RejectFallsThrough(s) ==
    /\ pc[s] = "idle"
    /\ pc' = [pc EXCEPT ![s] = "query"]
    /\ req' = [req EXCEPT ![s] = NoRequest]
    /\ answer' = [answer EXCEPT ![s] = "none"]
    /\ UNCHANGED <<db, usr, used, pushed, seen>>

\* A parameter is missing or the role is wrong: the handler returns before any query.
Reject(s) ==
    /\ pc[s] = "idle"
    /\ req' = [req EXCEPT ![s] = NoRequest]
    /\ answer' = [answer EXCEPT ![s] = "APIE_INVALID_CLIENT_REQ"]
    /\ UNCHANGED <<db, usr, used, pushed, pc, seen>>

-----------------------------------------------------------------------------
(***************************************************************************)
(* The handler runs                                                        *)
(***************************************************************************)

Finish(s, code) ==
    /\ pc' = [pc EXCEPT ![s] = "idle"]
    /\ answer' = [answer EXCEPT ![s] = code]
    /\ seen' = [seen EXCEPT ![s] = NoOrder]

\* Variant: an agree on an order that is not new is logged, and the handler
\* goes on to its notification.
QueryMissingReturn(s) ==
    /\ pc[s] = "query"
    /\ LET doc == db[req[s].order]
           decision == Decision(req[s], doc)
       IN IF decision = "write" \/ (Notifies(req[s]) /\ decision = "APIE_SERVER_INTERNAL")
          THEN /\ pc' = [pc EXCEPT ![s] = IF decision = "write" THEN "write" ELSE "push"]
               /\ seen' = [seen EXCEPT ![s] = doc]
               /\ UNCHANGED answer
          ELSE Finish(s, decision)
    /\ UNCHANGED <<db, usr, used, pushed, req>>

Query(s) ==
    /\ pc[s] = "query"
    /\ LET doc == db[req[s].order]
           decision == Decision(req[s], doc)
       IN IF decision = "write"
          THEN /\ pc' = [pc EXCEPT ![s] = "write"]
               /\ seen' = [seen EXCEPT ![s] = doc]
               /\ UNCHANGED answer
          ELSE Finish(s, decision)
    /\ UNCHANGED <<db, usr, used, pushed, req>>

Stores(s) == db' = [db EXCEPT ![req[s].order] = Effect(req[s], seen[s], db[req[s].order])]

Write(s) ==
    /\ pc[s] = "write"
    /\ Stores(s)
    /\ IF Notifies(req[s])
       THEN /\ pc' = [pc EXCEPT ![s] = "push"]
            /\ UNCHANGED <<answer, seen>>
       ELSE Finish(s, "APIE_OK")
    /\ UNCHANGED <<usr, used, pushed, req>>

\* pushMessage returns silently when it cannot reach the broker.
Push(s) ==
    /\ pc[s] = "push"
    /\ \/ pushed' = pushed \cup {Notification(req[s], seen[s])}
       \/ UNCHANGED pushed
    /\ Finish(s, "APIE_OK")
    /\ UNCHANGED <<db, usr, used, req>>

\* The handler catches a DBException of its query or of its write, and the
\* write that threw may have been carried out.
DBException(s) ==
    /\ \/ pc[s] = "query" /\ UNCHANGED db
       \/ pc[s] = "write" /\ (Stores(s) \/ UNCHANGED db)
    /\ Finish(s, "APIE_SERVER_INTERNAL")
    /\ UNCHANGED <<usr, used, pushed, req>>

\* The process dies inside a handler and is started again, or the handler is
\* left by an exception of another type, which httpCallback swallows (a
\* parameter of the wrong JSON type): no reply is sent.
Crash(s) ==
    /\ pc[s] # "idle"
    /\ UNCHANGED db \/ (pc[s] = "write" /\ Stores(s))
    /\ Finish(s, "lost")
    /\ UNCHANGED <<usr, used, pushed, req>>

\* user::User::Post and user::User::Delete, which leave the user's orders alone.
RegisterUser(s, u) ==
    /\ pc[s] = "idle"
    /\ usr' = usr \cup {u}
    /\ UNCHANGED <<db, used, pushed, pc, req, seen, answer>>

DeleteUser(s, u) ==
    /\ pc[s] = "idle"
    /\ usr' = usr \ {u}
    /\ UNCHANGED <<db, used, pushed, pc, req, seen, answer>>

-----------------------------------------------------------------------------

Init ==
    /\ db = [o \in OrderIds |-> NoOrder]
    /\ usr = {}
    /\ used = {}
    /\ pushed = {}
    /\ pc = [s \in Servers |-> "idle"]
    /\ req = [s \in Servers |-> NoRequest]
    /\ seen = [s \in Servers |-> NoOrder]
    /\ answer = [s \in Servers |-> "none"]

Receive(s) ==
    \/ \E u \in Users, T \in SUBSET Sellers, o \in OrderIds : UserOrderPost(s, u, T, o)
    \/ \E u \in Users, o \in OrderIds, ask \in UserAsks, sel \in Sellers \cup {NoId} :
          UserOrderPut(s, u, o, ask, sel)
    \/ \E u \in Users, o \in OrderIds : UserOrderDelete(s, u, o)
    \/ \E sel \in Sellers, o \in OrderIds, ask \in SellerAsks : SellerOrderPut(s, sel, o, ask)
    \/ Reject(s)

Handle(s) == Query(s) \/ Write(s) \/ Push(s) \/ DBException(s)

Next == \E s \in Servers :
    \/ Receive(s)
    \/ Handle(s)
    \/ Crash(s)
    \/ \E u \in Users : RegisterUser(s, u) \/ DeleteUser(s, u)

Spec == Init /\ [][Next]_vars

-----------------------------------------------------------------------------
(***************************************************************************)
(* The lists the clients are shown                                         *)
(***************************************************************************)

Replied(doc, sel) == \E i \in 1..Len(doc.replies) : doc.replies[i] = sel

\* seller/order-list with scope "seller": the orders the seller has answered.
RepliedOrders(sel) == {o \in OrderIds : Replied(db[o], sel)}

\* seller/order-list without a scope: the orders the seller is asked to answer.
OpenOrders(sel) ==
    {o \in OrderIds : db[o].status = "new" /\ sel \in db[o].target /\ ~Replied(db[o], sel)}

\* user/order-list.
UserOrders(u) == {o \in OrderIds : Present(db[o]) /\ db[o].user = u}

\* user/order-replies: the sellers whose replies to a new order are shown, from
\* the offset on.  "num" is where the page ends.  A seller who is no longer
\* registered is left out.
OrderReplies(u, o, offset, num, registered) ==
    LET replies == db[o].replies
        end == IF num < Len(replies) THEN num ELSE Len(replies)
    IN IF db[o].user = u /\ db[o].status = "new"
       THEN {replies[i] : i \in (offset + 1)..end} \cap registered ELSE {}

-----------------------------------------------------------------------------
(***************************************************************************)
(* Properties                                                              *)
(***************************************************************************)

\* The type of every variable.
TypeOK ==
    /\ db \in [OrderIds -> Document]
    /\ usr \in SUBSET Users
    /\ used \in SUBSET OrderIds
    /\ pushed \in SUBSET Message
    /\ pc \in [Servers -> {"idle", "query", "write", "push"}]
    /\ req \in [Servers -> Request]
    /\ seen \in [Servers -> Document]
    /\ answer \in [Servers -> Codes \cup {"none", "lost"}]
    /\ \A s \in Servers : pc[s] # "idle" => Complete(req[s])

\* user::Order::Post is on its way to store order o.
Pending(o) ==
    \E s \in Servers : /\ pc[s] \in {"query", "write"}
                       /\ req[s].op = "user.Post"
                       /\ req[s].order = o

(***************************************************************************)
(* The handlers implement the life of an order (module OrderLifecycle): an *)
(* order is offered for, canceled or confirmed only while it is new, its   *)
(* owner never changes, the sellers it addresses only become fewer, and a  *)
(* removed order stays removed.  It is a property of the whole read-decide-*)
(* write sequence of user::Order::Put and seller::Order::Put.              *)
(***************************************************************************)
Life == INSTANCE OrderLifecycle WITH
    life <- [o \in OrderIds |->
        IF Present(db[o]) THEN db[o]
        ELSE [NoOrder EXCEPT !.status = IF o \notin used \/ Pending(o) THEN "unborn" ELSE "gone"]]

LifecycleImplemented == Life!Spec

\* A step keeps the replies of every order it does not remove.
KeepsReplies ==
    \A o \in OrderIds : Present(db[o]) /\ Present(db'[o]) =>
        /\ Len(db[o].replies) <= Len(db'[o].replies)
        /\ \A i \in 1..Len(db[o].replies) : db'[o].replies[i] = db[o].replies[i]

\* A reply that seller::Order::Put has recorded is never overwritten and never
\* lost while the order is stored, although the first reply of an order is
\* stored by $set on the whole array.
RepliesKept == [][KeepsReplies]_vars

\* A user is told of an offer only when the offer is in the order's replies:
\* pushMessageToUser follows the update, and nothing takes the reply back.
AnnouncedOffersAreRecorded ==
    \A m \in pushed : m.to = "user" =>
        \/ ~Present(db[m.order])
        \/ m.order \in RepliedOrders(m.seller)

\* A step takes an order from a seller's list of open orders only when the
\* order is no longer new or the step is one of that seller's own request, and
\* puts only an order on it that has just been posted.
KeepsListed ==
    \A sel \in Sellers, o \in OrderIds :
        /\ (o \in OpenOrders(sel) /\ o \notin OpenOrders(sel)') =>
              \/ db'[o].status # "new"
              \/ \E s \in Servers : req[s].order = o /\ req[s].seller = sel
        /\ (o \notin OpenOrders(sel) /\ o \in OpenOrders(sel)') => ~Present(db[o])

\* A seller whom an order addresses finds it among the open ones until the
\* seller has answered or turned it down, whatever the other sellers do with
\* it, and is not asked again.
ListedUntilAnswered == [][KeepsListed]_vars

\* Request r has had its effect: the owner of a new order is shown the reply of
\* the agreeing seller, the ignoring seller is no longer asked, the deleted order
\* is gone, the canceled one is canceled, the completed one is completed, the
\* order that its user agreed to is confirmed for the seller named, the posted
\* one is new and listed.
Done(r) ==
    LET doc == db[r.order]
    IN CASE r.op = "user.Post"   -> doc = UserPostEffect(r) /\ r.order \in UserOrders(r.user)
         [] r.op = "user.Put"    ->
              /\ r.ask \in {"canceled", "cancel"} => doc.status = "canceled"
              /\ r.ask = "agree"  => doc.status = "confirmed" /\ doc.selected = r.seller
              /\ r.ask = "delete" => ~Present(doc)
         [] r.op = "user.Delete" -> ~(Present(doc) /\ doc.user = r.user)
         [] OTHER ->
              /\ r.ask = "agree" =>
                    /\ r.order \in RepliedOrders(r.seller) \ OpenOrders(r.seller)
                    /\ doc.status = "new" =>
                          r.seller \in OrderReplies(doc.user, r.order, 0, Len(doc.replies), Sellers)
              /\ r.ask \in {"ignore", "canceled"} =>
                    r.seller \notin doc.target /\ r.order \notin OpenOrders(r.seller)
              /\ r.ask = "completed" => doc.status = "completed"

\* The requests that user::Order::Put answers with APIE_OK although it does
\* nothing: on an order that is not there, agreeing to a canceled order, and
\* deleting a new order or canceling it by the word "cancel".
Ignored(r) ==
    /\ r.op = "user.Put"
    /\ \/ ~Present(db[r.order])
       \/ db[r.order].status = "canceled" /\ r.ask = "agree"
       \/ db[r.order].status = "new" /\ r.ask \in {"delete", "cancel"}

\* A server that answers APIE_OK leaves the effect of its request in DB_ORDER and
\* in the lists, or its query has found that the request is to be ignored.
AnswersTruly ==
    \A s \in Servers : (pc[s] # "idle" /\ pc'[s] = "idle" /\ answer'[s] = "APIE_OK") =>
        \/ Done(req[s])'
        \/ pc[s] = "query" /\ Ignored(req[s])

\* APIE_OK means that a Post, Put or Delete of either side has had its effect,
\* unless it is one of the requests that user::Order::Put ignores: a handler that
\* went on to its write had the very effect it was asked for.
OkMeansDone == [][AnswersTruly]_vars

\* A step brings no document to an identifier whose order is gone.
BringsNothingBack ==
    \A o \in used : (~Present(db[o]) /\ ~Pending(o)) => ~Present(db'[o])

\* With any number of servers: an order that was removed, or whose Post
\* failed, never appears again, although user::Order::Put and
\* seller::Order::Put write a document they read some time ago.
NeverResurrected == [][BringsNothingBack]_vars

\* With any number of servers: the offer of a seller is announced to the user
\* who placed the order and to nobody else.
OwnerIsNotified ==
    \A m \in pushed : (m.to = "user" /\ Present(db[m.order])) =>
        m.targets = {db[m.order].user}
=============================================================================
