------------------------- MODULE NotificationsProofs -------------------------
(***************************************************************************)
(* Proofs about Orders, MessageServer and their composition Notifications, *)
(* for any sets of servers, users, sellers, orders and channels and any    *)
(* number of messages.                                                     *)
(***************************************************************************)
EXTENDS Notifications, FiniteSetTheorems, TLAPS

-----------------------------------------------------------------------------
(***************************************************************************)
(* Type correctness                                                        *)
(***************************************************************************)

\* What a handler stores is a document.
LEMMA EffectType ==
  ASSUME NEW r \in Request, Complete(r), NEW doc \in Document, NEW cur \in Document
  PROVE  Effect(r, doc, cur) \in Document
<1>1. NoOrder \in Document
  BY DEF NoOrder, Document, Statuses
<1>2. UserPostEffect(r) \in Document
  BY DEF UserPostEffect, Document, Statuses, Request
<1>3. UserPutEffect(r, cur) \in Document
  BY <1>1 DEF UserPutEffect, Document, Statuses, Request
<1>4. UserDeleteEffect(r, cur) \in Document
  BY <1>1 DEF UserDeleteEffect
<1>5. r.op = "seller.Put" => SellerPutEffect(r, doc, cur) \in Document
  <2>1. SUFFICES ASSUME r.seller \in Sellers
                 PROVE  SellerPutEffect(r, doc, cur) \in Document
    BY DEF Complete
  <2>2. AgreeEffect(r, doc, cur) \in Document
    <3>1. <<r.seller>> \in Seq(Sellers) /\ Append(cur.replies, r.seller) \in Seq(Sellers)
      BY <2>1 DEF Document
    <3>2. QED
      BY <3>1 DEF AgreeEffect, Document
  <2>3. QED
    BY <2>2 DEF SellerPutEffect, Document, Statuses
<1>6. QED
  BY <1>2, <1>3, <1>4, <1>5 DEF Effect, Request, Ops, Complete

LEMMA InitType == Init => TypeOK
BY DEF Init, TypeOK, NoOrder, NoRequest, Document, Statuses, Request, Ops

LEMMA DecisionCodes ==
  ASSUME NEW r, NEW doc
  PROVE  Decision(r, doc) \in Codes \cup {"write"}
BY DEF Decision, UserPostDecision, UserPutDecision, UserDeleteDecision, SellerPutDecision, Codes

\* The part of TypeOK that the completion of a request touches.
LEMMA FinishType ==
  ASSUME TypeOK, NEW s \in Servers, NEW code \in Codes \cup {"lost"}, Finish(s, code)
  PROVE  /\ pc' \in [Servers -> {"idle", "query", "write", "push"}]
         /\ seen' \in [Servers -> Document]
         /\ answer' \in [Servers -> Codes \cup {"none", "lost"}]
         /\ \A t \in Servers : pc'[t] # "idle" => pc[t] # "idle"
<1>1. NoOrder \in Document
  BY DEF NoOrder, Document, Statuses
<1>2. QED
  BY <1>1 DEF Finish, TypeOK

LEMMA StoresType ==
  ASSUME TypeOK, NEW s \in Servers, pc[s] # "idle", Stores(s)
  PROVE  db' \in [OrderIds -> Document]
<1>1. req[s] \in Request /\ Complete(req[s]) /\ req[s].order \in OrderIds
  BY DEF TypeOK, Complete
<1>2. db[req[s].order] \in Document /\ seen[s] \in Document
  BY <1>1 DEF TypeOK
<1>3. Effect(req[s], seen[s], db[req[s].order]) \in Document
  BY <1>1, <1>2, EffectType
<1>4. QED
  BY <1>3 DEF Stores, TypeOK

LEMMA AcceptType ==
  ASSUME TypeOK, NEW s \in Servers, NEW r \in Request, Complete(r), Accept(s, r),
         used' \in SUBSET OrderIds
  PROVE  TypeOK'
<1>1. pc' \in [Servers -> {"idle", "query", "write", "push"}] /\ req' \in [Servers -> Request]
  BY DEF Accept, TypeOK
<1>2. answer' \in [Servers -> Codes \cup {"none", "lost"}]
  BY DEF Accept, TypeOK
<1>3. \A t \in Servers : pc'[t] # "idle" => Complete(req'[t])
  BY DEF Accept, TypeOK, Complete
<1>4. UNCHANGED <<db, usr, pushed, seen>>
  BY DEF Accept
<1>5. QED
  BY <1>1, <1>2, <1>3, <1>4 DEF TypeOK, Complete

\* What a handler publishes is a message.
LEMMA NotificationType ==
  ASSUME TypeOK, NEW s \in Servers, pc[s] # "idle"
  PROVE  Notification(req[s], seen[s]) \in Message
<1>1. req[s] \in Request /\ Complete(req[s]) /\ seen[s] \in Document
  BY DEF TypeOK
<1>2. QED
  BY <1>1 DEF Notification, SellersMessage, UserMessage, Message, Request, Complete, Document

\* Every step of every server keeps every variable in its type.
LEMMA TypeStep == TypeOK /\ [Next]_vars => TypeOK'
<1> SUFFICES ASSUME TypeOK, [Next]_vars PROVE TypeOK'
  OBVIOUS
<1>1. ASSUME NEW s \in Servers, NEW u \in Users, NEW T \in SUBSET Sellers, NEW o \in OrderIds,
             UserOrderPost(s, u, T, o)
      PROVE  TypeOK'
  <2> DEFINE r == [op |-> "user.Post", user |-> u, seller |-> NoId, order |-> o,
                   ask |-> NoId, target |-> T]
  <2>1. r \in Request /\ Complete(r)
    BY DEF Request, Ops, Complete
  <2>2. Accept(s, r) /\ used' \in SUBSET OrderIds
    BY <1>1 DEF UserOrderPost, TypeOK
  <2>3. QED
    BY <2>1, <2>2, AcceptType
<1>2. ASSUME NEW s \in Servers, NEW u \in Users, NEW o \in OrderIds, NEW ask \in UserAsks,
             NEW sel \in Sellers \cup {NoId}, UserOrderPut(s, u, o, ask, sel)
      PROVE  TypeOK'
  <2> DEFINE r == [op |-> "user.Put", user |-> u, seller |-> sel, order |-> o,
                   ask |-> ask, target |-> {}]
  <2>1. r \in Request /\ Complete(r)
    BY DEF Request, Ops, Complete
  <2>2. Accept(s, r) /\ used' \in SUBSET OrderIds
    BY <1>2 DEF UserOrderPut, TypeOK
  <2>3. QED
    BY <2>1, <2>2, AcceptType
<1>3. ASSUME NEW s \in Servers, NEW u \in Users, NEW o \in OrderIds, UserOrderDelete(s, u, o)
      PROVE  TypeOK'
  <2> DEFINE r == [op |-> "user.Delete", user |-> u, seller |-> NoId, order |-> o,
                   ask |-> NoId, target |-> {}]
  <2>1. r \in Request /\ Complete(r)
    BY DEF Request, Ops, Complete
  <2>2. Accept(s, r) /\ used' \in SUBSET OrderIds
    BY <1>3 DEF UserOrderDelete, TypeOK
  <2>3. QED
    BY <2>1, <2>2, AcceptType
<1>4. ASSUME NEW s \in Servers, NEW sel \in Sellers, NEW o \in OrderIds, NEW ask \in SellerAsks,
             SellerOrderPut(s, sel, o, ask)
      PROVE  TypeOK'
  <2> DEFINE r == [op |-> "seller.Put", user |-> NoId, seller |-> sel, order |-> o,
                   ask |-> ask, target |-> {}]
  <2>1. r \in Request /\ Complete(r)
    BY DEF Request, Ops, Complete
  <2>2. Accept(s, r) /\ used' \in SUBSET OrderIds
    BY <1>4 DEF SellerOrderPut, TypeOK
  <2>3. QED
    BY <2>1, <2>2, AcceptType
<1>5. ASSUME NEW s \in Servers, Reject(s) PROVE TypeOK'
  <2>1. NoRequest \in Request
    BY DEF NoRequest, Request, Ops
  <2>2. answer' \in [Servers -> Codes \cup {"none", "lost"}]
    BY <1>5 DEF Reject, TypeOK, Codes
  <2>3. \A t \in Servers : pc'[t] # "idle" => Complete(req'[t])
    BY <1>5 DEF Reject, TypeOK
  <2>4. req' \in [Servers -> Request] /\ UNCHANGED <<db, usr, used, pushed, pc, seen>>
    BY <1>5, <2>1 DEF Reject, TypeOK
  <2>5. QED
    BY <2>2, <2>3, <2>4 DEF TypeOK, Complete
<1>6. ASSUME NEW s \in Servers, Query(s) PROVE TypeOK'
  <2> DEFINE o == req[s].order
             decision == Decision(req[s], db[o])
  <2>1. decision \in Codes \cup {"write"} /\ db[o] \in Document
    BY <1>6, DecisionCodes DEF Query, TypeOK, Complete
  <2>2. UNCHANGED <<db, usr, used, pushed, req>>
    BY <1>6 DEF Query
  <2>3. CASE decision = "write"
    <3>1. /\ pc' \in [Servers -> {"idle", "query", "write", "push"}]
          /\ seen' \in [Servers -> Document] /\ answer' = answer
          /\ \A t \in Servers : pc'[t] # "idle" => pc[t] # "idle"
      BY <1>6, <2>1, <2>3 DEF Query, TypeOK
    <3>2. QED
      BY <2>2, <3>1 DEF TypeOK, Complete
  <2>4. CASE decision # "write"
    <3>1. Finish(s, decision) /\ decision \in Codes \cup {"lost"}
      BY <1>6, <2>1, <2>4 DEF Query
    <3> HIDE DEF decision
    <3>2. QED
      BY <2>2, <3>1, FinishType DEF TypeOK, Complete
  <2>5. QED
    BY <2>3, <2>4
<1>7. ASSUME NEW s \in Servers, Write(s) PROVE TypeOK'
  <2>1. db' \in [OrderIds -> Document]
    BY <1>7, StoresType DEF Write
  <2>2. UNCHANGED <<usr, used, pushed, req>>
    BY <1>7 DEF Write
  <2>3. CASE Notifies(req[s])
    <3>1. /\ pc' \in [Servers -> {"idle", "query", "write", "push"}]
          /\ UNCHANGED <<answer, seen>>
          /\ \A t \in Servers : pc'[t] # "idle" => pc[t] # "idle"
      BY <1>7, <2>3 DEF Write, TypeOK
    <3>2. QED
      BY <2>1, <2>2, <3>1 DEF TypeOK, Complete
  <2>4. CASE ~Notifies(req[s])
    <3>1. Finish(s, "APIE_OK") /\ "APIE_OK" \in Codes \cup {"lost"}
      BY <1>7, <2>4 DEF Write, Codes
    <3>2. QED
      BY <2>1, <2>2, <3>1, FinishType DEF TypeOK, Complete
  <2>5. QED
    BY <2>3, <2>4
<1>8. ASSUME NEW s \in Servers, Push(s) PROVE TypeOK'
  <2>1. pushed' \in SUBSET Message
    <3>1. Notification(req[s], seen[s]) \in Message
      BY <1>8, NotificationType DEF Push
    <3>2. QED
      BY <1>8, <3>1 DEF Push, TypeOK
  <2>2. Finish(s, "APIE_OK") /\ "APIE_OK" \in Codes \cup {"lost"}
    BY <1>8 DEF Push, Codes
  <2>3. UNCHANGED <<db, usr, used, req>>
    BY <1>8 DEF Push
  <2>4. QED
    BY <2>1, <2>2, <2>3, FinishType DEF TypeOK, Complete
<1>9. ASSUME NEW s \in Servers, DBException(s) PROVE TypeOK'
  <2>1. db' \in [OrderIds -> Document]
    <3>1. CASE Stores(s) /\ pc[s] = "write"
      BY <3>1, StoresType
    <3>2. CASE UNCHANGED db
      BY <3>2 DEF TypeOK
    <3>3. QED
      BY <1>9, <3>1, <3>2 DEF DBException
  <2>2. Finish(s, "APIE_SERVER_INTERNAL") /\ "APIE_SERVER_INTERNAL" \in Codes \cup {"lost"}
    BY <1>9 DEF DBException, Codes
  <2>3. UNCHANGED <<usr, used, pushed, req>>
    BY <1>9 DEF DBException
  <2>4. QED
    BY <2>1, <2>2, <2>3, FinishType DEF TypeOK, Complete
<1>10. ASSUME NEW s \in Servers, Crash(s) PROVE TypeOK'
  <2>1. Finish(s, "lost") /\ UNCHANGED <<usr, used, pushed, req>>
    BY <1>10 DEF Crash
  <2>2. db' \in [OrderIds -> Document]
    <3>1. CASE Stores(s) /\ pc[s] = "write"
      BY <3>1, StoresType
    <3>2. CASE UNCHANGED db
      BY <3>2 DEF TypeOK
    <3>3. QED
      BY <1>10, <3>1, <3>2 DEF Crash
  <2>3. QED
    BY <2>1, <2>2, FinishType DEF TypeOK, Complete
<1>11. ASSUME NEW s \in Servers, NEW u \in Users, RegisterUser(s, u) \/ DeleteUser(s, u)
       PROVE  TypeOK'
  BY <1>11 DEF RegisterUser, DeleteUser, TypeOK, Complete
<1>12. CASE UNCHANGED vars
  BY <1>12 DEF vars, TypeOK, Complete
<1>13. QED
  BY <1>1, <1>2, <1>3, <1>4, <1>5, <1>6, <1>7, <1>8, <1>9, <1>10, <1>11, <1>12
     DEF Next, Receive, Handle

\* The variables of the order handlers always have their types, however many
\* servers there are.
THEOREM OrdersTypeOK == Spec => []TypeOK
BY InitType, TypeStep, PTL DEF Spec

-----------------------------------------------------------------------------
(***************************************************************************)
(* What a step does to DB_ORDER                                            *)
(***************************************************************************)

\* Server s, in its write, stores the effect of its request.
StoreStep(s) == pc[s] = "write" /\ Stores(s)

\* A step changes DB_ORDER only by the write of one server.
LEMMA OnlyStoresChange ==
  ASSUME TypeOK, [Next]_vars
  PROVE  UNCHANGED db \/ \E s \in Servers : StoreStep(s)
BY DEF Next, Receive, Handle, UserOrderPost, UserOrderPut, UserOrderDelete, SellerOrderPut, Accept,
       Reject, Query, Write, Push, DBException, Crash, RegisterUser, DeleteUser, StoreStep, vars

\* The write changes the order of the request and no other.
LEMMA StoreStepDb ==
  ASSUME TypeOK, NEW s \in Servers, StoreStep(s)
  PROVE  /\ req[s].order \in OrderIds
         /\ db'[req[s].order] = Effect(req[s], seen[s], db[req[s].order])
         /\ \A o \in OrderIds : o # req[s].order => db'[o] = db[o]
BY DEF TypeOK, Complete, StoreStep, Stores

LEMMA StepBringsNothingBack == TypeOK /\ [Next]_vars => [BringsNothingBack]_vars
<1> SUFFICES ASSUME TypeOK, [Next]_vars, NEW o \in used, ~Present(db[o]), ~Pending(o)
             PROVE  ~Present(db'[o])
  BY DEF BringsNothingBack
<1>1. CASE UNCHANGED db
  BY <1>1
<1>2. ASSUME NEW s \in Servers, StoreStep(s) PROVE ~Present(db'[o])
  <2>1. CASE req[s].order = o
    <3>1. req[s].op # "user.Post"
      BY <1>2, <2>1 DEF Pending, StoreStep
    <3>2. db'[o] = Effect(req[s], seen[s], db[o])
      BY <1>2, <2>1, StoreStepDb
    <3>3. Effect(req[s], seen[s], db[o]) = db[o]
      BY <3>1 DEF Effect
    <3>4. QED
      BY <3>2, <3>3
  <2>2. CASE req[s].order # o
    BY <1>2, <2>2, StoreStepDb DEF TypeOK
  <2>3. QED
    BY <2>1, <2>2
<1>3. QED
  BY <1>1, <1>2, OnlyStoresChange

\* An order that was removed or never stored does not come back, however many
\* servers there are.
THEOREM OrdersNeverResurrected == Spec => NeverResurrected
BY OrdersTypeOK, StepBringsNothingBack, PTL DEF Spec, NeverResurrected

-----------------------------------------------------------------------------
(***************************************************************************)
(* One server process: the document a handler has read is still the stored *)
(* one when the handler writes                                             *)
(***************************************************************************)

OneServer == \A s, t \in Servers : s = t

StoredIsUsed == \A o \in OrderIds : Present(db[o]) => o \in used

PostIsFresh ==
    \A s \in Servers : (pc[s] # "idle" /\ req[s].op = "user.Post") =>
        /\ req[s].order \in used
        /\ pc[s] \in {"query", "write"} => ~Present(db[req[s].order])

SeenIsStored ==
    \A s \in Servers : (pc[s] = "write" /\ req[s].op # "user.Post") =>
        /\ seen[s] = db[req[s].order]
        /\ Decision(req[s], seen[s]) = "write"

PushFollowsReply ==
    \A s \in Servers : (pc[s] = "push" /\ req[s].op # "user.Post") =>
        /\ Notifies(req[s])
        /\ req[s].order \in used
        /\ Present(db[req[s].order]) => Replied(db[req[s].order], req[s].seller)

AnnouncedIsUsed == \A m \in pushed : m.order \in used /\ ~Pending(m.order)

HandlerInv ==
    /\ StoredIsUsed
    /\ PostIsFresh
    /\ SeenIsStored
    /\ PushFollowsReply
    /\ AnnouncedIsUsed
    /\ AnnouncedOffersAreRecorded

LEMMA InitHandlerInv == Init => HandlerInv
BY DEF Init, HandlerInv, StoredIsUsed, PostIsFresh, SeenIsStored, PushFollowsReply, AnnouncedIsUsed,
       AnnouncedOffersAreRecorded, NoOrder, Present

\* The only writes that follow a decision to write: what they are and what they need.
LEMMA WriteDecisions ==
  ASSUME NEW r \in Request, Complete(r), r.op # "user.Post", NEW doc, Decision(r, doc) = "write"
  PROVE  /\ Present(doc)
         /\ r.op = "user.Put" =>
               \/ doc.status = "new" /\ r.ask \in {"canceled", "agree"}
               \/ doc.status = "canceled" /\ r.ask = "delete"
               \/ doc.status = "selected" /\ r.ask \in {"cancel", "delete"}
         /\ r.op = "user.Delete" => doc.user = r.user
         /\ r.op = "seller.Put" => \/ doc.status = "new" /\ r.ask = "agree"
                                  \/ r.ask \in {"ignore", "canceled", "completed"}
         /\ r.op \in {"user.Put", "user.Delete", "seller.Put"}
BY DEF Decision, UserPutDecision, UserDeleteDecision, SellerPutDecision, Present, Request, Ops, Complete

\* Agreeing appends the seller to the replies that were read.
LEMMA AgreeAppends ==
  ASSUME NEW r, NEW doc \in Document
  PROVE  AgreeEffect(r, doc, doc) = [doc EXCEPT !.replies = Append(doc.replies, r.seller)]
<1>1. doc.replies = <<>> => Append(doc.replies, r.seller) = <<r.seller>>
  BY DEF Document
<1>2. QED
  BY <1>1 DEF AgreeEffect

\* No write of one server touches the replies, but for agreeing, which appends.
LEMMA EffectReplies ==
  ASSUME NEW r \in Request, Complete(r), r.op # "user.Post", NEW doc \in Document,
         Decision(r, doc) = "write", Present(Effect(r, doc, doc))
  PROVE  /\ (Notifies(r) => Effect(r, doc, doc).replies = Append(doc.replies, r.seller))
         /\ (~Notifies(r) => Effect(r, doc, doc).replies = doc.replies)
<1>1. Present(doc) /\ r.op \in {"user.Put", "user.Delete", "seller.Put"}
  BY WriteDecisions
<1>2. CASE r.op = "user.Put"
  BY <1>1, <1>2 DEF Effect, UserPutEffect, Notifies, Document, Present, NoOrder
<1>3. CASE r.op = "user.Delete"
  BY <1>1, <1>3 DEF Effect, UserDeleteEffect, Notifies, Document, Present, NoOrder
<1>4. CASE r.op = "seller.Put" /\ r.ask = "agree"
  BY <1>1, <1>4, AgreeAppends DEF Effect, SellerPutEffect, Notifies, Document
<1>5. CASE r.op = "seller.Put" /\ r.ask # "agree"
  BY <1>1, <1>5 DEF Effect, SellerPutEffect, Notifies, Document
<1>6. QED
  BY <1>1, <1>2, <1>3, <1>4, <1>5

\* The parts of HandlerInv that speak of the handler a server is in.
PerHandler == PostIsFresh /\ SeenIsStored /\ PushFollowsReply

\* They say nothing of a server that is idle.
LEMMA IdleServer ==
  ASSUME OneServer, NEW s \in Servers, pc'[s] = "idle"
  PROVE  PerHandler' /\ \A o : ~Pending(o)'
BY DEF OneServer, PerHandler, PostIsFresh, SeenIsStored, PushFollowsReply, Pending

\* A request is taken: nothing is stored or published.
LEMMA AcceptHandlerInv ==
  ASSUME OneServer, TypeOK, HandlerInv, NEW s \in Servers, NEW r, Accept(s, r),
         used \subseteq used',
         r.op = "user.Post" => r.order \in OrderIds /\ r.order \in used' /\ r.order \notin used
  PROVE  HandlerInv'
<1>1. /\ UNCHANGED <<db, pushed>> /\ pc'[s] = "query" /\ req'[s] = r /\ pc[s] = "idle"
  BY DEF Accept, TypeOK
<1>2. PostIsFresh' /\ SeenIsStored' /\ PushFollowsReply'
  BY <1>1 DEF OneServer, HandlerInv, PostIsFresh, SeenIsStored, PushFollowsReply, StoredIsUsed
<1>3. AnnouncedIsUsed'
  BY <1>1 DEF OneServer, HandlerInv, AnnouncedIsUsed, Pending
<1>4. StoredIsUsed' /\ AnnouncedOffersAreRecorded'
  BY <1>1 DEF HandlerInv, StoredIsUsed, AnnouncedOffersAreRecorded, RepliedOrders
<1>5. QED
  BY <1>2, <1>3, <1>4 DEF HandlerInv

\* What a write leaves in DB_ORDER.
LEMMA StoreFacts ==
  ASSUME TypeOK, HandlerInv, NEW s \in Servers, StoreStep(s), NEW o \in OrderIds, Present(db'[o])
  PROVE  /\ o \in used
         /\ Present(db[o]) =>
               \/ db'[o].replies = db[o].replies
               \/ db'[o].replies = Append(db[o].replies, req[s].seller)
         /\ ~Present(db[o]) => Pending(o)
         /\ o = req[s].order /\ Notifies(req[s]) /\ req[s].op # "user.Post" =>
               db'[o].replies = Append(db[o].replies, req[s].seller)
<1>1. CASE o # req[s].order
  BY <1>1, StoreStepDb DEF HandlerInv, StoredIsUsed
<1>2. CASE o = req[s].order /\ req[s].op = "user.Post"
  BY <1>2 DEF HandlerInv, PostIsFresh, StoreStep, Pending
<1>3. CASE o = req[s].order /\ req[s].op # "user.Post"
  <2>1. seen[s] = db[o] /\ Decision(req[s], db[o]) = "write"
    BY <1>3 DEF HandlerInv, SeenIsStored, StoreStep
  <2>2. req[s] \in Request /\ Complete(req[s]) /\ db[o] \in Document
    BY <1>3 DEF TypeOK, StoreStep
  <2>3. db'[o] = Effect(req[s], db[o], db[o])
    BY <1>3, <2>1, StoreStepDb
  <2>4. Present(db[o])
    BY <1>3, <2>1, <2>2, WriteDecisions
  <2>5. /\ Notifies(req[s]) => db'[o].replies = Append(db[o].replies, req[s].seller)
        /\ ~Notifies(req[s]) => db'[o].replies = db[o].replies
    BY <1>3, <2>1, <2>2, <2>3, EffectReplies
  <2>6. QED
    BY <2>4, <2>5 DEF HandlerInv, StoredIsUsed
<1>4. QED
  BY <1>1, <1>2, <1>3

LEMMA AppendKeeps ==
  ASSUME NEW q \in Seq(Sellers), NEW x
  PROVE  /\ Len(Append(q, x)) = Len(q) + 1
         /\ Len(q) \in Nat
         /\ \A i \in 1..Len(q) : Append(q, x)[i] = q[i]
         /\ Append(q, x)[Len(q) + 1] = x
OBVIOUS

\* A step of the only server loses no reply.
LEMMA StepKeepsReplies == TypeOK /\ HandlerInv /\ [Next]_vars => [KeepsReplies]_vars
<1> SUFFICES ASSUME TypeOK, HandlerInv, [Next]_vars, NEW o \in OrderIds,
                    Present(db[o]), Present(db'[o])
             PROVE  /\ Len(db[o].replies) <= Len(db'[o].replies)
                    /\ \A i \in 1..Len(db[o].replies) : db'[o].replies[i] = db[o].replies[i]
  BY DEF KeepsReplies
<1>0. db[o].replies \in Seq(Sellers)
  BY DEF TypeOK, Document
<1>1. CASE UNCHANGED db
  BY <1>0, <1>1
<1>2. ASSUME NEW s \in Servers, StoreStep(s), db'[o].replies = Append(db[o].replies, req[s].seller)
      PROVE  /\ Len(db[o].replies) <= Len(db'[o].replies)
             /\ \A i \in 1..Len(db[o].replies) : db'[o].replies[i] = db[o].replies[i]
  BY <1>0, <1>2, AppendKeeps
<1>3. ASSUME NEW s \in Servers, StoreStep(s), db'[o].replies = db[o].replies
      PROVE  /\ Len(db[o].replies) <= Len(db'[o].replies)
             /\ \A i \in 1..Len(db[o].replies) : db'[o].replies[i] = db[o].replies[i]
  BY <1>0, <1>3
<1>4. QED
  BY <1>1, <1>2, <1>3, OnlyStoresChange, StoreFacts

\* A write keeps what HandlerInv says of DB_ORDER and of the messages.
LEMMA StoreHandlerInv ==
  ASSUME OneServer, TypeOK, HandlerInv, NEW s \in Servers, StoreStep(s), UNCHANGED <<used, pushed>>,
         ~Pending(req[s].order)'
  PROVE  StoredIsUsed' /\ AnnouncedOffersAreRecorded' /\ (AnnouncedIsUsed' \/ pc'[s] \in {"query", "write"})
<1>1. StoredIsUsed'
  BY StoreFacts DEF StoredIsUsed
<1>2. AnnouncedOffersAreRecorded'
  <2> SUFFICES ASSUME NEW m \in pushed, m.to = "user", Present(db'[m.order])
               PROVE  (m.order \in RepliedOrders(m.seller))'
    BY DEF AnnouncedOffersAreRecorded
  <2> DEFINE o == m.order
  <2>1. o \in OrderIds
    BY DEF TypeOK, Message
  <2>2. ~Pending(o)
    BY DEF HandlerInv, AnnouncedIsUsed
  <2>3. Present(db[o]) /\ Replied(db[o], m.seller)
    BY <2>1, <2>2, StoreFacts DEF HandlerInv, AnnouncedOffersAreRecorded, RepliedOrders
  <2>4. db[o].replies \in Seq(Sellers)
    BY <2>1 DEF TypeOK, Document
  <2>5. \/ db'[o].replies = db[o].replies
        \/ db'[o].replies = Append(db[o].replies, req[s].seller)
    BY <2>1, <2>3, StoreFacts
  <2>6. Replied(db'[o], m.seller)
    BY <2>3, <2>4, <2>5, AppendKeeps DEF Replied
  <2>7. QED
    BY <2>1, <2>6 DEF RepliedOrders, Replied
<1>3. AnnouncedIsUsed' \/ pc'[s] \in {"query", "write"}
  BY DEF OneServer, HandlerInv, AnnouncedIsUsed, Pending
<1>4. QED
  BY <1>1, <1>2, <1>3

\* Every step of the only server keeps HandlerInv.
LEMMA HandlerStep == OneServer /\ TypeOK /\ HandlerInv /\ [Next]_vars => HandlerInv'
<1> SUFFICES ASSUME OneServer, TypeOK, HandlerInv, [Next]_vars PROVE HandlerInv'
  OBVIOUS
<1>1. ASSUME NEW s \in Servers, NEW u \in Users, NEW T \in SUBSET Sellers, NEW o \in OrderIds,
             UserOrderPost(s, u, T, o)
      PROVE  HandlerInv'
  <2> DEFINE r == [op |-> "user.Post", user |-> u, seller |-> NoId, order |-> o,
                   ask |-> NoId, target |-> T]
  <2>1. Accept(s, r) /\ used \subseteq used' /\ r.order \in used' /\ r.order \notin used
    BY <1>1 DEF UserOrderPost
  <2>2. QED
    BY <2>1, AcceptHandlerInv
<1>2. ASSUME NEW s \in Servers, NEW r, r.op # "user.Post", Accept(s, r), UNCHANGED used
      PROVE  HandlerInv'
  BY <1>2, AcceptHandlerInv
<1>3. ASSUME NEW s \in Servers, pc'[s] = "idle", UNCHANGED <<db, used, pushed>>
      PROVE  HandlerInv'
  <2>1. PerHandler' /\ \A o : ~Pending(o)'
    BY <1>3, IdleServer
  <2>2. AnnouncedIsUsed' /\ StoredIsUsed' /\ AnnouncedOffersAreRecorded'
    BY <1>3, <2>1 DEF HandlerInv, AnnouncedIsUsed, StoredIsUsed, AnnouncedOffersAreRecorded, RepliedOrders
  <2>3. QED
    BY <2>1, <2>2 DEF HandlerInv, PerHandler
<1>4. ASSUME NEW s \in Servers, Query(s) PROVE HandlerInv'
  <2>1. UNCHANGED <<db, used, pushed, req>>
    BY <1>4 DEF Query
  <2>2. CASE Decision(req[s], db[req[s].order]) = "write"
    <3>1. pc'[s] = "write" /\ seen'[s] = db[req[s].order] /\ pc[s] = "query"
      BY <1>4, <2>2 DEF Query, TypeOK
    <3>2. PostIsFresh' /\ PushFollowsReply'
      BY <2>1, <3>1 DEF OneServer, HandlerInv, PostIsFresh, PushFollowsReply
    <3>3. SeenIsStored'
      <4>1. SUFFICES ASSUME req[s].op # "user.Post"
                     PROVE  Decision(req[s], db[req[s].order])' = "write"
        BY <2>1, <3>1 DEF OneServer, SeenIsStored, Decision
      <4>2. QED
        BY <2>1, <2>2, <4>1 DEF Decision, UserPutDecision, UserDeleteDecision, SellerPutDecision
    <3>4. AnnouncedIsUsed'
      BY <2>1, <3>1 DEF OneServer, HandlerInv, AnnouncedIsUsed, Pending
    <3>5. StoredIsUsed' /\ AnnouncedOffersAreRecorded'
      BY <2>1 DEF HandlerInv, StoredIsUsed, AnnouncedOffersAreRecorded, RepliedOrders
    <3>6. QED
      BY <3>2, <3>3, <3>4, <3>5 DEF HandlerInv
  <2>3. CASE Decision(req[s], db[req[s].order]) # "write"
    BY <1>3, <1>4, <2>1, <2>3 DEF Query, Finish, TypeOK
  <2>4. QED
    BY <2>2, <2>3
<1>5. ASSUME NEW s \in Servers, StoreStep(s), UNCHANGED <<used, pushed>>, pc'[s] = "idle"
      PROVE  HandlerInv'
  <2>1. PerHandler' /\ \A o : ~Pending(o)'
    BY <1>5, IdleServer
  <2>2. AnnouncedIsUsed' /\ StoredIsUsed' /\ AnnouncedOffersAreRecorded'
    BY <1>5, <2>1, StoreHandlerInv
  <2>3. QED
    BY <2>1, <2>2 DEF HandlerInv, PerHandler
<1>6. ASSUME NEW s \in Servers, Write(s) PROVE HandlerInv'
  <2>1. StoreStep(s) /\ UNCHANGED <<used, pushed, req>>
    BY <1>6 DEF Write, StoreStep
  <2>2. CASE Notifies(req[s])
    <3>1. pc'[s] = "push"
      BY <1>6, <2>2 DEF Write, TypeOK
    <3>2. \A o : ~Pending(o)'
      BY <3>1 DEF OneServer, Pending
    <3>3. AnnouncedIsUsed' /\ StoredIsUsed' /\ AnnouncedOffersAreRecorded'
      BY <2>1, <3>1, <3>2, StoreHandlerInv
    <3>4. PostIsFresh' /\ SeenIsStored'
      BY <2>1, <3>1 DEF OneServer, HandlerInv, PostIsFresh, SeenIsStored, StoreStep
    <3>5. PushFollowsReply'
      <4> DEFINE o == req[s].order
      <4>1. SUFFICES ASSUME req[s].op # "user.Post"
                     PROVE  o \in used /\ (Present(db'[o]) => Replied(db'[o], req[s].seller))
        BY <2>1, <2>2, <3>1 DEF OneServer, PushFollowsReply, Notifies
      <4>2. o \in OrderIds /\ db[o] \in Document /\ req[s] \in Request /\ Complete(req[s])
        BY <2>1 DEF TypeOK, Complete, StoreStep
      <4>3. o \in used
        BY <2>1, <4>1, <4>2, WriteDecisions DEF HandlerInv, SeenIsStored, StoredIsUsed, StoreStep
      <4>4. Present(db'[o]) => db'[o].replies = Append(db[o].replies, req[s].seller)
        BY <2>1, <2>2, <4>1, <4>2, StoreFacts
      <4>5. db[o].replies \in Seq(Sellers)
        BY <4>2 DEF Document
      <4>6. Present(db'[o]) => Replied(db'[o], req[s].seller)
        <5> DEFINE q == db[o].replies
        <5>1. /\ Len(Append(q, req[s].seller)) = Len(q) + 1 /\ Len(q) \in Nat
              /\ Append(q, req[s].seller)[Len(q) + 1] = req[s].seller
          BY <4>5, AppendKeeps
        <5>2. Len(q) + 1 \in 1..Len(Append(q, req[s].seller))
          BY <5>1
        <5>3. QED
          BY <4>4, <5>1, <5>2 DEF Replied
      <4>7. QED
        BY <4>3, <4>6
    <3>6. QED
      BY <3>3, <3>4, <3>5 DEF HandlerInv
  <2>3. CASE ~Notifies(req[s])
    BY <1>5, <1>6, <2>1, <2>3 DEF Write, Finish, TypeOK
  <2>4. QED
    BY <2>2, <2>3
<1>7. ASSUME NEW s \in Servers, Push(s) PROVE HandlerInv'
  <2> DEFINE m == Notification(req[s], seen[s])
  <2>1. UNCHANGED <<db, used>> /\ pushed' \subseteq pushed \cup {m} /\ pc'[s] = "idle" /\ pc[s] = "push"
    BY <1>7 DEF Push, Finish, TypeOK
  <2>2. PerHandler' /\ \A o : ~Pending(o)'
    BY <2>1, IdleServer
  <2>3. /\ m.order = req[s].order
        /\ m.to = "user" => req[s].op # "user.Post" /\ m.seller = req[s].seller
    BY DEF Notification, SellersMessage, UserMessage
  <2>4. req[s].order \in used /\ req[s].order \in OrderIds
    BY <2>1 DEF HandlerInv, PostIsFresh, PushFollowsReply, TypeOK, Complete
  <2>5. m.to = "user" => ~Present(db[m.order]) \/ m.order \in RepliedOrders(m.seller)
    BY <2>1, <2>3, <2>4 DEF HandlerInv, PushFollowsReply, RepliedOrders
  <2> HIDE DEF m
  <2>6. AnnouncedIsUsed' /\ StoredIsUsed'
    BY <2>1, <2>2, <2>3, <2>4 DEF HandlerInv, AnnouncedIsUsed, StoredIsUsed
  <2>7. AnnouncedOffersAreRecorded'
    BY <2>1, <2>5 DEF HandlerInv, AnnouncedOffersAreRecorded, RepliedOrders
  <2>8. QED
    BY <2>2, <2>6, <2>7 DEF HandlerInv, PerHandler
<1>8. ASSUME NEW s \in Servers, DBException(s) PROVE HandlerInv'
  BY <1>3, <1>5, <1>8 DEF DBException, Finish, TypeOK, StoreStep
<1>9. ASSUME NEW s \in Servers, NEW u \in Users, RegisterUser(s, u) \/ DeleteUser(s, u)
      PROVE  HandlerInv'
  BY <1>3, <1>9 DEF RegisterUser, DeleteUser
<1>10. ASSUME NEW s \in Servers, Reject(s) \/ Crash(s) PROVE HandlerInv'
  BY <1>3, <1>5, <1>10 DEF Reject, Crash, Finish, TypeOK, StoreStep
<1>11. CASE UNCHANGED vars
  <2>1. HandlerInv' <=> HandlerInv
    BY <1>11 DEF vars, HandlerInv, StoredIsUsed, PostIsFresh, SeenIsStored, PushFollowsReply,
                 AnnouncedIsUsed, Pending, AnnouncedOffersAreRecorded, RepliedOrders,
                 Decision, UserPostDecision, UserPutDecision, UserDeleteDecision, SellerPutDecision
  <2>2. QED
    BY <2>1
<1>12. ASSUME NEW s \in Servers, Receive(s) PROVE HandlerInv'
  BY <1>1, <1>2, <1>10, <1>12 DEF Receive, UserOrderPut, UserOrderDelete, SellerOrderPut
<1>13. QED
  BY <1>4, <1>6, <1>7, <1>8, <1>9, <1>10, <1>11, <1>12 DEF Next, Handle

LEMMA OrdersHandlerInv ==
  ASSUME OneServer
  PROVE  Spec => []HandlerInv
<1>1. TypeOK /\ HandlerInv /\ [Next]_vars => HandlerInv'
  BY HandlerStep
<1>2. QED
  BY <1>1, InitHandlerInv, OrdersTypeOK, PTL DEF Spec

\* One server process never loses a recorded reply, whatever the $set of the
\* first one overwrites.
THEOREM OrdersRepliesKept ==
  ASSUME OneServer
  PROVE  Spec => RepliesKept
<1>1. Spec => []HandlerInv
  BY OrdersHandlerInv
<1>2. QED
  BY <1>1, OrdersTypeOK, StepKeepsReplies, PTL DEF Spec, RepliesKept

\* With one server process, an offer that was announced is recorded.
THEOREM OrdersAnnouncedRecorded ==
  ASSUME OneServer
  PROVE  Spec => []AnnouncedOffersAreRecorded
<1>1. Spec => []HandlerInv
  BY OrdersHandlerInv
<1>2. HandlerInv => AnnouncedOffersAreRecorded
  BY DEF HandlerInv
<1>3. QED
  BY <1>1, <1>2, PTL

-----------------------------------------------------------------------------
(***************************************************************************)
(* Any number of server processes: whose order is announced                *)
(***************************************************************************)

\* No two handlers post the same order, and none posts a stored one.
PostsApart ==
    \A s \in Servers : (pc[s] \in {"query", "write"} /\ req[s].op = "user.Post") =>
        /\ req[s].order \in used
        /\ ~Present(db[req[s].order])
        /\ \A t \in Servers : (pc[t] \in {"query", "write"} /\ req[t].op = "user.Post"
                               /\ req[t].order = req[s].order) => t = s

\* The order has been stored, and as long as it is stored u is its owner.
Owned(o, u) == o \in used /\ ~Pending(o) /\ (Present(db[o]) => db[o].user = u)

\* A seller's Put holds the owner of the order in the document it has seen.
SeenOwner ==
    \A s \in Servers : (pc[s] \in {"write", "push"} /\ req[s].op # "user.Post") =>
        Owned(req[s].order, seen[s].user)

AnnouncedToOwner ==
    \A m \in pushed : m.to = "user" => \E u : m.targets = {u} /\ Owned(m.order, u)

FleetInv ==
    /\ StoredIsUsed
    /\ PostsApart
    /\ SeenOwner
    /\ AnnouncedToOwner

LEMMA InitFleetInv == Init => FleetInv
BY DEF Init, FleetInv, StoredIsUsed, PostsApart, SeenOwner, AnnouncedToOwner, NoOrder, Present

\* A write stores the order of a Post, or leaves the owner of a stored order.
LEMMA StoreOwner ==
  ASSUME TypeOK, NEW s \in Servers, StoreStep(s), NEW o \in OrderIds, Present(db'[o])
  PROVE  \/ Present(db[o]) /\ db'[o].user = db[o].user
         \/ o = req[s].order /\ req[s].op = "user.Post"
<1>1. CASE o # req[s].order
  BY <1>1, StoreStepDb
<1>2. CASE o = req[s].order /\ req[s].op # "user.Post"
  <2>1. db'[o] = Effect(req[s], seen[s], db[o]) /\ db[o] \in Document
    BY <1>2, StoreStepDb DEF TypeOK
  <2>2. Present(db[o])
    BY <1>2, <2>1 DEF Effect
  <2>3. db'[o] # NoOrder
    BY DEF Present, NoOrder
  <2>4. CASE req[s].op = "user.Put"
    BY <1>2, <2>1, <2>2, <2>3, <2>4 DEF Effect, UserPutEffect, Document
  <2>5. CASE req[s].op = "user.Delete"
    BY <1>2, <2>1, <2>2, <2>3, <2>5 DEF Effect, UserDeleteEffect, Document
  <2>6. CASE req[s].op \notin {"user.Put", "user.Delete"}
    BY <1>2, <2>1, <2>2, <2>6 DEF Effect, SellerPutEffect, AgreeEffect, Document
  <2>7. QED
    BY <2>2, <2>4, <2>5, <2>6
<1>3. QED
  BY <1>1, <1>2

\* Ownership survives every step that starts no Post and stores at most by a
\* handler that is under way.
LEMMA OwnedStays ==
  ASSUME TypeOK, PostsApart, NEW o \in OrderIds, NEW u, Owned(o, u), used \subseteq used',
         Pending(o)' => Pending(o),
         UNCHANGED db \/ \E s \in Servers : StoreStep(s)
  PROVE  Owned(o, u)'
<1>1. CASE UNCHANGED db
  BY <1>1 DEF Owned
<1>2. ASSUME NEW s \in Servers, StoreStep(s) PROVE Owned(o, u)'
  <2>1. ~(o = req[s].order /\ req[s].op = "user.Post")
    BY <1>2 DEF Owned, Pending, StoreStep
  <2>2. QED
    BY <1>2, <2>1, StoreOwner DEF Owned
<1>3. QED
  BY <1>1, <1>2

\* A handler goes on or ends: no Post starts, and others are left alone.
LEMMA HandleFleetInv ==
  ASSUME TypeOK, FleetInv, NEW s \in Servers, pc[s] # "idle",
         UNCHANGED <<used, req>>,
         \A t \in Servers : t # s => pc'[t] = pc[t] /\ seen'[t] = seen[t],
         UNCHANGED db \/ (StoreStep(s) /\ pc'[s] \in {"idle", "push"}),
         pc'[s] = "query" => pc[s] = "query",
         pc'[s] = "write" => pc[s] \in {"query", "write"},
         (pc'[s] \in {"write", "push"} /\ req[s].op # "user.Post") =>
             Owned(req[s].order, seen'[s].user)
  PROVE  StoredIsUsed' /\ PostsApart' /\ SeenOwner'
         /\ \A m \in pushed : m.to = "user" => \E u : m.targets = {u} /\ Owned(m.order, u)'
<1>1. \A o : Pending(o)' => Pending(o)
  BY DEF Pending
<1>2. ASSUME NEW o \in OrderIds, NEW u, Owned(o, u) PROVE Owned(o, u)'
  BY <1>1, <1>2, OwnedStays DEF FleetInv
<1>3. StoredIsUsed'
  <2>1. ASSUME NEW o \in OrderIds, Present(db'[o]), StoreStep(s) PROVE o \in used
    BY <2>1, StoreOwner DEF FleetInv, StoredIsUsed, PostsApart, StoreStep
  <2>2. QED
    BY <2>1 DEF FleetInv, StoredIsUsed
<1>4. PostsApart'
  <2> SUFFICES ASSUME NEW t \in Servers, pc'[t] \in {"query", "write"}, req[t].op = "user.Post"
               PROVE  /\ req[t].order \in used /\ ~Present(db'[req[t].order])
                      /\ \A v \in Servers : (pc'[v] \in {"query", "write"} /\ req[v].op = "user.Post"
                                             /\ req[v].order = req[t].order) => v = t
    BY DEF PostsApart
  <2>1. pc[t] \in {"query", "write"} /\ req[t].order \in OrderIds
    BY DEF TypeOK, Complete
  <2>2. \A v \in Servers : pc'[v] \in {"query", "write"} => pc[v] \in {"query", "write"}
    OBVIOUS
  <2>3. req[t].order \in used /\ ~Present(db[req[t].order])
    BY <2>1 DEF FleetInv, PostsApart
  <2>4. ASSUME StoreStep(s), Present(db'[req[t].order]) PROVE FALSE
    <3>1. req[s].order = req[t].order /\ req[s].op = "user.Post" /\ pc[s] = "write"
      BY <2>1, <2>3, <2>4, StoreOwner DEF StoreStep
    <3>2. s = t
      BY <2>1, <3>1 DEF FleetInv, PostsApart
    <3>3. UNCHANGED db
      BY <3>2
    <3>4. QED
      BY <2>3, <2>4, <3>3
  <2>5. QED
    BY <2>1, <2>2, <2>3, <2>4 DEF FleetInv, PostsApart
<1>5. SeenOwner'
  <2> SUFFICES ASSUME NEW t \in Servers, pc'[t] \in {"write", "push"}, req[t].op # "user.Post"
               PROVE  \E o, u : o = req'[t].order /\ u = seen'[t].user /\ Owned(o, u)'
    BY DEF SeenOwner, Owned
  <2>1. PICK o, u : o \in OrderIds /\ o = req'[t].order /\ u = seen'[t].user /\ Owned(o, u)
    BY DEF FleetInv, SeenOwner, TypeOK, Complete
  <2>2. Owned(o, u)'
    BY <2>1, <1>2
  <2>3. QED
    BY <2>1, <2>2
<1>6. ASSUME NEW m \in pushed, m.to = "user" PROVE \E u : m.targets = {u} /\ Owned(m.order, u)'
  <2>1. m.order \in OrderIds
    BY DEF TypeOK, Message
  <2>2. PICK u : m.targets = {u} /\ Owned(m.order, u)
    BY <1>6 DEF FleetInv, AnnouncedToOwner
  <2>3. Owned(m.order, u)'
    BY <1>2, <2>1, <2>2
  <2>4. QED
    BY <2>2, <2>3
<1>7. QED
  BY <1>3, <1>4, <1>5, <1>6

\* A request is taken: whatever is seen or announced is not its fresh identifier.
LEMMA AcceptFleetInv ==
  ASSUME TypeOK, FleetInv, NEW s \in Servers, NEW r, Accept(s, r), used \subseteq used',
         r.op = "user.Post" => r.order \in OrderIds /\ r.order \in used' /\ r.order \notin used
  PROVE  FleetInv'
<1>1. /\ UNCHANGED <<db, pushed, seen>> /\ pc[s] = "idle" /\ pc'[s] = "query" /\ req'[s] = r
      /\ \A t \in Servers : t # s => pc'[t] = pc[t] /\ req'[t] = req[t]
  BY DEF Accept, TypeOK
<1>2. StoredIsUsed'
  BY <1>1 DEF FleetInv, StoredIsUsed
<1>3. PostsApart'
  BY <1>1 DEF FleetInv, PostsApart, StoredIsUsed
<1>4. ASSUME NEW o \in used, Pending(o)' PROVE Pending(o)
  BY <1>1, <1>4 DEF Pending
<1>5. ASSUME NEW o \in OrderIds, NEW u, Owned(o, u) PROVE Owned(o, u)'
  BY <1>1, <1>4, <1>5 DEF Owned
<1>6. SeenOwner'
  <2> SUFFICES ASSUME NEW t \in Servers, pc'[t] \in {"write", "push"}, req'[t].op # "user.Post"
               PROVE  \E o, u : o = req'[t].order /\ u = seen'[t].user /\ Owned(o, u)'
    BY DEF SeenOwner, Owned
  <2>1. PICK o, u : o \in OrderIds /\ o = req'[t].order /\ u = seen'[t].user /\ Owned(o, u)
    BY <1>1 DEF FleetInv, SeenOwner, TypeOK, Complete
  <2>2. Owned(o, u)'
    BY <2>1, <1>5
  <2>3. QED
    BY <2>1, <2>2
<1>7. AnnouncedToOwner'
  <2> SUFFICES ASSUME NEW m \in pushed, m.to = "user"
               PROVE  \E u : m.targets = {u} /\ Owned(m.order, u)'
    BY <1>1 DEF AnnouncedToOwner
  <2>1. m.order \in OrderIds
    BY DEF TypeOK, Message
  <2>2. PICK u : m.targets = {u} /\ Owned(m.order, u)
    BY DEF FleetInv, AnnouncedToOwner
  <2>3. QED
    BY <1>5, <2>1, <2>2
<1>8. QED
  BY <1>2, <1>3, <1>6, <1>7 DEF FleetInv

\* Every step of every server keeps FleetInv.
LEMMA FleetStep == TypeOK /\ FleetInv /\ [Next]_vars => FleetInv'
<1> SUFFICES ASSUME TypeOK, FleetInv, [Next]_vars PROVE FleetInv'
  OBVIOUS
<1>1. ASSUME NEW s \in Servers, NEW u \in Users, NEW T \in SUBSET Sellers, NEW o \in OrderIds,
             UserOrderPost(s, u, T, o)
      PROVE  FleetInv'
  <2> DEFINE r == [op |-> "user.Post", user |-> u, seller |-> NoId, order |-> o,
                   ask |-> NoId, target |-> T]
  <2>1. Accept(s, r) /\ used \subseteq used' /\ r.order \in used' /\ r.order \notin used
    BY <1>1 DEF UserOrderPost
  <2>2. QED
    BY <2>1, AcceptFleetInv
<1>2. ASSUME NEW s \in Servers, NEW r, r.op # "user.Post", Accept(s, r), UNCHANGED used
      PROVE  FleetInv'
  BY <1>2, AcceptFleetInv
<1>3. ASSUME NEW s \in Servers, NEW code, pc[s] # "idle", Finish(s, code),
             UNCHANGED db \/ StoreStep(s), UNCHANGED <<used, pushed, req>>
      PROVE  FleetInv'
  <2>1. /\ pc'[s] = "idle"
        /\ \A t \in Servers : t # s => pc'[t] = pc[t] /\ seen'[t] = seen[t]
    BY <1>3 DEF Finish, TypeOK
  <2>2. QED
    BY <1>3, <2>1, HandleFleetInv DEF FleetInv, AnnouncedToOwner
<1>4. ASSUME NEW s \in Servers, Query(s) PROVE FleetInv'
  <2> DEFINE o == req[s].order
  <2>1. UNCHANGED <<db, used, pushed, req>> /\ pc[s] = "query"
    BY <1>4 DEF Query
  <2>2. CASE Decision(req[s], db[o]) = "write"
    <3>1. /\ pc'[s] = "write" /\ seen'[s] = db[o]
          /\ \A t \in Servers : t # s => pc'[t] = pc[t] /\ seen'[t] = seen[t]
      BY <1>4, <2>2 DEF Query, TypeOK
    <3>2. req[s].op # "user.Post" => Owned(o, db[o].user)
      <4>1. SUFFICES ASSUME req[s].op # "user.Post" PROVE Owned(o, db[o].user)
        OBVIOUS
      <4>2. req[s] \in Request /\ Complete(req[s]) /\ o \in OrderIds
        BY <2>1 DEF TypeOK, Complete
      <4>3. Present(db[o])
        BY <2>2, <4>1, <4>2, WriteDecisions
      <4>4. QED
        BY <4>2, <4>3 DEF FleetInv, StoredIsUsed, PostsApart, Owned, Pending
    <3>3. QED
      BY <2>1, <3>1, <3>2, HandleFleetInv DEF FleetInv, AnnouncedToOwner
  <2>3. CASE Decision(req[s], db[o]) # "write"
    BY <1>3, <1>4, <2>1, <2>3 DEF Query
  <2>4. QED
    BY <2>2, <2>3
<1>5. ASSUME NEW s \in Servers, Write(s) PROVE FleetInv'
  <2>1. StoreStep(s) /\ UNCHANGED <<used, pushed, req>> /\ pc[s] = "write"
    BY <1>5 DEF Write, StoreStep
  <2>2. CASE Notifies(req[s])
    <3>1. /\ pc'[s] = "push" /\ UNCHANGED seen
          /\ \A t \in Servers : t # s => pc'[t] = pc[t]
      BY <1>5, <2>2 DEF Write, TypeOK
    <3>2. req[s].op # "user.Post" => Owned(req[s].order, seen'[s].user)
      BY <2>1, <3>1 DEF FleetInv, SeenOwner
    <3>3. QED
      BY <2>1, <3>1, <3>2, HandleFleetInv DEF FleetInv, AnnouncedToOwner
  <2>3. CASE ~Notifies(req[s])
    BY <1>3, <1>5, <2>1, <2>3 DEF Write
  <2>4. QED
    BY <2>2, <2>3
<1>6. ASSUME NEW s \in Servers, Push(s) PROVE FleetInv'
  <2>0. PICK m \in Message : m = Notification(req[s], seen[s])
    BY <1>6, NotificationType DEF Push
  <2>1. /\ UNCHANGED <<db, used, req>> /\ pushed' \subseteq pushed \cup {m}
        /\ pc'[s] = "idle" /\ pc[s] = "push"
        /\ \A t \in Servers : t # s => pc'[t] = pc[t] /\ seen'[t] = seen[t]
    BY <1>6, <2>0 DEF Push, Finish, TypeOK
  <2>2. /\ StoredIsUsed' /\ PostsApart' /\ SeenOwner'
        /\ \A n \in pushed : n.to = "user" => \E u : n.targets = {u} /\ Owned(n.order, u)'
    BY <2>1, HandleFleetInv
  <2>3. m.to = "user" => \E u : m.targets = {u} /\ Owned(m.order, u)'
    <3>1. SUFFICES ASSUME m.to = "user" PROVE \E u : m.targets = {u} /\ Owned(m.order, u)'
      OBVIOUS
    <3>2. /\ req[s].op # "user.Post"
          /\ m.targets = {seen[s].user} /\ m.order = req[s].order
      BY <2>0, <3>1 DEF Notification, SellersMessage, UserMessage
    <3>3. PICK o, u : /\ o \in OrderIds /\ o = req[s].order /\ u = seen[s].user
                      /\ Owned(o, u)
      BY <2>1, <3>2 DEF FleetInv, SeenOwner, TypeOK, Complete
    <3>4. Owned(o, u)'
      BY <2>1, <3>3 DEF Owned, Pending
    <3>5. QED
      BY <3>2, <3>3, <3>4
  <2>4. AnnouncedToOwner'
    BY <2>1, <2>2, <2>3 DEF AnnouncedToOwner
  <2>5. QED
    BY <2>2, <2>4 DEF FleetInv
<1>7. ASSUME NEW s \in Servers, DBException(s) \/ Crash(s) PROVE FleetInv'
  BY <1>3, <1>7 DEF DBException, Crash, StoreStep
<1>8. ASSUME UNCHANGED <<db, used, pushed, pc, seen>>,
             UNCHANGED req \/ \E s \in Servers : Reject(s)
      PROVE  FleetInv'
  <2>1. \A t \in Servers : pc[t] # "idle" => req'[t] = req[t]
    BY <1>8 DEF Reject, TypeOK
  <2>2. \A o : Pending(o)' <=> Pending(o)
    BY <1>8, <2>1 DEF Pending
  <2>3. StoredIsUsed' /\ PostsApart'
    BY <1>8, <2>1 DEF FleetInv, StoredIsUsed, PostsApart
  <2>4. \A o, u : Owned(o, u)' <=> Owned(o, u)
    BY <1>8, <2>2 DEF Owned
  <2>5. SeenOwner'
    <3> SUFFICES ASSUME NEW t \in Servers, pc'[t] \in {"write", "push"}, req'[t].op # "user.Post"
                 PROVE  \E o, u : o = req'[t].order /\ u = seen'[t].user /\ Owned(o, u)'
      BY DEF SeenOwner, Owned
    <3>1. PICK o, u : o = req'[t].order /\ u = seen'[t].user /\ Owned(o, u)
      BY <1>8, <2>1 DEF FleetInv, SeenOwner
    <3>2. QED
      BY <2>4, <3>1
  <2>6. AnnouncedToOwner'
    BY <1>8, <2>4 DEF FleetInv, AnnouncedToOwner
  <2>7. QED
    BY <2>3, <2>5, <2>6 DEF FleetInv
<1>9. ASSUME NEW s \in Servers, NEW u \in Users, RegisterUser(s, u) \/ DeleteUser(s, u)
      PROVE  FleetInv'
  BY <1>8, <1>9 DEF RegisterUser, DeleteUser
<1>10. ASSUME NEW s \in Servers, Reject(s) PROVE FleetInv'
  BY <1>8, <1>10 DEF Reject
<1>11. CASE UNCHANGED vars
  BY <1>8, <1>11 DEF vars
<1>12. ASSUME NEW s \in Servers, Receive(s) PROVE FleetInv'
  BY <1>1, <1>2, <1>10, <1>12 DEF Receive, UserOrderPut, UserOrderDelete, SellerOrderPut
<1>13. QED
  BY <1>4, <1>5, <1>6, <1>7, <1>9, <1>11, <1>12 DEF Next, Handle

LEMMA OrdersFleetInv == Spec => []FleetInv
BY InitFleetInv, FleetStep, OrdersTypeOK, PTL DEF Spec

\* However many server processes interleave, an offer is announced to the user
\* who placed the order: seller::Order::Put addresses the owner it has read some
\* time ago, and no other write changes the owner meanwhile.
THEOREM OrdersOwnerIsNotified == Spec => []OwnerIsNotified
<1>1. FleetInv => OwnerIsNotified
  BY DEF FleetInv, AnnouncedToOwner, Owned, OwnerIsNotified
<1>2. QED
  BY <1>1, OrdersFleetInv, PTL

-----------------------------------------------------------------------------
(***************************************************************************)
(* One server process: a seller's list of open orders                      *)
(***************************************************************************)

\* A write by the handler of an order's Put or Delete, as one server makes it.
LEMMA StoreSeen ==
  ASSUME TypeOK, HandlerInv, NEW s \in Servers, StoreStep(s), req[s].op # "user.Post"
  PROVE  LET o == req[s].order
         IN /\ req[s] \in Request /\ Complete(req[s]) /\ o \in OrderIds
            /\ db[o] \in Document /\ Present(db[o])
            /\ Decision(req[s], db[o]) = "write"
            /\ db'[o] = Effect(req[s], db[o], db[o])
<1>1. req[s] \in Request /\ Complete(req[s]) /\ req[s].order \in OrderIds
  BY DEF TypeOK, Complete, StoreStep
<1>2. seen[s] = db[req[s].order] /\ Decision(req[s], seen[s]) = "write"
  BY DEF HandlerInv, SeenIsStored, StoreStep
<1>3. Present(db[req[s].order])
  BY <1>1, <1>2, WriteDecisions
<1>4. QED
  BY <1>1, <1>2, <1>3, StoreStepDb DEF TypeOK

\* What becomes of a stored order in such a write.
LEMMA StoredBecomes ==
  ASSUME NEW r \in Request, Complete(r), r.op # "user.Post", NEW doc \in Document,
         Present(doc), doc.status # "selected", Decision(r, doc) = "write"
  PROVE  \/ r.op # "seller.Put" /\ Effect(r, doc, doc) = NoOrder
         \/ /\ r.op = "user.Put" /\ r.ask = "canceled" /\ doc.status = "new"
            /\ Effect(r, doc, doc) = [doc EXCEPT !.status = "canceled"]
         \/ /\ r.op = "user.Put" /\ r.ask = "agree" /\ doc.status = "new"
            /\ Effect(r, doc, doc) = [doc EXCEPT !.status = "confirmed", !.selected = r.seller]
         \/ /\ r.op = "seller.Put" /\ r.ask = "agree" /\ doc.status = "new"
            /\ Effect(r, doc, doc) = [doc EXCEPT !.replies = Append(doc.replies, r.seller)]
         \/ /\ r.op = "seller.Put" /\ r.ask = "completed"
            /\ Effect(r, doc, doc) = [doc EXCEPT !.status = "completed"]
         \/ /\ r.op = "seller.Put" /\ r.ask \in {"ignore", "canceled"}
            /\ Effect(r, doc, doc) = [doc EXCEPT !.target = doc.target \ {r.seller}]
<1>1. CASE r.op = "user.Put"
  BY <1>1, WriteDecisions DEF Effect, UserPutEffect
<1>2. CASE r.op = "user.Delete"
  BY <1>2, WriteDecisions DEF Effect, UserDeleteEffect
<1>3. CASE r.op = "seller.Put"
  BY <1>3, WriteDecisions, AgreeAppends DEF Effect, SellerPutEffect
<1>4. QED
  BY <1>1, <1>2, <1>3, WriteDecisions

\* An order that is new after such a write was new before, and has got a reply or
\* lost an addressee.
LEMMA StoredStatus ==
  ASSUME NEW r \in Request, Complete(r), r.op # "user.Post", NEW doc \in Document,
         Present(doc), doc.status # "selected", Decision(r, doc) = "write"
  PROVE  LET new == Effect(r, doc, doc)
         IN /\ new.status # "selected"
            /\ new.status = "new" =>
                  \/ /\ r.op = "seller.Put" /\ r.ask = "agree"
                     /\ new = [doc EXCEPT !.replies = Append(doc.replies, r.seller)]
                  \/ /\ r.op = "seller.Put" /\ r.ask \in {"ignore", "canceled"}
                     /\ new = [doc EXCEPT !.target = doc.target \ {r.seller}]
<1> DEFINE new == Effect(r, doc, doc)
<1>1. CASE new = NoOrder
  BY <1>1 DEF NoOrder
<1>2. CASE new = [doc EXCEPT !.status = "canceled"]
  BY <1>2 DEF Document
<1>3. CASE new = [doc EXCEPT !.status = "confirmed", !.selected = r.seller]
  BY <1>3 DEF Document
<1>4. CASE new = [doc EXCEPT !.status = "completed"]
  BY <1>4 DEF Document
<1>5. CASE /\ r.op = "seller.Put" /\ r.ask = "agree"
           /\ new = [doc EXCEPT !.replies = Append(doc.replies, r.seller)]
  BY <1>5 DEF Document
<1>6. CASE /\ r.op = "seller.Put" /\ r.ask \in {"ignore", "canceled"}
           /\ new = [doc EXCEPT !.target = doc.target \ {r.seller}]
  BY <1>6 DEF Document
<1>7. QED
  BY <1>1, <1>2, <1>3, <1>4, <1>5, <1>6, StoredBecomes

\* "selected" is a status that no handler stores.
NeverSelected == \A o \in OrderIds : db[o].status # "selected"

LEMMA InitNeverSelected == Init => NeverSelected
BY DEF Init, NeverSelected, NoOrder

LEMMA NeverSelectedStep ==
  ASSUME TypeOK, HandlerInv, NeverSelected, [Next]_vars
  PROVE  NeverSelected'
<1>1. CASE UNCHANGED db
  BY <1>1 DEF NeverSelected
<1>2. ASSUME NEW s \in Servers, StoreStep(s) PROVE NeverSelected'
  <2> DEFINE o == req[s].order
  <2>1. db'[o].status # "selected"
    <3>1. CASE req[s].op = "user.Post"
      <4>1. db'[o] = Effect(req[s], seen[s], db[o])
        BY <1>2, StoreStepDb
      <4>2. QED
        BY <3>1, <4>1 DEF Effect, UserPostEffect
    <3>2. CASE req[s].op # "user.Post"
      <4>1. /\ req[s] \in Request /\ Complete(req[s]) /\ o \in OrderIds
            /\ db[o] \in Document /\ Present(db[o])
            /\ Decision(req[s], db[o]) = "write" /\ db'[o] = Effect(req[s], db[o], db[o])
        BY <1>2, <3>2, StoreSeen
      <4>2. db[o].status # "selected"
        BY <4>1 DEF NeverSelected
      <4>3. QED
        BY <3>2, <4>1, <4>2, StoredStatus
    <3>3. QED
      BY <3>1, <3>2
  <2>2. QED
    BY <1>2, <2>1, StoreStepDb DEF NeverSelected
<1>3. QED
  BY <1>1, <1>2, OnlyStoresChange

LEMMA OrdersNeverSelected ==
  ASSUME OneServer
  PROVE  Spec => []NeverSelected
<1>1. Spec => []HandlerInv
  BY OrdersHandlerInv
<1>2. TypeOK /\ HandlerInv /\ NeverSelected /\ [Next]_vars => NeverSelected'
  BY NeverSelectedStep
<1>3. QED
  BY <1>1, <1>2, InitNeverSelected, OrdersTypeOK, PTL DEF Spec

\* Appending a seller's reply is a reply of that seller and of nobody else.
LEMMA AppendReplied ==
  ASSUME NEW doc \in Document, NEW sel \in Sellers, NEW x \in Sellers
  PROVE  LET new == [doc EXCEPT !.replies = Append(doc.replies, x)]
         IN Replied(new, sel) <=> Replied(doc, sel) \/ sel = x
<1> DEFINE q == doc.replies
<1>1. q \in Seq(Sellers) /\ Len(q) \in Nat
  BY DEF Document
<1>2. [doc EXCEPT !.replies = Append(q, x)].replies = Append(q, x)
  BY DEF Document
<1>3. /\ Len(Append(q, x)) = Len(q) + 1
      /\ \A i \in 1..Len(q) : Append(q, x)[i] = q[i]
      /\ Append(q, x)[Len(q) + 1] = x
  BY <1>1, AppendKeeps
<1> HIDE DEF q
<1>4. (\E i \in 1..Len(Append(q, x)) : Append(q, x)[i] = sel)
         <=> (\E i \in 1..Len(q) : q[i] = sel) \/ sel = x
  BY <1>1, <1>3
<1>5. QED
  BY <1>2, <1>4 DEF Replied, q

\* One order, before and after the write of request r.
LEMMA ListedByWrite ==
  ASSUME NEW r \in Request, Complete(r), r.op # "user.Post", NEW doc \in Document,
         Present(doc), doc.status # "selected", Decision(r, doc) = "write", NEW sel \in Sellers
  PROVE  LET new == Effect(r, doc, doc)
             Open(d) == d.status = "new" /\ sel \in d.target /\ ~Replied(d, sel)
         IN /\ (Open(doc) /\ ~Open(new)) => new.status # "new" \/ r.seller = sel
            /\ ~Open(doc) => ~Open(new)
<1> DEFINE new == Effect(r, doc, doc)
<1>1. CASE new.status # "new"
  BY <1>1
<1>2. CASE new = [doc EXCEPT !.replies = Append(doc.replies, r.seller)] /\ r.op = "seller.Put"
  <2>1. new.status = doc.status /\ new.target = doc.target /\ r.seller \in Sellers
    BY <1>2 DEF Document, Complete
  <2>2. Replied(new, sel) <=> Replied(doc, sel) \/ sel = r.seller
    BY <1>2, <2>1, AppendReplied
  <2>3. QED
    BY <2>1, <2>2
<1>3. CASE new = [doc EXCEPT !.target = doc.target \ {r.seller}]
  <2>1. new.status = doc.status /\ new.target = doc.target \ {r.seller} /\ new.replies = doc.replies
    BY <1>3 DEF Document
  <2>2. QED
    BY <2>1 DEF Replied
<1>4. QED
  BY <1>1, <1>2, <1>3, StoredStatus

\* A step of the only server keeps the lists of open orders.
LEMMA StepKeepsListed ==
  TypeOK /\ HandlerInv /\ NeverSelected /\ [Next]_vars => [KeepsListed]_vars
<1> SUFFICES ASSUME TypeOK, HandlerInv, NeverSelected, [Next]_vars,
                    NEW sel \in Sellers, NEW o \in OrderIds
             PROVE  /\ (o \in OpenOrders(sel) /\ o \notin OpenOrders(sel)') =>
                          \/ db'[o].status # "new"
                          \/ \E s \in Servers : req[s].order = o /\ req[s].seller = sel
                    /\ (o \notin OpenOrders(sel) /\ o \in OpenOrders(sel)') => ~Present(db[o])
  BY DEF KeepsListed
<1> DEFINE Open(d) == d.status = "new" /\ sel \in d.target /\ ~Replied(d, sel)
<1>0. (o \in OpenOrders(sel) <=> Open(db[o])) /\ (o \in OpenOrders(sel)' <=> Open(db'[o]))
  BY DEF OpenOrders, Replied
<1>1. CASE db'[o] = db[o]
  BY <1>0, <1>1
<1>2. ASSUME NEW s \in Servers, StoreStep(s), req[s].order = o, req[s].op = "user.Post"
      PROVE  ~Present(db[o]) /\ ~Open(db[o])
  BY <1>2 DEF HandlerInv, PostIsFresh, StoreStep, Present
<1>3. ASSUME NEW s \in Servers, StoreStep(s), req[s].order = o, req[s].op # "user.Post"
      PROVE  /\ (Open(db[o]) /\ ~Open(db'[o])) => db'[o].status # "new" \/ req[s].seller = sel
             /\ ~Open(db[o]) => ~Open(db'[o])
  <2>1. /\ req[s] \in Request /\ Complete(req[s]) /\ db[o] \in Document /\ Present(db[o])
        /\ Decision(req[s], db[o]) = "write" /\ db'[o] = Effect(req[s], db[o], db[o])
    BY <1>3, StoreSeen
  <2>2. db[o].status # "selected"
    BY DEF NeverSelected
  <2>3. QED
    BY <1>3, <2>1, <2>2, ListedByWrite
<1> HIDE DEF Open
<1>4. db'[o] = db[o] \/ \E s \in Servers : StoreStep(s) /\ req[s].order = o
  BY OnlyStoresChange, StoreStepDb
<1>5. QED
  BY <1>0, <1>1, <1>2, <1>3, <1>4

\* With one server process, an order stays on the list of every seller it
\* addresses until that seller has answered or turned it down or the order is no
\* longer new, and does not come back to it.
THEOREM OrdersListedUntilAnswered ==
  ASSUME OneServer
  PROVE  Spec => ListedUntilAnswered
<1>1. Spec => []HandlerInv
  BY OrdersHandlerInv
<1>2. Spec => []NeverSelected
  BY OrdersNeverSelected
<1>3. QED
  BY <1>1, <1>2, OrdersTypeOK, StepKeepsListed, PTL DEF Spec, ListedUntilAnswered

-----------------------------------------------------------------------------
(***************************************************************************)
(* One server process: what APIE_OK means                                  *)
(***************************************************************************)

\* A query that answers APIE_OK at once has found the request's effect, or a
\* request that is ignored.
LEMMA OkAtOnce ==
  ASSUME NEW r \in Request, Complete(r), NeverSelected, Decision(r, db[r.order]) = "APIE_OK"
  PROVE  Done(r) \/ Ignored(r)
<1> DEFINE doc == db[r.order]
<1>1. doc.status # "selected" /\ r.order \in OrderIds
  BY DEF NeverSelected, Complete
<1>2. CASE r.op = "user.Post"
  BY <1>2 DEF Decision, UserPostDecision
<1>3. CASE r.op = "user.Put"
  <2>1. doc.status \in {"absent", "new", "canceled"}
    BY <1>1, <1>3 DEF Decision, UserPutDecision
  <2>2. CASE doc.status = "absent"
    BY <1>3, <2>2 DEF Ignored, Present
  <2>3. CASE doc.status = "new"
    <3>1. r.ask \notin {"canceled", "agree"}
      BY <1>3, <2>3 DEF Decision, UserPutDecision
    <3>2. QED
      BY <1>3, <2>3, <3>1 DEF Done, Ignored
  <2>4. CASE doc.status = "canceled"
    <3>1. r.ask # "delete"
      BY <1>3, <2>4 DEF Decision, UserPutDecision
    <3>2. QED
      BY <1>3, <2>4, <3>1 DEF Done, Ignored
  <2>5. QED
    BY <2>1, <2>2, <2>3, <2>4
<1>4. CASE r.op = "user.Delete"
  BY <1>4 DEF Decision, UserDeleteDecision, Done
<1>5. CASE r.op = "seller.Put"
  <2>1. r.ask \notin {"agree", "ignore", "canceled", "completed"}
    BY <1>5 DEF Decision, SellerPutDecision
  <2>2. QED
    BY <1>5, <2>1 DEF Done
<1>6. QED
  BY <1>2, <1>3, <1>4, <1>5 DEF Request, Ops, Complete

\* What the user's cancel and agree leave of a stored order.
LEMMA PutStatus ==
  ASSUME NEW r, r.op = "user.Put", NEW doc \in Document, Present(doc)
  PROVE  /\ r.ask = "canceled" => Effect(r, doc, doc).status = "canceled"
         /\ r.ask = "agree" => /\ Effect(r, doc, doc).status = "confirmed"
                               /\ Effect(r, doc, doc).selected = r.seller
BY DEF Effect, UserPutEffect, Document

\* A write has the request's effect.
LEMMA WriteIsDone ==
  ASSUME TypeOK, HandlerInv, NeverSelected, NEW s \in Servers, StoreStep(s),
         NEW r, r = req[s]
  PROVE  Done(r)'
<1> DEFINE o == r.order
           doc == db[o]
           new == db'[o]
<1>0. o \in OrderIds /\ r \in Request /\ Complete(r)
  BY DEF TypeOK, Complete, StoreStep
<1>1. CASE r.op = "user.Post"
  <2>1. new = UserPostEffect(r)
    BY <1>1, StoreStepDb DEF Effect
  <2>2. new.status = "new" /\ new.user = r.user
    BY <2>1 DEF UserPostEffect
  <2>3. QED
    BY <1>0, <1>1, <2>1, <2>2 DEF Done, UserOrders, Present
<1>2. CASE r.op # "user.Post"
  <2>1. /\ doc \in Document /\ Present(doc) /\ Decision(r, doc) = "write"
        /\ new = Effect(r, doc, doc) /\ doc.status # "selected"
    BY <1>0, <1>2, StoreSeen DEF NeverSelected
  <2> HIDE DEF doc, new
  <2>9. /\ r.ask = "agree" /\ r.op = "seller.Put"
              => new = [doc EXCEPT !.replies = Append(doc.replies, r.seller)]
        /\ r.op = "user.Put" => new = NoOrder \/ r.ask \in {"canceled", "agree"}
        /\ r.op = "seller.Put" => r.ask \in {"agree", "ignore", "canceled", "completed"}
        /\ r.op = "user.Delete" => new = NoOrder
        /\ r.op \in {"user.Put", "user.Delete", "seller.Put"}
    <3>1. r.op = "seller.Put" => r.ask \in {"agree", "ignore", "canceled", "completed"}
      BY <1>0, <1>2, <2>1, WriteDecisions
    <3>2. r.ask = "agree" /\ r.op = "seller.Put"
              => new = [doc EXCEPT !.replies = Append(doc.replies, r.seller)]
      <4>1. new = Effect(r, doc, doc) /\ r.op # "user.Post"
        BY <1>2, <2>1
      <4>2. ASSUME r.ask = "agree", r.op = "seller.Put"
            PROVE  Effect(r, doc, doc) = [doc EXCEPT !.replies = Append(doc.replies, r.seller)]
        <5>1. Effect(r, doc, doc) = AgreeEffect(r, doc, doc)
          BY <2>1, <4>2 DEF Effect, SellerPutEffect
        <5>2. QED
          BY <1>0, <2>1, <4>2, <5>1, AgreeAppends DEF Complete
      <4>3. QED
        BY <4>1, <4>2
    <3>3. r.op = "user.Put" => new = NoOrder \/ r.ask \in {"canceled", "agree"}
      <4>1. r.op = "user.Put" => r.ask \in {"canceled", "agree", "delete"}
        BY <1>0, <1>2, <2>1, WriteDecisions
      <4>2. QED
        BY <2>1, <4>1 DEF Effect, UserPutEffect
    <3>4. r.op = "user.Delete" => new = NoOrder
      BY <1>0, <1>2, <2>1, WriteDecisions DEF Effect, UserDeleteEffect
    <3>5. r.op \in {"user.Put", "user.Delete", "seller.Put"}
      BY <1>0, <1>2, <2>1, WriteDecisions
    <3>6. QED
      BY <3>1, <3>2, <3>3, <3>4, <3>5
  <2>2. CASE r.op # "seller.Put" /\ new = NoOrder
    <3>1. r.op \in {"user.Put", "user.Delete"}
      BY <1>0, <1>2, <2>2 DEF Request, Ops, Complete
    <3>2. ~Present(new) /\ new.status = "absent"
      BY <2>2 DEF NoOrder, Present
    <3>3. CASE r.op = "user.Put"
      <4>1. r.ask \in {"canceled", "agree", "delete"}
        BY <1>2, <2>1, <3>3, <1>0, WriteDecisions
      <4>2. r.ask \notin {"canceled", "agree"}
        BY <2>1, <3>2, <3>3, PutStatus
      <4>3. r.ask = "delete"
        BY <4>1, <4>2
      <4>4. QED
        BY <3>2, <3>3, <4>3 DEF Done, new
    <3>4. QED
      BY <3>1, <3>2, <3>3 DEF Done, new
  <2>3. CASE r.op = "user.Put" /\ r.ask = "canceled"
    <3>1. new.status = "canceled"
      BY <2>1, <2>3, PutStatus
    <3>2. QED
      BY <2>3, <3>1 DEF Done, new
  <2>4. CASE r.op = "user.Put" /\ r.ask = "agree"
    <3>1. new.status = "confirmed" /\ new.selected = r.seller
      BY <2>1, <2>4, PutStatus
    <3>2. QED
      BY <2>4, <3>1 DEF Done, new
  <2>5. CASE r.op = "seller.Put" /\ r.ask = "agree"
    <3>1. new = [doc EXCEPT !.replies = Append(doc.replies, r.seller)] /\ r.seller \in Sellers
      BY <1>0, <2>5, <2>9 DEF Complete
    <3>2. Replied(new, r.seller)
      BY <2>1, <3>1, AppendReplied
    <3>3. (o \in RepliedOrders(r.seller) \ OpenOrders(r.seller))'
      BY <1>0, <3>2 DEF RepliedOrders, OpenOrders, Replied, new
    <3>4. new.status = "new" => (r.seller \in OrderReplies(db[r.order].user, r.order, 0, Len(db[r.order].replies), Sellers))'
      <4>1. {new.replies[i] : i \in (0 + 1)..Len(new.replies)} = {new.replies[i] : i \in 1..Len(new.replies)}
        OBVIOUS
      <4>2. r.seller \in {new.replies[i] : i \in (0 + 1)..Len(new.replies)}
        BY <3>2, <4>1 DEF Replied
      <4>3. (IF Len(new.replies) < Len(new.replies) THEN Len(new.replies) ELSE Len(new.replies)) = Len(new.replies)
        OBVIOUS
      <4>4. QED
        BY <3>1, <4>2, <4>3 DEF OrderReplies, new
    <3>5. QED
      BY <2>5, <3>3, <3>4 DEF Done, new
  <2>6. CASE r.op = "seller.Put" /\ r.ask = "completed"
    <3>1. new.status = "completed"
      BY <1>0, <1>2, <2>1, <2>6 DEF Effect, SellerPutEffect, Document
    <3>2. QED
      BY <2>6, <3>1 DEF Done, new
  <2>7. CASE r.op = "seller.Put" /\ r.ask \in {"ignore", "canceled"}
    <3>1. r.seller \notin new.target
      BY <1>0, <1>2, <2>1, <2>7 DEF Effect, SellerPutEffect, Document
    <3>2. (o \notin OpenOrders(r.seller))'
      BY <3>1 DEF OpenOrders, new
    <3>3. QED
      BY <2>7, <3>1, <3>2 DEF Done, new
  <2>8. QED
    BY <2>2, <2>3, <2>4, <2>5, <2>6, <2>7, <2>9
<1>3. QED
  BY <1>1, <1>2

\* The effect is there before the notification is made.
DoneBeforePush == \A s \in Servers : pc[s] = "push" => Done(req[s])

\* A step that leaves DB_ORDER alone leaves what has been done.
LEMMA DoneStays ==
  ASSUME UNCHANGED db, NEW r, Done(r)
  PROVE  Done(r)'
BY DEF Done, UserOrders, RepliedOrders, OpenOrders, OrderReplies, Replied

LEMMA InitDoneBeforePush == Init => DoneBeforePush
BY DEF Init, DoneBeforePush

\* A step of the only server that pushes, or has just answered, for request r.
LEMMA ServedOne ==
  ASSUME OneServer, NEW s \in Servers, NEW r, r = req'[s], Done(r)'
  PROVE  DoneBeforePush'
<1>1. Done(req[s])'
  BY DEF Done, UserOrders, RepliedOrders, OpenOrders, OrderReplies
<1>2. QED
  BY <1>1 DEF OneServer, DoneBeforePush

\* Every step of the only server keeps DoneBeforePush and answers truly.
LEMMA ServedStep ==
  ASSUME OneServer, TypeOK, HandlerInv, NeverSelected, DoneBeforePush, [Next]_vars
  PROVE  DoneBeforePush' /\ AnswersTruly
<1> DEFINE Answers(s) == pc[s] # "idle" /\ pc'[s] = "idle" /\ answer'[s] = "APIE_OK"
           Served == DoneBeforePush' /\ AnswersTruly
<1>1. ASSUME NEW s \in Servers, pc'[s] # "push", ~Answers(s) PROVE Served
  BY <1>1 DEF OneServer, DoneBeforePush, AnswersTruly
<1>2. ASSUME NEW s \in Servers, pc'[s] # "push", pc[s] = "query", Ignored(req[s]) PROVE Served
  BY <1>2 DEF OneServer, DoneBeforePush, AnswersTruly
<1>3. ASSUME NEW s \in Servers, NEW r, r = req[s], r = req'[s], Done(r)' PROVE Served
  <2>1. DoneBeforePush'
    BY <1>3, ServedOne
  <2>2. Done(req[s])'
    BY <1>3 DEF Done, UserOrders, RepliedOrders, OpenOrders, OrderReplies
  <2>3. QED
    BY <2>1, <2>2 DEF OneServer, AnswersTruly
<1> HIDE DEF Served
<1>4. ASSUME NEW s \in Servers, Receive(s) PROVE Served
  <2>1. pc[s] = "idle" /\ pc'[s] \in {"idle", "query"}
    BY <1>4 DEF Receive, UserOrderPost, UserOrderPut, UserOrderDelete, SellerOrderPut, Accept, Reject,
                TypeOK
  <2>2. QED
    BY <1>1, <2>1
<1>5. ASSUME NEW s \in Servers, Query(s) PROVE Served
  <2> DEFINE decision == Decision(req[s], db[req[s].order])
  <2>1. UNCHANGED <<db, req>> /\ req[s] \in Request /\ Complete(req[s]) /\ pc[s] = "query"
    BY <1>5 DEF Query, TypeOK
  <2>2. CASE decision = "write"
    BY <1>1, <1>5, <2>2 DEF Query, TypeOK
  <2>3. CASE decision # "write"
    <3>1. pc'[s] = "idle" /\ answer'[s] = decision
      BY <1>5, <2>3 DEF Query, Finish, TypeOK
    <3>2. CASE decision # "APIE_OK"
      BY <1>1, <3>1, <3>2
    <3>3. CASE decision = "APIE_OK"
      <4>1. PICK r : r = req[s] /\ (Done(r) \/ Ignored(r))
        BY <2>1, <3>3, OkAtOnce
      <4>2. CASE Ignored(r)
        BY <1>2, <2>1, <3>1, <4>1, <4>2
      <4>3. CASE Done(r)
        <5>1. Done(r)'
          BY <2>1, <4>3, DoneStays
        <5>2. QED
          BY <1>3, <2>1, <4>1, <5>1
      <4>4. QED
        BY <4>1, <4>2, <4>3
    <3>4. QED
      BY <3>2, <3>3
  <2>4. QED
    BY <2>2, <2>3
<1>6. ASSUME NEW s \in Servers, Write(s) PROVE Served
  <2>1. PICK r : r = req[s]
    OBVIOUS
  <2>2. StoreStep(s) /\ req' = req
    BY <1>6 DEF Write, StoreStep
  <2>3. Done(r)'
    BY <2>1, <2>2, WriteIsDone
  <2>4. QED
    BY <1>3, <2>1, <2>2, <2>3
<1>7. ASSUME NEW s \in Servers, Push(s) PROVE Served
  <2>1. PICK r : r = req[s] /\ Done(r)
    BY <1>7 DEF DoneBeforePush, Push
  <2>2. Done(r)' /\ r = req'[s]
    BY <1>7, <2>1, DoneStays DEF Push
  <2>3. QED
    BY <1>3, <2>1, <2>2
<1>8. ASSUME NEW s \in Servers, DBException(s) \/ Crash(s) PROVE Served
  <2>1. pc'[s] = "idle" /\ answer'[s] # "APIE_OK"
    BY <1>8 DEF DBException, Crash, Finish, TypeOK
  <2>2. QED
    BY <1>1, <2>1
<1>9. ASSUME UNCHANGED <<db, pc, req, answer>> PROVE Served
  <2>1. ASSUME NEW s \in Servers, pc[s] = "push" PROVE Served
    <3>1. PICK r : r = req[s] /\ Done(r)
      BY <2>1 DEF DoneBeforePush
    <3>2. Done(r)' /\ r = req'[s]
      BY <1>9, <3>1, DoneStays
    <3>3. QED
      BY <1>3, <3>1, <3>2
  <2>2. ASSUME NEW s \in Servers, pc[s] # "push" PROVE Served
    BY <1>1, <1>9, <2>2
  <2>3. CASE Servers = {}
    BY <2>3 DEF Served, DoneBeforePush, AnswersTruly
  <2>4. QED
    BY <2>1, <2>2, <2>3
<1>10. Served
  BY <1>4, <1>5, <1>6, <1>7, <1>8, <1>9 DEF Next, Handle, RegisterUser, DeleteUser, vars
<1>11. QED
  BY <1>10 DEF Served

\* With one server process, APIE_OK means that the request has had its effect
\* and that the lists show it, wherever the handlers before it were cut short, or
\* that the query has found one of the requests that user::Order::Put ignores.
THEOREM OrdersOkMeansDone ==
  ASSUME OneServer
  PROVE  Spec => OkMeansDone
<1>1. Spec => []HandlerInv
  BY OrdersHandlerInv
<1>2. Spec => []NeverSelected
  BY OrdersNeverSelected
<1>3. TypeOK /\ HandlerInv /\ NeverSelected /\ DoneBeforePush /\ [Next]_vars
        => DoneBeforePush' /\ [AnswersTruly]_vars
  BY ServedStep
<1>4. QED
  BY <1>1, <1>2, <1>3, InitDoneBeforePush, OrdersTypeOK, PTL DEF Spec, OkMeansDone

-----------------------------------------------------------------------------
(***************************************************************************)
(* One server process: the handlers implement OrderLifecycle               *)
(***************************************************************************)

\* A Post that is about to insert has sellers to address.
PostHasTargets ==
    \A s \in Servers : (pc[s] = "write" /\ req[s].op = "user.Post") => req[s].target # {}

LEMMA InitPostHasTargets == Init => PostHasTargets
BY DEF Init, PostHasTargets

LEMMA PostHasTargetsStep ==
  ASSUME TypeOK, PostHasTargets, [Next]_vars
  PROVE  PostHasTargets'
<1>1. ASSUME NEW s \in Servers, Query(s) PROVE PostHasTargets'
  <2>1. Decision(req[s], db[req[s].order]) = "write" /\ req[s].op = "user.Post" => req[s].target # {}
    BY DEF Decision, UserPostDecision
  <2>2. QED
    BY <1>1, <2>1 DEF Query, Finish, TypeOK, PostHasTargets
<1>2. ASSUME NEW s \in Servers, Receive(s) PROVE PostHasTargets'
  BY <1>2 DEF Receive, UserOrderPost, UserOrderPut, UserOrderDelete, SellerOrderPut, Accept, Reject,
              TypeOK, PostHasTargets
<1>3. ASSUME NEW s \in Servers, Write(s) \/ Push(s) \/ DBException(s) \/ Crash(s) PROVE PostHasTargets'
  BY <1>3 DEF Write, Push, DBException, Crash, Finish, TypeOK, PostHasTargets
<1>4. CASE UNCHANGED <<pc, req>>
  BY <1>4 DEF PostHasTargets
<1>5. QED
  BY <1>1, <1>2, <1>3, <1>4 DEF Next, Handle, RegisterUser, DeleteUser, vars

LEMMA OrdersPostHasTargets == Spec => []PostHasTargets
<1>1. TypeOK /\ PostHasTargets /\ [Next]_vars => PostHasTargets'
  BY PostHasTargetsStep
<1>2. QED
  BY <1>1, InitPostHasTargets, OrdersTypeOK, PTL DEF Spec

\* The life of one order, as the refinement mapping has it.
LifeOf(o) ==
    IF Present(db[o]) THEN db[o]
    ELSE [NoOrder EXCEPT !.status = IF o \notin used \/ Pending(o) THEN "unborn" ELSE "gone"]

\* A document that is not stored is a blank one to OrderLifecycle.
LEMMA BlankOrder ==
  ASSUME NEW stage
  PROVE  [NoOrder EXCEPT !.status = stage] = Life!Blank(stage)
<1> DEFINE Blanks(x) == [user : {NoId}, status : {x}, target : {{}}, replies : {<<>>}, selected : {NoId}]
<1>1. NoOrder \in Blanks("absent")
  BY DEF NoOrder
<1>2. [NoOrder EXCEPT !.status = stage] \in Blanks(stage)
  BY <1>1
<1>3. Life!Blank(stage) \in Blanks(stage)
  BY DEF Life!Blank
<1>4. QED
  BY <1>2, <1>3

\* What one step of OrderLifecycle may make of document d.
LifeStep(d, e) ==
    \/ /\ d.status = "unborn"
       /\ \E u \in Users, T \in SUBSET Sellers :
            T # {} /\ e = [user |-> u, status |-> "new", target |-> T,
                           replies |-> <<>>, selected |-> NoId]
    \/ d.status = "unborn" /\ e = Life!Blank("gone")
    \/ d.status = "new" /\ \E x \in Sellers : e = [d EXCEPT !.replies = Append(d.replies, x)]
    \/ d.status \notin {"unborn", "gone"} /\ \E x \in Sellers : e = [d EXCEPT !.target = d.target \ {x}]
    \/ d.status = "new" /\ \E x \in Sellers \cup {NoId} : e = [d EXCEPT !.status = "confirmed", !.selected = x]
    \/ d.status = "new" /\ e = [d EXCEPT !.status = "canceled"]
    \/ d.status \notin {"unborn", "gone"} /\ e = [d EXCEPT !.status = "completed"]
    \/ d.status \notin {"unborn", "gone"} /\ e = Life!Blank("gone")

\* A step that takes one order a step further in its life is a step of OrderLifecycle.
LEMMA OneLifeStep ==
  ASSUME NEW o \in OrderIds, \A p \in OrderIds : p # o => LifeOf(p)' = LifeOf(p),
         NEW d, NEW e, d = LifeOf(o), e = LifeOf(o)', LifeStep(d, e)
  PROVE  Life!Next
<1> DEFINE M == [p \in OrderIds |-> IF Present(db[p]) THEN db[p]
                   ELSE [NoOrder EXCEPT !.status = IF p \notin used \/ Pending(p) THEN "unborn" ELSE "gone"]]
<1>1. M[o] = d /\ M' = [M EXCEPT ![o] = e]
  BY DEF LifeOf
<1> HIDE DEF M
<1>2. Life!Stored(o) <=> d.status \notin {"unborn", "gone"}
  <2>1. Life!Stored(o) <=> M[o].status \notin {"unborn", "gone"}
    BY Zenon DEF Life!Stored, M
  <2>2. QED
    BY <1>1, <2>1
<1>3. ASSUME d.status = "unborn", NEW u \in Users, NEW T \in SUBSET Sellers, T # {},
             e = [user |-> u, status |-> "new", target |-> T, replies |-> <<>>, selected |-> NoId]
      PROVE  Life!Place(o)
  <2>1. M[o].status = "unborn" /\ T # {}
        /\ M' = [M EXCEPT ![o] = [user |-> u, status |-> "new", target |-> T,
                                  replies |-> <<>>, selected |-> NoId]]
    BY <1>1, <1>3
  <2>2. QED
    BY <2>1, Zenon DEF Life!Place, Life!Become, M
<1>4. ASSUME d.status = "unborn" /\ e = Life!Blank("gone") PROVE Life!Abandon(o)
  <2>1. M[o].status = "unborn" /\ M' = [M EXCEPT ![o] = Life!Blank("gone")]
    BY <1>1, <1>4
  <2>2. QED
    BY <2>1, Zenon DEF Life!Abandon, Life!Become, M
<1>5. ASSUME d.status = "new", NEW x \in Sellers, e = [d EXCEPT !.replies = Append(d.replies, x)]
      PROVE  Life!Offer(o)
  <2>1. M[o].status = "new" /\ M' = [M EXCEPT ![o] = [M[o] EXCEPT !.replies = Append(M[o].replies, x)]]
    BY <1>1, <1>5
  <2>2. QED
    BY <2>1, Zenon DEF Life!Offer, Life!Become, M
<1>6. ASSUME d.status \notin {"unborn", "gone"}, NEW x \in Sellers, e = [d EXCEPT !.target = d.target \ {x}]
      PROVE  Life!Decline(o)
  <2>1. Life!Stored(o) /\ M' = [M EXCEPT ![o] = [M[o] EXCEPT !.target = M[o].target \ {x}]]
    BY <1>1, <1>2, <1>6
  <2>2. QED
    BY <2>1, Zenon DEF Life!Decline, Life!Become, M
<1>7. ASSUME d.status = "new", NEW x \in Sellers \cup {NoId},
             e = [d EXCEPT !.status = "confirmed", !.selected = x]
      PROVE  Life!Select(o)
  <2>1. M[o].status = "new" /\ M' = [M EXCEPT ![o] = [M[o] EXCEPT !.status = "confirmed", !.selected = x]]
    BY <1>1, <1>7
  <2>2. QED
    BY <2>1, Zenon DEF Life!Select, Life!Become, M
<1>8. ASSUME d.status = "new" /\ e = [d EXCEPT !.status = "canceled"] PROVE Life!Cancel(o)
  <2>1. M[o].status = "new" /\ M' = [M EXCEPT ![o] = [M[o] EXCEPT !.status = "canceled"]]
    BY <1>1, <1>8
  <2>2. QED
    BY <2>1, Zenon DEF Life!Cancel, Life!Become, M
<1>9. ASSUME d.status \notin {"unborn", "gone"} /\ e = [d EXCEPT !.status = "completed"] PROVE Life!Complete(o)
  <2>1. Life!Stored(o) /\ M' = [M EXCEPT ![o] = [M[o] EXCEPT !.status = "completed"]]
    BY <1>1, <1>2, <1>9
  <2>2. QED
    BY <2>1, Zenon DEF Life!Complete, Life!Become, M
<1>10. ASSUME d.status \notin {"unborn", "gone"} /\ e = Life!Blank("gone") PROVE Life!Remove(o)
  <2>1. Life!Stored(o) /\ M' = [M EXCEPT ![o] = Life!Blank("gone")]
    BY <1>1, <1>2, <1>10
  <2>2. QED
    BY <2>1, Zenon DEF Life!Remove, Life!Become, M
<1>11. Life!Place(o) \/ Life!Abandon(o) \/ Life!Offer(o) \/ Life!Decline(o) \/ Life!Select(o)
       \/ Life!Cancel(o) \/ Life!Complete(o) \/ Life!Remove(o) => Life!Next
  BY DEF Life!Next
<1>12. QED
  BY <1>3, <1>4, <1>5, <1>6, <1>7, <1>8, <1>9, <1>10, <1>11 DEF LifeStep

\* What a step does to the lives of the orders: nothing, or one step of one life.
LifeMoves ==
    \/ \A p \in OrderIds : LifeOf(p)' = LifeOf(p)
    \/ \E o \in OrderIds : \E d, e :
          /\ \A p \in OrderIds : p # o => LifeOf(p)' = LifeOf(p)
          /\ d = LifeOf(o) /\ e = LifeOf(o)' /\ LifeStep(d, e)

\* The only server takes a request: the identifier of a Post is used, and awaited.
LEMMA ReceiveLife ==
  ASSUME OneServer, TypeOK, NEW s \in Servers, Receive(s)
  PROVE  LifeMoves
<1>1. UNCHANGED db /\ pc[s] = "idle" /\ \A t \in Servers : t = s
  BY DEF Receive, UserOrderPost, UserOrderPut, UserOrderDelete, SellerOrderPut, Accept, Reject, OneServer
<1>2. \A p \in OrderIds : ~Pending(p)
  BY <1>1 DEF Pending
<1>3. ASSUME NEW u \in Users, NEW T \in SUBSET Sellers, NEW o \in OrderIds, UserOrderPost(s, u, T, o)
      PROVE  \A p \in OrderIds : (p \notin used' \/ Pending(p)') <=> p \notin used
  <2>1. /\ o \notin used /\ used' = used \cup {o}
        /\ pc'[s] = "query" /\ req'[s].op = "user.Post" /\ req'[s].order = o
    BY <1>3 DEF UserOrderPost, Accept, TypeOK
  <2>2. \A p \in OrderIds : Pending(p)' <=> p = o
    BY <1>1, <2>1 DEF Pending
  <2>3. QED
    BY <2>1, <2>2
<1>4. CASE Reject(s) \/ req'[s].op # "user.Post"
  <2>1. \A p \in OrderIds : ~Pending(p)'
    BY <1>1, <1>4 DEF Pending, Reject
  <2>2. UNCHANGED used \/ \E u \in Users, T \in SUBSET Sellers, o \in OrderIds : UserOrderPost(s, u, T, o)
    BY DEF Receive, UserOrderPut, UserOrderDelete, SellerOrderPut, Reject
  <2>3. QED
    BY <1>1, <1>2, <1>3, <2>1, <2>2 DEF LifeMoves, LifeOf
<1>5. CASE \E u \in Users, T \in SUBSET Sellers, o \in OrderIds : UserOrderPost(s, u, T, o)
  BY <1>1, <1>2, <1>3, <1>5 DEF LifeMoves, LifeOf
<1>6. ASSUME ~Reject(s), req'[s].op = "user.Post"
      PROVE \E u \in Users, T \in SUBSET Sellers, o \in OrderIds : UserOrderPost(s, u, T, o)
  BY <1>6 DEF Receive, UserOrderPut, UserOrderDelete, SellerOrderPut, Accept, TypeOK
<1>7. QED
  BY <1>4, <1>5, <1>6

\* The handler ends and stores nothing: a Post that has not inserted abandons its identifier.
LEMMA EndLife ==
  ASSUME OneServer, TypeOK, HandlerInv, NEW s \in Servers, pc[s] # "idle", pc'[s] = "idle",
         UNCHANGED <<db, used, req>>
  PROVE  LifeMoves
<1>1. \A p : ~Pending(p)'
  BY IdleServer
<1>2. CASE pc[s] = "push" \/ req[s].op # "user.Post"
  <2>1. \A p \in OrderIds : ~Pending(p)
    BY <1>2 DEF Pending, OneServer
  <2>2. QED
    BY <1>1, <2>1 DEF LifeMoves, LifeOf
<1>3. CASE pc[s] # "push" /\ req[s].op = "user.Post"
  <2>1. PICK o \in OrderIds : o = req[s].order
    BY DEF TypeOK, Complete
  <2>2. pc[s] \in {"query", "write"} /\ o \in used /\ ~Present(db[o])
    BY <1>3, <2>1 DEF TypeOK, HandlerInv, PostIsFresh
  <2>3. \A p \in OrderIds : Pending(p) <=> p = o
    BY <1>3, <2>1, <2>2 DEF Pending, OneServer
  <2>4. PICK d, e : d = LifeOf(o) /\ e = LifeOf(o)'
    OBVIOUS
  <2>5. d.status = "unborn" /\ e = Life!Blank("gone")
    BY <1>1, <2>2, <2>3, <2>4 DEF LifeOf, NoOrder, Life!Blank
  <2>6. LifeStep(d, e)
    BY <2>5 DEF LifeStep
  <2>7. \A p \in OrderIds : p # o => LifeOf(p)' = LifeOf(p)
    BY <1>1, <2>3 DEF LifeOf
  <2>8. QED
    BY <2>4, <2>6, <2>7 DEF LifeMoves
<1>4. QED
  BY <1>2, <1>3

\* The write of a handler is one step in the life of its order.
LEMMA StoreLife ==
  ASSUME OneServer, TypeOK, HandlerInv, NeverSelected, PostHasTargets, NEW s \in Servers, StoreStep(s),
         pc'[s] \in {"idle", "push"}, UNCHANGED used
  PROVE  LifeMoves
<1>1. \A p \in OrderIds : ~Pending(p)'
  BY DEF Pending, OneServer
<1>2. PICK o \in OrderIds, r \in Request : o = req[s].order /\ r = req[s] /\ Complete(r)
  BY DEF TypeOK, Complete, StoreStep
<1>3. \A p \in OrderIds : p # o => ~Pending(p) /\ db'[p] = db[p]
  BY <1>2, StoreStepDb DEF Pending, OneServer
<1>4. \A p \in OrderIds : p # o => LifeOf(p)' = LifeOf(p)
  BY <1>1, <1>3 DEF LifeOf
<1>5. PICK d, e : d = LifeOf(o) /\ e = LifeOf(o)'
  OBVIOUS
<1>6. LifeStep(d, e)
  <2>1. CASE r.op = "user.Post"
    <3>1. Pending(o) /\ ~Present(db[o])
      BY <1>2, <2>1 DEF Pending, StoreStep, HandlerInv, PostIsFresh
    <3>2. db'[o] = UserPostEffect(r)
      BY <1>2, <2>1, StoreStepDb DEF Effect
    <3>3. d.status = "unborn" /\ e = UserPostEffect(r)
      BY <1>5, <3>1, <3>2 DEF LifeOf, NoOrder, UserPostEffect, Present
    <3>4. r.user \in Users /\ r.target \in SUBSET Sellers /\ r.target # {}
      BY <1>2, <2>1 DEF Complete, Request, PostHasTargets, StoreStep
    <3>5. QED
      BY <3>3, <3>4 DEF LifeStep, UserPostEffect
  <2>2. CASE r.op # "user.Post"
    <3>1. /\ db[o] \in Document /\ Present(db[o]) /\ Decision(r, db[o]) = "write"
          /\ db'[o] = Effect(r, db[o], db[o])
      BY <1>2, <2>2, StoreSeen
    <3>2. d = db[o]
      BY <1>5, <3>1 DEF LifeOf
    <3>3. d \in Document /\ Present(d) /\ d.status # "selected" /\ Decision(r, d) = "write"
      BY <3>1, <3>2 DEF NeverSelected
    <3>4. o \in used
      BY <3>1 DEF HandlerInv, StoredIsUsed
    <3>5. e = IF Present(Effect(r, d, d)) THEN Effect(r, d, d) ELSE Life!Blank("gone")
      <4>1. [NoOrder EXCEPT !.status = "gone"] = Life!Blank("gone")
        BY BlankOrder
      <4>2. e = IF Present(db'[o]) THEN db'[o] ELSE [NoOrder EXCEPT !.status = "gone"]
        BY <1>1, <1>5, <3>4 DEF LifeOf
      <4>3. QED
        BY <3>1, <3>2, <4>1, <4>2
    <3>6. d.status \notin {"unborn", "gone"} /\ r.seller \in Sellers \cup {NoId}
          /\ (r.op = "seller.Put" => r.seller \in Sellers)
      BY <1>2, <3>3 DEF Document, Statuses, Request, Complete
    <3>7. CASE Effect(r, d, d) = NoOrder
      <4>1. e = Life!Blank("gone")
        BY <3>5, <3>7 DEF Present, NoOrder
      <4>2. QED
        BY <3>6, <4>1 DEF LifeStep
    <3>8. CASE d.status = "new" /\ Effect(r, d, d) = [d EXCEPT !.status = "canceled"]
      <4>1. e = [d EXCEPT !.status = "canceled"]
        BY <3>3, <3>5, <3>8 DEF Present, Document
      <4>2. QED
        BY <3>8, <4>1 DEF LifeStep
    <3>9. CASE d.status = "new" /\ Effect(r, d, d) = [d EXCEPT !.status = "confirmed", !.selected = r.seller]
      <4>1. e = [d EXCEPT !.status = "confirmed", !.selected = r.seller]
        BY <3>3, <3>5, <3>9 DEF Present, Document
      <4>2. QED
        BY <3>6, <3>9, <4>1 DEF LifeStep
    <3>10. CASE r.op = "seller.Put" /\ d.status = "new"
                /\ Effect(r, d, d) = [d EXCEPT !.replies = Append(d.replies, r.seller)]
      <4>1. e = [d EXCEPT !.replies = Append(d.replies, r.seller)]
        BY <3>3, <3>5, <3>10 DEF Present, Document
      <4>2. QED
        BY <3>6, <3>10, <4>1 DEF LifeStep
    <3>11. CASE Effect(r, d, d) = [d EXCEPT !.status = "completed"]
      <4>1. e = [d EXCEPT !.status = "completed"]
        BY <3>3, <3>5, <3>11 DEF Present, Document
      <4>2. QED
        BY <3>6, <4>1 DEF LifeStep
    <3>12. CASE r.op = "seller.Put" /\ Effect(r, d, d) = [d EXCEPT !.target = d.target \ {r.seller}]
      <4>1. e = [d EXCEPT !.target = d.target \ {r.seller}]
        BY <3>3, <3>5, <3>12 DEF Present, Document
      <4>2. QED
        BY <3>6, <3>12, <4>1 DEF LifeStep
    <3>13. QED
      BY <1>2, <2>2, <3>3, <3>7, <3>8, <3>9, <3>10, <3>11, <3>12, StoredBecomes
  <2>3. QED
    BY <2>1, <2>2
<1>7. QED
  BY <1>4, <1>5, <1>6 DEF LifeMoves

LEMMA StepLife ==
  ASSUME OneServer, TypeOK, HandlerInv, NeverSelected, PostHasTargets, [Next]_vars
  PROVE  LifeMoves
<1>1. ASSUME NEW s \in Servers, Receive(s) PROVE LifeMoves
  BY <1>1, ReceiveLife
<1>2. ASSUME NEW s \in Servers, Query(s) PROVE LifeMoves
  <2>1. CASE pc' = [pc EXCEPT ![s] = "write"]
    <3>1. UNCHANGED <<db, used, req>> /\ pc[s] = "query" /\ pc'[s] = "write"
      BY <1>2, <2>1 DEF Query, TypeOK
    <3>2. \A p \in OrderIds : Pending(p)' <=> Pending(p)
      BY <3>1 DEF Pending, OneServer
    <3>3. QED
      BY <3>1, <3>2 DEF LifeMoves, LifeOf
  <2>2. CASE Finish(s, Decision(req[s], db[req[s].order]))
    <3>1. UNCHANGED <<db, used, req>> /\ pc[s] # "idle" /\ pc'[s] = "idle"
      BY <1>2, <2>2 DEF Query, Finish, TypeOK
    <3>2. QED
      BY <3>1, EndLife
  <2>3. QED
    BY <1>2, <2>1, <2>2 DEF Query
<1>3. ASSUME NEW s \in Servers, Write(s) PROVE LifeMoves
  <2>1. StoreStep(s) /\ pc'[s] \in {"idle", "push"} /\ UNCHANGED used
    BY <1>3 DEF Write, StoreStep, Finish, TypeOK
  <2>2. QED
    BY <2>1, StoreLife
<1>4. ASSUME NEW s \in Servers, Push(s) \/ DBException(s) \/ Crash(s) PROVE LifeMoves
  <2>1. pc[s] # "idle" /\ pc'[s] = "idle" /\ UNCHANGED <<used, req>>
    BY <1>4 DEF Push, DBException, Crash, Finish, TypeOK
  <2>2. CASE UNCHANGED db
    BY <2>1, <2>2, EndLife
  <2>3. CASE StoreStep(s)
    BY <2>1, <2>3, StoreLife
  <2>4. QED
    BY <1>4, <2>2, <2>3 DEF Push, DBException, Crash, StoreStep
<1>5. CASE UNCHANGED <<db, used, pc, req>>
  BY <1>5 DEF LifeMoves, LifeOf, Pending
<1>6. QED
  BY <1>1, <1>2, <1>3, <1>4, <1>5 DEF Next, Handle, RegisterUser, DeleteUser, vars

\* With one server process, every step of the handlers is a step of
\* OrderLifecycle, or none: the read, the decision and the write of a request
\* look like one step, whatever happens to the request in between.
THEOREM OrdersLifecycle ==
  ASSUME OneServer
  PROVE  Spec => LifecycleImplemented
<1> DEFINE M == [o \in OrderIds |-> IF Present(db[o]) THEN db[o]
                   ELSE [NoOrder EXCEPT !.status = IF o \notin used \/ Pending(o) THEN "unborn" ELSE "gone"]]
<1>1. Init => Life!Init
  <2>1. [NoOrder EXCEPT !.status = "unborn"] = Life!Blank("unborn")
    BY BlankOrder
  <2>2. Init => M = [o \in OrderIds |-> [NoOrder EXCEPT !.status = "unborn"]]
    <3>1. ~Present(NoOrder)
      BY DEF Present, NoOrder
    <3>2. QED
      BY <3>1 DEF Init
  <2>3. QED
    BY <2>1, <2>2 DEF Life!Init
<1>2. TypeOK /\ HandlerInv /\ NeverSelected /\ PostHasTargets /\ [Next]_vars => [Life!Next]_M
  <2> SUFFICES ASSUME TypeOK, HandlerInv, NeverSelected, PostHasTargets, [Next]_vars
               PROVE  Life!Next \/ UNCHANGED M
    OBVIOUS
  <2>1. LifeMoves
    BY StepLife
  <2>2. CASE \A p \in OrderIds : LifeOf(p)' = LifeOf(p)
    BY <2>2 DEF LifeOf
  <2>3. ASSUME NEW o \in OrderIds, NEW d, NEW e, \A p \in OrderIds : p # o => LifeOf(p)' = LifeOf(p),
               d = LifeOf(o), e = LifeOf(o)', LifeStep(d, e)
        PROVE  Life!Next
    BY <2>3, OneLifeStep
  <2>4. QED
    BY <2>1, <2>2, <2>3 DEF LifeMoves
<1>3. Spec => []HandlerInv
  BY OrdersHandlerInv
<1>4. Spec => []NeverSelected
  BY OrdersNeverSelected
<1>5. QED
  BY <1>1, <1>2, <1>3, <1>4, OrdersTypeOK, OrdersPostHasTargets, PTL
     DEF Spec, LifecycleImplemented, Life!Spec


-----------------------------------------------------------------------------
(***************************************************************************)
(* The inductive invariant                                                 *)
(***************************************************************************)

\* msg-server has a message while it handles one, and a cursor once it has
\* queried; its queue is there only while it is bound.
HandlingState ==
    /\ current # 0 <=> server \in {"query", "send"}
    /\ server # "send" => cursor = {}
    /\ server \notin Bound => queue = <<>>

\* The queue holds published messages in their order, behind the current one.
QueueInOrder ==
    /\ \A k, l \in 1..Len(queue) : k < l => queue[k] < queue[l]
    /\ \A k \in 1..Len(queue) : current < queue[k] /\ queue[k] <= Len(published)
    /\ current <= Len(published)
    /\ Len(published) <= MaxMessages

\* No message is in two of the places a message may be in.
PlacesApart ==
    /\ \A i \in done \cup lost : i <= Len(published) /\ i # current /\ i \notin InQueue
    /\ done \cap lost = {}

\* Every message that was published is in one of them.
NoneMissing ==
    \A i \in 1..Len(published) : i \in InQueue \/ i = current \/ i \in done \/ i \in lost

\* What the cursor holds are the addressees of the current message, one document each.
CursorOfCurrent ==
    /\ \A d \in cursor : d.role = published[current].to /\ d.id \in published[current].targets
    /\ \A d, e \in cursor : d.id = e.id => d = e

\* The requests are for messages that have left the queue, those for the
\* current message for documents that have left the cursor.
RequestsBehind ==
    \A k \in 1..Len(requests) :
        LET q == requests[k]
        IN /\ q.msg <= Len(published)
           /\ \A l \in 1..Len(queue) : q.msg < queue[l]
           /\ server = "query" => q.msg < current
           /\ server = "send" => \/ q.msg < current
                                 \/ q.msg = current /\ \A d \in cursor : d.id # q.doc.id

\* A request is for an addressee of its message, in the role the message is for,
\* and carries the channel of the session it is for if its message has one addressee.
RequestsAddressed ==
    \A k \in 1..Len(requests) :
        LET q == requests[k]
            m == published[q.msg]
        IN /\ q.doc.id \in m.targets
           /\ q.key = m.to /\ q.doc.role = m.to
           /\ q.channel = IF m.method = "single" THEN q.doc.session ELSE NoChannel

DeliveryInv ==
    /\ HandlingState
    /\ QueueInOrder
    /\ PlacesApart
    /\ NoneMissing
    /\ CursorOfCurrent
    /\ RequestsBehind
    /\ RequestsAddressed
    /\ OnceAndInOrder

DeliveryOK == DeliveryTypeOK /\ DeliveryInv

-----------------------------------------------------------------------------
(***************************************************************************)
(* What the proofs need of sequences and types                             *)
(***************************************************************************)

LEMMA Elements ==
  ASSUME NEW S, NEW q \in Seq(S)
  PROVE  Len(q) \in Nat /\ \A k \in 1..Len(q) : q[k] \in S
OBVIOUS

LEMMA Appended ==
  ASSUME NEW S, NEW q \in Seq(S), NEW x \in S
  PROVE  LET a == Append(q, x)
         IN /\ a \in Seq(S) /\ Len(a) = Len(q) + 1 /\ a[Len(q) + 1] = x
            /\ \A k \in 1..Len(q) : a[k] = q[k]
OBVIOUS

\* The numbers of the state.
LEMMA Shape ==
  ASSUME DeliveryTypeOK
  PROVE  /\ Len(published) \in Nat /\ Len(queue) \in Nat /\ Len(requests) \in Nat
         /\ current \in Nat /\ MaxMessages \in Nat
         /\ \A k \in 1..Len(queue) : queue[k] \in Nat /\ 1 <= queue[k] /\ queue[k] <= MaxMessages
         /\ \A k \in 1..Len(requests) :
              requests[k] \in PushRequest /\ requests[k].msg \in Nat /\ 1 <= requests[k].msg
         /\ \A i \in done \cup lost : i \in Nat /\ 1 <= i
<1>1. /\ published \in Seq(Notice) /\ queue \in Seq(1..MaxMessages) /\ requests \in Seq(PushRequest)
      /\ current \in 0..MaxMessages /\ done \cup lost \in SUBSET (1..MaxMessages)
  BY DEF DeliveryTypeOK
<1>2. Len(published) \in Nat
  BY <1>1, Elements
<1>3. Len(queue) \in Nat /\ \A k \in 1..Len(queue) : queue[k] \in 1..MaxMessages
  BY <1>1, Elements
<1>4. Len(requests) \in Nat /\ \A k \in 1..Len(requests) : requests[k] \in PushRequest
  BY <1>1, Elements
<1>5. \A r \in PushRequest : r.msg \in 1..MaxMessages
  BY DEF PushRequest
<1>6. QED
  BY <1>1, <1>2, <1>3, <1>4, <1>5, MessageAssumption

-----------------------------------------------------------------------------
(***************************************************************************)
(* Every step keeps the invariant                                          *)
(***************************************************************************)

\* What the query may return are session documents, one for each role and identifier.
LEMMA OpenDocuments ==
  ASSUME DeliveryTypeOK, NEW d \in OpenSessions
  PROVE  /\ d \in SessionDocument
         /\ d = [role |-> d.role, id |-> d.id, session |-> session[d.role][d.id]]
<1>1. PICK r \in Roles, i \in Ids :
        d = [role |-> r, id |-> i, session |-> session[r][i]] /\ session[r][i] # NoSession
  BY DEF OpenSessions
<1>2. session[r][i] \in Session
  BY <1>1 DEF DeliveryTypeOK
<1>3. QED
  BY <1>1, <1>2 DEF SessionDocument

LEMMA InitDelivery == DeliveryInit => DeliveryOK
<1> SUFFICES ASSUME DeliveryInit PROVE DeliveryOK
  OBVIOUS
<1> USE DEF DeliveryInit
<1>1. DeliveryTypeOK
  BY MessageAssumption DEF DeliveryTypeOK, Bound
<1>2. HandlingState /\ QueueInOrder /\ PlacesApart /\ NoneMissing
  BY MessageAssumption DEF HandlingState, QueueInOrder, PlacesApart, NoneMissing, InQueue, Bound
<1>3. CursorOfCurrent /\ RequestsBehind /\ RequestsAddressed /\ OnceAndInOrder
  BY DEF CursorOfCurrent, RequestsBehind, RequestsAddressed, OnceAndInOrder
<1>4. QED
  BY <1>1, <1>2, <1>3 DEF DeliveryOK, DeliveryInv

\* A login changes the session it is for.
LEMMA LoginDelivery ==
  ASSUME DeliveryOK, NEW r \in Roles, NEW s \in Session, NEW i \in IdsOf(r), Login(r, i, s)
  PROVE  DeliveryOK'
<1>1. i \in Ids
  BY DEF IdsOf, Ids
<1>2. session' \in [Roles -> [Ids -> Session \cup {NoSession}]]
  BY <1>1 DEF DeliveryOK, DeliveryTypeOK, Login
<1>3. UNCHANGED <<published, queue, server, current, cursor, done, lost, requests>>
  BY DEF Login
<1>a. held' \in SUBSET SessionDocument
  <2>1. [role |-> r, id |-> i, session |-> s] \in SessionDocument
    BY <1>1 DEF SessionDocument
  <2>2. QED
    BY <2>1 DEF Login, To, DeliveryOK, DeliveryTypeOK
<1>4. DeliveryTypeOK'
  BY <1>2, <1>3, <1>a DEF DeliveryOK, DeliveryTypeOK
<1>5. DeliveryInv'
  BY <1>3 DEF DeliveryOK, DeliveryInv, HandlingState, QueueInOrder, PlacesApart, NoneMissing, InQueue,
              CursorOfCurrent, RequestsBehind, RequestsAddressed, OnceAndInOrder
<1>6. QED
  BY <1>4, <1>5 DEF DeliveryOK

\* A message is published: it is the last of all, and joins the queue or is lost.
LEMMA PublishDelivery ==
  ASSUME DeliveryOK, NEW m \in Notice, Publish(m)
  PROVE  DeliveryOK'
<1>0. DeliveryTypeOK /\ DeliveryInv
  BY DEF DeliveryOK
<1>n. PICK n \in 1..MaxMessages : n = Len(published) + 1
  BY <1>0, Shape DEF Publish
<1>1. /\ published' = Append(published, m)
      /\ UNCHANGED <<session, server, current, cursor, done, requests, held>>
  BY <1>0 DEF Publish
<1>2. /\ published' \in Seq(Notice) /\ Len(published') = n
      /\ \A i \in 1..Len(published) : published'[i] = published[i]
  BY <1>0, <1>n, <1>1, Appended DEF DeliveryTypeOK
<1>3. \/ server \in Bound /\ queue' = Append(queue, n) /\ lost' = lost
      \/ server \notin Bound /\ queue' = queue /\ lost' = lost \cup {n}
  BY <1>n DEF Publish
<1>4. queue' \in Seq(1..MaxMessages) /\ lost' \in SUBSET (1..MaxMessages)
  <2>1. queue \in Seq(1..MaxMessages) /\ lost \in SUBSET (1..MaxMessages)
    BY <1>0 DEF DeliveryTypeOK
  <2>2. Append(queue, n) \in Seq(1..MaxMessages)
    BY <2>1, Appended
  <2>3. QED
    BY <1>3, <2>1, <2>2
<1>5. DeliveryTypeOK'
  BY <1>0, <1>1, <1>2, <1>4 DEF DeliveryTypeOK
<1>a. server \in Bound => /\ Len(queue') = Len(queue) + 1 /\ queue'[Len(queue) + 1] = n
                          /\ \A k \in 1..Len(queue) : queue'[k] = queue[k]
  BY <1>0, <1>3, Appended DEF DeliveryTypeOK
<1>6. \A k \in 1..Len(queue') : \/ k \in 1..Len(queue) /\ queue'[k] = queue[k]
                                \/ k = Len(queue) + 1 /\ queue'[k] = n
  BY <1>0, <1>3, <1>a, Shape
<1>7. /\ \A k \in 1..Len(queue) : k \in 1..Len(queue') /\ queue'[k] = queue[k]
      /\ server \in Bound => Len(queue) + 1 \in 1..Len(queue') /\ queue'[Len(queue) + 1] = n
  BY <1>0, <1>3, <1>a, Shape
<1>8. HandlingState'
  BY <1>0, <1>1, <1>3 DEF DeliveryInv, HandlingState
<1>9. QueueInOrder'
  <2>1. /\ \A k, l \in 1..Len(queue) : k < l => queue[k] < queue[l]
        /\ \A k \in 1..Len(queue) : current < queue[k] /\ queue[k] < n /\ queue[k] \in Nat
        /\ current < n /\ Len(queue) \in Nat /\ n \in Nat /\ current \in Nat /\ n <= MaxMessages
    BY <1>0, <1>n, Shape DEF DeliveryInv, QueueInOrder
  <2>2. \A k, l \in 1..Len(queue') : k < l => queue'[k] < queue'[l]
    BY <1>6, <2>1
  <2>3. \A k \in 1..Len(queue') : current < queue'[k] /\ queue'[k] <= n
    BY <1>6, <2>1
  <2>4. current' = current /\ current' <= Len(published') /\ Len(published') <= MaxMessages
    BY <1>1, <1>2, <2>1
  <2>5. \A k \in 1..Len(queue') : current' < queue'[k] /\ queue'[k] <= Len(published')
    BY <1>2, <2>3, <2>4
  <2>6. QED
    BY <2>2, <2>4, <2>5 DEF QueueInOrder
<1>10. InQueue' = IF server \in Bound THEN InQueue \cup {n} ELSE InQueue
  <2>1. CASE server \in Bound
    BY <1>3, <1>6, <1>7, <2>1 DEF InQueue
  <2>2. CASE server \notin Bound
    BY <1>3, <2>2 DEF InQueue
  <2>3. QED
    BY <2>1, <2>2
<1>11. n \notin InQueue /\ n # current /\ n \notin done \cup lost
  BY <1>0, <1>n, Shape DEF DeliveryInv, QueueInOrder, PlacesApart, InQueue
<1>12. PlacesApart'
  BY <1>0, <1>n, <1>1, <1>2, <1>3, <1>10, <1>11, Shape DEF DeliveryInv, PlacesApart
<1>13. NoneMissing'
  BY <1>0, <1>n, <1>1, <1>2, <1>3, <1>10, Shape DEF DeliveryInv, NoneMissing
<1>14. CursorOfCurrent'
  <2>1. CASE cursor = {}
    BY <1>1, <2>1 DEF CursorOfCurrent
  <2>2. CASE cursor # {}
    <3>1. current \in 1..Len(published)
      BY <1>0, <2>2 DEF DeliveryInv, HandlingState, QueueInOrder, DeliveryTypeOK
    <3>2. QED
      BY <1>0, <1>1, <1>2, <3>1 DEF DeliveryInv, CursorOfCurrent
  <2>3. QED
    BY <2>1, <2>2
<1>15. \A k \in 1..Len(requests) : requests[k].msg \in 1..Len(published)
  BY <1>0, Shape DEF DeliveryInv, RequestsBehind
<1>16. RequestsBehind'
  <2>1. ASSUME NEW k \in 1..Len(requests), NEW l \in 1..Len(queue') PROVE requests[k].msg < queue'[l]
    <3>1. requests[k].msg < n
      BY <1>0, <1>n, <1>15, Shape
    <3>2. l \in 1..Len(queue) => requests[k].msg < queue[l]
      BY <1>0 DEF DeliveryInv, RequestsBehind
    <3>3. QED
      BY <1>6, <3>1, <3>2
  <2>2. \A k \in 1..Len(requests) : requests[k].msg <= n
    BY <1>0, <1>n, <1>15, Shape
  <2>3. QED
    BY <1>0, <1>1, <1>2, <2>1, <2>2 DEF DeliveryInv, RequestsBehind
<1>17. RequestsAddressed'
  BY <1>0, <1>1, <1>2, <1>15 DEF DeliveryInv, RequestsAddressed
<1>18. OnceAndInOrder'
  BY <1>0, <1>1 DEF DeliveryInv, OnceAndInOrder
<1>19. QED
  BY <1>5, <1>8, <1>9, <1>12, <1>13, <1>14, <1>16, <1>17, <1>18 DEF DeliveryOK, DeliveryInv

\* msg-server binds its queue, or begins to consume.
LEMMA StartDelivery ==
  ASSUME DeliveryOK, Start \/ StartConsuming
  PROVE  DeliveryOK'
<1>0. DeliveryTypeOK /\ DeliveryInv
  BY DEF DeliveryOK
<1>1. /\ server \in {"down", "bound"} /\ server' \in {"bound", "idle"}
      /\ UNCHANGED <<session, published, queue, current, cursor, done, lost, requests, held>>
  BY DEF Start, StartConsuming
<1>2. DeliveryTypeOK'
  BY <1>0, <1>1 DEF DeliveryTypeOK, Bound
<1>3. HandlingState' /\ QueueInOrder' /\ PlacesApart' /\ NoneMissing'
  BY <1>0, <1>1 DEF DeliveryInv, HandlingState, QueueInOrder, PlacesApart, NoneMissing, InQueue, Bound
<1>4. CursorOfCurrent' /\ RequestsBehind' /\ RequestsAddressed' /\ OnceAndInOrder'
  BY <1>0, <1>1 DEF DeliveryInv, CursorOfCurrent, RequestsBehind, RequestsAddressed, OnceAndInOrder
<1>5. QED
  BY <1>2, <1>3, <1>4 DEF DeliveryOK, DeliveryInv

\* The head of the queue becomes the current message.
LEMMA ConsumeDelivery ==
  ASSUME DeliveryOK, Consume
  PROVE  DeliveryOK'
<1>0. DeliveryTypeOK /\ DeliveryInv
  BY DEF DeliveryOK
<1>1. /\ server = "idle" /\ server' = "query" /\ current = 0 /\ cursor = {}
      /\ UNCHANGED <<session, published, cursor, done, lost, requests>>
  BY <1>0 DEF Consume, DeliveryInv, HandlingState
<1>2. /\ Len(queue) >= 1 /\ current' = queue[1] /\ queue' \in Seq(1..MaxMessages)
      /\ Len(queue') = Len(queue) - 1
      /\ \A k \in 1..Len(queue') : k + 1 \in 1..Len(queue) /\ queue'[k] = queue[k + 1]
  BY <1>0 DEF Consume, DeliveryTypeOK
<1>a. Len(queue) \in Nat /\ 1 \in 1..Len(queue) /\ current' \in 1..MaxMessages
  BY <1>0, <1>2, Shape
<1>b. held' \in SUBSET SessionDocument
  BY <1>0, OpenDocuments DEF Consume, To
<1>3. DeliveryTypeOK'
  BY <1>0, <1>1, <1>2, <1>a, <1>b DEF DeliveryTypeOK, Bound
<1>4. HandlingState'
  BY <1>1, <1>a DEF HandlingState, Bound
<1>5. QueueInOrder'
  <2>1. /\ \A k, l \in 1..Len(queue) : k < l => queue[k] < queue[l]
        /\ \A k \in 1..Len(queue) : queue[k] <= Len(published)
        /\ Len(published) <= MaxMessages
    BY <1>0 DEF DeliveryInv, QueueInOrder
  <2>2. ASSUME NEW k \in 1..Len(queue'), NEW l \in 1..Len(queue'), k < l PROVE queue'[k] < queue'[l]
    <3>1. k + 1 \in 1..Len(queue) /\ l + 1 \in 1..Len(queue) /\ k + 1 < l + 1
      BY <1>2, <2>2
    <3>2. queue[k + 1] < queue[l + 1]
      BY <2>1, <3>1
    <3>3. QED
      BY <1>2, <3>2
  <2>3. \A k \in 1..Len(queue') : current' < queue'[k] /\ queue'[k] <= Len(published)
    BY <1>2, <1>a, <2>1
  <2>4. QED
    BY <1>1, <1>2, <1>a, <2>1, <2>2, <2>3 DEF QueueInOrder
<1>6. InQueue = InQueue' \cup {current'}
  <2>1. ASSUME NEW k \in 1..Len(queue) PROVE queue[k] \in InQueue' \cup {current'}
    <3>1. CASE k = 1
      BY <1>2, <3>1
    <3>2. CASE k # 1
      <4>1. k - 1 \in 1..Len(queue') /\ queue'[k - 1] = queue[k]
        BY <1>0, <1>2, <3>2 DEF DeliveryTypeOK
      <4>2. QED
        BY <4>1 DEF InQueue
    <3>3. QED
      BY <3>1, <3>2
  <2>2. queue[1] \in InQueue
    BY <1>0, <1>2 DEF InQueue, DeliveryTypeOK
  <2>3. ASSUME NEW k \in 1..Len(queue') PROVE queue'[k] \in InQueue
    BY <1>2 DEF InQueue
  <2>4. QED
    BY <1>2, <2>1, <2>2, <2>3 DEF InQueue
<1>7. PlacesApart' /\ NoneMissing'
  BY <1>0, <1>1, <1>6 DEF DeliveryInv, PlacesApart, NoneMissing, DeliveryTypeOK
<1>8. CursorOfCurrent'
  BY <1>1 DEF CursorOfCurrent
<1>9. RequestsBehind'
  BY <1>0, <1>1, <1>2, <1>a DEF DeliveryInv, RequestsBehind
<1>10. RequestsAddressed' /\ OnceAndInOrder'
  BY <1>0, <1>1 DEF DeliveryInv, RequestsAddressed, OnceAndInOrder
<1>11. QED
  BY <1>3, <1>4, <1>5, <1>7, <1>8, <1>9, <1>10 DEF DeliveryOK, DeliveryInv

\* The query returns the sessions of the addressees, one for each of them.
LEMMA QueryDelivery ==
  ASSUME DeliveryOK, QuerySessions
  PROVE  DeliveryOK'
<1>0. DeliveryTypeOK /\ DeliveryInv
  BY DEF DeliveryOK
<1>1. /\ server = "query" /\ server' = "send" /\ current \in 1..Len(published)
      /\ UNCHANGED <<session, published, queue, current, done, lost, requests, held>>
  BY <1>0 DEF QuerySessions, DeliveryInv, HandlingState, QueueInOrder, DeliveryTypeOK
<1>2. PICK m \in Notice : m = published[current]
  BY <1>0, <1>1 DEF DeliveryTypeOK
<1>3. ASSUME NEW d \in cursor'
      PROVE  /\ d \in SessionDocument /\ d.role = m.to /\ d.id \in m.targets
             /\ d = [role |-> m.to, id |-> d.id, session |-> session[m.to][d.id]]
  <2>1. d \in OpenSessions /\ d.role = m.to /\ d.id \in m.targets
    BY <1>2 DEF QuerySessions, Matches
  <2>2. QED
    BY <1>0, <2>1, OpenDocuments
<1>4. cursor' \in SUBSET SessionDocument
  BY <1>3
<1>5. DeliveryTypeOK'
  BY <1>0, <1>1, <1>4 DEF DeliveryTypeOK, Bound
<1>6. HandlingState' /\ QueueInOrder' /\ PlacesApart' /\ NoneMissing'
  BY <1>0, <1>1 DEF DeliveryInv, HandlingState, QueueInOrder, PlacesApart, NoneMissing, InQueue, Bound
<1>7. CursorOfCurrent'
  <2>1. \A d \in cursor' : d.role = m.to /\ d.id \in m.targets
    BY <1>3
  <2>2. \A d, e \in cursor' : d.id = e.id => d = e
    BY <1>3
  <2>3. QED
    BY <1>1, <1>2, <2>1, <2>2 DEF CursorOfCurrent
<1>8. RequestsBehind'
  BY <1>0, <1>1 DEF DeliveryInv, RequestsBehind
<1>9. RequestsAddressed' /\ OnceAndInOrder'
  BY <1>0, <1>1 DEF DeliveryInv, RequestsAddressed, OnceAndInOrder
<1>10. QED
  BY <1>5, <1>6, <1>7, <1>8, <1>9 DEF DeliveryOK, DeliveryInv

\* A request for a document of the cursor, which leaves the cursor with it.
LEMMA SendDelivery ==
  ASSUME DeliveryOK, NEW d \in cursor, Send(d)
  PROVE  DeliveryOK'
<1>0. DeliveryTypeOK /\ DeliveryInv
  BY DEF DeliveryOK
<1>1. /\ server = "send" /\ current \in 1..Len(published) /\ current \in 1..MaxMessages
      /\ cursor' = cursor \ {d}
      /\ UNCHANGED <<session, published, queue, server, current, done, lost, held>>
  BY <1>0 DEF Send, DeliveryInv, HandlingState, QueueInOrder, DeliveryTypeOK
<1>2. PICK m \in Notice : m = published[current]
  BY <1>0, <1>1 DEF DeliveryTypeOK
<1>3. d \in SessionDocument /\ d.id \in m.targets /\ d.role = m.to
  BY <1>0, <1>2 DEF DeliveryInv, CursorOfCurrent, DeliveryTypeOK
<1>4. PICK q \in PushRequest :
        /\ q = FormatRequest(d) /\ q.msg = current /\ q.key = m.to /\ q.doc = d
        /\ q.channel = IF m.method = "single" THEN d.session ELSE NoChannel
  <2>1. d.session \in Session /\ NoChannel \in Session /\ m.to \in Roles
    BY <1>3 DEF SessionDocument, Session, Notice
  <2>2. PICK c \in {d.session, NoChannel} :
          /\ c = IF m.method = "single" THEN d.session ELSE NoChannel
          /\ FormatRequest(d) = [msg |-> current, key |-> m.to, doc |-> d, channel |-> c]
    BY <1>2 DEF FormatRequest
  <2>3. [msg |-> current, key |-> m.to, doc |-> d, channel |-> c] \in PushRequest
    BY <1>1, <1>3, <2>1 DEF PushRequest
  <2>4. QED
    BY <2>2, <2>3
<1>5. \/ requests' = Append(requests, q)
      \/ requests' = requests
  BY <1>4 DEF Send
<1>6. /\ requests' \in Seq(PushRequest) /\ Len(requests') \in Nat
      /\ \A k \in 1..Len(requests') : \/ k \in 1..Len(requests) /\ requests'[k] = requests[k]
                                      \/ k = Len(requests) + 1 /\ requests'[k] = q
  <2>1. requests \in Seq(PushRequest) /\ Len(requests) \in Nat
    BY <1>0, Shape DEF DeliveryTypeOK
  <2>2. CASE requests' = Append(requests, q)
    <3>1. /\ requests' \in Seq(PushRequest) /\ Len(requests') = Len(requests) + 1
          /\ requests'[Len(requests) + 1] = q
          /\ \A k \in 1..Len(requests) : requests'[k] = requests[k]
      BY <2>1, <2>2, Appended
    <3>2. QED
      BY <2>1, <3>1
  <2>3. CASE requests' = requests
    BY <2>1, <2>3
  <2>4. QED
    BY <1>5, <2>2, <2>3
<1>7. DeliveryTypeOK'
  BY <1>0, <1>1, <1>6 DEF DeliveryTypeOK
<1>8. HandlingState' /\ QueueInOrder' /\ PlacesApart' /\ NoneMissing'
  BY <1>0, <1>1 DEF DeliveryInv, HandlingState, QueueInOrder, PlacesApart, NoneMissing, InQueue, Bound
<1>9. CursorOfCurrent'
  BY <1>0, <1>1 DEF DeliveryInv, CursorOfCurrent
<1>10. \A e \in cursor' : e.id # d.id
  BY <1>0, <1>1 DEF DeliveryInv, CursorOfCurrent
<1>11. \A k \in 1..Len(requests) : \/ requests[k].msg < current
                                   \/ requests[k].msg = current /\ d.id # requests[k].doc.id
  BY <1>0, <1>1 DEF DeliveryInv, RequestsBehind
<1>12. RequestsBehind'
  <2> SUFFICES ASSUME NEW k \in 1..Len(requests')
               PROVE  /\ requests'[k].msg <= Len(published)
                      /\ \A l \in 1..Len(queue) : requests'[k].msg < queue[l]
                      /\ \/ requests'[k].msg < current
                         \/ requests'[k].msg = current /\ \A e \in cursor' : e.id # requests'[k].doc.id
    BY <1>1 DEF RequestsBehind
  <2>1. CASE k \in 1..Len(requests) /\ requests'[k] = requests[k]
    BY <1>0, <1>1, <2>1 DEF DeliveryInv, RequestsBehind
  <2>2. CASE requests'[k] = q
    BY <1>0, <1>1, <1>4, <1>10, <2>2 DEF DeliveryInv, QueueInOrder
  <2>3. QED
    BY <1>6, <2>1, <2>2
<1>13. RequestsAddressed'
  <2> SUFFICES ASSUME NEW k \in 1..Len(requests')
               PROVE  LET r == requests'[k]
                          p == published[r.msg]
                      IN /\ r.doc.id \in p.targets
                         /\ r.key = p.to /\ r.doc.role = p.to
                         /\ r.channel = IF p.method = "single" THEN r.doc.session ELSE NoChannel
    BY <1>1 DEF RequestsAddressed
  <2>1. CASE k \in 1..Len(requests) /\ requests'[k] = requests[k]
    BY <1>0, <2>1 DEF DeliveryInv, RequestsAddressed
  <2>2. CASE requests'[k] = q
    BY <1>2, <1>3, <1>4, <2>2
  <2>3. QED
    BY <1>6, <2>1, <2>2
<1>14. OnceAndInOrder'
  <2> SUFFICES ASSUME NEW k \in 1..Len(requests'), NEW l \in 1..Len(requests'), k < l
               PROVE  \/ requests'[k].msg < requests'[l].msg
                      \/ requests'[k].msg = requests'[l].msg /\ requests'[k].doc.id # requests'[l].doc.id
    BY DEF OnceAndInOrder
  <2>1. k \in 1..Len(requests) /\ requests'[k] = requests[k]
    BY <1>0, <1>6 DEF DeliveryTypeOK
  <2>2. CASE l \in 1..Len(requests) /\ requests'[l] = requests[l]
    BY <1>0, <2>1, <2>2 DEF DeliveryInv, OnceAndInOrder
  <2>3. CASE requests'[l] = q
    BY <1>4, <1>11, <2>1, <2>3
  <2>4. QED
    BY <1>6, <2>2, <2>3
<1>15. QED
  BY <1>7, <1>8, <1>9, <1>12, <1>13, <1>14 DEF DeliveryOK, DeliveryInv

\* The handling of a message ends, with the cursor or with an exception.
LEMMA EndDelivery ==
  ASSUME DeliveryOK, EndOfCursor \/ HandlingException
  PROVE  DeliveryOK'
<1>0. DeliveryTypeOK /\ DeliveryInv
  BY DEF DeliveryOK
<1>1. /\ server \in {"query", "send"} /\ server' = "idle"
      /\ current' = 0 /\ cursor' = {} /\ held' = {} /\ done' = done \cup {current}
      /\ UNCHANGED <<session, published, queue, lost, requests>>
  BY DEF EndOfCursor, HandlingException, HandlingEnds
<1>2. current \in 1..MaxMessages /\ current <= Len(published) /\ current \notin InQueue
  BY <1>0, <1>1 DEF DeliveryInv, HandlingState, QueueInOrder, InQueue, DeliveryTypeOK
<1>3. DeliveryTypeOK'
  BY <1>0, <1>1, <1>2, MessageAssumption DEF DeliveryTypeOK, Bound
<1>4. HandlingState'
  BY <1>0, <1>1 DEF DeliveryInv, HandlingState, Bound
<1>5. QueueInOrder'
  BY <1>0, <1>1, Shape DEF DeliveryInv, QueueInOrder
<1>6. InQueue' = InQueue /\ 0 \notin InQueue
  BY <1>0, <1>1, Shape DEF InQueue
<1>7. PlacesApart' /\ NoneMissing'
  BY <1>0, <1>1, <1>2, <1>6 DEF DeliveryInv, PlacesApart, NoneMissing, DeliveryTypeOK
<1>8. CursorOfCurrent' /\ RequestsBehind' /\ RequestsAddressed' /\ OnceAndInOrder'
  BY <1>0, <1>1 DEF DeliveryInv, CursorOfCurrent, RequestsBehind, RequestsAddressed, OnceAndInOrder
<1>9. QED
  BY <1>3, <1>4, <1>5, <1>7, <1>8 DEF DeliveryOK, DeliveryInv

\* msg-server dies or is cut off: what is queued or in hand is lost.
LEMMA GoesDelivery ==
  ASSUME DeliveryOK, MsgServerCrash \/ ConnectionLost
  PROVE  DeliveryOK'
<1>0. DeliveryTypeOK /\ DeliveryInv
  BY DEF DeliveryOK
<1>1. /\ server' \in {"down", "spinning"} /\ queue' = <<>> /\ current' = 0 /\ cursor' = {} /\ held' = {}
      /\ lost' = lost \cup InQueue \cup ({current} \ {0})
      /\ UNCHANGED <<session, published, done, requests>>
  BY DEF MsgServerCrash, ConnectionLost, QueueGoes, InQueue
<1>2. InQueue \subseteq 1..Len(published) /\ InQueue \subseteq 1..MaxMessages /\ InQueue' = {}
  BY <1>0, <1>1, Shape DEF InQueue, DeliveryInv, QueueInOrder
<1>3. current \notin InQueue /\ current <= Len(published)
  BY <1>0 DEF InQueue, DeliveryInv, QueueInOrder, DeliveryTypeOK
<1>4. DeliveryTypeOK'
  BY <1>0, <1>1, <1>2, MessageAssumption DEF DeliveryTypeOK
<1>5. HandlingState' /\ QueueInOrder'
  BY <1>0, <1>1 DEF HandlingState, QueueInOrder, DeliveryInv, DeliveryTypeOK
<1>6. PlacesApart'
  BY <1>0, <1>1, <1>2, <1>3 DEF DeliveryInv, PlacesApart, DeliveryTypeOK
<1>7. NoneMissing'
  BY <1>0, <1>1 DEF DeliveryInv, NoneMissing, DeliveryTypeOK
<1>8. CursorOfCurrent' /\ RequestsBehind' /\ RequestsAddressed' /\ OnceAndInOrder'
  BY <1>0, <1>1 DEF DeliveryInv, CursorOfCurrent, RequestsBehind, RequestsAddressed, OnceAndInOrder
<1>9. QED
  BY <1>4, <1>5, <1>6, <1>7, <1>8 DEF DeliveryOK, DeliveryInv

LEMMA DeliveryStep == DeliveryOK /\ [DeliveryNext]_deliveryVars => DeliveryOK'
<1> SUFFICES ASSUME DeliveryOK, [DeliveryNext]_deliveryVars PROVE DeliveryOK'
  OBVIOUS
<1>1. CASE UNCHANGED deliveryVars
  BY <1>1 DEF deliveryVars, DeliveryOK, DeliveryTypeOK, DeliveryInv, HandlingState, QueueInOrder, PlacesApart, NoneMissing,
              InQueue, CursorOfCurrent, RequestsBehind, RequestsAddressed, OnceAndInOrder
<1>2. QED
  BY <1>1, LoginDelivery, PublishDelivery, StartDelivery, ConsumeDelivery, QueryDelivery, SendDelivery,
     EndDelivery, GoesDelivery DEF DeliveryNext, HandleMessage

LEMMA MessagesDelivered == DeliverySpec => []DeliveryOK
BY InitDelivery, DeliveryStep, PTL DEF DeliverySpec

-----------------------------------------------------------------------------
(***************************************************************************)
(* The theorems                                                            *)
(***************************************************************************)

\* Every variable keeps its type: msg-server never takes a message, reads a
\* document or sends a request that is not there.
THEOREM MessagesTypeOK == DeliverySpec => []DeliveryTypeOK
BY MessagesDelivered, PTL DEF DeliveryOK

\* The invariant keeps the places of a message apart, so that the set of those
\* it is in has one element.
LEMMA InvAccounted == DeliveryOK => Accounted
<1> SUFFICES ASSUME DeliveryOK PROVE Accounted
  OBVIOUS
<1>1. DeliveryTypeOK /\ QueueInOrder /\ PlacesApart /\ NoneMissing
  BY DEF DeliveryOK, DeliveryInv
<1>2. \A k, l \in 1..Len(queue) : k # l => queue[k] # queue[l]
  BY <1>1, Shape DEF QueueInOrder
<1>3. ASSUME NEW i \in 1..Len(published)
      PROVE  Cardinality({p \in {"queue", "current", "done", "lost"} :
                            \/ p = "queue"   /\ i \in InQueue
                            \/ p = "current" /\ i = current
                            \/ p = "done"    /\ i \in done
                            \/ p = "lost"    /\ i \in lost}) = 1
  <2> DEFINE S == {p \in {"queue", "current", "done", "lost"} :
                     \/ p = "queue"   /\ i \in InQueue
                     \/ p = "current" /\ i = current
                     \/ p = "done"    /\ i \in done
                     \/ p = "lost"    /\ i \in lost}
  <2>1. current \notin InQueue
    BY <1>1 DEF QueueInOrder, InQueue, DeliveryTypeOK
  <2>2. CASE i \in InQueue
    <3>1. S = {"queue"}
      BY <1>1, <2>1, <2>2 DEF PlacesApart
    <3>2. QED
      BY <3>1, FS_Singleton
  <2>3. CASE i = current
    <3>1. S = {"current"}
      BY <1>1, <2>1, <2>3 DEF PlacesApart
    <3>2. QED
      BY <3>1, FS_Singleton
  <2>4. CASE i \in done
    <3>1. S = {"done"}
      BY <1>1, <2>4 DEF PlacesApart
    <3>2. QED
      BY <3>1, FS_Singleton
  <2>5. CASE i \in lost
    <3>1. S = {"lost"}
      BY <1>1, <2>5 DEF PlacesApart
    <3>2. QED
      BY <3>1, FS_Singleton
  <2>6. QED
    BY <1>1, <2>2, <2>3, <2>4, <2>5 DEF NoneMissing
<1>4. QED
  BY <1>2, <1>3 DEF Accounted

\* Every message that reached the broker is in exactly one place, through
\* every crash, lost connection and restart of msg-server.
THEOREM MessagesAccounted == DeliverySpec => []Accounted
BY MessagesDelivered, InvAccounted, PTL

\* The addressees' sessions are among the documents held, before the query those
\* that it will return and after it those of the cursor; a session without a
\* channel is in the cursor of a list only.
SessionsHeld ==
    /\ server = "query" => Matches(published[current]) \subseteq held
    /\ cursor \subseteq held
    /\ \A d \in cursor : published[current].method = "single" => d.session # NoChannel

LEMMA InitSessionsHeld == DeliveryInit => SessionsHeld
BY DEF DeliveryInit, SessionsHeld

\* Who logs in while a message is handled joins the documents held.
LEMMA LoginSessionsHeld ==
  ASSUME DeliveryOK, SessionsHeld, NEW r \in Roles, NEW s \in Session, NEW i \in IdsOf(r), Login(r, i, s)
  PROVE  SessionsHeld' /\ PushesToTheAddressee
<1> DEFINE new == [role |-> r, id |-> i, session |-> s]
<1>1. UNCHANGED <<published, server, current, cursor, requests>>
  BY DEF Login
<1>2. DeliveryTypeOK /\ held \subseteq held'
  BY DEF Login, DeliveryOK
<1>3. OpenSessions' \subseteq OpenSessions \cup {new}
  BY <1>2 DEF OpenSessions, Login, DeliveryTypeOK
<1>4. ASSUME server = "query" PROVE Matches(published[current])' \subseteq held'
  <2>1. PICK m : m = published[current]
    OBVIOUS
  <2>2. held' = held \cup To(m, {new})
    BY <1>4, <2>1 DEF Login, DeliveryOK, DeliveryInv, HandlingState
  <2>3. ASSUME NEW d \in OpenSessions', d.role = m.to, d.id \in m.targets PROVE d \in held'
    <3>1. CASE d = new
      BY <2>2, <2>3, <3>1 DEF To
    <3>2. CASE d \in OpenSessions
      BY <1>2, <1>4, <2>1, <2>3, <3>2 DEF SessionsHeld, Matches
    <3>3. QED
      BY <1>3, <2>3, <3>1, <3>2
  <2>4. QED
    BY <1>1, <2>1, <2>3 DEF Matches
<1>5. QED
  BY <1>1, <1>2, <1>4 DEF SessionsHeld, PushesToTheAddressee

\* Every step keeps SessionsHeld, and pushes to an addressee.
LEMMA SessionsHeldStep ==
  DeliveryOK /\ SessionsHeld /\ [DeliveryNext]_deliveryVars
    => SessionsHeld' /\ [PushesToTheAddressee]_deliveryVars
<1> SUFFICES ASSUME DeliveryOK, SessionsHeld, [DeliveryNext]_deliveryVars
             PROVE  SessionsHeld' /\ PushesToTheAddressee
  OBVIOUS
<1>0. /\ DeliveryTypeOK /\ DeliveryInv
      /\ server \in {"query", "send"} => current \in 1..Len(published)
      /\ server # "send" => cursor = {}
  BY DEF DeliveryOK, DeliveryInv, HandlingState, QueueInOrder, DeliveryTypeOK
<1>1. CASE UNCHANGED deliveryVars
  BY <1>1 DEF deliveryVars, SessionsHeld, PushesToTheAddressee, Matches, OpenSessions
<1>2. ASSUME NEW m \in Notice, Publish(m) PROVE SessionsHeld' /\ PushesToTheAddressee
  <2>1. /\ published' = Append(published, m)
        /\ UNCHANGED <<session, server, current, cursor, requests, held>>
    BY <1>2 DEF Publish
  <2>2. server \in {"query", "send"} => published'[current] = published[current]
    BY <1>0, <2>1, Appended DEF DeliveryTypeOK
  <2>3. cursor # {} => server = "send"
    BY <1>0
  <2>4. QED
    BY <2>1, <2>2, <2>3 DEF SessionsHeld, PushesToTheAddressee, Matches, OpenSessions
<1>3. CASE Start \/ StartConsuming
  BY <1>0, <1>3 DEF Start, StartConsuming, SessionsHeld, PushesToTheAddressee
<1>4. CASE Consume
  <2>1. /\ cursor = {} /\ cursor' = {} /\ requests' = requests
        /\ held' = To(published[Head(queue)], OpenSessions) /\ current' = Head(queue)
        /\ UNCHANGED <<session, published>>
    BY <1>0, <1>4 DEF Consume
  <2>2. Matches(published[current])' = To(published[Head(queue)], OpenSessions)
    BY <2>1 DEF Matches, To, OpenSessions
  <2>3. QED
    BY <2>1, <2>2 DEF SessionsHeld, PushesToTheAddressee
<1>5. CASE QuerySessions
  <2>1. /\ server = "query" /\ server' = "send" /\ UNCHANGED <<published, current, requests, held>>
        /\ \A d \in cursor' : /\ d \in Matches(published[current])
                              /\ published[current].method = "single" => d.session # NoChannel
    BY <1>5 DEF QuerySessions
  <2>2. QED
    BY <2>1 DEF SessionsHeld, PushesToTheAddressee
<1>6. ASSUME NEW d \in cursor, Send(d) PROVE SessionsHeld' /\ PushesToTheAddressee
  <2>1. /\ server = "send" /\ cursor' = cursor \ {d}
        /\ UNCHANGED <<published, server, current, held>>
        /\ requests' = requests \/ requests' = Append(requests, FormatRequest(d))
    BY <1>6 DEF Send
  <2>2. PICK m \in Notice : m = published[current]
    BY <1>0, <2>1 DEF DeliveryTypeOK
  <2>3. /\ d \in SessionDocument /\ d.role = m.to /\ d.id \in m.targets /\ d \in held
        /\ m.method = "single" => d.session # NoChannel
    BY <1>0, <2>2 DEF SessionsHeld, DeliveryInv, CursorOfCurrent, DeliveryTypeOK
  <2>4. SessionsHeld'
    BY <2>1 DEF SessionsHeld
  <2>5. CASE requests' = Append(requests, FormatRequest(d))
    <3>1. requests'[Len(requests')] = FormatRequest(d)
      BY <1>0, <2>5 DEF DeliveryTypeOK
    <3>2. PICK q : q = requests'[Len(requests')]
      OBVIOUS
    <3>3. /\ q.msg = current /\ q.key = m.to /\ q.doc = d
          /\ q.channel = IF m.method = "single" THEN d.session ELSE NoChannel
      BY <2>2, <3>1, <3>2 DEF FormatRequest
    <3>4. m.method = "single" => q.channel = d.session /\ q.channel \in Channels
      BY <2>3, <3>3 DEF SessionDocument, Session
    <3>5. m.method = "batch" => q.channel = NoChannel
      BY <3>3
    <3>6. QED
      BY <2>2, <2>3, <2>4, <3>2, <3>3, <3>4, <3>5 DEF PushesToTheAddressee
  <2>6. QED
    BY <2>1, <2>4, <2>5 DEF PushesToTheAddressee
<1>7. CASE EndOfCursor \/ HandlingException \/ MsgServerCrash \/ ConnectionLost
  <2>1. cursor' = {} /\ server' \in {"idle", "down", "spinning"} /\ requests' = requests
    BY <1>7 DEF EndOfCursor, HandlingException, HandlingEnds, MsgServerCrash, ConnectionLost, QueueGoes
  <2>2. QED
    BY <2>1 DEF SessionsHeld, PushesToTheAddressee
<1>8. QED
  BY <1>1, <1>2, <1>3, <1>4, <1>5, <1>6, <1>7, LoginSessionsHeld DEF DeliveryNext, HandleMessage

\* A request goes to an addressee, in the role the message is for and on a device
\* that the addressee has had since msg-server took the message, whoever logs in
\* while the message waits or is handled.
THEOREM MessagesToTheAddressee == DeliverySpec => PushedToTheAddressee
BY InitSessionsHeld, SessionsHeldStep, MessagesDelivered, PTL DEF DeliverySpec, PushedToTheAddressee

\* Messages are pushed in the order of their publication, to each addressee once.
THEOREM MessagesOnceAndInOrder == DeliverySpec => []OnceAndInOrder
<1>1. DeliveryOK => OnceAndInOrder
  BY DEF DeliveryOK, DeliveryInv
<1>2. QED
  BY <1>1, MessagesDelivered, PTL

-----------------------------------------------------------------------------
(***************************************************************************)
(* The composition: from the handler of an order to the push service       *)
(***************************************************************************)

\* The steps of the application server are steps of Orders, those of broker
\* and msg-server are steps of MessageServer, and each leaves the variables of
\* the other alone, but for the push that reaches the broker, which is both.
LEMMA RoutedNotice ==
  ASSUME NEW m \in Message, Publish(Routed(m))
  PROVE  Routed(m) \in Notice
<1>1. m.to \in Roles /\ Routed(m).to = m.to /\ Routed(m).targets = m.targets
  BY DEF Message, Roles, Routed
<1>2. m.targets \subseteq Ids
  BY <1>1 DEF Publish, IdsOf, Ids
<1>3. QED
  BY <1>1, <1>2 DEF Routed, Notice

LEMMA OrdersPart == NotificationsNext \/ UNCHANGED notificationVars => [Next]_vars
BY DEF NotificationsNext, notificationVars, Application, PushArrives, PushFails, LogsIn, Deliver, Outage,
       Next, Handle, vars

LEMMA DeliveryPart ==
  ASSUME TypeOK, NotificationsNext \/ UNCHANGED notificationVars
  PROVE  [DeliveryNext]_deliveryVars
<1>1. ASSUME NEW s \in Servers, PushArrives(s) PROVE DeliveryNext
  <2>1. pc[s] # "idle" /\ Publish(Routed(Notification(req[s], seen[s])))
    BY <1>1 DEF PushArrives, Push
  <2>2. Routed(Notification(req[s], seen[s])) \in Notice
    BY <2>1, NotificationType, RoutedNotice
  <2>3. QED
    BY <2>1, <2>2 DEF DeliveryNext
<1>2. ASSUME NEW s \in Servers, Application(s) \/ PushFails(s) PROVE UNCHANGED deliveryVars
  BY <1>2 DEF Application, PushFails, deliveryVars
<1>3. CASE LogsIn
  BY <1>3 DEF LogsIn, DeliveryNext
<1>4. CASE Deliver \/ Outage
  BY <1>4 DEF Deliver, Outage, DeliveryNext
<1>5. QED
  BY <1>1, <1>2, <1>3, <1>4 DEF NotificationsNext, notificationVars

\* The composition runs the order handlers as module Orders has them: whatever
\* broker and msg-server do, every theorem about Orders holds in it.
THEOREM NotificationsRunOrders == NotificationsSpec => Spec
<1>1. NotificationsInit => Init
  BY DEF NotificationsInit
<1>2. [NotificationsNext]_notificationVars => [Next]_vars
  BY OrdersPart
<1>3. QED
  BY <1>1, <1>2, PTL DEF NotificationsSpec, Spec

\* What the order handlers push is delivered as module MessageServer has it:
\* every theorem about the delivery of messages holds for these.
THEOREM NotificationsRunDelivery == NotificationsSpec => DeliverySpec
<1>1. NotificationsInit => DeliveryInit
  BY DEF NotificationsInit
<1>2. TypeOK /\ [NotificationsNext]_notificationVars => [DeliveryNext]_deliveryVars
  BY DeliveryPart
<1>3. QED
  BY <1>1, <1>2, NotificationsRunOrders, OrdersTypeOK, PTL DEF NotificationsSpec, DeliverySpec

\* What was published are the messages that handlers have pushed, in a row.
AboutPublished ==
    /\ about \in Seq(Message) /\ Len(about) = Len(published)
    /\ \A i \in 1..Len(about) : published[i] = Routed(about[i]) /\ about[i] \in pushed

\* user::Order::Post is still at work on order o.
Posting(o) ==
    \E s \in Servers : pc[s] # "idle" /\ req[s].op = "user.Post" /\ req[s].order = o

\* The Post of an order that somebody has made an offer for has ended, and
\* what it published is older than the news of the offer.
OffersFollowPosts ==
    /\ \A j \in 1..Len(about) : about[j].to = "user" => ~Posting(about[j].order)
    /\ \A i, j \in 1..Len(about) :
          (about[i].to = "seller" /\ about[j].to = "user" /\ about[i].order = about[j].order) => i < j

NewsInv == AboutPublished /\ OffersFollowPosts

LEMMA InitNewsInv == NotificationsInit => NewsInv
BY DEF NotificationsInit, Init, DeliveryInit, NewsInv, AboutPublished, OffersFollowPosts

\* A Post starts with an identifier that has not been used.
LEMMA NoLatePost ==
  ASSUME TypeOK, [Next]_vars, NEW o \in used, ~Posting(o)
  PROVE  ~Posting(o)'
<1>1. ASSUME NEW s \in Servers, NEW r, Accept(s, r), r.op = "user.Post" => r.order # o
      PROVE  ~Posting(o)'
  BY <1>1 DEF Accept, Posting, TypeOK
<1>2. ASSUME NEW s \in Servers, Receive(s) PROVE ~Posting(o)'
  <2>1. CASE Reject(s)
    BY <2>1 DEF Reject, Posting, TypeOK
  <2>2. ASSUME NEW u \in Users, NEW T \in SUBSET Sellers, NEW p \in OrderIds, UserOrderPost(s, u, T, p)
        PROVE  ~Posting(o)'
    BY <1>1, <2>2 DEF UserOrderPost
  <2>3. ASSUME NEW u \in Users, NEW p \in OrderIds, NEW ask \in UserAsks, NEW sel \in Sellers \cup {NoId},
               UserOrderPut(s, u, p, ask, sel)
        PROVE  ~Posting(o)'
    BY <1>1, <2>3 DEF UserOrderPut
  <2>4. ASSUME NEW u \in Users, NEW p \in OrderIds, UserOrderDelete(s, u, p) PROVE ~Posting(o)'
    BY <1>1, <2>4 DEF UserOrderDelete
  <2>5. ASSUME NEW sel \in Sellers, NEW p \in OrderIds, NEW ask \in SellerAsks, SellerOrderPut(s, sel, p, ask)
        PROVE  ~Posting(o)'
    BY <1>1, <2>5 DEF SellerOrderPut
  <2>6. QED
    BY <1>2, <2>1, <2>2, <2>3, <2>4, <2>5 DEF Receive
<1>3. ASSUME NEW s \in Servers, Handle(s) \/ Crash(s) PROVE ~Posting(o)'
  <2>1. req' = req /\ \A t \in Servers : pc'[t] # "idle" => pc[t] # "idle"
    BY <1>3 DEF Handle, Query, Write, Push, DBException, Crash, Finish, TypeOK
  <2>2. QED
    BY <2>1 DEF Posting
<1>4. ASSUME NEW s \in Servers, NEW u \in Users, RegisterUser(s, u) \/ DeleteUser(s, u) PROVE ~Posting(o)'
  BY <1>4 DEF RegisterUser, DeleteUser, Posting
<1>5. CASE UNCHANGED vars
  BY <1>5 DEF vars, Posting
<1>6. QED
  BY <1>2, <1>3, <1>4, <1>5 DEF Next

\* A push that reaches the broker adds its message behind the others.
LEMMA ArrivesNewsInv ==
  ASSUME OneServer, TypeOK, DeliveryTypeOK, NewsInv, NEW s \in Servers, PushArrives(s)
  PROVE  NewsInv'
<1> DEFINE n == Len(about) + 1
<1>1. PICK m \in Message : m = Notification(req[s], seen[s])
  BY NotificationType DEF PushArrives, Push
<1>2. /\ pc[s] = "push" /\ pc'[s] = "idle" /\ req' = req
      /\ pushed \subseteq pushed' /\ m \in pushed'
      /\ about' = Append(about, m) /\ published' = Append(published, Routed(m))
  BY <1>1 DEF PushArrives, Push, Finish, Publish, TypeOK
<1>3. /\ about \in Seq(Message) /\ Len(about) \in Nat /\ Len(about) = Len(published)
      /\ \A i \in 1..Len(about) : published[i] = Routed(about[i]) /\ about[i] \in pushed
  BY DEF NewsInv, AboutPublished
<1>4. /\ about' \in Seq(Message) /\ Len(about') = n /\ about'[n] = m
      /\ \A i \in 1..Len(about) : about'[i] = about[i]
  BY <1>2, <1>3, Appended
<1>5. /\ Len(published') = n /\ published'[n] = Routed(m)
      /\ \A i \in 1..Len(about) : published'[i] = published[i]
  BY <1>2, <1>3, Appended DEF DeliveryTypeOK
<1>6. \A i \in 1..n : i \in 1..Len(about) \/ i = n
  BY <1>3
<1>7. AboutPublished'
  BY <1>2, <1>3, <1>4, <1>5, <1>6 DEF AboutPublished
<1>8. \A o : ~Posting(o)'
  BY <1>2 DEF OneServer, Posting
<1>9. m.to = "seller" => Posting(m.order)
  BY <1>1, <1>2 DEF Notification, SellersMessage, UserMessage, Posting
<1>10. \A j \in 1..Len(about) : (m.to = "seller" /\ about[j].to = "user") => about[j].order # m.order
  BY <1>9 DEF NewsInv, OffersFollowPosts
<1>11. ASSUME NEW i \in 1..n, NEW j \in 1..n,
              about'[i].to = "seller", about'[j].to = "user", about'[i].order = about'[j].order
       PROVE  i < j
  <2>1. CASE i \in 1..Len(about) /\ j \in 1..Len(about)
    BY <1>4, <1>11, <2>1 DEF NewsInv, OffersFollowPosts
  <2>2. CASE i = n /\ j \in 1..Len(about)
    BY <1>4, <1>10, <1>11, <2>2
  <2>3. CASE i \in 1..Len(about) /\ j = n
    BY <1>3, <2>3
  <2>4. CASE i = n /\ j = n
    BY <1>11, <2>4
  <2>5. QED
    BY <1>6, <2>1, <2>2, <2>3, <2>4
<1>12. OffersFollowPosts'
  BY <1>4, <1>8, <1>11 DEF OffersFollowPosts
<1>13. QED
  BY <1>7, <1>12 DEF NewsInv

LEMMA NewsStep ==
  ASSUME OneServer
  PROVE  TypeOK /\ HandlerInv /\ DeliveryTypeOK /\ NewsInv /\ [NotificationsNext]_notificationVars => NewsInv'
<1> SUFFICES ASSUME TypeOK, HandlerInv, DeliveryTypeOK, NewsInv, [NotificationsNext]_notificationVars
             PROVE  NewsInv'
  OBVIOUS
<1>1. CASE \E s \in Servers : PushArrives(s)
  BY <1>1, ArrivesNewsInv
<1>2. CASE ~\E s \in Servers : PushArrives(s)
  <2>1. about' = about /\ published' = published /\ pushed \subseteq pushed'
    <3>1. ASSUME NEW s \in Servers, Application(s)
          PROVE  about' = about /\ published' = published /\ pushed' = pushed
      BY <3>1 DEF Application, deliveryVars, Receive, UserOrderPost, UserOrderPut, UserOrderDelete,
                  SellerOrderPut, Accept, Reject, Query, Write, DBException, Crash, RegisterUser, DeleteUser
    <3>2. ASSUME NEW s \in Servers, PushFails(s)
          PROVE  about' = about /\ published' = published /\ pushed' = pushed
      BY <3>2 DEF PushFails, deliveryVars
    <3>3. CASE LogsIn \/ Deliver \/ Outage
      BY <3>3 DEF LogsIn, Deliver, Outage, vars, Login, StartConsuming, HandleMessage, Consume, QuerySessions,
                  Send, EndOfCursor, HandlingException, Start, MsgServerCrash, ConnectionLost
    <3>4. QED
      BY <1>2, <3>1, <3>2, <3>3 DEF NotificationsNext, notificationVars, deliveryVars, vars
  <2>2. AboutPublished'
    BY <2>1 DEF NewsInv, AboutPublished
  <2>3. ASSUME NEW j \in 1..Len(about), about[j].to = "user" PROVE ~Posting(about[j].order)'
    <3>1. PICK o \in used : o = about[j].order
      BY DEF NewsInv, AboutPublished, HandlerInv, AnnouncedIsUsed
    <3>2. ~Posting(o)
      BY <2>3, <3>1 DEF NewsInv, OffersFollowPosts
    <3>3. ~Posting(o)'
      BY <3>2, OrdersPart, NoLatePost
    <3>4. QED
      BY <2>1, <3>1, <3>3
  <2>4. OffersFollowPosts'
    BY <2>1, <2>3 DEF NewsInv, OffersFollowPosts
  <2>5. QED
    BY <2>2, <2>4 DEF NewsInv
<1>3. QED
  BY <1>1, <1>2

LEMMA NotificationsNewsInv ==
  ASSUME OneServer
  PROVE  NotificationsSpec => []NewsInv
<1>1. TypeOK /\ HandlerInv /\ DeliveryTypeOK /\ NewsInv /\ [NotificationsNext]_notificationVars => NewsInv'
  BY NewsStep
<1>2. Spec => []HandlerInv
  BY OrdersHandlerInv
<1>3. QED
  BY <1>1, <1>2, InitNewsInv, OrdersTypeOK, MessagesTypeOK, NotificationsRunOrders, NotificationsRunDelivery, PTL
     DEF NotificationsSpec

\* With one application server, whoever the push service is asked to tell of
\* an offer owns the order, is told by the channel of a session of the owner and
\* finds the offer recorded, for any number of users, devices, orders, messages,
\* outages and restarts.
THEOREM NotificationsOffersRecorded ==
  ASSUME OneServer
  PROVE  NotificationsSpec => []PushedOffersAreRecorded
<1>1. ASSUME NewsInv, HandlerInv, OwnerIsNotified, DeliveryOK PROVE PushedOffersAreRecorded
  <2> SUFFICES ASSUME NEW k \in DOMAIN requests,
                      about[requests[k].msg].to = "user", Present(db[about[requests[k].msg].order])
               PROVE  /\ requests[k].key = "user" /\ requests[k].doc.role = "user"
                      /\ requests[k].channel = requests[k].doc.session
                      /\ requests[k].doc.id = db[about[requests[k].msg].order].user
                      /\ about[requests[k].msg].order \in RepliedOrders(about[requests[k].msg].seller)
    BY DEF PushedOffersAreRecorded
  <2>1. PICK i : i = requests[k].msg
    OBVIOUS
  <2>2. k \in 1..Len(requests) /\ i \in 1..Len(published)
    BY <1>1, <2>1, Shape DEF DeliveryOK, DeliveryTypeOK, DeliveryInv, RequestsBehind, PushRequest
  <2>3. about[i] \in pushed /\ published[i] = Routed(about[i])
    BY <1>1, <2>2 DEF NewsInv, AboutPublished
  <2>4. /\ requests[k].doc.id \in about[i].targets /\ requests[k].doc.role = about[i].to
        /\ requests[k].key = about[i].to /\ requests[k].channel = requests[k].doc.session
    BY <1>1, <2>1, <2>2, <2>3 DEF DeliveryOK, DeliveryInv, RequestsAddressed, Routed
  <2>5. about[i].targets = {db[about[i].order].user} /\ about[i].order \in RepliedOrders(about[i].seller)
    BY <1>1, <2>1, <2>3 DEF OwnerIsNotified, HandlerInv, AnnouncedOffersAreRecorded
  <2>6. QED
    BY <2>1, <2>4, <2>5
<1>2. Spec => []HandlerInv
  BY OrdersHandlerInv
<1>3. NotificationsSpec => []NewsInv
  BY NotificationsNewsInv
<1>4. NewsInv /\ HandlerInv /\ OwnerIsNotified /\ DeliveryOK => PushedOffersAreRecorded
  BY <1>1
<1>5. QED
  BY <1>2, <1>3, <1>4, OrdersOwnerIsNotified, MessagesDelivered, NotificationsRunOrders, NotificationsRunDelivery, PTL

\* With one application server, the news of an order has been handled or is
\* lost when its user is told of an offer.
THEOREM NotificationsNewsFirst ==
  ASSUME OneServer
  PROVE  NotificationsSpec => []OrdersAreAnnouncedFirst
<1>1. ASSUME NewsInv, DeliveryOK PROVE OrdersAreAnnouncedFirst
  <2> SUFFICES ASSUME NEW k \in DOMAIN requests, NEW i \in DOMAIN about,
                      about[requests[k].msg].to = "user", about[i].to = "seller",
                      about[i].order = about[requests[k].msg].order
               PROVE  i \in done \/ i \in lost
    BY DEF OrdersAreAnnouncedFirst, Settled
  <2>1. PICK j : j = requests[k].msg
    OBVIOUS
  <2>2. k \in 1..Len(requests) /\ j \in 1..Len(published)
    BY <1>1, <2>1, Shape DEF DeliveryOK, DeliveryTypeOK, DeliveryInv, RequestsBehind, PushRequest
  <2>3. i \in 1..Len(published) /\ i < j
    BY <1>1, <2>1, <2>2 DEF NewsInv, AboutPublished, OffersFollowPosts
  <2>4. i \notin InQueue
    BY <1>1, <2>1, <2>2, <2>3, Shape DEF DeliveryOK, DeliveryInv, RequestsBehind, InQueue
  <2>5. i # current
    BY <1>1, <2>1, <2>2, <2>3 DEF DeliveryOK, DeliveryInv, RequestsBehind, HandlingState
  <2>6. QED
    BY <1>1, <2>3, <2>4, <2>5 DEF DeliveryOK, DeliveryInv, NoneMissing
<1>2. NotificationsSpec => []NewsInv
  BY NotificationsNewsInv
<1>3. NewsInv /\ DeliveryOK => OrdersAreAnnouncedFirst
  BY <1>1
<1>4. QED
  BY <1>2, <1>3, MessagesDelivered, NotificationsRunDelivery, PTL
=============================================================================
