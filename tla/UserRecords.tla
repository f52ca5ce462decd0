---------------------------- MODULE UserRecords -----------------------------
(***************************************************************************)
(* What users leave in the database: their cars and favourites             *)
(* (uri/user/car-list.cpp, favorite.cpp) in DB_USR, their comments         *)
(* (seller-comment.cpp, seller-comment-list.cpp) in DB_COMMENT, their      *)
(* messages and replies (message.cpp) in DB_MSG and their calls for help   *)
(* (sos.cpp) in DB_SOS, and the notifications of sellers about them.       *)
(*                                                                         *)
(* Each call a handler makes to Mongo or to the message server is a step.  *)
(* A comment, a message, a reply and a call for help is an identifier; of  *)
(* the array of cars it is how often a plate number is in it.  Every       *)
(* change of DB_COMMENT is an upsert by seller_id, so that a seller has at *)
(* most one document there.                                                *)
(***************************************************************************)
EXTENDS Naturals, Sequences, SequencesExt

CONSTANTS
    Servers,    \* apl-server processes
    Users,      \* user_id values
    Sellers,    \* seller_id values
    Plates,     \* platenumber values
    Favorites,  \* what a favourite names: a seller or a commodity
    Ids,        \* bound: comments, messages, replies and calls for help
    None,       \* a document or a parameter that is not there
    MaxCars     \* bound: how often a plate number is in "cars"

VARIABLES
    deployed,   \* the processes that share the database
    sellers,    \* the sellers in DB_SELLER
    users,      \* DB_USR: the documents of each user_id, in their order
    comments,   \* DB_COMMENT: the two arrays of a seller's document
    msgs,       \* DB_MSG: the message with a msg_id
    sos,        \* DB_SOS: the call for help with an order_id
    pushed,     \* what has been handed to the message server
    used,       \* the identifiers that are taken
    todo,       \* the calls each server has still to make
    req,        \* the request each server handles
    near,       \* the sellers that its query has found
    kept,       \* what was answered with APIE_OK, with the owner
    dropped,    \* the cars whose removal was answered with APIE_OK
    gone        \* the users whose removal was answered with APIE_OK

vars == <<deployed, sellers, users, comments, msgs, sos, pushed, used, todo, req, near, kept, dropped, gone>>
docs == <<users, comments, msgs, sos>>

-----------------------------------------------------------------------------

\* A document of DB_USR; "account" when User::Post has inserted it.
Document == [account : BOOLEAN, cars : [Plates -> Nat], favorites : SUBSET Favorites]
NoCars == [p \in Plates |-> 0]
NewAccount == [account |-> TRUE, cars |-> NoCars, favorites |-> {}]

Message == [user : Users, seller : Sellers, replies : Seq(Ids)]
CallForHelp == [user : Users, sellers : (SUBSET Sellers) \ {{}}]

\* None is none of the values it is told apart from.
ASSUME RecordsAssumption ==
    /\ None \notin Users \cup Sellers \cup Plates \cup Favorites \cup Ids
    /\ None \notin Message /\ None \notin CallForHelp
    /\ MaxCars \in Nat

Ops == {"register", "remove", "carPost", "carDelete", "favorite", "comment", "listComment",
        "message", "reply", "sos"}

Request == [op : Ops, user : Users, seller : Sellers \cup {None}, what : Plates \cup Favorites \cup Ids \cup {None},
            id : Ids \cup {None}]
NoRequest == [op |-> "none", user |-> None, seller |-> None, what |-> None, id |-> None]

\* The requests whose parameters pass the checks.  "what" is a plate number, a
\* favourite, or the message that is replied to; the "type" of a favourite is
\* one of the two that the comment in Favorite::Post names.
RequestOf(ops, parties, whats, ids) ==
    [op : ops, user : Users, seller : parties, what : whats, id : ids]

Requests ==
    LET fresh == Ids \ used
    IN UNION {RequestOf({"register", "remove"}, {None}, {None}, {None}),
              RequestOf({"carPost", "carDelete"}, {None}, Plates, {None}),
              RequestOf({"favorite"}, {None}, Favorites, {None}),
              RequestOf({"comment", "listComment", "message"}, Sellers, {None}, fresh),
              RequestOf({"reply"}, Sellers, Ids, fresh),
              RequestOf({"sos"}, {None}, {None}, fresh)}

-----------------------------------------------------------------------------
(***************************************************************************)
(* The handlers: the calls each one makes while its queries find something *)
(***************************************************************************)

UserPost   == <<"findNoUser", "insertUser">>
UserDelete == <<"findUser", "removeUser">>

CarListPost   == <<"findUser", "pushCar">>
CarListDelete == <<"findUser", "pullCar">>

\* Variant: the user is not looked for.
FavoritePostUnchecked == <<"addFavorite">>

FavoritePost == <<"findUser", "addFavorite">>

CommentsPost          == <<"findUser", "pushComment", "push">>
SellerCommentListPost == <<"findUser", "pushListComment", "push">>

MessagePost == <<"findSeller", "findUser", "insertMsg", "push">>
ReplyPost   == <<"findSeller", "findUser", "findMsg", "pushReply", "push">>

SOSPost == <<"findUser", "findSellers", "insertSos", "push">>

Handlers ==
    [register |-> UserPost, remove |-> UserDelete, carPost |-> CarListPost, carDelete |-> CarListDelete,
     favorite |-> FavoritePost, comment |-> CommentsPost, listComment |-> SellerCommentListPost,
     message |-> MessagePost, reply |-> ReplyPost, sos |-> SOSPost]

Queries == {"findNoUser", "findUser", "findSeller", "findMsg", "findSellers"}

-----------------------------------------------------------------------------
(***************************************************************************)
(* The calls                                                               *)
(***************************************************************************)

\* Variant: the message that is replied to is not looked for.
FoundMsgAlways(m) == TRUE

FoundMsg(m) == msgs[m] # None

EnoughSellers(found) == found # {}

\* The query lets the handler go on, found being what findSellers has found.
Passes(call, r, found) ==
    CASE call = "findNoUser"  -> users[r.user] = <<>>
      [] call = "findUser"    -> users[r.user] # <<>>
      [] call = "findSeller"  -> r.seller \in sellers
      [] call = "findMsg"     -> FoundMsg(r.what)
      [] OTHER                -> EnoughSellers(found)

\* get_sellers_uuid finds the open sellers in the city, near the place.
Found(call) == IF call = "findSellers" THEN SUBSET sellers ELSE {{}}

InFirst(ds, F(_)) == IF ds = <<>> THEN ds ELSE [ds EXCEPT ![1] = F(@)]

\* Variant: "cars" is set to an array with the new car.
SetCar(r) ==
    LET F(d) == [d EXCEPT !.cars = [NoCars EXCEPT ![r.what] = 1]] IN [users EXCEPT ![r.user] = InFirst(@, F)]

PushCar(r) ==
    LET F(d) == [d EXCEPT !.cars[r.what] = @ + 1] IN [users EXCEPT ![r.user] = InFirst(@, F)]

\* A $pull takes every element that matches.
PullCar(r) ==
    LET F(d) == [d EXCEPT !.cars[r.what] = 0] IN [users EXCEPT ![r.user] = InFirst(@, F)]

\* The only upsert on DB_USR: without a document it makes one that is no account.
AddFavorite(r) ==
    LET F(d) == [d EXCEPT !.favorites = @ \cup {r.what}]
        ghost == [account |-> FALSE, cars |-> NoCars, favorites |-> {r.what}]
    IN [users EXCEPT ![r.user] = IF @ = <<>> THEN <<ghost>> ELSE InFirst(@, F)]

NewUsers(call, r) ==
    CASE call = "insertUser"  -> [users EXCEPT ![r.user] = Append(@, NewAccount)]
      [] call = "removeUser"  -> [users EXCEPT ![r.user] = <<>>]
      [] call = "pushCar"     -> PushCar(r)
      [] call = "pullCar"     -> PullCar(r)
      [] call = "addFavorite" -> AddFavorite(r)
      [] OTHER                -> users

PushComment(r)     == [comments EXCEPT ![r.seller].comments = Append(@, r.id)]
PushListComment(r) == [comments EXCEPT ![r.seller].SellerCommentList = Append(@, r.id)]

NewComments(call, r) ==
    CASE call = "pushComment"     -> PushComment(r)
      [] call = "pushListComment" -> PushListComment(r)
      [] OTHER                    -> comments

InsertMsg(r) == [msgs EXCEPT ![r.id] = [user |-> r.user, seller |-> r.seller, replies |-> <<>>]]
PushReply(r) == IF msgs[r.what] = None THEN msgs ELSE [msgs EXCEPT ![r.what].replies = Append(@, r.id)]

\* What the call leaves in the database.
Stored(call, r, found) ==
    /\ users' = NewUsers(call, r)
    /\ \A u \in Users : \A k \in DOMAIN users'[u] : \A p \in Plates : users'[u][k].cars[p] <= MaxCars
    /\ comments' = NewComments(call, r)
    /\ msgs' = CASE call = "insertMsg" -> InsertMsg(r)
                 [] call = "pushReply" -> PushReply(r)
                 [] OTHER              -> msgs
    /\ sos' = IF call = "insertSos" THEN [sos EXCEPT ![r.id] = [user |-> r.user, sellers |-> found]] ELSE sos

-----------------------------------------------------------------------------
(***************************************************************************)
(* The steps of a process                                                  *)
(***************************************************************************)

\* What is kept of a user ends when somebody asks to remove the user, and of a
\* car when somebody asks to remove it.
Ends(r, k) ==
    k.owner = r.user /\ \/ r.op = "remove" /\ k.op \in {"carPost", "favorite"}
                        \/ r.op = "carDelete" /\ k.op = "carPost" /\ k.what = r.what

Receive(s, r) ==
    /\ todo[s] = <<>>
    /\ todo' = [todo EXCEPT ![s] = Handlers[r.op]]
    /\ req' = [req EXCEPT ![s] = r]
    /\ near' = [near EXCEPT ![s] = {}]
    /\ used' = used \cup ({r.id} \ {None})
    /\ kept' = {k \in kept : ~Ends(r, k)}
    /\ dropped' = IF r.op = "carPost" THEN dropped \ {<<r.user, r.what>>} ELSE dropped
    /\ gone' = IF r.op = "register" THEN gone \ {r.user} ELSE gone
    /\ UNCHANGED <<deployed, sellers, docs, pushed>>

\* The answer of a handler that has made all its calls is APIE_OK.
Acknowledge(r) ==
    /\ kept' = CASE r.op \in {"carPost", "favorite"} ->
                        kept \cup {[op |-> r.op, owner |-> r.user, what |-> r.what]}
                 [] r.op = "comment" -> kept \cup {[op |-> r.op, owner |-> r.seller, what |-> r.id]}
                 [] r.op = "reply"   -> kept \cup {[op |-> r.op, owner |-> r.what, what |-> r.id]}
                 [] OTHER            -> kept
    /\ dropped' = IF r.op = "carDelete" THEN dropped \cup {<<r.user, r.what>>} ELSE dropped
    /\ gone' = IF r.op = "remove" THEN gone \cup {r.user} ELSE gone

End(s) ==
    /\ todo' = [todo EXCEPT ![s] = <<>>]
    /\ req' = [req EXCEPT ![s] = NoRequest]

Abandon(s) == End(s) /\ UNCHANGED <<kept, dropped, gone>>

Goto(s) == todo' = [todo EXCEPT ![s] = Tail(@)] /\ UNCHANGED <<req, kept, dropped, gone>>

Query(s) ==
    /\ todo[s] # <<>> /\ Head(todo[s]) \in Queries
    /\ \E found \in Found(Head(todo[s])) :
           /\ near' = [near EXCEPT ![s] = found]
           /\ IF Passes(Head(todo[s]), req[s], found) THEN Goto(s) ELSE Abandon(s)
    /\ UNCHANGED <<deployed, sellers, docs, pushed, used>>

Write(s) ==
    /\ todo[s] # <<>> /\ Head(todo[s]) \notin Queries \cup {"push"}
    /\ Stored(Head(todo[s]), req[s], near[s])
    /\ IF Tail(todo[s]) = <<>> THEN End(s) /\ Acknowledge(req[s]) ELSE Goto(s)
    /\ UNCHANGED <<deployed, sellers, pushed, used, near>>

\* pushMessageToSeller or pushMessageToSellers, the last call; nothing is reported when the
\* broker cannot be reached.
Push(s) ==
    LET r == req[s]
    IN /\ todo[s] # <<>> /\ Head(todo[s]) = "push"
       /\ pushed' = pushed \cup {[op |-> r.op, id |-> r.id, what |-> r.what,
                                  to |-> IF r.op = "sos" THEN near[s] ELSE {r.seller}]}
       /\ End(s) /\ Acknowledge(r)
       /\ UNCHANGED <<deployed, sellers, docs, used, near>>

\* A DBException, before or after the call had its effect, or the end of the process.
Fail(s) ==
    /\ todo[s] # <<>>
    /\ Stored(Head(todo[s]), req[s], near[s]) \/ UNCHANGED docs
    /\ Abandon(s)
    /\ UNCHANGED <<deployed, sellers, pushed, used, near>>

-----------------------------------------------------------------------------

Init ==
    /\ deployed \in (SUBSET Servers) \ {{}}
    /\ sellers \in SUBSET Sellers
    /\ users = [u \in Users |-> <<>>]
    /\ comments = [i \in Sellers |-> [comments |-> <<>>, SellerCommentList |-> <<>>]]
    /\ msgs = [m \in Ids |-> None]
    /\ sos = [m \in Ids |-> None]
    /\ pushed = {}
    /\ used = {}
    /\ todo = [s \in Servers |-> <<>>]
    /\ req = [s \in Servers |-> NoRequest]
    /\ near = [s \in Servers |-> {}]
    /\ kept = {}
    /\ dropped = {}
    /\ gone = {}

Next == \E s \in deployed :
    \/ \E r \in Requests : Receive(s, r)
    \/ Query(s)
    \/ Write(s)
    \/ Push(s)
    \/ Fail(s)

Spec == Init /\ [][Next]_vars

-----------------------------------------------------------------------------
(***************************************************************************)
(* Properties                                                              *)
(***************************************************************************)

Calls == UNION {ToSet(Handlers[op]) : op \in Ops}

\* The type of every variable: a call for help has somebody to help.
TypeOK ==
    /\ deployed \in SUBSET Servers
    /\ sellers \in SUBSET Sellers
    /\ users \in [Users -> Seq(Document)]
    /\ comments \in [Sellers -> [comments : Seq(Ids), SellerCommentList : Seq(Ids)]]
    /\ msgs \in [Ids -> {None} \cup Message]
    /\ sos \in [Ids -> {None} \cup CallForHelp]
    /\ pushed \in SUBSET [op : Ops, id : Ids, what : Ids \cup {None}, to : SUBSET Sellers]
    /\ used \in SUBSET Ids
    /\ todo \in [Servers -> Seq(Calls)]
    /\ req \in [Servers -> Request \cup {NoRequest}]
    /\ near \in [Servers -> SUBSET Sellers]
    /\ kept \in SUBSET [op : Ops, owner : Users \cup Sellers \cup Ids, what : Plates \cup Favorites \cup Ids]
    /\ dropped \in SUBSET (Users \X Plates)
    /\ gone \in SUBSET Users

OneServer == \E s \in Servers : deployed = {s}

\* What the lists show, but for the paging.  CarList::Get reads the first document
\* of a user; the identifier that it replaces the request's with is one of the
\* users.  All three lists of comments read "comments".  Of replies it is what is
\* stored, since getMessageDetail reads them from an object it has not initialized.
CarList(u) == {p \in Plates : users[u] # <<>> /\ users[u][1].cars[p] > 0}
Comments(i) == ToSet(comments[i].comments)
SellerCommentList(i) == ToSet(comments[i].comments)
CommentList(i) == ToSet(comments[i].comments)
RepliesOf(m) == IF msgs[m] = None THEN {} ELSE ToSet(msgs[m].replies)

\* The records of which the notification p tells.
Recorded(p) ==
    CASE p.op = "comment"     -> \A i \in p.to : p.id \in CommentList(i)
      [] p.op = "listComment" -> \A i \in p.to : p.id \in ToSet(comments[i].SellerCommentList)
      [] p.op = "message"     -> msgs[p.id] # None /\ p.to = {msgs[p.id].seller}
      [] p.op = "reply"       -> p.id \in RepliesOf(p.what)
      [] OTHER                -> sos[p.id] # None /\ p.to = sos[p.id].sellers

\* What a seller is notified of is recorded, and a call for help or a message
\* for the sellers who are notified, wherever handlers stop and however many
\* processes there are.
NotifiedIsRecorded ==
    \A p \in pushed : Recorded(p)

\* What was answered with APIE_OK is where it was put.
Present(k) ==
    CASE k.op = "carPost"  -> k.what \in CarList(k.owner)
      [] k.op = "favorite" -> users[k.owner] # <<>> /\ k.what \in users[k.owner][1].favorites
      [] k.op = "comment"  -> k.what \in Comments(k.owner) \cap SellerCommentList(k.owner)
      [] OTHER             -> k.what \in RepliesOf(k.owner)

\* With one process, what was answered with APIE_OK stays where it was put: a
\* car and a favourite until somebody asks to remove it or the user, a comment
\* of Comments::Post and a reply for ever.  (SellerCommentList::Post answers
\* with APIE_OK too, but stores its comment where nothing reads it.)
AcknowledgedIsKept ==
    OneServer => \A k \in kept : Present(k)

\* With one process, a car whose removal was answered with APIE_OK is not shown
\* before somebody asks to add it again, although CarList::Post stores the same
\* car as often as it is asked to, and a user whose removal was has no document
\* before somebody asks to register it, although Favorite::Post upserts.
RemovedIsGone ==
    OneServer => /\ \A d \in dropped : d[2] \notin CarList(d[1])
                 /\ \A u \in gone : users[u] = <<>>
=============================================================================
