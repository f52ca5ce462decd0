-------------------------- MODULE SellerCustomers ---------------------------
(***************************************************************************)
(* A seller's customers, their groups and the messages to them             *)
(* (uri/seller/user.cpp, user-group.cpp, group-message.cpp and             *)
(* user-message.cpp) over DB_USRMNG and DB_MSG.                            *)
(*                                                                         *)
(* Each call a handler makes to Mongo is a step.  An update whose path has *)
(* the positional "$" is an error when its query has selected no element   *)
(* of an array, with or without upsert.  Of a customer only the user_id is *)
(* kept.  The accounts of sellers and users do not change here: Accounts   *)
(* models what changes them.                                               *)
(***************************************************************************)
EXTENDS Naturals, Sequences, FiniteSets, SequencesExt

CONSTANTS
    Servers,    \* apl-server processes
    Sellers,    \* seller_id values
    Users,      \* user_id values
    Names,      \* group_name values
    GroupIds,   \* bound: the group_id values OID::gen hands out
    MsgIds,     \* bound: the msg_id values OID::gen hands out
    None,       \* a parameter, a field or a document that is not there
    MaxGroups,  \* bound: groups of a seller
    MaxMembers  \* bound: length of the "users" of a group

VARIABLES
    deployed,   \* the processes that share the database
    accounts,   \* the sellers in DB_SELLER and the users in DB_USR
    books,      \* DB_USRMNG: the documents of each seller
    msgs,       \* DB_MSG: the message with a msg_id
    pushed,     \* what has been handed to the message server
    used,       \* the identifiers that OID::gen has handed out
    todo,       \* the calls each server has still to make
    req,        \* the request each server handles
    members,    \* the users of a group that it has read, to notify and to record
    filed,      \* customers whose addition to a group was answered with APIE_OK
    removed     \* groups whose removal was answered with APIE_OK and is certain

vars == <<deployed, accounts, books, msgs, pushed, used, todo, req, members, filed, removed>>

-----------------------------------------------------------------------------

Members == UNION {[1..n -> Users] : n \in 0..MaxMembers}

\* A document of DB_USRMNG.  "users" is never emptied, so that the empty set
\* is a document without the field, and no handler tells a document without
\* "groups" from one with an empty array.
Group == [name : Names, id : GroupIds \cup {None}, users : Seq(Users)]
Book == [users : SUBSET Users, groups : Seq(Group)]

\* What Seller::Post inserts.
EmptyBook == [users |-> {}, groups |-> <<>>]

Message == [group : GroupIds \cup {None}, to : SUBSET Users]

ASSUME CustomersAssumption ==
    /\ None \notin Sellers \cup Users \cup Names \cup GroupIds \cup MsgIds
    /\ None \notin Message
    /\ MaxGroups \in Nat /\ MaxMembers \in Nat

\* What is handed to the message server; "seller", whose request it was, is not sent.
Notification == [msg : MsgIds, op : {"groupMessage", "userMessage"}, seller : Sellers,
         group : GroupIds \cup {None}, to : SUBSET Users]

\* What GroupMessage::Post collects.
Collected == [notified : SUBSET Users, recorded : SUBSET Users]
NobodyCollected == [notified |-> {}, recorded |-> {}]

Ops == {"userPost", "userPut", "userDelete", "groupPost", "groupPut", "groupDelete",
        "groupMessage", "userMessage"}

Request == [op : Ops, seller : Sellers, user : Users \cup {None}, name : Names \cup {None},
            group : GroupIds \cup {None, "given"}, list : Members, msg : MsgIds \cup {None}]

NoRequest == [op |-> "none", seller |-> None, user |-> None, name |-> None, group |-> None,
              list |-> <<>>, msg |-> None]

\* The requests whose parameters pass the checks: the parameters that each
\* handler reads.  A group_id that the client gives to UserGroup::Post is not
\* stored: the group has none.  GroupMessage::Post takes an empty group_id, and
\* then means such groups; the user_id that it asks for has no effect.  Other
\* group_ids are only of interest when they have been handed out.
RequestOf(op, users, names, groups, lists, ids) ==
    [op : {op}, seller : Sellers, user : users, name : names, group : groups, list : lists, msg : ids]

Requests ==
    LET known == GroupIds \cap used IN
    UNION {RequestOf("userPost", Users, Names, {None}, {<<>>}, {None}),
           RequestOf("userPut", Users, {None}, known \cup {None}, {<<>>}, {None}),
           RequestOf("userDelete", Users, {None}, {None}, {<<>>}, {None}),
           RequestOf("groupPost", {None}, Names, {None, "given"}, Members, {None}),
           RequestOf("groupPut", Users, Names, {None}, {<<>>}, {None}),
           RequestOf("groupDelete", {None}, {None}, known, {<<>>}, {None}),
           RequestOf("groupMessage", {None}, {None}, known \cup {None}, {<<>>}, MsgIds \ used),
           RequestOf("userMessage", Users, {None}, {None}, {<<>>}, MsgIds \ used)}

-----------------------------------------------------------------------------
(***************************************************************************)
(* The handlers: the calls each one makes while its queries find something *)
(***************************************************************************)

UserPost   == <<"findUser", "findBook", "findGroup", "addToGroup">>
UserPut    == <<"findCustomer", "setCustomer", "leaveOldGroup", "joinGroup">>
UserPutWithoutGroup == <<"findCustomer", "setCustomer">>
UserDelete == <<"findSeller", "pullCustomer", "pullFromGroups">>

UserGroupPost   == <<"findSeller", "findBook", "pushGroup">>
UserGroupPut    == <<"findBook", "pullMember">>
UserGroupDelete == <<"findSeller", "pullGroup">>

\* Variant: the users are notified before the message is stored.
UserMessagePostEarly == <<"findSeller", "findUser", "push", "insertMsg">>

UserMessagePost  == <<"findSeller", "findUser", "insertMsg", "push">>
GroupMessagePost == <<"findSeller", "readGroup", "insertMsg", "push">>

Handler(r) ==
    CASE r.op = "userPost"     -> UserPost
      [] r.op = "userPut"      -> IF r.group = None THEN UserPutWithoutGroup ELSE UserPut
      [] r.op = "userDelete"   -> UserDelete
      [] r.op = "groupPost"    -> UserGroupPost
      [] r.op = "groupPut"     -> UserGroupPut
      [] r.op = "groupDelete"  -> UserGroupDelete
      [] r.op = "groupMessage" -> GroupMessagePost
      [] OTHER                 -> UserMessagePost

\* The calls a handler makes instead when a query finds nothing.
Otherwise(call, r) ==
    CASE call = "findBook" /\ r.op # "groupPut" -> <<"insertBook">>
      [] call = "findGroup"                     -> <<"replaceGroups">>
      [] OTHER                                  -> <<>>

-----------------------------------------------------------------------------
(***************************************************************************)
(* The calls                                                               *)
(***************************************************************************)

First(S) == CHOOSE k \in S : \A j \in S : k <= j

\* The documents of a seller, and the groups of a document, that a query selects.
Having(bs, field, v) == {k \in DOMAIN bs : \E j \in DOMAIN bs[k].groups : bs[k].groups[j][field] = v}
GroupsWith(b, field, v) == {j \in DOMAIN b.groups : b.groups[j][field] = v}

\* The documents that a call asks for.
Matches(call, r) ==
    LET bs == books[r.seller]
    IN CASE call \in {"findGroup", "addToGroup", "pullMember"} -> Having(bs, "name", r.name)
         [] call = "joinGroup"    -> Having(bs, "id", r.group)
         [] call = "findCustomer" -> {k \in DOMAIN bs : r.user \in bs[k].users}
         [] OTHER                 -> DOMAIN bs

\* The document that the call meets is any of them, since a document that
\* grows is moved; 0 is none.
Meets(call, r) == IF Matches(call, r) = {} THEN {0} ELSE Matches(call, r)

Finds(call, r) ==
    CASE call = "findSeller" -> r.seller \in accounts
      [] call = "findUser"   -> r.user \in accounts
      [] call \in {"findBook", "findGroup", "findCustomer"} -> Matches(call, r) # {}
      [] OTHER               -> TRUE

\* A DBException that does not depend on the connection.  User::Put reads the
\* fields of a group as objects, and the first is a string; User::Delete pulls
\* from a path through an array, and then with a "$" that nothing selects;
\* GroupMessage::Post calls next() on a cursor that may have nothing.
Throws(call, r, k) ==
    CASE call = "findCustomer"   -> k # 0 /\ books[r.seller][k].groups # <<>>
      [] call = "pullCustomer"   -> k # 0 /\ books[r.seller][k].users # {}
      [] call = "pullFromGroups" -> k # 0
      [] call \in {"readGroup", "addToGroup", "pullMember"} -> k = 0
      [] OTHER                   -> FALSE

\* The group that User::Post or UserGroup::Post constructs, g being a fresh OID.
NewGroup(r, g) ==
    [name |-> r.name, id |-> IF r.group = "given" THEN None ELSE g,
     users |-> IF r.op = "userPost" THEN <<r.user>> ELSE r.list]

InsertBook(bs, r, g) ==
    Append(bs, [users |-> IF r.op = "userPost" THEN {r.user} ELSE {}, groups |-> <<NewGroup(r, g)>>])

\* What the updates make of the document they meet.

\* Variant: "users" is set like "groups".
ReplaceBoth(b, r, g) == [users |-> {r.user}, groups |-> <<NewGroup(r, g)>>]

\* "groups" is set to an array with the new group alone.
ReplaceGroups(b, r, g) == [users |-> b.users \cup {r.user}, groups |-> <<NewGroup(r, g)>>]

PushGroup(b, r, g) == [b EXCEPT !.groups = Append(@, NewGroup(r, g))]

\* The elements of q at the positions K: what a $pull of the others leaves.
Keep(q, K) ==
    [j \in 1..Cardinality(K) |-> q[CHOOSE k \in K : Cardinality({i \in K : i <= k}) = j]]

\* Variant: the field is misspelled.
PullNothing(b, r) == b

PullGroup(b, r) == [b EXCEPT !.groups = Keep(@, {j \in DOMAIN @ : @[j].id # r.group})]

\* The positional "$" is the first group that the query selects.
Selected(b, field, v) == First(GroupsWith(b, field, v))

AddTo(users, u) == IF Contains(users, u) THEN users ELSE Append(users, u)

\* Variant: only "users" gets the customer.
AddToUsers(b, r) == [b EXCEPT !.users = @ \cup {r.user}]

AddToGroup(b, r) ==
    [users |-> b.users \cup {r.user},
     groups |-> [b.groups EXCEPT ![Selected(b, "name", r.name)].users = AddTo(@, r.user)]]

PullMember(b, r) ==
    [b EXCEPT !.groups[Selected(b, "name", r.name)].users = Keep(@, {k \in DOMAIN @ : @[k] # r.user})]

\* setCustomer changes only data, and no group has the empty group_id from
\* which leaveOldGroup pulls.
JoinGroup(b, r) ==
    [b EXCEPT !.groups[Selected(b, "id", r.group)].users = Append(@, r.user)]

NewBook(call, b, r, g) ==
    CASE call = "replaceGroups" -> ReplaceGroups(b, r, g)
      [] call = "pushGroup"     -> PushGroup(b, r, g)
      [] call = "addToGroup"    -> AddToGroup(b, r)
      [] call = "pullMember"    -> PullMember(b, r)
      [] call = "pullGroup"     -> PullGroup(b, r)
      [] call = "joinGroup"     -> JoinGroup(b, r)
      [] OTHER                  -> b

NewBooks(call, bs, r, k, g) ==
    IF call = "insertBook" THEN InsertBook(bs, r, g)
    ELSE IF k = 0 THEN bs
    ELSE [bs EXCEPT ![k] = NewBook(call, @, r, g)]

\* The bounds: a call that would exceed one is not made.
WithinBounds(bs) ==
    \A k \in DOMAIN bs : /\ Len(bs[k].groups) <= MaxGroups
                         /\ \A j \in DOMAIN bs[k].groups : Len(bs[k].groups[j].users) <= MaxMembers

\* GroupMessage::Post calls next() twice in each turn of its loop over a group:
\* it notifies the first, third... member and records the second, fourth...;
\* after an odd number of members an empty name is recorded, which is nobody's.
Every2nd(q, from) == {q[k] : k \in {k \in DOMAIN q : k % 2 = from}}

\* From the groups with the id, in the document that is met.
MembersOf(b, r) ==
    LET named == {g \in ToSet(b.groups) : g.id = r.group}
    IN [notified |-> UNION {Every2nd(g.users, 1) : g \in named},
        recorded |-> UNION {Every2nd(g.users, 0) : g \in named}]

Notified(r, found)   == IF r.op = "userMessage" THEN {r.user} ELSE found.notified
Recipients(r, found) == IF r.op = "userMessage" THEN {r.user} ELSE found.recorded

\* What the call leaves in the database; a new group gets an unused identifier.
Creates(call, r) == call \in {"insertBook", "replaceGroups", "pushGroup"} /\ r.group # "given"

Stored(call, r, k, found) ==
    \E g \in IF Creates(call, r) THEN GroupIds \ used ELSE {None} :
    /\ books' = [books EXCEPT ![r.seller] = NewBooks(call, @, r, k, g)]
    /\ WithinBounds(books'[r.seller])
    /\ used' = used \cup ({g} \ {None})
    /\ msgs' = IF call = "insertMsg"
               THEN [msgs EXCEPT ![r.msg] = [group |-> r.group, to |-> Recipients(r, found)]] ELSE msgs

-----------------------------------------------------------------------------
(***************************************************************************)
(* The steps of a process                                                  *)
(***************************************************************************)

Receive(s, r) ==
    /\ todo[s] = <<>>
    /\ todo' = [todo EXCEPT ![s] = Handler(r)]
    /\ req' = [req EXCEPT ![s] = r]
    /\ UNCHANGED members
    /\ used' = used \cup ({r.msg} \ {None})
    /\ filed' = CASE r.op = "groupPut"    -> filed \ {<<r.seller, r.name, r.user>>}
                  [] r.op = "groupDelete" -> {f \in filed : f[1] # r.seller}
                  [] OTHER                -> filed
    /\ UNCHANGED <<deployed, accounts, books, msgs, pushed, removed>>

End(s) ==
    /\ todo' = [todo EXCEPT ![s] = <<>>]
    /\ req' = [req EXCEPT ![s] = NoRequest]
    /\ members' = [members EXCEPT ![s] = NobodyCollected]

Advance(s, rest, found) ==
    IF rest = <<>> THEN End(s)
    ELSE /\ todo' = [todo EXCEPT ![s] = rest]
         /\ members' = [members EXCEPT ![s] = found]
         /\ UNCHANGED req

\* replaceGroups drops the groups that there were.
StillFiled(call, r) == IF call = "replaceGroups" THEN {f \in filed : f[1] # r.seller} ELSE filed

\* A $pull from one of two documents may miss the one with the group.
Certain(r) == Len(books[r.seller]) <= 1

\* The last call has been made and the answer is APIE_OK.
Acknowledge(r, call) ==
    /\ filed' = StillFiled(call, r) \cup
                 (IF r.op = "userPost" THEN {<<r.seller, r.name, r.user>>} ELSE {})
    /\ removed' = IF r.op = "groupDelete" /\ Certain(r) THEN removed \cup {<<r.seller, r.group>>} ELSE removed

Queries == {"findSeller", "findUser", "findBook", "findGroup", "findCustomer", "readGroup"}

Query(s) ==
    LET r == req[s]
        call == Head(todo[s])
        rest == IF Finds(call, r) THEN Tail(todo[s]) ELSE Otherwise(call, r)
    IN /\ todo[s] # <<>> /\ call \in Queries
       /\ \E k \in Meets(call, r) :
             IF Finds(call, r) /\ Throws(call, r, k) THEN End(s)
             ELSE Advance(s, rest, IF call = "readGroup" THEN MembersOf(books[r.seller][k], r) ELSE members[s])
       /\ UNCHANGED <<deployed, accounts, books, msgs, pushed, used, filed, removed>>

Write(s) ==
    LET r == req[s]
        call == Head(todo[s])
    IN /\ todo[s] # <<>> /\ call \notin Queries \cup {"push"}
       /\ \E k \in Meets(call, r) : ~Throws(call, r, k) /\ Stored(call, r, k, members[s])
       /\ Advance(s, Tail(todo[s]), members[s])
       /\ IF Tail(todo[s]) = <<>> THEN Acknowledge(r, call) ELSE UNCHANGED <<filed, removed>>
       /\ UNCHANGED <<deployed, accounts, pushed>>

\* pushMessageToUsers returns when there is nobody to notify.
Push(s) ==
    LET to == Notified(req[s], members[s])
    IN /\ todo[s] # <<>> /\ Head(todo[s]) = "push"
       /\ pushed' = IF to = {} THEN pushed
                    ELSE pushed \cup {[msg |-> req[s].msg, op |-> req[s].op, seller |-> req[s].seller,
                                     group |-> req[s].group, to |-> to]}
       /\ Advance(s, Tail(todo[s]), members[s])
       /\ UNCHANGED <<deployed, accounts, books, msgs, used, filed, removed>>

\* A DBException that the call raises by itself or for want of a connection,
\* then with or without its effect, or the end of the process.
Fail(s) ==
    /\ todo[s] # <<>>
    /\ \/ UNCHANGED <<books, used, msgs, filed>>
       \/ /\ Head(todo[s]) \notin Queries \cup {"push"}
          /\ \E k \in Meets(Head(todo[s]), req[s]) :
                ~Throws(Head(todo[s]), req[s], k) /\ Stored(Head(todo[s]), req[s], k, members[s])
          /\ filed' = StillFiled(Head(todo[s]), req[s])
    /\ End(s)
    /\ UNCHANGED <<deployed, accounts, pushed, removed>>

-----------------------------------------------------------------------------

\* A registration that was cut short leaves no document in DB_USRMNG, and a
\* seller who has registered twice has two.
Init ==
    /\ deployed \in (SUBSET Servers) \ {{}}
    /\ accounts \in SUBSET (Sellers \cup Users)
    /\ books \in [Sellers -> {<<>>, <<EmptyBook>>, <<EmptyBook, EmptyBook>>}]
    /\ msgs = [m \in MsgIds |-> None]
    /\ pushed = {}
    /\ used = {}
    /\ todo = [s \in Servers |-> <<>>]
    /\ req = [s \in Servers |-> NoRequest]
    /\ members = [s \in Servers |-> NobodyCollected]
    /\ filed = {}
    /\ removed = {}

Next == \E s \in deployed :
    \/ \E r \in Requests : Receive(s, r)
    \/ Query(s)
    \/ Write(s)
    \/ Push(s)
    \/ Fail(s)

Spec == Init /\ [][Next]_vars

-----------------------------------------------------------------------------
(***************************************************************************)
(* Properties                                                              *)
(***************************************************************************)

Calls == UNION {ToSet(h) : h \in {UserPost, UserPut, UserDelete, UserGroupPost, UserGroupPut,
                                  UserGroupDelete, GroupMessagePost, UserMessagePost,
                                  <<"insertBook">>, <<"replaceGroups">>}}

\* The type of every variable.
TypeOK ==
    /\ deployed \in SUBSET Servers
    /\ accounts \in SUBSET (Sellers \cup Users)
    /\ books \in [Sellers -> Seq(Book)]
    /\ msgs \in [MsgIds -> {None} \cup Message]
    /\ pushed \in SUBSET Notification
    /\ used \in SUBSET (GroupIds \cup MsgIds)
    /\ todo \in [Servers -> Seq(Calls)]
    /\ req \in [Servers -> Request \cup {NoRequest}]
    /\ members \in [Servers -> Collected]
    /\ filed \in SUBSET (Sellers \X Names \X Users)
    /\ removed \in SUBSET (Sellers \X GroupIds)

OneServer == \E s \in Servers : deployed = {s}

Customers(i) == UNION {books[i][k].users : k \in DOMAIN books[i]}

\* The record of a customer is never lost, however the handlers of several
\* processes interleave, except in a step of a User::Delete for this customer:
\* no other handler removes from "users" or sets it, UserGroup::Put takes the
\* user_id out of a group only, and User::Post keeps the customers of the
\* groups that it replaces.  (As it is, User::Delete fails whenever there is a
\* document.)
CustomersAreKept ==
    [][\A i \in Sellers : \A u \in Customers(i) \ Customers(i)' :
          \E s \in Servers : /\ todo'[s] # todo[s]
                             /\ req[s].op = "userDelete" /\ req[s].seller = i /\ req[s].user = u]_vars

\* UserList::Get shows the groups of the document it meets.
UserList(b) == UNION {{<<g.name, u>> : u \in ToSet(g.users)} : g \in ToSet(b.groups)}

\* With one process, a customer whose addition to a group was answered with
\* APIE_OK is listed in a group of that name, in a document of the seller, until
\* somebody asks to take the customer out of the group or to remove any group
\* of the seller, or a customer is added to a new group, which takes the place
\* of all others.
FiledIsListed ==
    OneServer => \A f \in filed : \E b \in ToSet(books[f[1]]) : <<f[2], f[3]>> \in UserList(b)

\* With one process, nobody is notified of a message to a group after the
\* request to remove it, by a seller who has one document, was answered with
\* APIE_OK.
NoMessageToRemovedGroup ==
    [][OneServer => \A p \in pushed' \ pushed : <<p.seller, p.group>> \notin removed]_vars

\* A user is only notified of a message that is stored, whatever was cut short
\* and however many processes there are; a message to one user is stored for
\* the user who is notified.
NotifiedIsStored ==
    \A p \in pushed : /\ msgs[p.msg] # None
                      /\ p.op = "userMessage" => msgs[p.msg].to = p.to
=============================================================================
