---------------------------- MODULE SellerOffers ----------------------------
(***************************************************************************)
(* What a seller offers (uri/seller/activity.cpp, service.cpp,             *)
(* commodity.cpp, advertisement.cpp) and where users find it.  Activities  *)
(* and services are arrays inside a document of DB_SELLER; an activity has *)
(* a document of DB_ACTIVITY too.  Commodities are documents of DB_STORE,  *)
(* advertisements documents of DB_ADS.                                     *)
(*                                                                         *)
(* Each call a handler makes to Mongo is a step.  An array is the set of   *)
(* its items' identifiers: titles, texts and images are data, except the   *)
(* title of an advertisement, which is looked up.                          *)
(***************************************************************************)
EXTENDS Integers, Sequences

CONSTANTS
    Servers,    \* apl-server processes
    Sellers,    \* seller_id values
    Ids,        \* bound: the identifiers OID::gen hands out
    Titles,     \* titles of advertisements
    Absent      \* a field, or a document, that is not there

VARIABLES
    deployed,   \* the processes that share the database
    sellers,    \* DB_SELLER: the documents of each seller_id
    activity,   \* DB_ACTIVITY: the activity_id of its documents
    store,      \* DB_STORE: how many documents have a commodity_id
    ads,        \* DB_ADS: the title of the document with an ads_id
    made,       \* what each identifier was generated for, and for whom
    todo,       \* the calls to Mongo each server has still to make
    req,        \* the request each server handles
    had,        \* whether the seller's document it read had the array
    promised,   \* offers whose creation or change was answered with APIE_OK
    deleted     \* offers whose removal was answered with APIE_OK and is certain

vars == <<deployed, sellers, activity, store, ads, made, todo, req, had, promised, deleted>>
docs == <<sellers, activity, store, ads>>

-----------------------------------------------------------------------------

Kinds == {"activity", "service", "commodity", "ad"}
Lists == {Absent} \cup SUBSET Ids

\* The offers that are items of an array in DB_SELLER.
ArrayKinds == {"activity", "service"}

\* What an identifier was generated for, and for whom.
Made == [kind : Kinds, seller : Sellers]

\* Absent is none of the values it is told apart from.
ASSUME OffersAssumption ==
    /\ Absent \notin Titles \cup Ids \cup Sellers
    /\ \A list \in SUBSET Ids : list # Absent
    /\ \A m \in Made : m # Absent

\* A document of DB_SELLER.  Seller::Post stores no "role"; a document that
\* has one was made by the upsert of Service::Put or of Accusation::Delete.
Document == [role : BOOLEAN, activities : Lists, activites : Lists, services : Lists]

\* Seller::Post always appends "services".
Registered == [role |-> FALSE, activities |-> Absent, activites |-> Absent, services |-> {}]

\* What the upsert of Accusation::Delete leaves beside it (module Accounts).
Withdrawn == [role |-> TRUE, activities |-> Absent, activites |-> Absent, services |-> Absent]

Request == [op : {"Post", "Put", "Delete"}, kind : Kinds \cup {"account"},
            seller : Sellers \cup {Absent}, id : Ids \cup {Absent}, title : Titles \cup {Absent}]
NoRequest == [op |-> "none", kind |-> "none", seller |-> Absent, id |-> Absent, title |-> Absent]

\* The requests whose parameters pass the checks.  Post generates the
\* identifier; Put and Delete name one that a list or an answer has shown.
PostRequests ==
    [op : {"Post"}, kind : Kinds, seller : Sellers, id : {i \in Ids : made[i] = Absent}, title : Titles]

\* Commodity::Delete does not read the "seller_id".
Senders(op, kind) == IF op = "Delete" /\ kind = "commodity" THEN {Absent} ELSE Sellers

ChangeRequests(op) ==
    UNION {[op : {op}, kind : {made[i].kind}, seller : Senders(op, made[i].kind), id : {i}, title : {Absent}] :
              i \in {i \in Ids : made[i] # Absent}}

AccountRequests ==
    [op : {"Delete"}, kind : {"account"}, seller : Sellers, id : {Absent}, title : {Absent}]

Requests == PostRequests \cup ChangeRequests("Put") \cup ChangeRequests("Delete") \cup AccountRequests

-----------------------------------------------------------------------------
(***************************************************************************)
(* The handlers: the calls each one makes, in their order                  *)
(***************************************************************************)

\* Variant: the array is changed first.
ActivityPostListsFirst == <<"findSeller", "listActivity", "insertActivity">>

ActivityPost   == <<"findSeller", "insertActivity", "listActivity">>
ActivityPut    == <<"findSeller", "pullActivity", "pushActivity">>
ActivityDelete == <<"findSeller", "pullActivity">>

ServicePost    == <<"findSeller", "listService">>
ServicePut     == <<"findSeller", "pullEdited", "pushEdited">>
ServiceDelete  == <<"findSeller", "pullService">>

CommodityPost   == <<"findSeller", "insertCommodity">>
CommodityPut    == <<"findCommodity", "removeCommodity", "insertCommodity">>
CommodityDelete == <<"findCommodityById", "removeCommodity">>

\* Variant: the title is looked up after the insertion.
AdvertisementPostTitleLast == <<"findSeller", "insertAd", "findTitle">>

AdvertisementPost   == <<"findSeller", "findTitle", "insertAd">>
\* The cancellation goes to DB_SELLER, where no document has an "ads_id".
AdvertisementPut    == <<"findAd", "cancelInSeller">>
\* No code that is compiled stores the status "doing", for which the removal
\* is refused.
AdvertisementDelete == <<"findAd", "removeAd">>

SellerDelete == <<"findSeller", "removeSeller">>

Handler(r) ==
    CASE r.kind = "activity"  -> [Post |-> ActivityPost, Put |-> ActivityPut, Delete |-> ActivityDelete][r.op]
      [] r.kind = "service"   -> [Post |-> ServicePost, Put |-> ServicePut, Delete |-> ServiceDelete][r.op]
      [] r.kind = "commodity" -> [Post |-> CommodityPost, Put |-> CommodityPut, Delete |-> CommodityDelete][r.op]
      [] r.kind = "ad"        -> [Post |-> AdvertisementPost, Put |-> AdvertisementPut,
                                  Delete |-> AdvertisementDelete][r.op]
      [] OTHER                -> SellerDelete

Queries == {"findSeller", "findCommodity", "findCommodityById", "findTitle", "findAd"}

-----------------------------------------------------------------------------
(***************************************************************************)
(* The calls                                                               *)
(***************************************************************************)

OwnedBy(r) == made[r.id].seller = r.seller

\* Variant: a change does not look for the commodity first.
FoundCommodityAlways(r) == OwnedBy(r)

FoundCommodity(r) == store[r.id] > 0 /\ OwnedBy(r)

SameTitle(r) == \E i \in Ids : ads[i] = r.title /\ made[i].seller = r.seller

\* The query lets the handler go on.
Passes(call, r) ==
    CASE call = "findSeller"        -> sellers[r.seller] # <<>>
      [] call = "findCommodity"     -> FoundCommodity(r)
      [] call = "findCommodityById" -> store[r.id] > 0
      [] call = "findTitle"         -> ~SameTitle(r)
      [] OTHER                      -> ads[r.id] # Absent /\ OwnedBy(r)

\* A document that grows is moved, so that it is not determined which of the
\* documents of a seller a query or an update meets.  What Post may find:
\* whether the document it meets has the array to which it adds an item.
Field(d, kind) == IF kind = "activity" THEN d.activities ELSE d.services
HasField(r) == {Field(sellers[r.seller][k], r.kind) # Absent : k \in 1..Len(sellers[r.seller])}

AddsItem(r) == r.op = "Post" /\ r.kind \in ArrayKinds

Push(list, i) == IF list = Absent THEN {i} ELSE list \cup {i}
Pull(list, i) == IF list = Absent THEN Absent ELSE list \ {i}

\* The documents an update asks for.
Matches(seq, withRole) == {k \in 1..Len(seq) : withRole => seq[k].role}

\* The document that an upsert starts from: it has the fields of the query.
Fresh(withRole) == [Registered EXCEPT !.role = withRole, !.services = Absent]

\* Post sets the array when the document it read had none, and adds to it
\* otherwise.  It compares the title with BSONElement::toString, which
\* contains the field's name, so that no title is ever refused.
ListItem(list, i, hadField) == IF hadField THEN Push(list, i) ELSE {i}

\* What the updates make of the document they meet.
ListActivity(d, i, hadField) == [d EXCEPT !.activities = ListItem(@, i, hadField)]
ListService(d, i, hadField) == [d EXCEPT !.services = ListItem(@, i, hadField)]
PullActivity(d, i) == [d EXCEPT !.activities = Pull(@, i)]

\* Activity::Put pushes the new version to the field "activites".
PushActivity(d, i) == [d EXCEPT !.activites = Push(@, i)]

PullService(d, i) == [d EXCEPT !.services = Pull(@, i)]

\* Variant: the new version goes to a misspelled field, as with activities.
PushEditedElsewhere(d, i) == [d EXCEPT !.activites = Push(@, i)]

PushEdited(d, i) == [d EXCEPT !.services = Push(@, i)]

ArrayCalls == {"listActivity", "listService", "pullActivity", "pushActivity",
               "pullEdited", "pushEdited", "pullService"}

Changed(call, d, r, hadField) ==
    CASE call = "listActivity" -> ListActivity(d, r.id, hadField)
      [] call = "listService"  -> ListService(d, r.id, hadField)
      [] call = "pullActivity" -> PullActivity(d, r.id)
      [] call = "pushActivity" -> PushActivity(d, r.id)
      [] call = "pushEdited"   -> PushEdited(d, r.id)
      [] OTHER                 -> PullService(d, r.id)

\* Service::Put asks for a document with the "role" of the request, and for an
\* upsert; so do, without a role, Service::Delete and Activity::Delete.
WithRole(call) == call \in {"pullEdited", "pushEdited"}
Upserts(call, r) == \/ call \in {"pullEdited", "pushEdited", "pullService"}
                    \/ call = "pullActivity" /\ r.op = "Delete"

\* What the update may leave of a seller's documents: it changes one that
\* matches; with upsert, and no document that matches, one is inserted.
Updated(seq, call, r, hadField) ==
    LET met == Matches(seq, WithRole(call))
    IN IF met # {} THEN {[seq EXCEPT ![k] = Changed(call, @, r, hadField)] : k \in met}
       ELSE IF Upserts(call, r) THEN {Append(seq, Changed(call, Fresh(WithRole(call)), r, hadField))}
       ELSE {seq}

\* A remove takes every document that matches.
RemoveSeller(r) == [sellers EXCEPT ![r.seller] = <<>>]

RemoveCommodity(r) == [store EXCEPT ![r.id] = 0]

\* What the call leaves in the database.
Stored(call, r, hadField) ==
    /\ IF call \in ArrayCalls
       THEN \E seq \in Updated(sellers[r.seller], call, r, hadField) :
               sellers' = [sellers EXCEPT ![r.seller] = seq]
       ELSE sellers' = IF call = "removeSeller" THEN RemoveSeller(r) ELSE sellers
    /\ activity' = IF call = "insertActivity" THEN activity \cup {r.id} ELSE activity
    /\ store' = CASE call = "insertCommodity" -> [store EXCEPT ![r.id] = @ + 1]
                  [] call = "removeCommodity" -> RemoveCommodity(r)
                  [] OTHER                    -> store
    /\ ads' = CASE call = "insertAd" -> [ads EXCEPT ![r.id] = r.title]
                [] call = "removeAd" -> [ads EXCEPT ![r.id] = Absent]
                [] OTHER             -> ads

-----------------------------------------------------------------------------
(***************************************************************************)
(* The steps of a process                                                  *)
(***************************************************************************)

\* The offers that a request to change or to remove concerns.
Concerned(r) ==
    {p \in Sellers \X Ids : r.seller \in {p[1], Absent} /\ r.id \in {p[2], Absent}}

\* A Post for a seller some of whose documents have the array and some have
\* not may find one without and $set the array of another, which covers what
\* the array had.
Covered(r) ==
    IF AddsItem(r) /\ HasField(r) = BOOLEAN
    THEN {p \in promised : p[1] = r.seller /\ made[p[2]].kind = r.kind} ELSE {}

\* A request is taken.  One that changes or removes an offer, or may cover it,
\* ends what was promised of it.
Receive(s, r) ==
    /\ todo[s] = <<>>
    /\ todo' = [todo EXCEPT ![s] = Handler(r)]
    /\ req' = [req EXCEPT ![s] = r]
    /\ had' = [had EXCEPT ![s] = FALSE]
    /\ made' = IF r.op = "Post" THEN [made EXCEPT ![r.id] = [kind |-> r.kind, seller |-> r.seller]] ELSE made
    /\ promised' = promised \ (Concerned(r) \cup Covered(r))
    /\ UNCHANGED <<deployed, docs, deleted>>

\* A $pull from one of several documents may miss the one with the item.
Certain(r) == r.kind \in ArrayKinds => Len(sellers[r.seller]) = 1

\* The handler returns: with APIE_OK after its last call.
Return(s, ok) ==
    LET r == req[s]
    IN /\ promised' = IF ok /\ (r.op = "Post" \/ (r.op = "Put" /\ r.kind \in {"service", "commodity"}))
                      THEN promised \cup {<<r.seller, r.id>>} ELSE promised
       /\ deleted' = IF ok /\ r.op = "Delete" /\ r.kind # "account" /\ Certain(r)
                     THEN deleted \cup Concerned(r) ELSE deleted
       /\ todo' = [todo EXCEPT ![s] = <<>>]
       /\ req' = [req EXCEPT ![s] = NoRequest]

Goto(s) ==
    /\ todo' = [todo EXCEPT ![s] = Tail(@)]
    /\ UNCHANGED <<req, promised, deleted>>

Query(s) ==
    /\ todo[s] # <<>> /\ Head(todo[s]) \in Queries
    /\ IF Passes(Head(todo[s]), req[s])
       THEN /\ Goto(s)
            /\ \E h \in IF AddsItem(req[s]) THEN HasField(req[s]) ELSE {FALSE} :
                  had' = [had EXCEPT ![s] = h]
       ELSE Return(s, FALSE) /\ UNCHANGED had
    /\ UNCHANGED <<deployed, docs, made>>

Write(s) ==
    /\ todo[s] # <<>> /\ Head(todo[s]) \notin Queries
    /\ Stored(Head(todo[s]), req[s], had[s])
    /\ IF Tail(todo[s]) = <<>> THEN Return(s, TRUE) ELSE Goto(s)
    /\ UNCHANGED <<deployed, made, had>>

\* The call fails, before or after it has had its effect: a DBException, which
\* the handler catches, or the end of the process.
Fail(s) ==
    /\ todo[s] # <<>>
    /\ Stored(Head(todo[s]), req[s], had[s]) \/ UNCHANGED docs
    /\ Return(s, FALSE)
    /\ UNCHANGED <<deployed, made, had>>

-----------------------------------------------------------------------------

Init ==
    /\ deployed \in (SUBSET Servers) \ {{}}
    /\ sellers \in [Sellers -> {<<Registered>>, <<Registered, Withdrawn>>}]
    /\ activity = {}
    /\ store = [i \in Ids |-> 0]
    /\ ads = [i \in Ids |-> Absent]
    /\ made = [i \in Ids |-> Absent]
    /\ todo = [s \in Servers |-> <<>>]
    /\ req = [s \in Servers |-> NoRequest]
    /\ had = [s \in Servers |-> FALSE]
    /\ promised = {}
    /\ deleted = {}

Next == \E s \in deployed :
    \/ \E r \in Requests : Receive(s, r)
    \/ Query(s)
    \/ Write(s)
    \/ Fail(s)

Spec == Init /\ [][Next]_vars

-----------------------------------------------------------------------------
(***************************************************************************)
(* Properties                                                              *)
(***************************************************************************)

Calls == UNION {{h[k] : k \in DOMAIN h} : h \in
    {ActivityPost, ActivityPut, ActivityDelete, ServicePost, ServicePut, ServiceDelete,
     CommodityPost, CommodityPut, CommodityDelete, AdvertisementPost, AdvertisementPut,
     AdvertisementDelete, SellerDelete}}

\* The type of every variable.
TypeOK ==
    /\ deployed \in SUBSET Servers
    /\ sellers \in [Sellers -> Seq(Document)]
    /\ activity \in SUBSET Ids
    /\ store \in [Ids -> Nat]
    /\ ads \in [Ids -> Titles \cup {Absent}]
    /\ made \in [Ids -> Made \cup {Absent}]
    /\ todo \in [Servers -> Seq(Calls)]
    /\ req \in [Servers -> Request \cup {NoRequest}]
    /\ had \in [Servers -> BOOLEAN]
    /\ promised \in SUBSET (Sellers \X Ids)
    /\ deleted \in SUBSET (Sellers \X Ids)

OneServer == \E s \in Servers : deployed = {s}

\* What user/seller-activity-list and user/seller-service-list show: the items
\* of every document of the seller.
Items(list) == IF list = Absent THEN {} ELSE list
SellerActivityList(i) == UNION {Items(sellers[i][k].activities) : k \in DOMAIN sellers[i]}
SellerServiceList(i)  == UNION {Items(sellers[i][k].services) : k \in DOMAIN sellers[i]}

\* user/seller-list asks for the city and the place, which only Seller::Post
\* stores: a document that an upsert has made is not found.
Placed(i) == {k \in DOMAIN sellers[i] : ~sellers[i][k].role}
SellerListForService(i)  == UNION {Items(sellers[i][k].services) : k \in Placed(i)}
SellerListForActivity(i) == UNION {Items(sellers[i][k].activities) : k \in Placed(i)}

\* seller/activity-list, which reads DB_ACTIVITY.
ActivityList(i) == {a \in activity : made[a].seller = i}

\* What user/seller-commodity-list and seller/advertisement show.
SellerCommodityList(i) == {c \in Ids : store[c] > 0 /\ made[c].seller = i}
AdvertisementGet(i)    == {a \in Ids : ads[a] # Absent /\ made[a].seller = i}

Shown(i) == SellerActivityList(i) \cup SellerServiceList(i) \cup SellerCommodityList(i) \cup AdvertisementGet(i)

\* An activity that users find with a seller is in the seller's own list, which
\* is kept in another collection, wherever a handler was cut short and however
\* many processes there are: Activity::Post inserts the document first and
\* nothing removes it.
ListedActivitiesAreRecorded ==
    \A i \in Sellers : SellerActivityList(i) \cup SellerListForActivity(i) \subseteq ActivityList(i)

\* With one process, an offer whose creation was answered with APIE_OK, or
\* whose change was in the case of a service or a commodity, is shown to users
\* until somebody asks to change or to remove it, or, in the case of an
\* activity or a service, posts another one for a seller some of whose
\* documents have no array: otherwise the $set of a new array covers no old
\* one, and a change that removes before it inserts has inserted when it is
\* answered.  An activity of a seller who has one document is found from the
\* list of all sellers too.
AcknowledgedIsShown ==
    OneServer => \A p \in promised :
        /\ p[2] \in Shown(p[1])
        /\ made[p[2]].kind = "activity" /\ Len(sellers[p[1]]) = 1 => p[2] \in SellerListForActivity(p[1])

\* With one process, a commodity or an advertisement whose removal was
\* answered with APIE_OK is never shown again, although Commodity::Put inserts
\* again what it has removed, and neither is an activity that was removed while
\* its seller had one document; a service that was, of which Service::Put may
\* make a second copy later, is never shown again in the list of all sellers.
DeletedStaysDeleted ==
    OneServer => \A p \in deleted :
        p[2] \notin IF made[p[2]].kind = "service" THEN SellerListForService(p[1]) ELSE Shown(p[1])

\* With one process, no two advertisements of a seller have the same title,
\* wherever Advertisement::Post was cut short: it looks for the title before it
\* inserts, and nothing changes a title.
TitlesAreUnique ==
    OneServer => \A a, b \in Ids :
        (ads[a] # Absent /\ ads[a] = ads[b] /\ made[a].seller = made[b].seller) => a = b
=============================================================================
