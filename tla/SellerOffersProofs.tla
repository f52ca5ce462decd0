------------------------- MODULE SellerOffersProofs -------------------------
(***************************************************************************)
(* Proofs about SellerOffers: any sets of sellers, identifiers and titles. *)
(* What is listed is recorded with any number of processes; the other      *)
(* results are about one process, as the properties say.                   *)
(***************************************************************************)
EXTENDS SellerOffers, TLAPS

-----------------------------------------------------------------------------
(***************************************************************************)
(* The inductive invariant, for any number of processes                    *)
(***************************************************************************)

DocsTyped ==
    /\ deployed \in SUBSET Servers
    /\ sellers \in [Sellers -> Seq(Document)]
    /\ activity \in SUBSET Ids
    /\ store \in [Ids -> Nat]
    /\ ads \in [Ids -> Titles \cup {Absent}]
    /\ made \in [Ids -> Made \cup {Absent}]
    /\ DOMAIN todo = Servers
    /\ req \in [Servers -> Request \cup {NoRequest}]
    /\ had \in [Servers -> BOOLEAN]
    /\ promised \in SUBSET (Sellers \X Ids)
    /\ deleted \in SUBSET (Sellers \X Ids)

\* A handler and what is left of it after its first call, and its second.
Stages(h) == {h, Tail(h)} \cup IF Len(h) = 3 THEN {Tail(Tail(h))} ELSE {}

\* The request a process handles: its identifier was generated for the kind.
Proper(r) ==
    /\ r \in Request
    /\ r.kind = "account" => r.op = "Delete" /\ r.seller \in Sellers /\ r.id = Absent
    /\ r.kind # "account" => r.id \in Ids /\ made[r.id] # Absent /\ made[r.id].kind = r.kind
    /\ r.seller = Absent <=> (r.op = "Delete" /\ r.kind = "commodity")
    /\ r.op = "Post" => r.title \in Titles /\ made[r.id].seller = r.seller

Writes == ArrayCalls \cup {"insertActivity", "insertCommodity", "removeCommodity",
                          "insertAd", "cancelInSeller", "removeAd", "removeSeller"}

Busy(s) == todo[s] # <<>>
Writing(s) == todo[s] # <<>> /\ Head(todo[s]) \notin Queries

Handling ==
    \A s \in Servers : Busy(s) =>
        s \in deployed /\ Proper(req[s]) /\ todo[s] \in Stages(Handler(req[s]))

\* What an identifier was made for is where it is found.
ListsProper(i, d) ==
    /\ \A a \in Items(d.activities) :
          a \in activity /\ made[a] # Absent /\ made[a].kind = "activity" /\ made[a].seller = i
    /\ \A a \in Items(d.services) : made[a] # Absent /\ made[a].kind = "service"

KindsApart ==
    /\ \A i \in Sellers : \A k \in 1..Len(sellers[i]) : ListsProper(i, sellers[i][k])
    /\ \A a \in activity : made[a] # Absent
    /\ \A a \in Ids : store[a] > 0 => made[a] # Absent /\ made[a].kind = "commodity"
    /\ \A a \in Ids : ads[a] # Absent => made[a] # Absent /\ made[a].kind = "ad"

\* Activity::Post has inserted the document when it lists the activity.
InsertedFirst ==
    \A s \in Servers : (Busy(s) /\ Head(todo[s]) = "listActivity") => req[s].id \in activity

FleetInv ==
    /\ DocsTyped
    /\ Handling
    /\ KindsApart
    /\ InsertedFirst

-----------------------------------------------------------------------------
(***************************************************************************)
(* The inductive invariant, for one process                                *)
(***************************************************************************)

\* A seller who is registered has the document that Seller::Post stored.
HasAccount(q) == q # <<>> => \E k \in 1..Len(q) : ~q[k].role

\* All the documents of the seller have the array that Post adds to.
AllHave(r) == \A k \in 1..Len(sellers[r.seller]) : Field(sellers[r.seller][k], r.kind) # Absent

\* What the queries of a handler have found is still so when it writes.
StillFound ==
    \A s \in Servers : Writing(s) =>
        LET r == req[s]
        IN /\ r.kind \in ArrayKinds => sellers[r.seller] # <<>>
           /\ r.op = "Put" /\ r.kind = "commodity" => OwnedBy(r)
           /\ r.op # "Post" /\ r.kind = "ad" => OwnedBy(r)
           /\ r.op = "Post" /\ r.kind = "ad" => ~SameTitle(r)
           /\ AddsItem(r) /\ AllHave(r) => had[s]

\* The offer a of seller i is where users look for its kind.
ShownAs(i, a) ==
    /\ made[a] # Absent
    /\ made[a].kind = "activity" => \E k \in 1..Len(sellers[i]) : a \in Items(sellers[i][k].activities)
    /\ made[a].kind = "service" => \E k \in 1..Len(sellers[i]) : a \in Items(sellers[i][k].services)
    /\ made[a].kind = "commodity" => store[a] > 0 /\ made[a].seller = i
    /\ made[a].kind = "ad" => ads[a] # Absent /\ made[a].seller = i

\* The offer a is where users would find it with seller i no more.
HiddenAs(i, a) ==
    /\ made[a] # Absent
    /\ made[a].kind = "activity" => \A k \in 1..Len(sellers[i]) : a \notin Items(sellers[i][k].activities)
    /\ made[a].kind = "service" =>
          \A k \in 1..Len(sellers[i]) : ~sellers[i][k].role => a \notin Items(sellers[i][k].services)
    /\ made[a].kind = "commodity" => store[a] = 0
    /\ made[a].kind = "ad" => ads[a] = Absent

\* The process does not end what was promised of the offer: it is not asked to
\* change it, and it covers no array with items of the same kind.
Spares(s, i, a) ==
    /\ <<i, a>> \notin Concerned(req[s])
    /\ AddsItem(req[s]) /\ req[s].seller = i /\ made[a].kind = req[s].kind =>
          AllHave(req[s])

PromisedShown ==
    \A i \in Sellers, a \in Ids : <<i, a>> \in promised =>
        ShownAs(i, a) /\ \A s \in Servers : Busy(s) => Spares(s, i, a)

\* No handler that adds an offer names one that was deleted: Post has a new
\* identifier, and Commodity::Put has found the commodity when it writes.
Adds(r) == r.op = "Post" \/ (r.op = "Put" /\ r.kind = "commodity")

DeletedHidden ==
    \A i \in Sellers, a \in Ids : <<i, a>> \in deleted =>
        /\ HiddenAs(i, a)
        /\ \A s \in Servers : Busy(s) /\ req[s].op = "Post" => req[s].id # a
        /\ \A s \in Servers : Writing(s) /\ Adds(req[s]) => req[s].id # a

UniqueTitles ==
    \A a, b \in Ids : (ads[a] # Absent /\ ads[a] = ads[b] /\ made[a].seller = made[b].seller) => a = b

ProcessInv ==
    /\ \A i \in Sellers : HasAccount(sellers[i])
    /\ StillFound
    /\ PromisedShown
    /\ DeletedHidden
    /\ UniqueTitles

OffersInv == FleetInv /\ (OneServer => ProcessInv)

-----------------------------------------------------------------------------
(***************************************************************************)
(* The calls of a handler                                                  *)
(***************************************************************************)

LEMMA TwoCalls ==
  ASSUME NEW a, NEW b, NEW q \in Stages(<<a, b>>)
  PROVE  /\ q # <<>>
         /\ Tail(q) # <<>> => Tail(q) \in Stages(<<a, b>>)
         /\ \/ Head(q) = a /\ Tail(q) # <<>> /\ Head(Tail(q)) = b
            \/ Head(q) = b /\ Tail(q) = <<>>
<1>1. Tail(<<a, b>>) = <<b>> /\ Len(<<a, b>>) = 2 /\ Tail(<<b>>) = <<>>
  OBVIOUS
<1>2. q = <<a, b>> \/ q = <<b>>
  BY <1>1 DEF Stages
<1>3. <<b>> \in Stages(<<a, b>>)
  BY <1>1 DEF Stages
<1>4. <<a, b>> # <<>> /\ <<b>> # <<>> /\ Head(<<a, b>>) = a /\ Head(<<b>>) = b
  OBVIOUS
<1>5. QED
  BY <1>1, <1>2, <1>3, <1>4

LEMMA ThreeCalls ==
  ASSUME NEW a, NEW b, NEW c, NEW q \in Stages(<<a, b, c>>)
  PROVE  /\ q # <<>>
         /\ Tail(q) # <<>> => Tail(q) \in Stages(<<a, b, c>>)
         /\ \/ Head(q) = a /\ Tail(q) # <<>> /\ Head(Tail(q)) = b
            \/ Head(q) = b /\ Tail(q) # <<>> /\ Head(Tail(q)) = c
            \/ Head(q) = c /\ Tail(q) = <<>>
<1>1. /\ Tail(<<a, b, c>>) = <<b, c>> /\ Len(<<a, b, c>>) = 3
      /\ Tail(<<b, c>>) = <<c>> /\ Tail(<<c>>) = <<>>
  OBVIOUS
<1>2. q = <<a, b, c>> \/ q = <<b, c>> \/ q = <<c>>
  BY <1>1 DEF Stages
<1>3. <<b, c>> \in Stages(<<a, b, c>>) /\ <<c>> \in Stages(<<a, b, c>>)
  BY <1>1 DEF Stages
<1>4. /\ <<a, b, c>> # <<>> /\ <<b, c>> # <<>> /\ <<c>> # <<>>
      /\ Head(<<a, b, c>>) = a /\ Head(<<b, c>>) = b /\ Head(<<c>>) = c
  OBVIOUS
<1>5. QED
  BY <1>1, <1>2, <1>3, <1>4

LastCall(r) ==
    CASE r.kind = "activity"  -> [Post |-> "listActivity", Put |-> "pushActivity", Delete |-> "pullActivity"][r.op]
      [] r.kind = "service"   -> [Post |-> "listService", Put |-> "pushEdited", Delete |-> "pullService"][r.op]
      [] r.kind = "commodity" -> [Post |-> "insertCommodity", Put |-> "insertCommodity",
                                  Delete |-> "removeCommodity"][r.op]
      [] r.kind = "ad"        -> [Post |-> "insertAd", Put |-> "cancelInSeller", Delete |-> "removeAd"][r.op]
      [] OTHER                -> "removeSeller"

\* The requests whose handler makes a call, and whether it is the last one.
CallOf(call, next, last, r) ==
    /\ call \in Queries => ~last
    /\ call \notin Queries /\ ~last => next \notin Queries
    /\ call \in {"insertActivity", "listActivity"} => r.kind = "activity" /\ r.op = "Post"
    /\ call = "insertActivity" => ~last
    /\ ~last /\ next = "listActivity" => call = "insertActivity"
    /\ call = "pullActivity" => r.kind = "activity" /\ ((r.op = "Put" /\ ~last) \/ (r.op = "Delete" /\ last))
    /\ call = "pushActivity" => r.kind = "activity" /\ r.op = "Put"
    /\ call = "listService" => r.kind = "service" /\ r.op = "Post"
    /\ call = "pullEdited" => r.kind = "service" /\ r.op = "Put" /\ ~last
    /\ call = "pushEdited" => r.kind = "service" /\ r.op = "Put"
    /\ call = "pullService" => r.kind = "service" /\ r.op = "Delete"
    /\ call = "insertCommodity" => r.kind = "commodity" /\ r.op \in {"Post", "Put"}
    /\ call = "removeCommodity" =>
          r.kind = "commodity" /\ ((r.op = "Put" /\ ~last) \/ (r.op = "Delete" /\ last))
    /\ call = "insertAd" => r.kind = "ad" /\ r.op = "Post"
    /\ call = "cancelInSeller" => r.kind = "ad" /\ r.op = "Put"
    /\ call = "removeAd" => r.kind = "ad" /\ r.op = "Delete"
    /\ call = "removeSeller" => r.kind = "account" /\ r.op = "Delete"
    /\ call \in Queries \/ call \in Writes
    /\ (~last /\ next \notin Queries /\ call \in Queries) =>
          /\ r.kind \in {"activity", "service"} => call = "findSeller"
          /\ r.kind = "commodity" /\ r.op = "Put" => call = "findCommodity"
          /\ r.kind = "ad" /\ r.op # "Post" => call = "findAd"
          /\ r.kind = "ad" /\ r.op = "Post" => call = "findTitle"
    /\ call \notin Queries /\ ~last /\ r.op = "Post" => call = "insertActivity"
    /\ last => call = LastCall(r)

LEMMA StageFacts ==
  ASSUME NEW r, r.kind \in Kinds \cup {"account"}, r.op \in {"Post", "Put", "Delete"},
         r.kind = "account" => r.op = "Delete",
         NEW q \in Stages(Handler(r))
  PROVE  /\ q # <<>>
         /\ Tail(q) # <<>> => Tail(q) \in Stages(Handler(r))
         /\ CallOf(Head(q), Head(Tail(q)), Tail(q) = <<>>, r)
<1>1. CASE r.kind = "activity" /\ r.op = "Post"
  <2>1. Handler(r) = ActivityPost
    BY <1>1 DEF Handler
  <2>2. QED
    BY <1>1, <2>1, ThreeCalls DEF ActivityPost, CallOf, Queries, Writes, ArrayCalls, LastCall
<1>2. CASE r.kind = "activity" /\ r.op = "Put"
  <2>1. Handler(r) = ActivityPut
    BY <1>2 DEF Handler
  <2>2. /\ q # <<>> /\ (Tail(q) # <<>> => Tail(q) \in Stages(Handler(r)))
        /\ \/ Head(q) = "findSeller" /\ Tail(q) # <<>> /\ Head(Tail(q)) = "pullActivity"
           \/ Head(q) = "pullActivity" /\ Tail(q) # <<>> /\ Head(Tail(q)) = "pushActivity"
           \/ Head(q) = "pushActivity" /\ Tail(q) = <<>>
    BY <2>1, ThreeCalls DEF ActivityPut
  <2>3. QED
    BY <1>2, <2>2 DEF CallOf, Queries, Writes, ArrayCalls, LastCall
<1>3. CASE r.kind = "activity" /\ r.op = "Delete"
  <2>1. Handler(r) = ActivityDelete
    BY <1>3 DEF Handler
  <2>2. QED
    BY <1>3, <2>1, TwoCalls DEF ActivityDelete, CallOf, Queries, Writes, ArrayCalls, LastCall
<1>4. CASE r.kind = "service" /\ r.op = "Post"
  <2>1. Handler(r) = ServicePost
    BY <1>4 DEF Handler
  <2>2. QED
    BY <1>4, <2>1, TwoCalls DEF ServicePost, CallOf, Queries, Writes, ArrayCalls, LastCall
<1>5. CASE r.kind = "service" /\ r.op = "Put"
  <2>1. Handler(r) = ServicePut
    BY <1>5 DEF Handler
  <2>2. QED
    BY <1>5, <2>1, ThreeCalls DEF ServicePut, CallOf, Queries, Writes, ArrayCalls, LastCall
<1>6. CASE r.kind = "service" /\ r.op = "Delete"
  <2>1. Handler(r) = ServiceDelete
    BY <1>6 DEF Handler
  <2>2. QED
    BY <1>6, <2>1, TwoCalls DEF ServiceDelete, CallOf, Queries, Writes, ArrayCalls, LastCall
<1>7. CASE r.kind = "commodity" /\ r.op = "Post"
  <2>1. Handler(r) = CommodityPost
    BY <1>7 DEF Handler
  <2>2. QED
    BY <1>7, <2>1, TwoCalls DEF CommodityPost, CallOf, Queries, Writes, ArrayCalls, LastCall
<1>8. CASE r.kind = "commodity" /\ r.op = "Put"
  <2>1. Handler(r) = CommodityPut
    BY <1>8 DEF Handler
  <2>2. /\ q # <<>> /\ (Tail(q) # <<>> => Tail(q) \in Stages(Handler(r)))
        /\ \/ Head(q) = "findCommodity" /\ Tail(q) # <<>> /\ Head(Tail(q)) = "removeCommodity"
           \/ Head(q) = "removeCommodity" /\ Tail(q) # <<>> /\ Head(Tail(q)) = "insertCommodity"
           \/ Head(q) = "insertCommodity" /\ Tail(q) = <<>>
    BY <2>1, ThreeCalls DEF CommodityPut
  <2>3. QED
    BY <1>8, <2>2 DEF CallOf, Queries, Writes, ArrayCalls, LastCall
<1>9. CASE r.kind = "commodity" /\ r.op = "Delete"
  <2>1. Handler(r) = CommodityDelete
    BY <1>9 DEF Handler
  <2>2. QED
    BY <1>9, <2>1, TwoCalls DEF CommodityDelete, CallOf, Queries, Writes, ArrayCalls, LastCall
<1>10. CASE r.kind = "ad" /\ r.op = "Post"
  <2>1. Handler(r) = AdvertisementPost
    BY <1>10 DEF Handler
  <2>2. QED
    BY <1>10, <2>1, ThreeCalls DEF AdvertisementPost, CallOf, Queries, Writes, ArrayCalls, LastCall
<1>11. CASE r.kind = "ad" /\ r.op = "Put"
  <2>1. Handler(r) = AdvertisementPut
    BY <1>11 DEF Handler
  <2>2. QED
    BY <1>11, <2>1, TwoCalls DEF AdvertisementPut, CallOf, Queries, Writes, ArrayCalls, LastCall
<1>12. CASE r.kind = "ad" /\ r.op = "Delete"
  <2>1. Handler(r) = AdvertisementDelete
    BY <1>12 DEF Handler
  <2>2. QED
    BY <1>12, <2>1, TwoCalls DEF AdvertisementDelete, CallOf, Queries, Writes, ArrayCalls, LastCall
<1>13. CASE r.kind = "account" /\ r.op = "Delete"
  <2>1. Handler(r) = SellerDelete
    BY <1>13 DEF Handler
  <2>2. QED
    BY <1>13, <2>1, TwoCalls DEF SellerDelete, CallOf, Queries, Writes, ArrayCalls, LastCall
<1>14. QED
  BY <1>1, <1>2, <1>3, <1>4, <1>5, <1>6, <1>7, <1>8, <1>9, <1>10, <1>11, <1>12, <1>13 DEF Kinds

-----------------------------------------------------------------------------
(***************************************************************************)
(* The updates of the seller's documents, call by call                     *)
(***************************************************************************)

LEMMA ArrayCall ==
  ASSUME NEW call \in ArrayCalls, NEW r, NEW hadField, Stored(call, r, hadField)
  PROVE  \E q \in Updated(sellers[r.seller], call, r, hadField) :
            sellers' = [sellers EXCEPT ![r.seller] = q]
BY DEF Stored

LEMMA ItemsFacts ==
  ASSUME NEW l \in Lists, NEW i \in Ids, NEW h \in BOOLEAN
  PROVE  /\ Push(l, i) \in Lists /\ Items(Push(l, i)) = Items(l) \cup {i}
         /\ Pull(l, i) \in Lists /\ Items(Pull(l, i)) = Items(l) \ {i}
         /\ ListItem(l, i, h) \in Lists
         /\ Items(ListItem(l, i, h)) = IF h THEN Items(l) \cup {i} ELSE {i}
         /\ Items(l) \in SUBSET Ids
<1>1. \A list \in SUBSET Ids : Items(list) = list
  BY OffersAssumption DEF Items
<1>2. CASE l = Absent
  <2>1. Items(l) = {} /\ Push(l, i) = {i} /\ Pull(l, i) = Absent
    BY <1>2 DEF Items, Push, Pull
  <2>2. QED
    BY <1>1, <1>2, <2>1 DEF ListItem, Lists
<1>3. CASE l # Absent
  <2>1. l \in SUBSET Ids
    BY <1>3 DEF Lists
  <2>2. Items(l) = l /\ Push(l, i) = l \cup {i} /\ Pull(l, i) = l \ {i}
    BY <1>3 DEF Items, Push, Pull
  <2>3. QED
    BY <1>1, <2>1, <2>2 DEF ListItem, Lists
<1>4. QED
  BY <1>2, <1>3

LEMMA FreshFacts ==
  ASSUME NEW w \in BOOLEAN
  PROVE  /\ Fresh(w) \in Document /\ Fresh(w).role = w
         /\ Fresh(w).activities = Absent /\ Items(Fresh(w).activities) = {} /\ Items(Fresh(w).services) = {}
<1>1. Fresh(w) \in [role : {w}, activities : {Absent}, activites : {Absent}, services : {Absent}]
  BY DEF Fresh, Registered
<1>2. QED
  BY <1>1 DEF Document, Lists, Items

\* The two arrays that users see, after a call.
LEMMA ChangedFacts ==
  ASSUME NEW call \in ArrayCalls, NEW d \in Document, NEW r, r.id \in Ids, NEW h \in BOOLEAN
  PROVE  /\ Changed(call, d, r, h) \in Document
         /\ Changed(call, d, r, h).role = d.role
         /\ Changed(call, d, r, h).activities =
               CASE call = "listActivity" -> ListItem(d.activities, r.id, h)
                 [] call = "pullActivity" -> Pull(d.activities, r.id)
                 [] OTHER                 -> d.activities
         /\ Changed(call, d, r, h).services =
               CASE call = "listService"                   -> ListItem(d.services, r.id, h)
                 [] call = "pushEdited"                    -> Push(d.services, r.id)
                 [] call \in {"pullEdited", "pullService"} -> Pull(d.services, r.id)
                 [] OTHER                                  -> d.services
<1>1. d.role \in BOOLEAN /\ d.activities \in Lists /\ d.activites \in Lists /\ d.services \in Lists
  BY DEF Document
<1>2. \A l \in Lists : Push(l, r.id) \in Lists /\ Pull(l, r.id) \in Lists /\ ListItem(l, r.id, h) \in Lists
  BY ItemsFacts
<1>3. \A l \in Lists : /\ [d EXCEPT !.activities = l] \in Document
                       /\ [d EXCEPT !.activites = l] \in Document
                       /\ [d EXCEPT !.services = l] \in Document
  BY DEF Document
<1>4. Changed(call, d, r, h) \in Document
  BY <1>1, <1>2, <1>3 DEF Changed, ListActivity, ListService, PullActivity, PushActivity, PushEdited, PullService
<1>5. CASE call = "listActivity"
  BY <1>4, <1>5 DEF Changed, ListActivity, ListService, PullActivity, PushActivity, PushEdited, PullService, Document
<1>6. CASE call = "listService"
  BY <1>4, <1>6 DEF Changed, ListActivity, ListService, PullActivity, PushActivity, PushEdited, PullService, Document
<1>7. CASE call = "pullActivity"
  BY <1>4, <1>7 DEF Changed, ListActivity, ListService, PullActivity, PushActivity, PushEdited, PullService, Document
<1>8. CASE call = "pushActivity"
  BY <1>4, <1>8 DEF Changed, ListActivity, ListService, PullActivity, PushActivity, PushEdited, PullService, Document
<1>9. CASE call = "pullEdited"
  BY <1>4, <1>9 DEF Changed, ListActivity, ListService, PullActivity, PushActivity, PushEdited, PullService, Document
<1>10. CASE call = "pushEdited"
  BY <1>4, <1>10 DEF Changed, ListActivity, ListService, PullActivity, PushActivity, PushEdited, PullService, Document
<1>11. CASE call = "pullService"
  BY <1>4, <1>11 DEF Changed, ListActivity, ListService, PullActivity, PushActivity, PushEdited, PullService, Document
<1>12. QED
  BY <1>5, <1>6, <1>7, <1>8, <1>9, <1>10, <1>11 DEF ArrayCalls

\* A call adds an item to an array only if it is a call to add.
LEMMA ChangedItems ==
  ASSUME NEW call \in ArrayCalls, NEW d \in Document, NEW r, r.id \in Ids, NEW h \in BOOLEAN
  PROVE  /\ Items(Changed(call, d, r, h).activities) \subseteq
               Items(d.activities) \cup (IF call = "listActivity" THEN {r.id} ELSE {})
         /\ Items(Changed(call, d, r, h).services) \subseteq
               Items(d.services) \cup (IF call \in {"listService", "pushEdited"} THEN {r.id} ELSE {})
<1>1. d.activities \in Lists /\ d.services \in Lists
  BY DEF Document
<1>2. \A l \in Lists : /\ Items(Push(l, r.id)) \subseteq Items(l) \cup {r.id}
                       /\ Items(Pull(l, r.id)) \subseteq Items(l)
                       /\ Items(ListItem(l, r.id, h)) \subseteq Items(l) \cup {r.id}
  BY ItemsFacts
<1>3. Items(Changed(call, d, r, h).activities) \subseteq
               Items(d.activities) \cup (IF call = "listActivity" THEN {r.id} ELSE {})
  BY <1>1, <1>2, ChangedFacts
<1>4. Items(Changed(call, d, r, h).services) \subseteq
               Items(d.services) \cup (IF call \in {"listService", "pushEdited"} THEN {r.id} ELSE {})
  BY <1>1, <1>2, ChangedFacts
<1>5. QED
  BY <1>3, <1>4

\* An update changes a document that it asks for, or makes one when there is
\* none.
LEMMA UpdatedOne ==
  ASSUME NEW call \in ArrayCalls, NEW q \in Seq(Document), NEW r, NEW h,
         NEW new \in Updated(q, call, r, h)
  PROVE  \/ \E m \in 1..Len(q) :
               (WithRole(call) => q[m].role) /\ new = [q EXCEPT ![m] = Changed(call, q[m], r, h)]
         \/ /\ new = Append(q, Changed(call, Fresh(WithRole(call)), r, h))
            /\ q = <<>> \/ WithRole(call)
         \/ new = q /\ q = <<>>
<1> DEFINE w == WithRole(call)
           u == Upserts(call, r)
           N(d) == Changed(call, d, r, h)
<1>1. new \in IF Matches(q, w) # {} THEN {[q EXCEPT ![k] = N(@)] : k \in Matches(q, w)}
               ELSE IF u THEN {Append(q, N(Fresh(w)))} ELSE {q}
  BY DEF Updated
<1>2. Len(q) \in Nat /\ w \in BOOLEAN /\ (w => u)
  BY DEF WithRole, Upserts
<1>3. CASE Matches(q, w) # {}
  <2>1. PICK m \in Matches(q, w) : new = [q EXCEPT ![m] = N(@)]
    BY <1>1, <1>3
  <2>2. m \in 1..Len(q) /\ (w => q[m].role)
    BY <2>1 DEF Matches
  <2>3. new = [q EXCEPT ![m] = N(q[m])]
    <3> HIDE DEF N
    <3>1. QED
      BY <2>1, <2>2
  <2>4. QED
    BY <2>2, <2>3
<1>4. CASE Matches(q, w) = {}
  <2>1. (u /\ new = Append(q, N(Fresh(w)))) \/ (~u /\ new = q)
    BY <1>1, <1>4
  <2>2. ~w => q = <<>>
    <3>1. ~w => 1..Len(q) = {}
      BY <1>4 DEF Matches
    <3>2. Len(q) # 0 => 1 \in 1..Len(q)
      BY <1>2
    <3>3. Len(q) = 0 => q = <<>>
      OBVIOUS
    <3>4. QED
      BY <3>1, <3>2, <3>3
  <2>3. QED
    BY <1>2, <2>1, <2>2
<1>5. QED
  BY <1>3, <1>4

\* Every document after an update was there before, is the new form of one
\* that was, or is the new form of the one that an upsert starts from.
LEMMA UpdatedFacts ==
  ASSUME NEW call \in ArrayCalls, NEW q \in Seq(Document), NEW r, r.id \in Ids, NEW h \in BOOLEAN,
         NEW new \in Updated(q, call, r, h)
  PROVE  /\ new \in Seq(Document)
         /\ \A k \in 1..Len(q) : k \in 1..Len(new) /\ new[k] \in {q[k], Changed(call, q[k], r, h)}
         /\ \A k \in 1..Len(new) :
               \/ /\ k \in 1..Len(q)
                  /\ \/ new[k] = q[k]
                     \/ new[k] = Changed(call, q[k], r, h) /\ (WithRole(call) => q[k].role)
               \/ new[k] = Changed(call, Fresh(WithRole(call)), r, h)
         /\ q # <<>> => \E k \in 1..Len(new), d \in Document : new[k] = Changed(call, d, r, h)
         /\ ~WithRole(call) /\ Len(q) = 1 => Len(new) = 1 /\ new[1] = Changed(call, q[1], r, h)
<1>1. Len(q) \in Nat /\ WithRole(call) \in BOOLEAN
  BY DEF WithRole
<1>2. \A d \in Document : Changed(call, d, r, h) \in Document
  BY ChangedFacts
<1>3. CASE \E m \in 1..Len(q) :
              (WithRole(call) => q[m].role) /\ new = [q EXCEPT ![m] = Changed(call, q[m], r, h)]
  <2>1. PICK m \in 1..Len(q) : \E n :
           /\ WithRole(call) => q[m].role
           /\ n = Changed(call, q[m], r, h) /\ new = [q EXCEPT ![m] = n]
    BY <1>3
  <2>8. PICK n : /\ WithRole(call) => q[m].role
                 /\ n = Changed(call, q[m], r, h) /\ new = [q EXCEPT ![m] = n]
    BY <2>1
  <2>2. q[m] \in Document
    OBVIOUS
  <2>3. n \in Document
    BY <1>2, <2>8, <2>2
  <2>4. new \in Seq(Document) /\ Len(new) = Len(q) /\ \A k \in 1..Len(q) : new[k] = IF k = m THEN n ELSE q[k]
    BY <1>1, <2>8, <2>3
  <2>5. Len(q) = 1 => m = 1
    BY <2>1
  <2>6. \E k \in 1..Len(new), d \in Document : new[k] = Changed(call, d, r, h)
    BY <2>8, <2>2, <2>4
  <2>7. QED
    BY <2>8, <2>4, <2>5, <2>6
<1>4. CASE new = Append(q, Changed(call, Fresh(WithRole(call)), r, h)) /\ (q = <<>> \/ WithRole(call))
  <2>1. PICK n : n = Changed(call, Fresh(WithRole(call)), r, h)
    OBVIOUS
  <2>2. Fresh(WithRole(call)) \in Document
    BY <1>1, FreshFacts
  <2>3. n \in Document
    BY <1>2, <2>1, <2>2
  <2>4. /\ new \in Seq(Document) /\ Len(new) = Len(q) + 1
        /\ \A k \in 1..Len(q) : new[k] = q[k]
        /\ new[Len(q) + 1] = n
    BY <1>1, <1>4, <2>1, <2>3
  <2>5. \A k \in 1..(Len(q) + 1) : k \in 1..Len(q) \/ k = Len(q) + 1
    BY <1>1
  <2>6. \A k \in 1..Len(q) : k \in 1..Len(new)
    BY <1>1, <2>4
  <2>7. \E k \in 1..Len(new), d \in Document : new[k] = Changed(call, d, r, h)
    <3>1. Len(q) + 1 \in 1..Len(new)
      BY <1>1, <2>4
    <3>2. QED
      BY <2>1, <2>2, <2>4, <3>1
  <2>8. WithRole(call) \/ Len(q) = 0
    BY <1>4
  <2>9. QED
    BY <2>1, <2>4, <2>5, <2>6, <2>7, <2>8
<1>5. CASE new = q /\ q = <<>>
  BY <1>5
<1>6. QED
  BY <1>3, <1>4, <1>5, UpdatedOne

-----------------------------------------------------------------------------
(***************************************************************************)
(* Any number of processes: each step keeps FleetInv                       *)
(***************************************************************************)

\* A call that does not change the documents of sellers, or removes them.
LEMMA OtherCall ==
  ASSUME NEW call, call \notin ArrayCalls, NEW r, NEW h, Stored(call, r, h)
  PROVE  sellers' = IF call = "removeSeller" THEN [sellers EXCEPT ![r.seller] = <<>>] ELSE sellers
BY DEF Stored, ArrayCalls, RemoveSeller

LEMMA StoredRest ==
  ASSUME NEW call, NEW r, NEW h, Stored(call, r, h)
  PROVE  /\ activity' = IF call = "insertActivity" THEN activity \cup {r.id} ELSE activity
         /\ store' = CASE call = "insertCommodity" -> [store EXCEPT ![r.id] = @ + 1]
                       [] call = "removeCommodity" -> [store EXCEPT ![r.id] = 0]
                       [] OTHER                    -> store
         /\ ads' = CASE call = "insertAd" -> [ads EXCEPT ![r.id] = r.title]
                     [] call = "removeAd" -> [ads EXCEPT ![r.id] = Absent]
                     [] OTHER             -> ads
BY DEF Stored, RemoveCommodity

\* A busy process: its request and its call.
LEMMA BusyFacts ==
  ASSUME FleetInv, NEW s \in Servers, Busy(s)
  PROVE  /\ s \in deployed /\ Proper(req[s]) /\ had[s] \in BOOLEAN
         /\ Tail(todo[s]) # <<>> => Tail(todo[s]) \in Stages(Handler(req[s]))
         /\ CallOf(Head(todo[s]), Head(Tail(todo[s])), Tail(todo[s]) = <<>>, req[s])
<1>1. s \in deployed /\ Proper(req[s]) /\ had[s] \in BOOLEAN /\ todo[s] \in Stages(Handler(req[s]))
  BY DEF FleetInv, Handling, DocsTyped
<1>2. /\ req[s].kind \in Kinds \cup {"account"} /\ req[s].op \in {"Post", "Put", "Delete"}
      /\ req[s].kind = "account" => req[s].op = "Delete"
  BY <1>1 DEF Proper, Request
<1>3. QED
  BY <1>1, <1>2, StageFacts

\* What a call stores keeps the kinds apart.
LEMMA StoredKinds ==
  ASSUME FleetInv, made' = made,
         NEW call, NEW next, NEW last, NEW r, NEW h \in BOOLEAN,
         Proper(r), CallOf(call, next, last, r), Stored(call, r, h),
         call = "listActivity" => r.id \in activity
  PROVE  /\ sellers' \in [Sellers -> Seq(Document)] /\ activity' \in SUBSET Ids
         /\ store' \in [Ids -> Nat] /\ ads' \in [Ids -> Titles \cup {Absent}]
         /\ activity \subseteq activity'
         /\ KindsApart'
<1>1. /\ sellers \in [Sellers -> Seq(Document)] /\ activity \in SUBSET Ids
      /\ store \in [Ids -> Nat] /\ ads \in [Ids -> Titles \cup {Absent}]
      /\ made \in [Ids -> Made \cup {Absent}]
  BY DEF FleetInv, DocsTyped
<1>2. /\ \A i \in Sellers : \A k \in 1..Len(sellers[i]) : ListsProper(i, sellers[i][k])
      /\ \A a \in activity : made[a] # Absent
      /\ \A a \in Ids : store[a] > 0 => made[a] # Absent /\ made[a].kind = "commodity"
      /\ \A a \in Ids : ads[a] # Absent => made[a] # Absent /\ made[a].kind = "ad"
  BY DEF FleetInv, KindsApart
<1>3. /\ r.kind # "account" => r.id \in Ids /\ made[r.id] # Absent /\ made[r.id].kind = r.kind
      /\ r.kind # "account" => r.seller \in Sellers \/ (r.kind = "commodity" /\ r.op = "Delete")
      /\ r.op = "Post" => r.title \in Titles /\ made[r.id].seller = r.seller
      /\ r.kind = "account" => r.seller \in Sellers
  BY DEF Proper, Request
<1>4. /\ activity' \in SUBSET Ids /\ activity \subseteq activity'
      /\ \A a \in activity' : made[a] # Absent
  <2>1. call = "insertActivity" => r.id \in Ids /\ made[r.id] # Absent
    BY <1>3 DEF CallOf
  <2>2. activity' = IF call = "insertActivity" THEN activity \cup {r.id} ELSE activity
    BY StoredRest
  <2>3. QED
    BY <1>1, <1>2, <2>1, <2>2
<1>5. /\ store' \in [Ids -> Nat]
      /\ \A a \in Ids : store'[a] > 0 => made[a] # Absent /\ made[a].kind = "commodity"
  <2>1. call \in {"insertCommodity", "removeCommodity"} =>
           r.id \in Ids /\ made[r.id] # Absent /\ made[r.id].kind = "commodity"
    BY <1>3 DEF CallOf
  <2>2. \/ store' = store
        \/ call = "insertCommodity" /\ store' = [store EXCEPT ![r.id] = @ + 1]
        \/ call = "removeCommodity" /\ store' = [store EXCEPT ![r.id] = 0]
    BY StoredRest
  <2>3. QED
    BY <1>1, <1>2, <2>1, <2>2
<1>6. /\ ads' \in [Ids -> Titles \cup {Absent}]
      /\ \A a \in Ids : ads'[a] # Absent => made[a] # Absent /\ made[a].kind = "ad"
  <2>1. call \in {"insertAd", "removeAd"} => r.id \in Ids /\ made[r.id] # Absent /\ made[r.id].kind = "ad"
    BY <1>3 DEF CallOf
  <2>2. call = "insertAd" => r.title \in Titles
    BY <1>3 DEF CallOf
  <2>3. \/ ads' = ads
        \/ call = "insertAd" /\ ads' = [ads EXCEPT ![r.id] = r.title]
        \/ call = "removeAd" /\ ads' = [ads EXCEPT ![r.id] = Absent]
    BY StoredRest
  <2>4. QED
    BY <1>1, <1>2, <2>1, <2>2, <2>3
<1>7. /\ sellers' \in [Sellers -> Seq(Document)]
      /\ \A i \in Sellers : \A d : (\E k \in 1..Len(sellers'[i]) : d = sellers'[i][k]) => ListsProper(i, d)'
  <2>1. \A i \in Sellers : \A d : ListsProper(i, d) => ListsProper(i, d)'
    BY <1>4 DEF ListsProper
  <2>2. CASE call \notin ArrayCalls
    <3>1. CASE sellers' = sellers
      BY <1>1, <1>2, <2>1, <3>1
    <3>2. CASE call = "removeSeller" /\ sellers' = [sellers EXCEPT ![r.seller] = <<>>]
      <4>1. r.seller \in Sellers
        BY <1>3, <3>2 DEF CallOf
      <4>2. <<>> \in Seq(Document) /\ Len(<<>>) = 0
        OBVIOUS
      <4>3. sellers' \in [Sellers -> Seq(Document)]
        BY <1>1, <3>2, <4>1, <4>2
      <4>4. \A i \in Sellers : sellers'[i] = sellers[i] \/ sellers'[i] = <<>>
        BY <1>1, <3>2
      <4>5. QED
        BY <1>2, <2>1, <4>2, <4>3, <4>4
    <3>3. QED
      BY <2>2, <3>1, <3>2, OtherCall
  <2>3. CASE call \in ArrayCalls
    <3>1. r.seller \in Sellers /\ r.id \in Ids
      BY <1>3, <2>3 DEF CallOf, ArrayCalls
    <3>2. PICK new \in Updated(sellers[r.seller], call, r, h) : sellers' = [sellers EXCEPT ![r.seller] = new]
      BY <2>3, ArrayCall
    <3>3. sellers' = [sellers EXCEPT ![r.seller] = new]
      BY <3>2
    <3>4. sellers[r.seller] \in Seq(Document)
      BY <1>1, <3>1
    <3>5. /\ new \in Seq(Document)
          /\ \A k \in 1..Len(new) :
               \/ k \in 1..Len(sellers[r.seller]) /\ new[k] \in {sellers[r.seller][k], Changed(call, sellers[r.seller][k], r, h)}
               \/ new[k] = Changed(call, Fresh(WithRole(call)), r, h)
      BY <2>3, <3>1, <3>2, <3>4, UpdatedFacts
    <3>6. sellers' \in [Sellers -> Seq(Document)]
      BY <1>1, <3>1, <3>3, <3>5
    <3>7. ASSUME NEW d \in Document, ListsProper(r.seller, d)
          PROVE  ListsProper(r.seller, Changed(call, d, r, h))'
      <4>1. call = "listActivity" => r.id \in activity /\ made[r.id] # Absent
                /\ made[r.id].kind = "activity" /\ made[r.id].seller = r.seller
        BY <1>3 DEF CallOf
      <4>2. call \in {"listService", "pushEdited"} => made[r.id] # Absent /\ made[r.id].kind = "service"
        BY <1>3 DEF CallOf
      <4>3. PICK n : n = Changed(call, d, r, h)
        OBVIOUS
      <4>4. /\ Items(n.activities) \subseteq Items(d.activities) \cup (IF call = "listActivity" THEN {r.id} ELSE {})
            /\ Items(n.services) \subseteq
                  Items(d.services) \cup (IF call \in {"listService", "pushEdited"} THEN {r.id} ELSE {})
        BY <2>3, <3>1, <4>3, ChangedItems
      <4>5. ListsProper(r.seller, n)
        BY <3>7, <4>1, <4>2, <4>4 DEF ListsProper
      <4>6. QED
        BY <2>1, <3>1, <4>3, <4>5
    <3>8. ListsProper(r.seller, Fresh(WithRole(call))) /\ Fresh(WithRole(call)) \in Document
      <4>1. WithRole(call) \in BOOLEAN
        BY DEF WithRole
      <4>2. QED
        BY <4>1, FreshFacts DEF ListsProper
    <3>9. \A d : (\E k \in 1..Len(new) : d = new[k]) => ListsProper(r.seller, d)'
      <4>1. SUFFICES ASSUME NEW k \in 1..Len(new)
                     PROVE  ListsProper(r.seller, new[k])'
        OBVIOUS
      <4>2. CASE new[k] = Changed(call, Fresh(WithRole(call)), r, h)
        BY <3>7, <3>8, <4>2
      <4>3. CASE k \in 1..Len(sellers[r.seller]) /\ new[k] = sellers[r.seller][k]
        BY <1>2, <2>1, <3>1, <4>3
      <4>4. CASE k \in 1..Len(sellers[r.seller]) /\ new[k] = Changed(call, sellers[r.seller][k], r, h)
        <5>1. sellers[r.seller][k] \in Document /\ ListsProper(r.seller, sellers[r.seller][k])
          BY <1>2, <3>1, <3>4, <4>4
        <5>2. QED
          BY <3>7, <4>4, <5>1
      <4>5. QED
        BY <3>5, <4>2, <4>3, <4>4
    <3>10. \A i \in Sellers : sellers'[i] = IF i = r.seller THEN new ELSE sellers[i]
      BY <1>1, <3>3
    <3>11. QED
      BY <1>2, <2>1, <3>6, <3>9, <3>10
  <2>4. QED
    BY <2>2, <2>3
<1>8. (\A i \in Sellers : \A k \in 1..Len(sellers[i]) : ListsProper(i, sellers[i][k]))'
  BY <1>7 DEF ListsProper
<1>9. QED
  BY <1>4, <1>5, <1>6, <1>7, <1>8 DEF KindsApart

LEMMA InitDocs ==
  ASSUME Init, NEW i \in Sellers
  PROVE  /\ sellers[i] \in Seq(Document) /\ Len(sellers[i]) \in {1, 2} /\ HasAccount(sellers[i])
         /\ \A k \in 1..Len(sellers[i]) :
               Items(sellers[i][k].activities) = {} /\ Items(sellers[i][k].services) = {}
<1>1. sellers[i] = <<Registered>> \/ sellers[i] = <<Registered, Withdrawn>>
  BY DEF Init
<1>2. Registered \in Document /\ Withdrawn \in Document
  BY DEF Registered, Withdrawn, Document, Lists
<1>3. /\ ~Registered.role /\ Withdrawn.role /\ Withdrawn.activities = Absent
      /\ Items(Registered.activities) = {} /\ Items(Registered.services) = {}
      /\ Items(Withdrawn.activities) = {} /\ Items(Withdrawn.services) = {}
  BY DEF Registered, Withdrawn, Items
<1>4. CASE sellers[i] = <<Registered>>
  <2>1. <<Registered>> \in Seq(Document) /\ Len(<<Registered>>) = 1 /\ <<Registered>>[1] = Registered
    BY <1>2
  <2>2. QED
    BY <1>3, <1>4, <2>1 DEF HasAccount
<1>5. CASE sellers[i] = <<Registered, Withdrawn>>
  <2>1. /\ <<Registered, Withdrawn>> \in Seq(Document) /\ Len(<<Registered, Withdrawn>>) = 2
        /\ <<Registered, Withdrawn>>[1] = Registered /\ <<Registered, Withdrawn>>[2] = Withdrawn
    BY <1>2
  <2>2. \A k \in 1..2 : k = 1 \/ k = 2
    OBVIOUS
  <2>3. QED
    BY <1>3, <1>5, <2>1, <2>2 DEF HasAccount
<1>6. QED
  BY <1>1, <1>4, <1>5

LEMMA InitFleet == Init => FleetInv
<1>1. SUFFICES ASSUME Init
               PROVE  FleetInv
  OBVIOUS
<1>2. DocsTyped
  <2>1. sellers \in [Sellers -> Seq(Document)]
    BY <1>1, InitDocs DEF Init
  <2>2. QED
    BY <1>1, <2>1 DEF Init, DocsTyped
<1>3. \A s \in Servers : ~Busy(s)
  BY <1>1 DEF Init, Busy
<1>4. KindsApart
  <2>1. \A i \in Sellers : \A k \in 1..Len(sellers[i]) : ListsProper(i, sellers[i][k])
    BY <1>1, InitDocs DEF ListsProper
  <2>2. QED
    BY <1>1, <2>1 DEF KindsApart, Init
<1>5. QED
  BY <1>2, <1>3, <1>4 DEF FleetInv, Handling, InsertedFirst

\* A generated identifier is new: what earlier ones were made for stays.
LEMMA MadeStays ==
  ASSUME FleetInv, NEW s \in deployed, NEW r \in Requests, Receive(s, r)
  PROVE  /\ made' \in [Ids -> Made \cup {Absent}]
         /\ \A a \in Ids : made[a] # Absent => made'[a] = made[a]
         /\ Proper(r)'
         /\ r.op = "Post" => made[r.id] = Absent /\ r.id \in Ids
<1>1. /\ made \in [Ids -> Made \cup {Absent}]
      /\ made' = IF r.op = "Post" THEN [made EXCEPT ![r.id] = [kind |-> r.kind, seller |-> r.seller]] ELSE made
  BY DEF Receive, FleetInv, DocsTyped
<1>2. CASE r \in PostRequests
  <2>1. /\ r.op = "Post" /\ r.kind \in Kinds /\ r.seller \in Sellers /\ r.title \in Titles
        /\ r.id \in Ids /\ made[r.id] = Absent /\ r \in Request
    BY <1>2 DEF PostRequests, Request
  <2>2. [kind |-> r.kind, seller |-> r.seller] \in Made
    BY <2>1 DEF Made
  <2>3. made' = [made EXCEPT ![r.id] = [kind |-> r.kind, seller |-> r.seller]]
    BY <1>1, <2>1
  <2>4. /\ made' \in [Ids -> Made \cup {Absent}]
        /\ \A a \in Ids : made[a] # Absent => made'[a] = made[a]
        /\ made'[r.id].kind = r.kind /\ made'[r.id].seller = r.seller /\ made'[r.id] # Absent
    BY <1>1, <2>1, <2>2, <2>3, OffersAssumption
  <2>5. r.kind # "account" /\ r.seller # Absent
    BY <2>1, OffersAssumption DEF Kinds
  <2>6. QED
    BY <2>1, <2>4, <2>5 DEF Proper
<1>3. CASE r \in ChangeRequests("Put") \cup ChangeRequests("Delete")
  <2>1. PICK op \in {"Put", "Delete"}, a \in Ids :
           /\ made[a] # Absent
           /\ r \in [op : {op}, kind : {made[a].kind}, seller : Senders(op, made[a].kind), id : {a}, title : {Absent}]
    BY <1>3 DEF ChangeRequests
  <2>2. /\ r.op = op /\ r.kind = made[a].kind /\ r.id = a /\ r.title = Absent
        /\ r.seller \in Senders(op, made[a].kind)
    BY <2>1
  <2>3. made[a] \in Made /\ made[a].kind \in Kinds
    BY <1>1, <2>1 DEF Made
  <2>4. /\ r.seller \in Sellers \cup {Absent}
        /\ r.seller = Absent <=> (r.op = "Delete" /\ r.kind = "commodity")
    BY <2>2, OffersAssumption DEF Senders
  <2>5. r \in Request
    BY <2>1, <2>2, <2>3, <2>4 DEF Request
  <2>6. made' = made /\ r.op # "Post" /\ r.kind # "account"
    BY <1>1, <2>2, <2>3 DEF Kinds
  <2>7. QED
    BY <1>1, <2>1, <2>2, <2>4, <2>5, <2>6 DEF Proper
<1>4. CASE r \in AccountRequests
  <2>1. /\ r.op = "Delete" /\ r.kind = "account" /\ r.seller \in Sellers /\ r.id = Absent /\ r \in Request
    BY <1>4 DEF AccountRequests, Request
  <2>2. r.seller # Absent
    BY <2>1, OffersAssumption
  <2>3. QED
    BY <1>1, <2>1, <2>2 DEF Proper
<1>5. QED
  BY <1>2, <1>3, <1>4 DEF Requests

LEMMA ReceiveFleet ==
  ASSUME FleetInv, NEW s \in deployed, NEW r \in Requests, Receive(s, r)
  PROVE  FleetInv'
<1>1. /\ UNCHANGED <<deployed, sellers, activity, store, ads, deleted>>
      /\ todo' = [todo EXCEPT ![s] = Handler(r)]
      /\ req' = [req EXCEPT ![s] = r] /\ had' = [had EXCEPT ![s] = FALSE]
      /\ promised' = promised \ (Concerned(r) \cup Covered(r))
  BY DEF Receive, docs
<1>2. /\ made' \in [Ids -> Made \cup {Absent}]
      /\ \A a \in Ids : made[a] # Absent => made'[a] = made[a]
      /\ Proper(r)'
  BY MadeStays
<1>3. r \in Request /\ (r.kind = "account" => r.op = "Delete")
  BY <1>2 DEF Proper
<1>4. s \in Servers /\ DOMAIN todo = Servers /\ req \in [Servers -> Request \cup {NoRequest}]
  BY DEF FleetInv, DocsTyped
<1>5. DocsTyped'
  BY <1>1, <1>2, <1>3, <1>4 DEF FleetInv, DocsTyped
<1>6. Handling'
  <2>1. SUFFICES ASSUME NEW t \in Servers, Busy(t)'
                 PROVE  \E x : x = req'[t] /\ t \in deployed' /\ Proper(x)' /\ todo'[t] \in Stages(Handler(x))
    BY DEF Handling, Proper
  <2>2. CASE t = s
    <3>1. req'[t] = r /\ todo'[t] = Handler(r)
      BY <1>1, <1>4, <2>2
    <3>2. todo'[t] \in Stages(Handler(r))
      BY <3>1 DEF Stages
    <3>3. QED
      BY <1>1, <1>2, <2>2, <3>1, <3>2
  <2>3. CASE t # s
    <3>1. req'[t] = req[t] /\ todo'[t] = todo[t]
      BY <1>1, <1>4, <2>3
    <3>2. Busy(t)
      BY <2>1, <3>1 DEF Busy
    <3>3. PICK x : x = req[t]
      OBVIOUS
    <3>4. t \in deployed /\ Proper(x) /\ todo[t] \in Stages(Handler(x))
      BY <3>2, <3>3 DEF FleetInv, Handling
    <3>5. Proper(x)'
      BY <1>2, <3>4 DEF Proper
    <3>6. QED
      BY <1>1, <3>1, <3>3, <3>4, <3>5
  <2>4. QED
    BY <2>2, <2>3
<1>7. KindsApart'
  <2>1. \A i \in Sellers, d \in Document : ListsProper(i, d) => ListsProper(i, d)'
    <3>1. \A d \in Document : Items(d.activities) \subseteq Ids /\ Items(d.services) \subseteq Ids
      BY DEF Document, Lists, Items
    <3>2. QED
      BY <1>1, <1>2, <3>1 DEF ListsProper
  <2>2. \A i \in Sellers : \A k \in 1..Len(sellers[i]) : sellers[i][k] \in Document
    BY DEF FleetInv, DocsTyped
  <2>3. (\A i \in Sellers : \A k \in 1..Len(sellers[i]) : ListsProper(i, sellers[i][k]))'
    <3>1. \A i \in Sellers : \A k \in 1..Len(sellers[i]) : ListsProper(i, sellers[i][k])
      BY DEF FleetInv, KindsApart
    <3>2. \A i \in Sellers : \A d : (\E k \in 1..Len(sellers[i]) : d = sellers[i][k]) => ListsProper(i, d)'
      BY <2>1, <2>2, <3>1
    <3>3. QED
      BY <1>1, <3>2 DEF ListsProper
  <2>4. QED
    BY <1>1, <1>2, <2>3 DEF FleetInv, KindsApart, DocsTyped
<1>8. InsertedFirst'
  <2>1. Head(Handler(r)) # "listActivity"
    BY <1>3 DEF Handler, ActivityPost, ActivityPut, ActivityDelete, ServicePost, ServicePut, ServiceDelete,
                CommodityPost, CommodityPut, CommodityDelete, AdvertisementPost, AdvertisementPut,
                AdvertisementDelete, SellerDelete, Request, Kinds
  <2>2. QED
    BY <1>1, <1>4, <2>1 DEF FleetInv, InsertedFirst, Busy
<1>9. QED
  BY <1>5, <1>6, <1>7, <1>8 DEF FleetInv

\* What a call leaves of the database, whether it is a query, a write or fails.
DocsKept ==
    /\ UNCHANGED <<deployed, made>>
    /\ sellers' \in [Sellers -> Seq(Document)] /\ activity' \in SUBSET Ids
    /\ store' \in [Ids -> Nat] /\ ads' \in [Ids -> Titles \cup {Absent}]
    /\ had' \in [Servers -> BOOLEAN]
    /\ activity \subseteq activity'
    /\ KindsApart'

LEMMA UnchangedDocs ==
  ASSUME FleetInv, UNCHANGED <<deployed, docs, made>>, had' \in [Servers -> BOOLEAN]
  PROVE  DocsKept
BY DEF FleetInv, DocsKept, DocsTyped, KindsApart, ListsProper, docs

LEMMA StoredDocs ==
  ASSUME FleetInv, NEW s \in deployed, Busy(s), UNCHANGED <<deployed, made, had>>,
         Stored(Head(todo[s]), req[s], had[s])
  PROVE  DocsKept
<1>1. s \in Servers /\ had \in [Servers -> BOOLEAN]
  BY DEF FleetInv, DocsTyped
<1>2. PICK call, r, h, next, last :
         /\ call = Head(todo[s]) /\ r = req[s] /\ h = had[s]
         /\ next = Head(Tail(todo[s])) /\ last = (Tail(todo[s]) = <<>>)
  OBVIOUS
<1>3. Proper(r) /\ CallOf(call, next, last, r) /\ h \in BOOLEAN
  BY <1>1, <1>2, BusyFacts
<1>4. Stored(call, r, h)
  BY <1>2 DEF Stored
<1>5. call = "listActivity" => r.id \in activity
  BY <1>1, <1>2 DEF FleetInv, InsertedFirst
<1>6. /\ sellers' \in [Sellers -> Seq(Document)] /\ activity' \in SUBSET Ids
      /\ store' \in [Ids -> Nat] /\ ads' \in [Ids -> Titles \cup {Absent}]
      /\ activity \subseteq activity'
      /\ KindsApart'
  BY <1>3, <1>4, <1>5, StoredKinds
<1>7. QED
  BY <1>1, <1>6 DEF DocsKept

\* The other processes are left as they were.
LEMMA OthersFleet ==
  ASSUME FleetInv, DocsKept, NEW s \in deployed, NEW t \in Servers \ {s}, Busy(t)',
         req'[t] = req[t], todo'[t] = todo[t]
  PROVE  /\ \E x : x = req'[t] /\ t \in deployed' /\ Proper(x)' /\ todo'[t] \in Stages(Handler(x))
         /\ Head(todo'[t]) = "listActivity" => req'[t].id \in activity'
<1>1. Busy(t)
  BY DEF Busy
<1>2. PICK x : x = req[t]
  OBVIOUS
<1>3. t \in deployed /\ Proper(x) /\ todo[t] \in Stages(Handler(x))
  BY <1>1, <1>2 DEF FleetInv, Handling
<1>4. Proper(x)'
  BY <1>3 DEF Proper, DocsKept
<1>5. Head(todo[t]) = "listActivity" => req[t].id \in activity'
  BY <1>1 DEF FleetInv, InsertedFirst, DocsKept
<1>6. QED
  BY <1>2, <1>3, <1>4, <1>5 DEF DocsKept

LEMMA ReturnFleet ==
  ASSUME FleetInv, DocsKept, NEW s \in deployed, Busy(s), NEW ok, Return(s, ok)
  PROVE  FleetInv'
<1>1. /\ s \in Servers /\ DOMAIN todo = Servers /\ req \in [Servers -> Request \cup {NoRequest}]
      /\ promised \in SUBSET (Sellers \X Ids) /\ deleted \in SUBSET (Sellers \X Ids)
      /\ todo' = [todo EXCEPT ![s] = <<>>] /\ req' = [req EXCEPT ![s] = NoRequest]
  BY DEF FleetInv, DocsTyped, Return
<1>2. Proper(req[s])
  BY <1>1, BusyFacts
<1>3. promised' \in SUBSET (Sellers \X Ids) /\ deleted' \in SUBSET (Sellers \X Ids)
  <2>1. Concerned(req[s]) \in SUBSET (Sellers \X Ids)
    BY DEF Concerned
  <2>2. req[s].op \in {"Post", "Put"} => <<req[s].seller, req[s].id>> \in Sellers \X Ids
    BY <1>2 DEF Proper, Request
  <2>3. QED
    BY <1>1, <2>1, <2>2 DEF Return
<1>4. DocsTyped'
  BY <1>1, <1>3 DEF DocsTyped, DocsKept, FleetInv
<1>5. \A t \in Servers : IF t = s THEN ~Busy(t)' ELSE req'[t] = req[t] /\ todo'[t] = todo[t]
  BY <1>1 DEF Busy
<1>6. Handling'
  <2>1. SUFFICES ASSUME NEW t \in Servers, Busy(t)'
                 PROVE  \E x : x = req'[t] /\ t \in deployed' /\ Proper(x)' /\ todo'[t] \in Stages(Handler(x))
    BY DEF Handling, Proper
  <2>2. t \in Servers \ {s} /\ req'[t] = req[t] /\ todo'[t] = todo[t]
    BY <1>5, <2>1
  <2>3. QED
    BY <2>1, <2>2, OthersFleet
<1>7. InsertedFirst'
  <2>1. SUFFICES ASSUME NEW t \in Servers, Busy(t)', Head(todo'[t]) = "listActivity"
                 PROVE  req'[t].id \in activity'
    BY DEF InsertedFirst
  <2>2. t \in Servers \ {s} /\ req'[t] = req[t] /\ todo'[t] = todo[t]
    BY <1>5, <2>1
  <2>3. QED
    BY <2>1, <2>2, OthersFleet
<1>8. QED
  BY <1>4, <1>6, <1>7 DEF FleetInv, DocsKept

LEMMA GotoFleet ==
  ASSUME FleetInv, DocsKept, NEW s \in deployed, Busy(s), Goto(s), Tail(todo[s]) # <<>>,
         Head(Tail(todo[s])) = "listActivity" => req[s].id \in activity'
  PROVE  FleetInv'
<1>1. /\ s \in Servers /\ DOMAIN todo = Servers
      /\ todo' = [todo EXCEPT ![s] = Tail(@)] /\ UNCHANGED <<req, promised, deleted>>
  BY DEF FleetInv, DocsTyped, Goto
<1>2. PICK r : r = req[s]
  OBVIOUS
<1>3. s \in deployed' /\ Proper(r)' /\ Tail(todo[s]) \in Stages(Handler(r))
  <2>1. Proper(r) /\ Tail(todo[s]) \in Stages(Handler(r))
    BY <1>1, <1>2, BusyFacts
  <2>2. QED
    BY <2>1 DEF Proper, DocsKept
<1>4. DocsTyped'
  BY <1>1 DEF DocsTyped, DocsKept, FleetInv
<1>5. \A t \in Servers : todo'[t] = IF t = s THEN Tail(todo[s]) ELSE todo[t]
  BY <1>1
<1>6. Handling'
  <2>1. SUFFICES ASSUME NEW t \in Servers, Busy(t)'
                 PROVE  \E x : x = req'[t] /\ t \in deployed' /\ Proper(x)' /\ todo'[t] \in Stages(Handler(x))
    BY DEF Handling, Proper
  <2>2. CASE t = s
    BY <1>1, <1>2, <1>3, <1>5, <2>2
  <2>3. CASE t # s
    BY <1>1, <1>5, <2>1, <2>3, OthersFleet
  <2>4. QED
    BY <2>2, <2>3
<1>7. InsertedFirst'
  <2>1. SUFFICES ASSUME NEW t \in Servers, Busy(t)', Head(todo'[t]) = "listActivity"
                 PROVE  req'[t].id \in activity'
    BY DEF InsertedFirst
  <2>2. CASE t = s
    BY <1>1, <1>5, <2>1, <2>2
  <2>3. CASE t # s
    BY <1>1, <1>5, <2>1, <2>3, OthersFleet
  <2>4. QED
    BY <2>2, <2>3
<1>8. QED
  BY <1>4, <1>6, <1>7 DEF FleetInv, DocsKept

LEMMA QueryFleet ==
  ASSUME FleetInv, NEW s \in deployed, Query(s)
  PROVE  FleetInv' /\ DocsKept /\ Busy(s)
<1>1. Busy(s) /\ Head(todo[s]) \in Queries /\ UNCHANGED <<deployed, docs, made>>
  BY DEF Query, Busy
<1>2. s \in Servers /\ had \in [Servers -> BOOLEAN]
  BY DEF FleetInv, DocsTyped
<1>3. had' \in [Servers -> BOOLEAN]
  BY <1>2 DEF Query, HasField
<1>4. DocsKept
  BY <1>1, <1>3, UnchangedDocs
<1>5. CASE Return(s, FALSE)
  BY <1>1, <1>4, <1>5, ReturnFleet
<1>6. CASE Goto(s)
  <2>1. CallOf(Head(todo[s]), Head(Tail(todo[s])), Tail(todo[s]) = <<>>, req[s])
    BY <1>1, <1>2, BusyFacts
  <2>2. Tail(todo[s]) # <<>> /\ Head(Tail(todo[s])) # "listActivity"
    BY <1>1, <2>1 DEF CallOf, Queries
  <2>3. QED
    BY <1>1, <1>4, <1>6, <2>2, GotoFleet
<1>7. QED
  BY <1>1, <1>4, <1>5, <1>6 DEF Query

LEMMA WriteFleet ==
  ASSUME FleetInv, NEW s \in deployed, Write(s)
  PROVE  FleetInv' /\ DocsKept /\ Busy(s)
<1>1. /\ Busy(s) /\ Stored(Head(todo[s]), req[s], had[s]) /\ UNCHANGED <<deployed, made, had>>
      /\ IF Tail(todo[s]) = <<>> THEN Return(s, TRUE) ELSE Goto(s)
  BY DEF Write, Busy
<1>2. DocsKept
  BY <1>1, StoredDocs
<1>3. CASE Return(s, TRUE)
  BY <1>1, <1>2, <1>3, ReturnFleet
<1>4. CASE Tail(todo[s]) # <<>> /\ Goto(s)
  <2>1. s \in Servers
    BY DEF FleetInv, DocsTyped
  <2>2. CallOf(Head(todo[s]), Head(Tail(todo[s])), Tail(todo[s]) = <<>>, req[s])
    BY <1>1, <2>1, BusyFacts
  <2>3. Head(Tail(todo[s])) = "listActivity" => req[s].id \in activity'
    BY <1>1, <1>4, <2>2 DEF CallOf, Stored
  <2>4. QED
    BY <1>1, <1>2, <1>4, <2>3, GotoFleet
<1>5. QED
  BY <1>1, <1>2, <1>3, <1>4

LEMMA FailFleet ==
  ASSUME FleetInv, NEW s \in deployed, Fail(s)
  PROVE  FleetInv' /\ DocsKept /\ Busy(s)
<1>1. /\ Busy(s) /\ Return(s, FALSE) /\ UNCHANGED <<deployed, made, had>>
      /\ Stored(Head(todo[s]), req[s], had[s]) \/ UNCHANGED docs
  BY DEF Fail, Busy
<1>2. CASE Stored(Head(todo[s]), req[s], had[s])
  <2>1. DocsKept
    BY <1>1, <1>2, StoredDocs
  <2>2. QED
    BY <1>1, <2>1, ReturnFleet
<1>3. CASE UNCHANGED docs
  <2>1. DocsKept
    BY <1>1, <1>3, UnchangedDocs DEF FleetInv, DocsTyped
  <2>2. QED
    BY <1>1, <2>1, ReturnFleet
<1>4. QED
  BY <1>1, <1>2, <1>3

LEMMA StutterFleet ==
  ASSUME FleetInv, UNCHANGED vars
  PROVE  FleetInv'
BY DEF FleetInv, DocsTyped, Handling, Proper, KindsApart, ListsProper, InsertedFirst, Busy, vars

LEMMA NextFleet == FleetInv /\ [Next]_vars => FleetInv'
<1>1. SUFFICES ASSUME FleetInv, [Next]_vars
               PROVE  FleetInv'
  OBVIOUS
<1>2. ASSUME NEW s \in deployed, NEW r \in Requests, Receive(s, r)
      PROVE  FleetInv'
  BY <1>1, <1>2, ReceiveFleet
<1>3. ASSUME NEW s \in deployed, Query(s) \/ Write(s) \/ Fail(s)
      PROVE  FleetInv'
  BY <1>1, <1>3, QueryFleet, WriteFleet, FailFleet
<1>4. CASE UNCHANGED vars
  BY <1>1, <1>4, StutterFleet
<1>5. QED
  BY <1>1, <1>2, <1>3, <1>4 DEF Next

LEMMA FleetInvariant == Spec => []FleetInv
BY InitFleet, NextFleet, PTL DEF Spec

\* An activity that users find with a seller is in the seller's own list in
\* DB_ACTIVITY, with any number of processes and wherever Activity::Post, Put
\* or Delete is cut short.
THEOREM OffersListed == Spec => []ListedActivitiesAreRecorded
<1>1. FleetInv => ListedActivitiesAreRecorded
  <2>1. SUFFICES ASSUME FleetInv, NEW i \in Sellers, NEW k \in DOMAIN sellers[i],
                        NEW a \in Items(sellers[i][k].activities)
                 PROVE  a \in ActivityList(i)
    BY DEF ListedActivitiesAreRecorded, SellerActivityList, SellerListForActivity, Placed
  <2>2. k \in 1..Len(sellers[i])
    BY <2>1 DEF FleetInv, DocsTyped
  <2>3. a \in activity /\ made[a].seller = i
    BY <2>1, <2>2 DEF FleetInv, KindsApart, ListsProper
  <2>4. QED
    BY <2>3 DEF ActivityList
<1>2. QED
  BY <1>1, FleetInvariant, PTL

-----------------------------------------------------------------------------
(***************************************************************************)
(* One process: what a call that writes leaves shown, and hidden           *)
(***************************************************************************)

\* The process is about to make a call that writes, and what its queries have
\* found still holds.
Ready(call, next, last, r, h) ==
    /\ Proper(r) /\ CallOf(call, next, last, r) /\ call \notin Queries /\ h \in BOOLEAN
    /\ r.kind \in ArrayKinds => sellers[r.seller] # <<>>
    /\ r.op = "Put" /\ r.kind = "commodity" => OwnedBy(r)
    /\ r.op # "Post" /\ r.kind = "ad" => OwnedBy(r)
    /\ r.op = "Post" /\ r.kind = "ad" => ~SameTitle(r)
    /\ AddsItem(r) /\ AllHave(r) => h

LEMMA SellerAfter ==
  ASSUME FleetInv, NEW call, NEW next, NEW last, NEW r, NEW h, Ready(call, next, last, r, h),
         Stored(call, r, h), NEW i \in Sellers
  PROVE  /\ sellers[i] \in Seq(Document)
         /\ \/ sellers'[i] = sellers[i] /\ (call \notin ArrayCalls \/ r.seller # i)
            \/ call = "removeSeller" /\ r.seller = i /\ sellers'[i] = <<>>
            \/ /\ call \in ArrayCalls /\ r.seller = i /\ sellers[i] # <<>> /\ r.id \in Ids
               /\ sellers'[i] \in Updated(sellers[i], call, r, h)
<1>1. sellers \in [Sellers -> Seq(Document)]
  BY DEF FleetInv, DocsTyped
<1>2. CASE call \in ArrayCalls
  <2>1. r.kind \in ArrayKinds /\ r.id \in Ids /\ sellers[r.seller] # <<>>
    BY <1>2 DEF Ready, CallOf, ArrayCalls, ArrayKinds, Proper
  <2>3. PICK q \in Updated(sellers[r.seller], call, r, h) : sellers' = [sellers EXCEPT ![r.seller] = q]
    BY <1>2, ArrayCall
  <2>4. sellers' = [sellers EXCEPT ![r.seller] = q]
    BY <2>3
  <2>5. sellers'[i] = IF i = r.seller THEN q ELSE sellers[i]
    BY <1>1, <2>4
  <2>6. QED
    BY <1>1, <1>2, <2>1, <2>3, <2>5
<1>3. CASE call \notin ArrayCalls
  <2>1. \/ sellers' = sellers
        \/ call = "removeSeller" /\ sellers' = [sellers EXCEPT ![r.seller] = <<>>]
    BY <1>3, OtherCall
  <2>2. QED
    BY <1>1, <1>3, <2>1
<1>4. QED
  BY <1>2, <1>3

\* The account stays.
LEMMA StoredAccount ==
  ASSUME FleetInv, NEW call, NEW next, NEW last, NEW r, NEW h, Ready(call, next, last, r, h),
         Stored(call, r, h), NEW i \in Sellers, HasAccount(sellers[i])
  PROVE  /\ HasAccount(sellers'[i])
         /\ call # "removeSeller" /\ sellers[i] # <<>> => sellers'[i] # <<>>
<1>1. h \in BOOLEAN /\ HasAccount(<<>>)
  BY DEF Ready, HasAccount
<1>2. CASE call \in ArrayCalls /\ r.seller = i /\ sellers[i] # <<>> /\ r.id \in Ids
           /\ sellers'[i] \in Updated(sellers[i], call, r, h)
  <2>1. PICK q, new : q = sellers[i] /\ new = sellers'[i]
    OBVIOUS
  <2>2. q \in Seq(Document) /\ q # <<>> /\ new \in Updated(q, call, r, h)
    BY <1>2, <2>1, SellerAfter
  <2>3. PICK k \in 1..Len(q) : ~q[k].role
    BY <2>1, <2>2 DEF HasAccount
  <2>4. k \in 1..Len(new) /\ new[k] \in {q[k], Changed(call, q[k], r, h)}
    BY <1>1, <1>2, <2>2, <2>3, UpdatedFacts
  <2>5. q[k] \in Document
    BY <2>2, <2>3
  <2>6. Changed(call, q[k], r, h).role = q[k].role
    BY <1>1, <1>2, <2>5, ChangedFacts
  <2>7. ~new[k].role
    BY <2>3, <2>4, <2>6
  <2>8. new # <<>>
    BY <2>4
  <2>9. QED
    BY <2>1, <2>4, <2>7, <2>8 DEF HasAccount
<1>3. CASE sellers'[i] = sellers[i]
  BY <1>3
<1>4. CASE call = "removeSeller" /\ sellers'[i] = <<>>
  BY <1>1, <1>4
<1>5. QED
  BY <1>2, <1>3, <1>4, SellerAfter

\* An item that the request does not name stays in the array of the document
\* that an update has changed, unless Post sets the array anew.
LEMMA ItemStays ==
  ASSUME NEW call \in ArrayCalls, NEW d \in Document, NEW r, r.id \in Ids, NEW h \in BOOLEAN,
         NEW a \in Ids, a # r.id
  PROVE  /\ a \in Items(d.activities) /\ (call = "listActivity" => h) =>
               a \in Items(Changed(call, d, r, h).activities)
         /\ a \in Items(d.services) /\ (call = "listService" => h) =>
               a \in Items(Changed(call, d, r, h).services)
<1>1. d.activities \in Lists /\ d.services \in Lists
  BY DEF Document
<1>2. \A l \in Lists : /\ Items(Push(l, r.id)) = Items(l) \cup {r.id}
                       /\ Items(Pull(l, r.id)) = Items(l) \ {r.id}
                       /\ h => Items(ListItem(l, r.id, h)) = Items(l) \cup {r.id}
  BY ItemsFacts
<1>3. ASSUME a \in Items(d.activities), call = "listActivity" => h
      PROVE  a \in Items(Changed(call, d, r, h).activities)
  BY <1>1, <1>2, <1>3, ChangedFacts
<1>4. ASSUME a \in Items(d.services), call = "listService" => h
      PROVE  a \in Items(Changed(call, d, r, h).services)
  BY <1>1, <1>2, <1>4, ChangedFacts
<1>5. QED
  BY <1>3, <1>4

\* What a request does not concern stays shown.
LEMMA StoredShown ==
  ASSUME FleetInv, NEW call, NEW next, NEW last, NEW r, NEW h, Ready(call, next, last, r, h),
         Stored(call, r, h), made' = made,
         NEW i \in Sellers, NEW a \in Ids, ShownAs(i, a),
         <<i, a>> \notin Concerned(r),
         AddsItem(r) /\ r.seller = i /\ made[a].kind = r.kind => h
  PROVE  ShownAs(i, a)'
<1>1. /\ made[a] # Absent /\ made[a] \in Made /\ made[a].kind \in Kinds
      /\ store \in [Ids -> Nat] /\ ads \in [Ids -> Titles \cup {Absent}]
  BY DEF ShownAs, FleetInv, DocsTyped, Made
<1>2. ~(r.seller \in {i, Absent} /\ r.id \in {a, Absent})
  BY DEF Concerned
<1>3. h \in BOOLEAN
  BY DEF Ready
<1>4. CASE made[a].kind \in {"activity", "service"}
  <2>2. CASE sellers'[i] = sellers[i]
    BY <1>4, <2>2 DEF ShownAs
  <2>3. CASE call = "removeSeller" /\ r.seller = i
    <3>1. r.id = Absent
      BY <2>3 DEF Ready, CallOf, Proper
    <3>2. QED
      BY <1>2, <2>3, <3>1
  <2>4. CASE /\ call \in ArrayCalls /\ r.seller = i /\ r.id \in Ids
             /\ sellers'[i] \in Updated(sellers[i], call, r, h)
    <3>1. PICK q, new : q = sellers[i] /\ new = sellers'[i]
      OBVIOUS
    <3>2. q \in Seq(Document) /\ new \in Updated(q, call, r, h) /\ a # r.id
      BY <1>2, <2>4, <3>1, SellerAfter
    <3>3. \A k \in 1..Len(q) : k \in 1..Len(new) /\ new[k] \in {q[k], Changed(call, q[k], r, h)}
      BY <1>3, <2>4, <3>2, UpdatedFacts
    <3>4. \A k \in 1..Len(q) : q[k] \in Document
      BY <3>2
    <3>5. /\ call = "listActivity" => AddsItem(r) /\ r.kind = "activity"
          /\ call = "listService" => AddsItem(r) /\ r.kind = "service"
      BY DEF Ready, CallOf, AddsItem, ArrayKinds
    <3>6. CASE made[a].kind = "activity"
      <4>1. PICK k \in 1..Len(q) : a \in Items(q[k].activities)
        BY <3>1, <3>6 DEF ShownAs
      <4>2. call = "listActivity" => h
        BY <2>4, <3>5, <3>6
      <4>3. a \in Items(Changed(call, q[k], r, h).activities)
        BY <1>3, <2>4, <3>2, <3>4, <4>1, <4>2, ItemStays
      <4>4. k \in 1..Len(new) /\ a \in Items(new[k].activities)
        BY <3>3, <4>1, <4>3
      <4>5. QED
        BY <1>1, <3>1, <3>6, <4>4 DEF ShownAs
    <3>7. CASE made[a].kind = "service"
      <4>1. PICK k \in 1..Len(q) : a \in Items(q[k].services)
        BY <3>1, <3>7 DEF ShownAs
      <4>2. call = "listService" => h
        BY <2>4, <3>5, <3>7
      <4>3. a \in Items(Changed(call, q[k], r, h).services)
        BY <1>3, <2>4, <3>2, <3>4, <4>1, <4>2, ItemStays
      <4>4. k \in 1..Len(new) /\ a \in Items(new[k].services)
        BY <3>3, <4>1, <4>3
      <4>5. QED
        BY <1>1, <3>1, <3>7, <4>4 DEF ShownAs
    <3>8. QED
      BY <1>4, <3>6, <3>7
  <2>5. QED
    BY <2>2, <2>3, <2>4, SellerAfter
<1>5. CASE made[a].kind = "commodity"
  <2>1. store[a] > 0 /\ made[a].seller = i
    BY <1>5 DEF ShownAs
  <2>2. call = "removeCommodity" => r.id # a
    <3>1. call = "removeCommodity" => r.kind = "commodity" /\ r.op \in {"Put", "Delete"}
      BY DEF Ready, CallOf
    <3>2. call = "removeCommodity" /\ r.op = "Put" => made[r.id].seller = r.seller
      BY <3>1 DEF Ready, OwnedBy
    <3>3. call = "removeCommodity" /\ r.op = "Delete" => r.seller = Absent
      BY <3>1 DEF Ready, Proper
    <3>4. QED
      BY <1>2, <2>1, <3>1, <3>2, <3>3
  <2>3. \/ store' = store
        \/ call = "insertCommodity" /\ store' = [store EXCEPT ![r.id] = @ + 1]
        \/ call = "removeCommodity" /\ store' = [store EXCEPT ![r.id] = 0]
    BY StoredRest
  <2>4. store'[a] > 0
    BY <1>1, <2>1, <2>2, <2>3
  <2>5. QED
    BY <1>1, <1>5, <2>1, <2>4 DEF ShownAs
<1>6. CASE made[a].kind = "ad"
  <2>1. ads[a] # Absent /\ made[a].seller = i
    BY <1>6 DEF ShownAs
  <2>2. call = "removeAd" => r.id # a
    <3>1. call = "removeAd" => made[r.id].seller = r.seller
      BY DEF Ready, CallOf, OwnedBy
    <3>2. QED
      BY <1>2, <2>1, <3>1
  <2>3. call = "insertAd" => r.title \in Titles /\ r.title # Absent
    BY OffersAssumption DEF Ready, CallOf, Proper
  <2>4. \/ ads' = ads
        \/ call = "insertAd" /\ ads' = [ads EXCEPT ![r.id] = r.title]
        \/ call = "removeAd" /\ ads' = [ads EXCEPT ![r.id] = Absent]
    BY StoredRest
  <2>5. ads'[a] # Absent
    BY <1>1, <2>1, <2>2, <2>3, <2>4
  <2>6. QED
    BY <1>1, <1>6, <2>1, <2>5 DEF ShownAs
<1>7. QED
  BY <1>1, <1>4, <1>5, <1>6 DEF Kinds

\* What was removed stays hidden: only Post and Commodity::Put add an item
\* where users look, and neither names what was removed.
LEMMA StoredHidden ==
  ASSUME FleetInv, NEW call, NEW next, NEW last, NEW r, NEW h, Ready(call, next, last, r, h),
         Stored(call, r, h), made' = made,
         NEW i \in Sellers, NEW a \in Ids, HiddenAs(i, a),
         Adds(r) => r.id # a
  PROVE  HiddenAs(i, a)'
<1>1. /\ made[a] # Absent /\ made[a] \in Made /\ made[a].kind \in Kinds
      /\ store \in [Ids -> Nat] /\ ads \in [Ids -> Titles \cup {Absent}]
  BY DEF HiddenAs, FleetInv, DocsTyped, Made
<1>2. h \in BOOLEAN /\ sellers[i] \in Seq(Document)
  BY DEF Ready, FleetInv, DocsTyped
<1>3. CASE made[a].kind \in {"activity", "service"}
  <2>1. CASE sellers'[i] = sellers[i]
    BY <1>3, <2>1 DEF HiddenAs
  <2>2. CASE sellers'[i] = <<>>
    BY <1>1, <1>3, <2>2 DEF HiddenAs
  <2>3. CASE /\ call \in ArrayCalls /\ r.seller = i /\ sellers[i] # <<>> /\ r.id \in Ids
             /\ sellers'[i] \in Updated(sellers[i], call, r, h)
    <3>1. PICK q, new : q = sellers[i] /\ new = sellers'[i]
      OBVIOUS
    <3>2. q \in Seq(Document) /\ new \in Updated(q, call, r, h)
      BY <1>2, <2>3, <3>1
    <3>3. call \in {"listActivity", "listService"} => r.id # a
      BY DEF Ready, CallOf, Adds
    <3>4. call = "pushEdited" => WithRole(call)
      BY DEF WithRole
    <3>5. \A d \in Document :
             /\ a \notin Items(d.activities) => a \notin Items(Changed(call, d, r, h).activities)
             /\ a \notin Items(d.services) /\ ~WithRole(call) => a \notin Items(Changed(call, d, r, h).services)
             /\ Changed(call, d, r, h).role = d.role
      <4>1. SUFFICES ASSUME NEW d \in Document
                     PROVE  /\ a \notin Items(d.activities) => a \notin Items(Changed(call, d, r, h).activities)
                            /\ a \notin Items(d.services) /\ ~WithRole(call) =>
                                  a \notin Items(Changed(call, d, r, h).services)
                            /\ Changed(call, d, r, h).role = d.role
        OBVIOUS
      <4>2. /\ Items(Changed(call, d, r, h).activities) \subseteq
                  Items(d.activities) \cup (IF call = "listActivity" THEN {r.id} ELSE {})
            /\ Items(Changed(call, d, r, h).services) \subseteq
                  Items(d.services) \cup (IF call \in {"listService", "pushEdited"} THEN {r.id} ELSE {})
        BY <1>2, <2>3, ChangedItems
      <4>3. Changed(call, d, r, h).role = d.role
        BY <1>2, <2>3, ChangedFacts
      <4>4. QED
        BY <3>3, <3>4, <4>2, <4>3
    <3>6. \A k \in 1..Len(q) : q[k] \in Document
      BY <3>2
    <3>7. /\ Fresh(WithRole(call)) \in Document /\ Fresh(WithRole(call)).role = WithRole(call)
          /\ Items(Fresh(WithRole(call)).activities) = {} /\ Items(Fresh(WithRole(call)).services) = {}
      <4>1. WithRole(call) \in BOOLEAN
        BY DEF WithRole
      <4>2. QED
        BY <4>1, FreshFacts
    <3>8. ASSUME NEW k \in 1..Len(new)
          PROVE  \E d \in Document :
                    /\ new[k] = d \/ (new[k] = Changed(call, d, r, h) /\ (WithRole(call) => d.role))
                    /\ \/ k \in 1..Len(q) /\ d = q[k]
                       \/ Items(d.activities) = {} /\ Items(d.services) = {}
      <4>1. CASE new[k] = Changed(call, Fresh(WithRole(call)), r, h)
        BY <3>7, <4>1
      <4>2. CASE /\ k \in 1..Len(q)
                 /\ \/ new[k] = q[k]
                    \/ new[k] = Changed(call, q[k], r, h) /\ (WithRole(call) => q[k].role)
        BY <3>6, <4>2
      <4>3. \/ /\ k \in 1..Len(q)
               /\ \/ new[k] = q[k]
                  \/ new[k] = Changed(call, q[k], r, h) /\ (WithRole(call) => q[k].role)
            \/ new[k] = Changed(call, Fresh(WithRole(call)), r, h)
        BY <1>2, <2>3, <3>2, UpdatedFacts
      <4>4. QED
        BY <4>1, <4>2, <4>3
    <3>9. made[a].kind = "activity" => \A k \in 1..Len(new) : a \notin Items(new[k].activities)
      <4>1. SUFFICES ASSUME made[a].kind = "activity", NEW k \in 1..Len(new)
                     PROVE  a \notin Items(new[k].activities)
        OBVIOUS
      <4>2. \A j \in 1..Len(q) : a \notin Items(q[j].activities)
        BY <3>1, <4>1 DEF HiddenAs
      <4>3. PICK d \in Document :
                    /\ new[k] = d \/ (new[k] = Changed(call, d, r, h) /\ (WithRole(call) => d.role))
                    /\ \/ k \in 1..Len(q) /\ d = q[k]
                       \/ Items(d.activities) = {} /\ Items(d.services) = {}
        BY <3>8
      <4>4. a \notin Items(d.activities)
        BY <4>2, <4>3
      <4>5. QED
        BY <3>5, <4>3, <4>4
    <3>10. made[a].kind = "service" => \A k \in 1..Len(new) : ~new[k].role => a \notin Items(new[k].services)
      <4>1. SUFFICES ASSUME made[a].kind = "service", NEW k \in 1..Len(new), ~new[k].role
                     PROVE  a \notin Items(new[k].services)
        OBVIOUS
      <4>2. \A j \in 1..Len(q) : ~q[j].role => a \notin Items(q[j].services)
        BY <3>1, <4>1 DEF HiddenAs
      <4>3. PICK d \in Document :
                    /\ new[k] = d \/ (new[k] = Changed(call, d, r, h) /\ (WithRole(call) => d.role))
                    /\ \/ k \in 1..Len(q) /\ d = q[k]
                       \/ Items(d.activities) = {} /\ Items(d.services) = {}
        BY <3>8
      <4>4. ~d.role
        BY <3>5, <4>1, <4>3
      <4>5. a \notin Items(d.services)
        BY <4>2, <4>3, <4>4
      <4>6. QED
        BY <3>5, <4>3, <4>4, <4>5
    <3>11. QED
      BY <1>1, <1>3, <3>1, <3>9, <3>10 DEF HiddenAs
  <2>4. QED
    BY <2>1, <2>2, <2>3, SellerAfter
<1>4. CASE made[a].kind = "commodity"
  <2>1. store[a] = 0
    BY <1>4 DEF HiddenAs
  <2>2. call = "insertCommodity" => r.id # a
    BY DEF Ready, CallOf, Adds
  <2>3. \/ store' = store
        \/ call = "insertCommodity" /\ store' = [store EXCEPT ![r.id] = @ + 1]
        \/ call = "removeCommodity" /\ store' = [store EXCEPT ![r.id] = 0]
    BY StoredRest
  <2>4. store'[a] = 0
    BY <1>1, <2>1, <2>2, <2>3
  <2>5. QED
    BY <1>1, <1>4, <2>4 DEF HiddenAs
<1>5. CASE made[a].kind = "ad"
  <2>1. ads[a] = Absent
    BY <1>5 DEF HiddenAs
  <2>2. call = "insertAd" => r.id # a
    BY DEF Ready, CallOf, Adds
  <2>3. \/ ads' = ads
        \/ call = "insertAd" /\ ads' = [ads EXCEPT ![r.id] = r.title]
        \/ call = "removeAd" /\ ads' = [ads EXCEPT ![r.id] = Absent]
    BY StoredRest
  <2>4. ads'[a] = Absent
    BY <1>1, <2>1, <2>2, <2>3
  <2>5. QED
    BY <1>1, <1>5, <2>4 DEF HiddenAs
<1>6. QED
  BY <1>1, <1>3, <1>4, <1>5 DEF Kinds

\* The answers that promise an offer.
Promises(r) == r.op = "Post" \/ (r.op = "Put" /\ r.kind \in {"service", "commodity"})

\* After its last call, the handler of such a request has shown the offer.
LEMMA NowShown ==
  ASSUME FleetInv, NEW call, NEW next, NEW last, NEW r, NEW h, Ready(call, next, last, r, h),
         Stored(call, r, h), made' = made, call = LastCall(r), Promises(r)
  PROVE  ShownAs(r.seller, r.id)'
<1>1. /\ r.op \in {"Post", "Put"} /\ r.kind \in Kinds /\ r.seller \in Sellers /\ r.id \in Ids
      /\ made[r.id] # Absent /\ made[r.id].kind = r.kind
      /\ h \in BOOLEAN /\ call = LastCall(r)
      /\ store \in [Ids -> Nat] /\ ads \in [Ids -> Titles \cup {Absent}]
      /\ r.op = "Post" => made[r.id].seller = r.seller /\ r.title \in Titles
      /\ r.op = "Put" /\ r.kind = "commodity" => made[r.id].seller = r.seller
  <2>1. Proper(r) /\ CallOf(call, next, last, r) /\ h \in BOOLEAN
    BY DEF Ready
  <2>2. r.op = "Put" /\ r.kind = "commodity" => made[r.id].seller = r.seller
    BY DEF Ready, OwnedBy
  <2>3. r.op \in {"Post", "Put"}
    BY DEF Promises
  <2>4. QED
    BY <2>1, <2>2, <2>3 DEF Proper, Request, FleetInv, DocsTyped
<1>2. PICK i, a : i = r.seller /\ a = r.id
  OBVIOUS
<1>3. CASE r.kind \in {"activity", "service"}
  <2>1. call \in ArrayCalls /\ call # "removeSeller" /\ (r.kind = "activity" => call = "listActivity")
        /\ (r.kind = "service" => call \in {"listService", "pushEdited"})
    BY <1>1, <1>3 DEF LastCall, ArrayCalls, Promises
  <2>2. PICK q, new : q = sellers[i] /\ new = sellers'[i]
    OBVIOUS
  <2>3. q \in Seq(Document) /\ q # <<>> /\ new \in Updated(q, call, r, h)
    <3>1. i \in Sellers /\ r.seller = i
      BY <1>1, <1>2
    <3>2. QED
      BY <2>1, <2>2, <3>1, SellerAfter
  <2>4. PICK k \in 1..Len(new), d \in Document : new[k] = Changed(call, d, r, h)
    BY <1>1, <2>1, <2>3, UpdatedFacts
  <2>5. d.activities \in Lists /\ d.services \in Lists
    BY DEF Document
  <2>6. \A l \in Lists : r.id \in Items(Push(l, r.id)) /\ r.id \in Items(ListItem(l, r.id, h))
    BY <1>1, ItemsFacts
  <2>7. /\ call = "listActivity" => a \in Items(new[k].activities)
        /\ call \in {"listService", "pushEdited"} => a \in Items(new[k].services)
    BY <1>1, <1>2, <2>1, <2>4, <2>5, <2>6, ChangedFacts
  <2>8. QED
    BY <1>1, <1>2, <1>3, <2>1, <2>2, <2>4, <2>7 DEF ShownAs
<1>4. CASE r.kind = "commodity"
  <2>1. call = "insertCommodity" /\ made[a].seller = i
    BY <1>1, <1>2, <1>4 DEF LastCall, Promises
  <2>2. store' = [store EXCEPT ![r.id] = @ + 1]
    BY <2>1, StoredRest
  <2>3. store'[a] > 0
    BY <1>1, <1>2, <2>2
  <2>4. QED
    BY <1>1, <1>2, <1>4, <2>1, <2>3 DEF ShownAs
<1>5. CASE r.kind = "ad"
  <2>1. r.op = "Post"
    BY <1>5 DEF Promises
  <2>2. call = "insertAd" /\ made[a].seller = i
    BY <1>1, <1>2, <1>5, <2>1 DEF LastCall
  <2>3. ads' = [ads EXCEPT ![r.id] = r.title]
    BY <2>2, StoredRest
  <2>4. ads'[a] # Absent
    BY <1>1, <1>2, <2>1, <2>3, OffersAssumption
  <2>5. QED
    BY <1>1, <1>2, <1>5, <2>2, <2>4 DEF ShownAs
<1>6. QED
  BY <1>1, <1>3, <1>4, <1>5 DEF Kinds

\* After the last call of a removal that is certain, what it concerns is hidden.
LEMMA NowHidden ==
  ASSUME FleetInv, NEW call, NEW next, NEW last, NEW r, NEW h, Ready(call, next, last, r, h),
         Stored(call, r, h), made' = made, call = LastCall(r), r.op = "Delete", r.kind # "account",
         NEW i \in Sellers, NEW a \in Ids, <<i, a>> \in Concerned(r), Certain(r)
  PROVE  HiddenAs(i, a)'
<1>1. /\ r.kind \in Kinds /\ r.id \in Ids /\ made[r.id] # Absent /\ made[r.id].kind = r.kind
      /\ h \in BOOLEAN /\ call = LastCall(r)
      /\ store \in [Ids -> Nat] /\ ads \in [Ids -> Titles \cup {Absent}]
      /\ r.kind # "commodity" => r.seller # Absent
  <2>1. Proper(r) /\ h \in BOOLEAN
    BY DEF Ready
  <2>2. QED
    BY <2>1 DEF Proper, Request, FleetInv, DocsTyped
<1>2. r.id = a /\ (r.kind # "commodity" => r.seller = i)
  BY <1>1, OffersAssumption DEF Concerned
<1>3. CASE r.kind \in {"activity", "service"}
  <2>1. call \in ArrayCalls /\ call # "removeSeller" /\ ~WithRole(call) /\ (r.kind = "activity" => call = "pullActivity")
        /\ (r.kind = "service" => call = "pullService")
    BY <1>1, <1>3 DEF LastCall, ArrayCalls, WithRole
  <2>2. PICK q, new : q = sellers[i] /\ new = sellers'[i]
    OBVIOUS
  <2>3. q \in Seq(Document) /\ Len(q) = 1 /\ new \in Updated(q, call, r, h)
    <3>1. i \in Sellers /\ r.seller = i
      BY <1>2, <1>3
    <3>2. Len(sellers[i]) = 1
      BY <1>3, <3>1 DEF Certain, ArrayKinds
    <3>3. QED
      BY <2>1, <2>2, <3>1, <3>2, SellerAfter
  <2>4. Len(new) = 1 /\ new[1] = Changed(call, q[1], r, h)
    BY <1>1, <2>1, <2>3, UpdatedFacts
  <2>5. q[1] \in Document
    <3>1. q \in Seq(Document) /\ Len(q) = 1
      BY <2>3
    <3>2. \A d \in Seq(Document) : Len(d) = 1 => d[1] \in Document
      OBVIOUS
    <3>3. QED
      BY <3>1, <3>2
  <2>6. /\ call = "pullActivity" => a \notin Items(new[1].activities)
        /\ call = "pullService" => a \notin Items(new[1].services)
    <3>1. q[1].activities \in Lists /\ q[1].services \in Lists
      BY <2>5 DEF Document
    <3>2. \A l \in Lists : r.id \notin Items(Pull(l, r.id))
      BY <1>1, ItemsFacts
    <3>3. QED
      BY <1>1, <1>2, <2>1, <2>4, <2>5, <3>1, <3>2, ChangedFacts
  <2>7. \A k \in 1..Len(new) : k = 1
    BY <2>4
  <2>8. QED
    BY <1>1, <1>2, <1>3, <2>1, <2>2, <2>6, <2>7 DEF HiddenAs
<1>4. CASE r.kind = "commodity"
  <2>1. call = "removeCommodity"
    BY <1>1, <1>4 DEF LastCall
  <2>2. store' = [store EXCEPT ![r.id] = 0]
    BY <2>1, StoredRest
  <2>3. store'[a] = 0
    BY <1>1, <1>2, <2>2
  <2>4. QED
    BY <1>1, <1>2, <1>4, <2>3 DEF HiddenAs
<1>5. CASE r.kind = "ad"
  <2>1. call = "removeAd"
    BY <1>1, <1>5 DEF LastCall
  <2>2. ads' = [ads EXCEPT ![r.id] = Absent]
    BY <2>1, StoredRest
  <2>3. ads'[a] = Absent
    BY <1>1, <1>2, <2>2
  <2>4. QED
    BY <1>1, <1>2, <1>5, <2>3 DEF HiddenAs
<1>6. QED
  BY <1>1, <1>3, <1>4, <1>5 DEF Kinds

\* A new advertisement has a title that no other of the seller has.
LEMMA StoredTitles ==
  ASSUME FleetInv, NEW call, NEW next, NEW last, NEW r, NEW h, Ready(call, next, last, r, h),
         Stored(call, r, h), made' = made, UniqueTitles
  PROVE  UniqueTitles'
<1>1. ads \in [Ids -> Titles \cup {Absent}]
  BY DEF FleetInv, DocsTyped
<1>2. CASE ads' = ads
  BY <1>2 DEF UniqueTitles
<1>3. CASE call = "removeAd" /\ ads' = [ads EXCEPT ![r.id] = Absent]
  <2>1. \A a \in Ids : ads'[a] # Absent => ads'[a] = ads[a]
    BY <1>1, <1>3
  <2>2. QED
    BY <2>1 DEF UniqueTitles
<1>4. CASE call = "insertAd" /\ ads' = [ads EXCEPT ![r.id] = r.title]
  <2>1. /\ r.id \in Ids /\ made[r.id].seller = r.seller
        /\ \A a \in Ids : ~(ads[a] = r.title /\ made[a].seller = r.seller)
    BY <1>4 DEF Ready, CallOf, Proper, SameTitle
  <2>2. \A a \in Ids : ads'[a] = IF a = r.id THEN r.title ELSE ads[a]
    BY <1>1, <1>4, <2>1
  <2>3. QED
    BY <2>1, <2>2 DEF UniqueTitles
<1>5. QED
  BY <1>2, <1>3, <1>4, StoredRest

-----------------------------------------------------------------------------
(***************************************************************************)
(* One process: each step keeps ProcessInv                                 *)
(***************************************************************************)

LEMMA Alone ==
  ASSUME FleetInv, OneServer, NEW s \in deployed, NEW t \in Servers, Busy(t)
  PROVE  t = s
BY DEF FleetInv, Handling, OneServer

LEMMA ReadyToWrite ==
  ASSUME FleetInv, ProcessInv, NEW s \in Servers, Writing(s)
  PROVE  Ready(Head(todo[s]), Head(Tail(todo[s])), Tail(todo[s]) = <<>>, req[s], had[s])
<1>1. Busy(s) /\ Head(todo[s]) \notin Queries
  BY DEF Writing, Busy
<1>2. /\ Proper(req[s]) /\ had[s] \in BOOLEAN
      /\ CallOf(Head(todo[s]), Head(Tail(todo[s])), Tail(todo[s]) = <<>>, req[s])
  BY <1>1, BusyFacts
<1>3. /\ req[s].kind \in ArrayKinds => sellers[req[s].seller] # <<>>
      /\ req[s].op = "Put" /\ req[s].kind = "commodity" => OwnedBy(req[s])
      /\ req[s].op # "Post" /\ req[s].kind = "ad" => OwnedBy(req[s])
      /\ req[s].op = "Post" /\ req[s].kind = "ad" => ~SameTitle(req[s])
      /\ AddsItem(req[s]) /\ AllHave(req[s]) => had[s]
  BY DEF ProcessInv, StillFound
<1>4. QED
  BY <1>1, <1>2, <1>3 DEF Ready

LEMMA InitProcess == Init => ProcessInv
<1>1. SUFFICES ASSUME Init
               PROVE  ProcessInv
  OBVIOUS
<1>2. \A s \in Servers : ~Busy(s) /\ ~Writing(s)
  BY <1>1 DEF Init, Busy, Writing
<1>3. promised = {} /\ deleted = {} /\ \A a \in Ids : ads[a] = Absent
  BY <1>1 DEF Init
<1>4. QED
  BY <1>1, <1>2, <1>3, InitDocs DEF ProcessInv, StillFound, PromisedShown, DeletedHidden, UniqueTitles

\* What Post may find in the document it meets.
LEMMA FieldFacts ==
  ASSUME NEW r
  PROVE  /\ \A h \in HasField(r) : AllHave(r) => h
         /\ (\E k \in 1..Len(sellers[r.seller]) : Field(sellers[r.seller][k], r.kind) # Absent)
               /\ HasField(r) # BOOLEAN => AllHave(r)
<1> DEFINE D == 1..Len(sellers[r.seller])
           Has(k) == Field(sellers[r.seller][k], r.kind) # Absent
<1>1. HasField(r) = {Has(k) : k \in D} /\ (AllHave(r) <=> \A k \in D : Has(k))
  BY DEF HasField, AllHave
<1> HIDE DEF D, Has
<1>2. \A h \in HasField(r) : AllHave(r) => h
  BY <1>1
<1>3. ASSUME NEW k \in D, Has(k), NEW j \in D, ~Has(j)
      PROVE  HasField(r) = BOOLEAN
  <2>1. \A x \in D : Has(x) \in BOOLEAN
    BY DEF Has
  <2>2. Has(k) = TRUE /\ Has(j) = FALSE
    BY <1>3, <2>1
  <2>3. QED
    BY <1>1, <1>3, <2>1, <2>2
<1>4. QED
  BY <1>1, <1>2, <1>3 DEF D, Has

\* The array of an offer that is shown is there.
LEMMA ShownField ==
  ASSUME NEW i, NEW a, ShownAs(i, a), NEW r, r.kind \in ArrayKinds, r.seller = i, made[a].kind = r.kind
  PROVE  \E k \in 1..Len(sellers[r.seller]) : Field(sellers[r.seller][k], r.kind) # Absent
<1>1. CASE r.kind = "activity"
  <2>1. PICK k \in 1..Len(sellers[i]) : a \in Items(sellers[i][k].activities)
    BY <1>1 DEF ShownAs
  <2>2. sellers[i][k].activities # Absent
    BY <2>1 DEF Items
  <2>3. QED
    BY <1>1, <2>2 DEF Field
<1>2. CASE r.kind = "service"
  <2>1. PICK k \in 1..Len(sellers[i]) : a \in Items(sellers[i][k].services)
    BY <1>2 DEF ShownAs
  <2>2. sellers[i][k].services # Absent
    BY <2>1 DEF Items
  <2>3. QED
    BY <1>2, <2>2 DEF Field
<1>3. QED
  BY <1>1, <1>2 DEF ArrayKinds

LEMMA ReceiveProcess ==
  ASSUME FleetInv, ProcessInv, OneServer, NEW s \in deployed, NEW r \in Requests, Receive(s, r)
  PROVE  ProcessInv'
<1>1. /\ UNCHANGED <<deployed, sellers, activity, store, ads, deleted>> /\ todo[s] = <<>>
      /\ todo' = [todo EXCEPT ![s] = Handler(r)]
      /\ req' = [req EXCEPT ![s] = r]
      /\ promised' = promised \ (Concerned(r) \cup Covered(r))
  BY DEF Receive, docs
<1>2. /\ \A a \in Ids : made[a] # Absent => made'[a] = made[a]
      /\ Proper(r)'
      /\ r.op = "Post" => made[r.id] = Absent /\ r.id \in Ids
  BY MadeStays
<1>3. s \in Servers /\ DOMAIN todo = Servers /\ req \in [Servers -> Request \cup {NoRequest}]
  BY DEF FleetInv, DocsTyped
<1>4. todo'[s] = Handler(r) /\ req'[s] = r /\ \A t \in Servers \ {s} : todo'[t] = <<>>
  <2>1. \A t \in Servers \ {s} : todo[t] = <<>>
    BY <1>3, Alone DEF Busy
  <2>2. QED
    BY <1>1, <1>3, <2>1
<1>5. Head(Handler(r)) \in Queries
  <2>1. r \in Request
    BY <1>2 DEF Proper
  <2>2. QED
    BY <2>1 DEF Handler, ActivityPost, ActivityPut, ActivityDelete, ServicePost, ServicePut, ServiceDelete,
                CommodityPost, CommodityPut, CommodityDelete, AdvertisementPost, AdvertisementPut,
                AdvertisementDelete, SellerDelete, Request, Kinds, Queries
<1>6. \A t \in Servers : ~Writing(t)' /\ (Busy(t)' => t = s)
  BY <1>4, <1>5 DEF Writing, Busy
<1>7. \A i \in Sellers, a \in Ids : /\ ShownAs(i, a) => ShownAs(i, a)'
                                    /\ HiddenAs(i, a) => HiddenAs(i, a)'
  BY <1>1, <1>2 DEF ShownAs, HiddenAs
<1>8. StillFound'
  BY <1>6 DEF StillFound
<1>9. PromisedShown'
  <2>1. SUFFICES ASSUME NEW i \in Sellers, NEW a \in Ids, <<i, a>> \in promised'
                 PROVE  /\ ShownAs(i, a)'
                        /\ <<i, a>> \notin Concerned(r)
                        /\ AddsItem(r) /\ r.seller = i /\ made'[a].kind = r.kind => AllHave(r)'
    BY <1>4, <1>6 DEF PromisedShown, Spares, Concerned, AddsItem, AllHave
  <2>2. <<i, a>> \in promised /\ <<i, a>> \notin Concerned(r) /\ <<i, a>> \notin Covered(r)
    BY <1>1, <2>1
  <2>3. ShownAs(i, a)
    BY <2>2 DEF ProcessInv, PromisedShown
  <2>4. made'[a] = made[a]
    BY <1>2, <2>3 DEF ShownAs
  <2>5. ASSUME AddsItem(r), r.seller = i, made[a].kind = r.kind
        PROVE  AllHave(r)
    <3>1. HasField(r) # BOOLEAN
      BY <2>2, <2>5 DEF Covered
    <3>2. r.kind \in ArrayKinds
      BY <2>5 DEF AddsItem
    <3>3. \E k \in 1..Len(sellers[r.seller]) : Field(sellers[r.seller][k], r.kind) # Absent
      BY <2>3, <2>5, <3>2, ShownField
    <3>4. QED
      BY <3>1, <3>3, FieldFacts
  <2>6. AllHave(r)' = AllHave(r)
    BY <1>1 DEF AllHave
  <2>7. QED
    BY <1>7, <2>2, <2>3, <2>4, <2>5, <2>6
<1>10. DeletedHidden'
  <2>1. SUFFICES ASSUME NEW i \in Sellers, NEW a \in Ids, <<i, a>> \in deleted
                 PROVE  /\ HiddenAs(i, a)'
                        /\ \A t \in Servers : Busy(t)' /\ req'[t].op = "Post" => req'[t].id # a
    BY <1>1, <1>6 DEF DeletedHidden
  <2>2. HiddenAs(i, a)
    BY <2>1 DEF ProcessInv, DeletedHidden
  <2>3. made[a] # Absent
    BY <2>2 DEF HiddenAs
  <2>4. QED
    BY <1>2, <1>4, <1>6, <1>7, <2>2, <2>3
<1>11. UniqueTitles'
  <2>1. \A a \in Ids : ads[a] # Absent => made[a] # Absent
    BY DEF FleetInv, KindsApart
  <2>2. QED
    BY <1>1, <1>2, <2>1 DEF ProcessInv, UniqueTitles
<1>12. QED
  BY <1>1, <1>8, <1>9, <1>10, <1>11 DEF ProcessInv

\* What a call leaves of what was promised and of what was deleted before.
OffersKept ==
    /\ UNCHANGED made
    /\ \A i \in Sellers : HasAccount(sellers'[i])
    /\ UniqueTitles'
    /\ \A i \in Sellers, a \in Ids : /\ <<i, a>> \in promised => ShownAs(i, a)'
                                     /\ <<i, a>> \in deleted => HiddenAs(i, a)'

LEMMA UnchangedOffers ==
  ASSUME ProcessInv, UNCHANGED <<docs, made>>
  PROVE  OffersKept
BY DEF ProcessInv, PromisedShown, DeletedHidden, OffersKept, UniqueTitles, ShownAs, HiddenAs, docs

LEMMA StoredOffers ==
  ASSUME FleetInv, ProcessInv, NEW s \in Servers, Writing(s), made' = made,
         Stored(Head(todo[s]), req[s], had[s])
  PROVE  OffersKept
<1>1. PICK call, r, h, next, last :
         /\ call = Head(todo[s]) /\ r = req[s] /\ h = had[s]
         /\ next = Head(Tail(todo[s])) /\ last = (Tail(todo[s]) = <<>>)
  OBVIOUS
<1>2. Ready(call, next, last, r, h)
  BY <1>1, ReadyToWrite
<1>3. Stored(call, r, h)
  BY <1>1 DEF Stored
<1>4. UniqueTitles'
  BY <1>2, <1>3, StoredTitles DEF ProcessInv
<1>5. \A i \in Sellers : HasAccount(sellers'[i])
  BY <1>2, <1>3, StoredAccount DEF ProcessInv
<1>6. ASSUME NEW i \in Sellers, NEW a \in Ids, <<i, a>> \in promised
      PROVE  ShownAs(i, a)'
  <2>1. /\ ShownAs(i, a) /\ <<i, a>> \notin Concerned(r)
        /\ AddsItem(r) /\ r.seller = i /\ made[a].kind = r.kind => AllHave(r)
    BY <1>1, <1>6 DEF ProcessInv, PromisedShown, Spares, Writing, Busy
  <2>2. AddsItem(r) /\ r.seller = i /\ made[a].kind = r.kind => h
    BY <1>2, <2>1 DEF Ready
  <2>3. QED
    BY <1>2, <1>3, <2>1, <2>2, StoredShown
<1>7. ASSUME NEW i \in Sellers, NEW a \in Ids, <<i, a>> \in deleted
      PROVE  HiddenAs(i, a)'
  <2>1. HiddenAs(i, a) /\ (Adds(r) => r.id # a)
    BY <1>1, <1>7 DEF ProcessInv, DeletedHidden
  <2>2. QED
    BY <1>2, <1>3, <2>1, StoredHidden
<1>8. QED
  BY <1>4, <1>5, <1>6, <1>7 DEF OffersKept

\* The handler returns; no process is busy then.
LEMMA ReturnProcess ==
  ASSUME FleetInv, OneServer, NEW s \in deployed, NEW ok, Return(s, ok), OffersKept,
         \A i \in Sellers, a \in Ids :
            /\ <<i, a>> \in promised' \ promised => ShownAs(i, a)'
            /\ <<i, a>> \in deleted' \ deleted => HiddenAs(i, a)'
  PROVE  ProcessInv'
<1>1. s \in Servers /\ DOMAIN todo = Servers /\ todo' = [todo EXCEPT ![s] = <<>>]
  BY DEF FleetInv, DocsTyped, Return
<1>2. \A t \in Servers : ~Busy(t)' /\ ~Writing(t)'
  <2>1. \A t \in Servers \ {s} : todo[t] = <<>>
    BY Alone DEF Busy
  <2>2. \A t \in Servers : todo'[t] = <<>>
    BY <1>1, <2>1
  <2>3. QED
    BY <2>2 DEF Busy, Writing
<1>3. \A i \in Sellers, a \in Ids : /\ <<i, a>> \in promised' => ShownAs(i, a)'
                                    /\ <<i, a>> \in deleted' => HiddenAs(i, a)'
  BY DEF OffersKept
<1>4. PromisedShown'
  BY <1>2, <1>3 DEF PromisedShown
<1>5. DeletedHidden'
  BY <1>2, <1>3 DEF DeletedHidden
<1>6. QED
  BY <1>2, <1>4, <1>5 DEF ProcessInv, OffersKept, StillFound

\* The handler goes on to its next call.
LEMMA GotoProcess ==
  ASSUME FleetInv, ProcessInv, OneServer, NEW s \in deployed, Busy(s), Goto(s), OffersKept,
         NEW r, r = req[s],
         Writing(s)' =>
            /\ r.kind \in ArrayKinds => sellers'[r.seller] # <<>>
            /\ r.op = "Put" /\ r.kind = "commodity" => OwnedBy(r)
            /\ r.op # "Post" /\ r.kind = "ad" => OwnedBy(r)
            /\ r.op = "Post" /\ r.kind = "ad" => ~SameTitle(r)'
            /\ Adds(r) => \A i \in Sellers, a \in Ids : <<i, a>> \in deleted => r.id # a
            /\ AddsItem(r) /\ AllHave(r)' => had'[s],
         AddsItem(r) /\ AllHave(r) => AllHave(r)'
  PROVE  ProcessInv'
<1>1. /\ s \in Servers /\ DOMAIN todo = Servers /\ todo' = [todo EXCEPT ![s] = Tail(@)]
      /\ UNCHANGED <<req, promised, deleted>>
  BY DEF FleetInv, DocsTyped, Goto
<1>2. \A t \in Servers : (Busy(t)' => t = s) /\ (Writing(t)' => t = s)
  <2>1. \A t \in Servers \ {s} : todo[t] = <<>>
    BY Alone DEF Busy
  <2>2. \A t \in Servers \ {s} : todo'[t] = <<>>
    BY <1>1, <2>1
  <2>3. QED
    BY <2>2 DEF Busy, Writing
<1>3. StillFound'
  <2>1. SUFFICES ASSUME Writing(s)'
                 PROVE  /\ r.kind \in ArrayKinds => sellers'[r.seller] # <<>>
                        /\ r.op = "Put" /\ r.kind = "commodity" => OwnedBy(r)'
                        /\ r.op # "Post" /\ r.kind = "ad" => OwnedBy(r)'
                        /\ r.op = "Post" /\ r.kind = "ad" => ~SameTitle(r)'
                        /\ AddsItem(r) /\ AllHave(r)' => had'[s]
    BY <1>1, <1>2 DEF StillFound, SameTitle, OwnedBy, AddsItem, AllHave
  <2>2. OwnedBy(r)' = OwnedBy(r)
    BY DEF OwnedBy, OffersKept
  <2>3. QED
    BY <2>1, <2>2
<1>4. PromisedShown'
  <2>1. SUFFICES ASSUME NEW i \in Sellers, NEW a \in Ids, <<i, a>> \in promised
                 PROVE  /\ ShownAs(i, a)'
                        /\ <<i, a>> \notin Concerned(r)
                        /\ AddsItem(r) /\ r.seller = i /\ made[a].kind = r.kind =>
                              AllHave(r)'
    BY <1>1, <1>2 DEF PromisedShown, Spares, Concerned, AddsItem, AllHave, OffersKept
  <2>2. /\ <<i, a>> \notin Concerned(r)
        /\ AddsItem(r) /\ r.seller = i /\ made[a].kind = r.kind => AllHave(r)
    BY <1>1, <2>1 DEF ProcessInv, PromisedShown, Spares
  <2>3. QED
    BY <2>1, <2>2 DEF OffersKept
<1>5. DeletedHidden'
  <2>1. SUFFICES ASSUME NEW i \in Sellers, NEW a \in Ids, <<i, a>> \in deleted
                 PROVE  /\ HiddenAs(i, a)'
                        /\ \A t \in Servers : Busy(t)' /\ req[t].op = "Post" => req[t].id # a
                        /\ \A t \in Servers : Writing(t)' /\ Adds(req[t]) => req[t].id # a
    BY <1>1 DEF DeletedHidden
  <2>2. r.op = "Post" => r.id # a
    BY <1>1, <2>1 DEF ProcessInv, DeletedHidden
  <2>3. QED
    BY <1>2, <2>1, <2>2 DEF OffersKept
<1>6. QED
  BY <1>3, <1>4, <1>5 DEF ProcessInv, OffersKept

\* The last query of a handler finds what its writes rely on.
LEMMA QueryProcess ==
  ASSUME FleetInv, ProcessInv, OneServer, NEW s \in deployed, Query(s)
  PROVE  ProcessInv'
<1>1. Busy(s) /\ Head(todo[s]) \in Queries /\ UNCHANGED <<docs, made>> /\ s \in Servers
  BY DEF Query, Busy, FleetInv, DocsTyped
<1>2. OffersKept
  BY <1>1, UnchangedOffers
<1>3. CASE Return(s, FALSE)
  <2>1. promised' = promised /\ deleted' = deleted
    BY <1>3 DEF Return
  <2>2. QED
    BY <1>2, <1>3, <2>1, ReturnProcess
<1>4. CASE /\ Passes(Head(todo[s]), req[s]) /\ Goto(s)
           /\ \E h \in IF AddsItem(req[s]) THEN HasField(req[s]) ELSE {FALSE} :
                 had' = [had EXCEPT ![s] = h]
  <2>1. PICK r, call : r = req[s] /\ call = Head(todo[s])
    OBVIOUS
  <2>2. CallOf(Head(todo[s]), Head(Tail(todo[s])), Tail(todo[s]) = <<>>, req[s]) /\ Proper(req[s])
    BY <1>1, BusyFacts
  <2>3. /\ DOMAIN todo = Servers /\ had \in [Servers -> BOOLEAN] /\ todo' = [todo EXCEPT ![s] = Tail(@)]
    BY <1>4 DEF FleetInv, DocsTyped, Goto
  <2>4. ASSUME Writing(s)'
        PROVE  /\ r.kind \in ArrayKinds => sellers'[r.seller] # <<>>
               /\ r.op = "Put" /\ r.kind = "commodity" => OwnedBy(r)
               /\ r.op # "Post" /\ r.kind = "ad" => OwnedBy(r)
               /\ r.op = "Post" /\ r.kind = "ad" => ~SameTitle(r)'
               /\ Adds(r) => \A i \in Sellers, a \in Ids : <<i, a>> \in deleted => r.id # a
               /\ AddsItem(r) /\ AllHave(r) => had'[s]
    <3>1. Tail(todo[s]) # <<>> /\ Head(Tail(todo[s])) \notin Queries
      BY <1>1, <2>3, <2>4 DEF Writing
    <3>2. /\ r.kind \in ArrayKinds => call = "findSeller"
          /\ r.kind = "commodity" /\ r.op = "Put" => call = "findCommodity"
          /\ r.kind = "ad" /\ r.op # "Post" => call = "findAd"
          /\ r.kind = "ad" /\ r.op = "Post" => call = "findTitle"
      BY <1>1, <2>1, <2>2, <3>1 DEF CallOf, ArrayKinds
    <3>3. /\ call = "findSeller" => sellers[r.seller] # <<>>
          /\ call = "findCommodity" => store[r.id] > 0 /\ OwnedBy(r)
          /\ call = "findAd" => OwnedBy(r)
          /\ call = "findTitle" => ~SameTitle(r)
      BY <1>4, <2>1 DEF Passes, FoundCommodity
    <3>4. AddsItem(r) /\ AllHave(r) => had'[s]
      <4>1. SUFFICES ASSUME AddsItem(r), AllHave(r)
                     PROVE  had'[s]
        OBVIOUS
      <4>2. PICK h \in HasField(r) : had' = [had EXCEPT ![s] = h]
        BY <1>4, <2>1, <4>1
      <4>3. h
        BY <4>1, <4>2, FieldFacts
      <4>4. QED
        BY <1>1, <2>3, <4>2, <4>3
    <3>5. ASSUME Adds(r), NEW i \in Sellers, NEW a \in Ids, <<i, a>> \in deleted
          PROVE  r.id # a
      <4>1. CASE r.op = "Post"
        BY <1>1, <2>1, <3>5, <4>1 DEF ProcessInv, DeletedHidden
      <4>2. CASE r.op = "Put" /\ r.kind = "commodity"
        <5>1. HiddenAs(i, a)
          BY <3>5 DEF ProcessInv, DeletedHidden
        <5>2. r.id = a => made[a].kind = "commodity"
          BY <2>1, <2>2, <4>2 DEF Proper
        <5>3. r.id = a => store[r.id] = 0
          BY <5>1, <5>2 DEF HiddenAs
        <5>4. QED
          BY <3>2, <3>3, <4>2, <5>3
      <4>3. QED
        BY <3>5, <4>1, <4>2 DEF Adds
    <3>6. sellers' = sellers /\ SameTitle(r)' = SameTitle(r)
      BY <1>1 DEF docs, SameTitle
    <3>7. QED
      BY <3>2, <3>3, <3>4, <3>5, <3>6
  <2>5. AllHave(r)' = AllHave(r)
    BY <1>1 DEF docs, AllHave
  <2>6. QED
    BY <1>1, <1>2, <1>4, <2>1, <2>4, <2>5, GotoProcess
<1>5. QED
  BY <1>3, <1>4 DEF Query

LEMMA WriteProcess ==
  ASSUME FleetInv, ProcessInv, OneServer, NEW s \in deployed, Write(s)
  PROVE  ProcessInv'
<1>1. /\ Writing(s) /\ Busy(s) /\ s \in Servers /\ made' = made /\ had' = had
      /\ Stored(Head(todo[s]), req[s], had[s])
      /\ IF Tail(todo[s]) = <<>> THEN Return(s, TRUE) ELSE Goto(s)
  BY DEF Write, Writing, Busy, FleetInv, DocsTyped
<1>2. OffersKept
  BY <1>1, StoredOffers
<1>3. PICK call, r, h, next, last :
         /\ call = Head(todo[s]) /\ r = req[s] /\ h = had[s]
         /\ next = Head(Tail(todo[s])) /\ last = (Tail(todo[s]) = <<>>)
  OBVIOUS
<1>4. Ready(call, next, last, r, h)
  BY <1>1, <1>3, ReadyToWrite
<1>5. Stored(call, r, h)
  BY <1>1, <1>3 DEF Stored
<1>6. \A i \in Sellers : HasAccount(sellers[i])
  BY DEF ProcessInv
<1>7. CASE Tail(todo[s]) = <<>> /\ Return(s, TRUE)
  <2>1. call = LastCall(r)
    BY <1>3, <1>4, <1>7 DEF Ready, CallOf
  <2>2. ASSUME NEW i \in Sellers, NEW a \in Ids, <<i, a>> \in promised' \ promised
        PROVE  ShownAs(i, a)'
    <3>1. Promises(r) /\ i = r.seller /\ a = r.id
      BY <1>3, <1>7, <2>2 DEF Return, Promises
    <3>2. ShownAs(r.seller, r.id)'
      BY <1>1, <1>4, <1>5, <2>1, <3>1, NowShown
    <3>3. QED
      BY <3>1, <3>2
  <2>3. ASSUME NEW i \in Sellers, NEW a \in Ids, <<i, a>> \in deleted' \ deleted
        PROVE  HiddenAs(i, a)'
    <3>1. r.op = "Delete" /\ r.kind # "account" /\ <<i, a>> \in Concerned(r) /\ Certain(r)
      BY <1>3, <1>7, <2>3 DEF Return
    <3>2. QED
      BY <1>1, <1>4, <1>5, <2>1, <3>1, NowHidden
  <2>4. QED
    BY <1>2, <1>7, <2>2, <2>3, ReturnProcess
<1>8. CASE Tail(todo[s]) # <<>> /\ Goto(s)
  <2>1. CallOf(call, next, last, r) /\ call \notin Queries /\ ~last /\ Proper(r)
    BY <1>3, <1>4, <1>8 DEF Ready
  <2>2. r.kind \in ArrayKinds => r.seller \in Sellers /\ call # "removeSeller"
    BY <2>1 DEF CallOf, Proper, Request, ArrayKinds
  <2>3. r.kind \in ArrayKinds => sellers'[r.seller] # <<>>
    <3>1. r.kind \in ArrayKinds => sellers[r.seller] # <<>>
      BY <1>4 DEF Ready
    <3>2. QED
      BY <1>4, <1>5, <1>6, <2>2, <3>1, StoredAccount
  <2>4. r.op = "Post" => call = "insertActivity" /\ sellers' = sellers
    <3>1. r.op = "Post" => call = "insertActivity"
      BY <2>1 DEF CallOf
    <3>2. call = "insertActivity" => sellers' = sellers
      BY <1>5 DEF Stored, ArrayCalls
    <3>3. QED
      BY <3>1, <3>2
  <2>5. /\ r.op = "Put" /\ r.kind = "commodity" => OwnedBy(r)
        /\ r.op # "Post" /\ r.kind = "ad" => OwnedBy(r)
        /\ ~(r.op = "Post" /\ r.kind = "ad")
    BY <1>4, <2>1, <2>4 DEF Ready, CallOf
  <2>6. Adds(r) => \A i \in Sellers, a \in Ids : <<i, a>> \in deleted => r.id # a
    BY <1>1, <1>3 DEF ProcessInv, DeletedHidden
  <2>7. AddsItem(r) => (AllHave(r)' <=> AllHave(r))
    BY <2>4 DEF AddsItem, AllHave
  <2>8. AddsItem(r) /\ AllHave(r)' => had'[s]
    BY <1>1, <1>3, <1>4, <2>7 DEF Ready
  <2>9. QED
    BY <1>1, <1>2, <1>3, <1>8, <2>3, <2>5, <2>6, <2>7, <2>8, GotoProcess
<1>9. QED
  BY <1>1, <1>7, <1>8

LEMMA FailProcess ==
  ASSUME FleetInv, ProcessInv, OneServer, NEW s \in deployed, Fail(s)
  PROVE  ProcessInv'
<1>1. /\ Busy(s) /\ s \in Servers /\ made' = made /\ Return(s, FALSE)
      /\ Stored(Head(todo[s]), req[s], had[s]) \/ UNCHANGED docs
  BY DEF Fail, Busy, FleetInv, DocsTyped
<1>2. OffersKept
  <2>1. CASE Writing(s) /\ Stored(Head(todo[s]), req[s], had[s])
    BY <1>1, <2>1, StoredOffers
  <2>2. CASE UNCHANGED docs
    BY <1>1, <2>2, UnchangedOffers
  <2>3. CASE ~Writing(s) /\ Stored(Head(todo[s]), req[s], had[s])
    <3>1. Head(todo[s]) \in Queries
      BY <1>1, <2>3 DEF Writing, Busy
    <3>2. UNCHANGED docs
      BY <2>3, <3>1 DEF Stored, Queries, ArrayCalls, docs
    <3>3. QED
      BY <1>1, <3>2, UnchangedOffers
  <2>4. QED
    BY <1>1, <2>1, <2>2, <2>3
<1>3. promised' = promised /\ deleted' = deleted
  BY <1>1 DEF Return
<1>4. QED
  BY <1>1, <1>2, <1>3, ReturnProcess

LEMMA StutterProcess ==
  ASSUME ProcessInv, UNCHANGED vars
  PROVE  ProcessInv'
<1>1. UNCHANGED <<sellers, store, ads, made, todo, req, had, promised, deleted>>
  BY DEF vars
<1>2. StillFound'
  BY <1>1 DEF ProcessInv, StillFound, Writing, SameTitle, OwnedBy, AddsItem, AllHave
<1>3. PromisedShown'
  <2>1. \A i \in Sellers, a \in Ids : ShownAs(i, a) => ShownAs(i, a)'
    BY <1>1 DEF ShownAs
  <2>2. \A s \in Servers, i \in Sellers, a \in Ids : Spares(s, i, a) => Spares(s, i, a)'
    BY <1>1 DEF Spares, Concerned, AddsItem, AllHave
  <2>3. QED
    BY <1>1, <2>1, <2>2 DEF ProcessInv, PromisedShown, Busy
<1>4. DeletedHidden'
  BY <1>1 DEF ProcessInv, DeletedHidden, HiddenAs, Busy, Writing
<1>5. UniqueTitles'
  BY <1>1 DEF ProcessInv, UniqueTitles
<1>6. QED
  BY <1>1, <1>2, <1>3, <1>4, <1>5 DEF ProcessInv

LEMMA NextProcess == OffersInv /\ [Next]_vars => OffersInv'
<1>1. SUFFICES ASSUME OffersInv, [Next]_vars
               PROVE  OffersInv'
  OBVIOUS
<1>2. FleetInv /\ FleetInv'
  BY <1>1, NextFleet DEF OffersInv
<1>3. deployed' = deployed
  BY <1>1 DEF Next, Receive, Query, Write, Fail, vars
<1>4. SUFFICES ASSUME OneServer, ProcessInv
               PROVE  ProcessInv'
  BY <1>1, <1>2, <1>3 DEF OffersInv, OneServer
<1>5. ASSUME NEW s \in deployed, NEW r \in Requests, Receive(s, r)
      PROVE  ProcessInv'
  BY <1>2, <1>4, <1>5, ReceiveProcess
<1>6. ASSUME NEW s \in deployed, Query(s) \/ Write(s) \/ Fail(s)
      PROVE  ProcessInv'
  BY <1>2, <1>4, <1>6, QueryProcess, WriteProcess, FailProcess
<1>7. CASE UNCHANGED vars
  BY <1>4, <1>7, StutterProcess
<1>8. QED
  BY <1>1, <1>5, <1>6, <1>7 DEF Next

LEMMA OffersInvariant == Spec => []OffersInv
<1>1. Init => OffersInv
  BY InitFleet, InitProcess DEF OffersInv
<1>2. QED
  BY <1>1, NextProcess, PTL DEF Spec

-----------------------------------------------------------------------------
(***************************************************************************)
(* The theorems about one process                                          *)
(***************************************************************************)

\* With one process, an advertisement has a title that no other of its seller
\* has, however many posts were cut short after Advertisement::Post had looked
\* for the title.
THEOREM OffersTitles == Spec => []TitlesAreUnique
<1>1. OffersInv => TitlesAreUnique
  BY DEF OffersInv, ProcessInv, UniqueTitles, TitlesAreUnique
<1>2. QED
  BY <1>1, OffersInvariant, PTL

\* With one process, an offer whose creation or change was answered with
\* APIE_OK is where users look for it until somebody asks to change or to
\* remove it or posts an item that may cover it, whichever document of the
\* seller each query and each update meets.
THEOREM OffersAcknowledged == Spec => []AcknowledgedIsShown
<1>1. OffersInv => AcknowledgedIsShown
  <2>1. SUFFICES ASSUME OffersInv, OneServer, NEW p \in promised
                 PROVE  /\ p[2] \in Shown(p[1])
                        /\ made[p[2]].kind = "activity" /\ Len(sellers[p[1]]) = 1 =>
                              p[2] \in SellerListForActivity(p[1])
    BY DEF AcknowledgedIsShown
  <2>2. PICK i \in Sellers, a \in Ids : p = <<i, a>>
    BY <2>1 DEF OffersInv, FleetInv, DocsTyped
  <2>3. ShownAs(i, a)
    BY <2>1, <2>2 DEF OffersInv, ProcessInv, PromisedShown
  <2>4. /\ sellers[i] \in Seq(Document) /\ HasAccount(sellers[i])
        /\ made[a].kind \in Kinds
    BY <2>1, <2>3 DEF OffersInv, FleetInv, DocsTyped, ProcessInv, ShownAs, Made
  <2>5. CASE made[a].kind = "activity"
    <3>1. PICK k \in DOMAIN sellers[i] : a \in Items(sellers[i][k].activities)
      BY <2>3, <2>4, <2>5 DEF ShownAs
    <3>2. a \in SellerActivityList(i)
      BY <3>1 DEF SellerActivityList
    <3>3. Len(sellers[i]) = 1 => ~sellers[i][k].role
      <4>1. SUFFICES ASSUME Len(sellers[i]) = 1
                     PROVE  ~sellers[i][k].role
        OBVIOUS
      <4>2. k = 1 /\ sellers[i] # <<>> /\ \A j \in 1..Len(sellers[i]) : j = 1
        BY <2>4, <3>1, <4>1
      <4>3. QED
        BY <2>4, <4>2 DEF HasAccount
    <3>4. Len(sellers[i]) = 1 => a \in SellerListForActivity(i)
      BY <3>1, <3>3 DEF SellerListForActivity, Placed
    <3>5. QED
      BY <2>2, <3>2, <3>4 DEF Shown
  <2>6. CASE made[a].kind = "service"
    <3>1. PICK k \in DOMAIN sellers[i] : a \in Items(sellers[i][k].services)
      BY <2>3, <2>4, <2>6 DEF ShownAs
    <3>2. a \in SellerServiceList(i)
      BY <3>1 DEF SellerServiceList
    <3>3. QED
      BY <2>2, <2>6, <3>2 DEF Shown
  <2>7. CASE made[a].kind = "commodity"
    <3>1. a \in SellerCommodityList(i)
      BY <2>3, <2>7 DEF ShownAs, SellerCommodityList
    <3>2. QED
      BY <2>2, <2>7, <3>1 DEF Shown
  <2>8. CASE made[a].kind = "ad"
    <3>1. a \in AdvertisementGet(i)
      BY <2>3, <2>8 DEF ShownAs, AdvertisementGet
    <3>2. QED
      BY <2>2, <2>8, <3>1 DEF Shown
  <2>9. QED
    BY <2>4, <2>5, <2>6, <2>7, <2>8 DEF Kinds
<1>2. QED
  BY <1>1, OffersInvariant, PTL

\* With one process, an offer whose removal was answered with APIE_OK is
\* never shown again: any commodity and any advertisement, and an activity or
\* a service that was removed while its seller had one document.
THEOREM OffersDeleted == Spec => []DeletedStaysDeleted
<1>1. OffersInv => DeletedStaysDeleted
  <2>1. SUFFICES ASSUME OffersInv, OneServer, NEW p \in deleted
                 PROVE  p[2] \notin IF made[p[2]].kind = "service" THEN SellerListForService(p[1]) ELSE Shown(p[1])
    BY DEF DeletedStaysDeleted
  <2>2. PICK i \in Sellers, a \in Ids : p = <<i, a>>
    BY <2>1 DEF OffersInv, FleetInv, DocsTyped
  <2>3. HiddenAs(i, a)
    BY <2>1, <2>2 DEF OffersInv, ProcessInv, DeletedHidden
  <2>4. sellers[i] \in Seq(Document) /\ KindsApart /\ store[a] \in Nat
    BY <2>1 DEF OffersInv, FleetInv, DocsTyped
  <2>5. \A k \in DOMAIN sellers[i] : k \in 1..Len(sellers[i])
    BY <2>4
  <2>6. CASE made[a].kind = "service"
    <3>1. SUFFICES ASSUME a \in SellerListForService(i)
                   PROVE  FALSE
      BY <2>2, <2>6
    <3>2. PICK k \in DOMAIN sellers[i] : ~sellers[i][k].role /\ a \in Items(sellers[i][k].services)
      BY <3>1 DEF SellerListForService, Placed
    <3>3. QED
      BY <2>3, <2>5, <2>6, <3>2 DEF HiddenAs
  <2>7. CASE made[a].kind # "service"
    <3>1. a \notin SellerActivityList(i)
      <4>1. SUFFICES ASSUME NEW k \in DOMAIN sellers[i], a \in Items(sellers[i][k].activities)
                     PROVE  FALSE
        BY DEF SellerActivityList
      <4>2. made[a].kind = "activity"
        BY <2>4, <2>5, <4>1 DEF KindsApart, ListsProper
      <4>3. QED
        BY <2>3, <2>5, <4>1, <4>2 DEF HiddenAs
    <3>2. a \notin SellerServiceList(i)
      <4>1. SUFFICES ASSUME NEW k \in DOMAIN sellers[i], a \in Items(sellers[i][k].services)
                     PROVE  FALSE
        BY DEF SellerServiceList
      <4>2. made[a].kind = "service"
        BY <2>4, <2>5, <4>1 DEF KindsApart, ListsProper
      <4>3. QED
        BY <2>7, <4>2
    <3>3. a \notin SellerCommodityList(i)
      BY <2>3, <2>4 DEF SellerCommodityList, KindsApart, HiddenAs
    <3>4. a \notin AdvertisementGet(i)
      BY <2>3, <2>4 DEF AdvertisementGet, KindsApart, HiddenAs
    <3>5. QED
      BY <2>2, <2>7, <3>1, <3>2, <3>3, <3>4 DEF Shown
  <2>8. QED
    BY <2>6, <2>7
<1>2. QED
  BY <1>1, OffersInvariant, PTL

=============================================================================
