------------------------- MODULE UserRecordsProofs --------------------------
(***************************************************************************)
(* Proofs about UserRecords: any sets of users, sellers, plates,           *)
(* favourites and identifiers.  What a seller is told of is recorded with  *)
(* any number of processes; the other results are about one process, as    *)
(* the properties say.                                                     *)
(***************************************************************************)
EXTENDS UserRecords, SequenceTheorems, TLAPS

-----------------------------------------------------------------------------
(***************************************************************************)
(* The inductive invariant, for any number of processes                    *)
(***************************************************************************)

\* The requests that end with the notification of a seller.
Telling == {"comment", "listComment", "message", "reply", "sos"}

\* A notification.
Notice(p) ==
    /\ p \in [op : Telling, id : Ids, what : Ids \cup {None}, to : SUBSET Sellers]
    /\ p.op = "reply" => p.what \in Ids

\* A record that was answered with APIE_OK.
Keepsake(k) ==
    \/ k \in [op : {"carPost"}, owner : Users, what : Plates]
    \/ k \in [op : {"favorite"}, owner : Users, what : Favorites]
    \/ k \in [op : {"comment"}, owner : Sellers, what : Ids]
    \/ k \in [op : {"reply"}, owner : Ids, what : Ids]

DocsTyped ==
    /\ users \in [Users -> Seq(Document)]
    /\ comments \in [Sellers -> [comments : Seq(Ids), SellerCommentList : Seq(Ids)]]
    /\ msgs \in [Ids -> {None} \cup Message]
    /\ sos \in [Ids -> {None} \cup CallForHelp]

Typed ==
    /\ deployed \in SUBSET Servers
    /\ sellers \in SUBSET Sellers
    /\ DocsTyped
    /\ \A p \in pushed : Notice(p)
    /\ used \in SUBSET Ids
    /\ DOMAIN todo = Servers
    /\ req \in [Servers -> Request \cup {NoRequest}]
    /\ near \in [Servers -> SUBSET Sellers]
    /\ \A k \in kept : Keepsake(k)
    /\ dropped \in SUBSET (Users \X Plates)
    /\ gone \in SUBSET Users

\* What is left of a handler after some of its calls.
Stages(h) == {SubSeq(h, k, Len(h)) : k \in 1..Len(h)}

\* The request a process handles has the parameters of its kind.
Proper(r) ==
    /\ r \in Request
    /\ r.op \in {"carPost", "carDelete"} => r.what \in Plates
    /\ r.op = "favorite" => r.what \in Favorites
    /\ r.op \in Telling => r.id \in Ids /\ r.what \in Ids \cup {None}
    /\ r.op \in Telling \ {"sos"} => r.seller \in Sellers
    /\ r.op = "reply" => r.what \in Ids

Busy(s) == todo[s] # <<>>

\* An identifier under which nothing is stored.
Vacant(i) == msgs[i] = None /\ sos[i] = None

\* The notification that a handler sends.
Told(r, n) == [op |-> r.op, id |-> r.id, what |-> r.what, to |-> IF r.op = "sos" THEN n ELSE {r.seller}]

\* Of a handler with the request r, the calls q before it and the sellers n:
\* nothing is stored under its identifier before it has written; when it is
\* about to notify it has recorded what it tells of; a call for help is stored
\* for the sellers found, and there are some; a reply is stored with the
\* message found, which nothing removes.
InOrder(q, r, n) ==
    /\ Proper(r) /\ q \in Stages(Handlers[r.op])
    /\ r.id \in Ids => r.id \in used /\ (Head(q) # "push" => Vacant(r.id))
    /\ Head(q) = "push" => Recorded(Told(r, n))
    /\ Head(q) = "insertSos" => n # {}
    /\ Head(q) = "pushReply" => msgs[r.what] # None

Handling ==
    \A s \in Servers : Busy(s) => s \in deployed /\ InOrder(todo[s], req[s], near[s])

\* Nothing is stored under an identifier that has not been handed out, and no
\* two handlers have the same.
IdsApart ==
    /\ \A i \in Ids : i \notin used => Vacant(i)
    /\ \A s, t \in Servers : Busy(s) /\ Busy(t) /\ s # t /\ req[s].id = req[t].id => req[s].id \notin Ids

FleetInv ==
    /\ Typed
    /\ Handling
    /\ IdsApart
    /\ NotifiedIsRecorded

-----------------------------------------------------------------------------
(***************************************************************************)
(* The inductive invariant, for one process                                *)
(***************************************************************************)

\* The user that findUser has found is still there when the handler writes.
StillFound ==
    \A s \in Servers : Busy(s) /\ Head(todo[s]) \in {"pushCar", "addFavorite"} => users[req[s].user] # <<>>

KeptIsPresent ==
    \A k \in kept : Present(k) /\ \A s \in Servers : Busy(s) => ~Ends(req[s], k)

\* Whoever brings a car or a user back has asked for it.
DroppedIsHidden ==
    \A u \in Users, p \in Plates : <<u, p>> \in dropped =>
        /\ p \notin CarList(u)
        /\ \A s \in Servers : Busy(s) /\ req[s].op = "carPost" => <<req[s].user, req[s].what>> # <<u, p>>

GoneIsEmpty ==
    \A u \in gone :
        /\ users[u] = <<>>
        /\ \A s \in Servers : Busy(s) /\ req[s].op = "register" => req[s].user # u

ProcessInv ==
    /\ StillFound
    /\ KeptIsPresent
    /\ DroppedIsHidden
    /\ GoneIsEmpty

RecordsInv == FleetInv /\ (OneServer => ProcessInv)

-----------------------------------------------------------------------------
(***************************************************************************)
(* The calls of a handler                                                  *)
(***************************************************************************)

LEMMA StageOf ==
  ASSUME NEW S, NEW h \in Seq(S), NEW q \in Stages(h)
  PROVE  \E k \in 1..Len(h) :
            /\ q # <<>> /\ Head(q) = h[k]
            /\ k = Len(h) => Tail(q) = <<>>
            /\ k # Len(h) => Tail(q) # <<>> /\ Tail(q) \in Stages(h) /\ Head(Tail(q)) = h[k + 1]
<1>1. PICK k \in 1..Len(h) : q = SubSeq(h, k, Len(h))
  BY DEF Stages
<1>2. Len(h) \in Nat /\ k \in Int /\ Len(h) \in Int /\ Len(h) \in k..Len(h)
  OBVIOUS
<1>3. \A j \in 1..Len(h) : h[j] \in S
  OBVIOUS
<1>4. q \in Seq(S) /\ Len(q) = Len(h) - k + 1
  BY <1>1, <1>2, <1>3, SubSeqProperties
<1>5. q # <<>>
  BY <1>2, <1>4
<1>6. Head(q) = h[k] /\ Tail(q) = SubSeq(h, k + 1, Len(h))
  BY <1>1, <1>2, HeadTailOfSubSeq
<1>7. CASE k = Len(h)
  <2>1. SubSeq(h, k + 1, Len(h)) = <<>>
    BY <1>2, <1>7, SubSeqEmpty
  <2>2. QED
    BY <1>5, <1>6, <1>7, <2>1
<1>8. CASE k # Len(h)
  <2>1. k + 1 \in 1..Len(h) /\ Len(h) \in (k + 1)..Len(h)
    BY <1>2, <1>8
  <2>2. Head(SubSeq(h, k + 1, Len(h))) = h[k + 1]
    BY <2>1, HeadTailOfSubSeq
  <2>3. Tail(q) \in Stages(h)
    BY <1>6, <2>1 DEF Stages
  <2>4. Len(Tail(q)) = Len(h) - k /\ Len(h) - k > 0
    BY <1>2, <1>4, <1>5, <1>8
  <2>5. Tail(q) # <<>>
    <3>1. Len(<<>>) = 0
      OBVIOUS
    <3>2. Len(h) - k # 0
      BY <1>2, <2>4
    <3>3. QED
      BY <2>4, <3>1, <3>2, Zenon
  <2>6. QED
    BY <1>5, <1>6, <1>8, <2>2, <2>3, <2>5
<1>9. QED
  BY <1>7, <1>8

LEMMA WholeIsStage ==
  ASSUME NEW S, NEW h \in Seq(S), h # <<>>
  PROVE  h \in Stages(h)
<1>1. SubSeq(h, 1, Len(h)) = h
  BY SubSeqFull
<1>2. 1 \in 1..Len(h)
  OBVIOUS
<1>3. QED
  BY <1>1, <1>2 DEF Stages

Writes == {"insertUser", "removeUser", "pushCar", "pullCar", "addFavorite", "pushComment",
           "pushListComment", "insertMsg", "pushReply", "insertSos"}
AllCalls == Queries \cup Writes \cup {"push"}

LastCall(op) ==
    CASE op = "register"  -> "insertUser"
      [] op = "remove"    -> "removeUser"
      [] op = "carPost"   -> "pushCar"
      [] op = "carDelete" -> "pullCar"
      [] op = "favorite"  -> "addFavorite"
      [] OTHER            -> "push"

\* The handlers in which a call occurs.
Caller(op, call) ==
    /\ call = "insertUser" => op = "register"
    /\ call = "removeUser" => op = "remove"
    /\ call = "pushCar" => op = "carPost"
    /\ call = "pullCar" => op = "carDelete"
    /\ call = "addFavorite" => op = "favorite"
    /\ call = "pushComment" => op = "comment"
    /\ call = "pushListComment" => op = "listComment"
    /\ call = "insertMsg" => op = "message"
    /\ call = "pushReply" => op = "reply"
    /\ call = "insertSos" => op = "sos"
    /\ call = "push" => op \in Telling
    /\ call \in AllCalls

\* The calls that may follow one another.
Follows(op, call, next) ==
    /\ next = "push" => call \in Writes
    /\ next \in {"pushCar", "addFavorite"} => call = "findUser"
    /\ next = "insertSos" => call = "findSellers"
    /\ next = "pushReply" => call = "findMsg"
    /\ call \in Writes => next = "push" /\ op \in Telling
    /\ call # "push"

\* A handler as a sequence of calls with these properties.
WellFormed(op, h) ==
    /\ h \in Seq(AllCalls) /\ h # <<>>
    /\ \A k \in 1..Len(h) : Caller(op, h[k])
    /\ \A k \in 1..Len(h) : k # Len(h) => Follows(op, h[k], h[k + 1]) /\ h[k] # LastCall(op)
    /\ h[Len(h)] = LastCall(op)

LEMMA TwoCalls ==
  ASSUME NEW op, NEW a \in AllCalls, NEW b \in AllCalls,
         Caller(op, a), Caller(op, b), Follows(op, a, b), a # LastCall(op), b = LastCall(op)
  PROVE  WellFormed(op, <<a, b>>)
<1>1. \A k \in 1..2 : k = 1 \/ k = 2
  OBVIOUS
<1>2. Len(<<a, b>>) = 2 /\ <<a, b>>[1] = a /\ <<a, b>>[2] = b /\ <<a, b>> \in Seq(AllCalls) /\ <<a, b>> # <<>>
  OBVIOUS
<1>3. PICK h : h = <<a, b>>
  OBVIOUS
<1>4. Len(h) = 2 /\ h[1] = a /\ h[2] = b /\ h[1 + 1] = b /\ h \in Seq(AllCalls) /\ h # <<>>
  BY <1>2, <1>3
<1>5. WellFormed(op, h)
  BY <1>1, <1>4 DEF WellFormed
<1>6. QED
  BY <1>3, <1>5

LEMMA ThreeCalls ==
  ASSUME NEW op, NEW a \in AllCalls, NEW b \in AllCalls, NEW c \in AllCalls,
         Caller(op, a), Caller(op, b), Caller(op, c), Follows(op, a, b), Follows(op, b, c),
         a # LastCall(op), b # LastCall(op), c = LastCall(op)
  PROVE  WellFormed(op, <<a, b, c>>)
<1>1. \A k \in 1..3 : k = 1 \/ k = 2 \/ k = 3
  OBVIOUS
<1>2. PICK h : h = <<a, b, c>>
  OBVIOUS
<1>3. Len(h) = 3 /\ h[1] = a /\ h[2] = b /\ h[3] = c /\ h[1 + 1] = b /\ h[2 + 1] = c
  BY <1>2
<1>4. h \in Seq(AllCalls) /\ h # <<>>
  BY <1>2
<1>5. WellFormed(op, h)
  BY <1>1, <1>3, <1>4 DEF WellFormed
<1>6. QED
  BY <1>2, <1>5

LEMMA FourCalls ==
  ASSUME NEW op, NEW a \in AllCalls, NEW b \in AllCalls, NEW c \in AllCalls, NEW d \in AllCalls,
         Caller(op, a), Caller(op, b), Caller(op, c), Caller(op, d),
         Follows(op, a, b), Follows(op, b, c), Follows(op, c, d),
         a # LastCall(op), b # LastCall(op), c # LastCall(op), d = LastCall(op)
  PROVE  WellFormed(op, <<a, b, c, d>>)
<1>1. \A k \in 1..4 : k = 1 \/ k = 2 \/ k = 3 \/ k = 4
  OBVIOUS
<1>2. PICK h : h = <<a, b, c, d>>
  OBVIOUS
<1>3. /\ Len(h) = 4 /\ h[1] = a /\ h[2] = b /\ h[3] = c /\ h[4] = d
      /\ h[1 + 1] = b /\ h[2 + 1] = c /\ h[3 + 1] = d
  BY <1>2
<1>4. h \in Seq(AllCalls) /\ h # <<>>
  BY <1>2
<1>5. WellFormed(op, h)
  BY <1>1, <1>3, <1>4 DEF WellFormed
<1>6. QED
  BY <1>2, <1>5

LEMMA FiveCalls ==
  ASSUME NEW op, NEW a \in AllCalls, NEW b \in AllCalls, NEW c \in AllCalls, NEW d \in AllCalls, NEW e \in AllCalls,
         Caller(op, a), Caller(op, b), Caller(op, c), Caller(op, d), Caller(op, e),
         Follows(op, a, b), Follows(op, b, c), Follows(op, c, d), Follows(op, d, e),
         a # LastCall(op), b # LastCall(op), c # LastCall(op), d # LastCall(op), e = LastCall(op)
  PROVE  WellFormed(op, <<a, b, c, d, e>>)
<1>1. \A k \in 1..5 : k = 1 \/ k = 2 \/ k = 3 \/ k = 4 \/ k = 5
  OBVIOUS
<1>2. PICK h : h = <<a, b, c, d, e>>
  OBVIOUS
<1>3. /\ Len(h) = 5 /\ h[1] = a /\ h[2] = b /\ h[3] = c /\ h[4] = d /\ h[5] = e
      /\ h[1 + 1] = b /\ h[2 + 1] = c /\ h[3 + 1] = d /\ h[4 + 1] = e
  BY <1>2
<1>4. h \in Seq(AllCalls) /\ h # <<>>
  BY <1>2
<1>5. WellFormed(op, h)
  BY <1>1, <1>3, <1>4 DEF WellFormed
<1>6. QED
  BY <1>2, <1>5

LEMMA HandlersWellFormed ==
  ASSUME NEW op \in Ops
  PROVE  WellFormed(op, Handlers[op])
<1> USE DEF Caller, Follows, LastCall, AllCalls, Writes, Queries, Telling
<1>1. CASE op = "register"
  BY <1>1, TwoCalls DEF Handlers, UserPost
<1>2. CASE op = "remove"
  BY <1>2, TwoCalls DEF Handlers, UserDelete
<1>3. CASE op = "carPost"
  BY <1>3, TwoCalls DEF Handlers, CarListPost
<1>4. CASE op = "carDelete"
  BY <1>4, TwoCalls DEF Handlers, CarListDelete
<1>5. CASE op = "favorite"
  BY <1>5, TwoCalls DEF Handlers, FavoritePost
<1>6. CASE op = "comment"
  BY <1>6, ThreeCalls DEF Handlers, CommentsPost
<1>7. CASE op = "listComment"
  BY <1>7, ThreeCalls DEF Handlers, SellerCommentListPost
<1>8. CASE op = "message"
  BY <1>8, FourCalls DEF Handlers, MessagePost
<1>9. CASE op = "reply"
  BY <1>9, FiveCalls DEF Handlers, ReplyPost
<1>10. CASE op = "sos"
  BY <1>10, FourCalls DEF Handlers, SOSPost
<1>11. QED
  BY <1>1, <1>2, <1>3, <1>4, <1>5, <1>6, <1>7, <1>8, <1>9, <1>10 DEF Ops

LEMMA StageFacts ==
  ASSUME NEW op \in Ops, NEW q \in Stages(Handlers[op])
  PROVE  /\ q # <<>> /\ Caller(op, Head(q))
         /\ Tail(q) = <<>> <=> Head(q) = LastCall(op)
         /\ Tail(q) # <<>> => Tail(q) \in Stages(Handlers[op]) /\ Follows(op, Head(q), Head(Tail(q)))
<1>1. PICK h : h = Handlers[op]
  OBVIOUS
<1>2. WellFormed(op, h)
  BY <1>1, HandlersWellFormed
<1>3. h \in Seq(AllCalls) /\ q \in Stages(h)
  BY <1>1, <1>2 DEF WellFormed
<1>4. PICK k \in 1..Len(h) :
         /\ q # <<>> /\ Head(q) = h[k]
         /\ k = Len(h) => Tail(q) = <<>>
         /\ k # Len(h) => Tail(q) # <<>> /\ Tail(q) \in Stages(h) /\ Head(Tail(q)) = h[k + 1]
  BY <1>3, StageOf
<1>5. QED
  BY <1>1, <1>2, <1>4 DEF WellFormed

LEMMA FirstStage ==
  ASSUME NEW op \in Ops
  PROVE  Handlers[op] \in Stages(Handlers[op]) /\ Handlers[op] # <<>> /\ Head(Handlers[op]) \in Queries
<1>1. PICK h : h = Handlers[op]
  OBVIOUS
<1>2. WellFormed(op, h)
  BY <1>1, HandlersWellFormed
<1>3. h \in Stages(h)
  BY <1>2, WholeIsStage DEF WellFormed
<1>4. Head(h) \in Queries
  BY <1>1 DEF Ops, Handlers, UserPost, UserDelete, CarListPost, CarListDelete, FavoritePost, CommentsPost,
              SellerCommentListPost, MessagePost, ReplyPost, SOSPost, Queries
<1>5. QED
  BY <1>1, <1>2, <1>3, <1>4 DEF WellFormed

-----------------------------------------------------------------------------
(***************************************************************************)
(* The updates of a user's documents                                       *)
(***************************************************************************)

UserCalls == {"insertUser", "removeUser", "pushCar", "pullCar", "addFavorite"}

PlusCar(d, p) == [d EXCEPT !.cars[p] = @ + 1]
MinusCar(d, p) == [d EXCEPT !.cars[p] = 0]
PlusFavorite(d, f) == [d EXCEPT !.favorites = @ \cup {f}]
Ghost(f) == [account |-> FALSE, cars |-> NoCars, favorites |-> {f}]

\* What a call makes of the documents of the user.
After(call, r, ds) ==
    CASE call = "insertUser" -> Append(ds, NewAccount)
      [] call = "removeUser" -> <<>>
      [] call = "pushCar"    -> IF ds = <<>> THEN ds ELSE [ds EXCEPT ![1] = PlusCar(@, r.what)]
      [] call = "pullCar"    -> IF ds = <<>> THEN ds ELSE [ds EXCEPT ![1] = MinusCar(@, r.what)]
      [] OTHER               -> IF ds = <<>> THEN <<Ghost(r.what)>> ELSE [ds EXCEPT ![1] = PlusFavorite(@, r.what)]

LEMMA UserCall ==
  ASSUME NEW call \in UserCalls, NEW r, NEW found, Stored(call, r, found)
  PROVE  users' = [users EXCEPT ![r.user] = After(call, r, @)]
<1>1. users' = NewUsers(call, r)
  BY DEF Stored
<1>2. CASE call = "insertUser"
  BY <1>1, <1>2 DEF NewUsers, After
<1>3. CASE call = "removeUser"
  BY <1>1, <1>3 DEF NewUsers, After
<1>4. CASE call = "pushCar"
  BY <1>1, <1>4 DEF NewUsers, After, PushCar, InFirst, PlusCar
<1>5. CASE call = "pullCar"
  BY <1>1, <1>5 DEF NewUsers, After, PullCar, InFirst, MinusCar
<1>6. CASE call = "addFavorite"
  BY <1>1, <1>6 DEF NewUsers, After, AddFavorite, InFirst, PlusFavorite, Ghost
<1>7. QED
  BY <1>2, <1>3, <1>4, <1>5, <1>6 DEF UserCalls

\* What CarList::Get and the favourites show of the documents ds.
Cars(ds) == {p \in Plates : ds # <<>> /\ ds[1].cars[p] > 0}
Favs(ds) == IF ds = <<>> THEN {} ELSE ds[1].favorites

LEMMA PlusCarFacts ==
  ASSUME NEW d \in Document, NEW p \in Plates
  PROVE  /\ PlusCar(d, p) \in Document /\ PlusCar(d, p).favorites = d.favorites
         /\ PlusCar(d, p).cars[p] = d.cars[p] + 1
         /\ \A q \in Plates : q # p => PlusCar(d, p).cars[q] = d.cars[q]
<1>1. d.cars \in [Plates -> Nat]
  BY DEF Document
<1>2. QED
  BY <1>1 DEF PlusCar, Document

LEMMA MinusCarFacts ==
  ASSUME NEW d \in Document, NEW p \in Plates
  PROVE  /\ MinusCar(d, p) \in Document /\ MinusCar(d, p).favorites = d.favorites
         /\ MinusCar(d, p).cars[p] = 0
         /\ \A q \in Plates : q # p => MinusCar(d, p).cars[q] = d.cars[q]
<1>1. d.cars \in [Plates -> Nat]
  BY DEF Document
<1>2. QED
  BY <1>1 DEF MinusCar, Document

LEMMA PlusFavoriteFacts ==
  ASSUME NEW d \in Document, NEW f \in Favorites
  PROVE  /\ PlusFavorite(d, f) \in Document /\ PlusFavorite(d, f).cars = d.cars
         /\ PlusFavorite(d, f).favorites = d.favorites \cup {f}
<1>1. d.cars \in [Plates -> Nat] /\ d.favorites \cup {f} \in SUBSET Favorites
  BY DEF Document
<1>2. QED
  BY <1>1 DEF PlusFavorite, Document

LEMMA NewAccountFacts ==
  /\ NewAccount \in Document /\ NewAccount.favorites = {}
  /\ \A p \in Plates : NewAccount.cars[p] = 0
<1>1. NoCars \in [Plates -> Nat] /\ \A p \in Plates : NoCars[p] = 0
  BY DEF NoCars
<1>2. QED
  BY <1>1 DEF NewAccount, Document

LEMMA GhostFacts ==
  ASSUME NEW f \in Favorites
  PROVE  /\ Ghost(f) \in Document /\ Ghost(f).favorites = {f}
         /\ \A p \in Plates : Ghost(f).cars[p] = 0
<1>1. NoCars \in [Plates -> Nat] /\ \A p \in Plates : NoCars[p] = 0
  BY DEF NoCars
<1>2. QED
  BY <1>1 DEF Ghost, Document

LEMMA FirstReplaced ==
  ASSUME NEW ds \in Seq(Document), ds # <<>>, NEW d \in Document
  PROVE  LET e == [ds EXCEPT ![1] = d] IN e \in Seq(Document) /\ e # <<>> /\ e[1] = d
  OBVIOUS

LEMMA AfterFacts ==
  ASSUME NEW call \in UserCalls, NEW r, Proper(r), Caller(r.op, call), NEW ds \in Seq(Document)
  PROVE  LET e == After(call, r, ds)
         IN /\ e \in Seq(Document)
            /\ call = "insertUser"  => e # <<>> /\ Cars(e) = Cars(ds) /\ Favs(e) = Favs(ds)
            /\ call = "removeUser"  => e = <<>> /\ Cars(e) = {} /\ Favs(e) = {}
            /\ call \in {"pushCar", "pullCar"} => (e = <<>> <=> ds = <<>>) /\ Favs(e) = Favs(ds)
            /\ call = "pushCar"     => Cars(e) \subseteq Cars(ds) \cup {r.what}
            /\ call = "pushCar" /\ ds # <<>> => Cars(e) = Cars(ds) \cup {r.what}
            /\ call = "pullCar"     => Cars(e) = Cars(ds) \ {r.what}
            /\ call = "addFavorite" => e # <<>> /\ Cars(e) = Cars(ds) /\ Favs(e) = Favs(ds) \cup {r.what}
<1> DEFINE e == After(call, r, ds)
<1>1. CASE call = "insertUser"
  <2>1. e = Append(ds, NewAccount)
    BY <1>1 DEF After
  <2>2. e \in Seq(Document) /\ e # <<>>
    BY <2>1, NewAccountFacts
  <2>3. CASE ds = <<>>
    <3>1. e[1] = NewAccount
      BY <2>1, <2>3
    <3>2. Cars(e) = {} /\ Cars(ds) = {} /\ Favs(e) = {} /\ Favs(ds) = {}
      BY <2>2, <2>3, <3>1, NewAccountFacts DEF Cars, Favs
    <3>3. QED
      BY <1>1, <2>2, <3>2
  <2>4. CASE ds # <<>>
    <3>1. e[1] = ds[1]
      BY <2>1, <2>4
    <3>2. Cars(e) = Cars(ds) /\ Favs(e) = Favs(ds)
      BY <2>2, <2>4, <3>1 DEF Cars, Favs
    <3>3. QED
      BY <1>1, <2>2, <3>2
  <2>5. QED
    BY <2>3, <2>4
<1>2. CASE call = "removeUser"
  <2>1. e = <<>>
    BY <1>2 DEF After
  <2>2. e \in Seq(Document)
    BY <2>1
  <2>3. QED
    BY <1>2, <2>1, <2>2 DEF Cars, Favs
<1>3. CASE call = "pushCar"
  <2>0. r.what \in Plates
    BY <1>3 DEF Proper, Caller
  <2>1. CASE ds = <<>>
    BY <1>3, <2>1 DEF After, Cars, Favs
  <2>2. CASE ds # <<>>
    <3>1. PICK d \in Document : d = ds[1]
      BY <2>2
    <3>2. PICK n \in Document : n = PlusCar(d, r.what)
      BY <2>0, PlusCarFacts
    <3>3. e = [ds EXCEPT ![1] = n]
      BY <1>3, <2>2, <3>1, <3>2 DEF After
    <3>4. e \in Seq(Document) /\ e # <<>> /\ e[1] = n
      BY <2>2, <3>3, FirstReplaced
    <3>5. /\ n.favorites = d.favorites /\ n.cars[r.what] = d.cars[r.what] + 1
          /\ \A q \in Plates : q # r.what => n.cars[q] = d.cars[q]
      BY <2>0, <3>2, PlusCarFacts
    <3>6. d.cars[r.what] \in Nat
      BY <2>0 DEF Document
    <3>7. Cars(e) = Cars(ds) \cup {r.what}
      BY <2>0, <2>2, <3>1, <3>4, <3>5, <3>6 DEF Cars
    <3>8. Favs(e) = Favs(ds)
      BY <2>2, <3>1, <3>4, <3>5 DEF Favs
    <3>9. QED
      BY <1>3, <2>2, <3>4, <3>7, <3>8
  <2>3. QED
    BY <2>1, <2>2
<1>4. CASE call = "pullCar"
  <2>0. r.what \in Plates
    BY <1>4 DEF Proper, Caller
  <2>1. CASE ds = <<>>
    BY <1>4, <2>1 DEF After, Cars, Favs
  <2>2. CASE ds # <<>>
    <3>1. PICK d \in Document : d = ds[1]
      BY <2>2
    <3>2. PICK n \in Document : n = MinusCar(d, r.what)
      BY <2>0, MinusCarFacts
    <3>3. e = [ds EXCEPT ![1] = n]
      BY <1>4, <2>2, <3>1, <3>2 DEF After
    <3>4. e \in Seq(Document) /\ e # <<>> /\ e[1] = n
      BY <2>2, <3>3, FirstReplaced
    <3>5. /\ n.favorites = d.favorites /\ n.cars[r.what] = 0
          /\ \A q \in Plates : q # r.what => n.cars[q] = d.cars[q]
      BY <2>0, <3>2, MinusCarFacts
    <3>6. Cars(e) = Cars(ds) \ {r.what}
      BY <2>0, <2>2, <3>1, <3>4, <3>5 DEF Cars
    <3>7. Favs(e) = Favs(ds)
      BY <2>2, <3>1, <3>4, <3>5 DEF Favs
    <3>8. QED
      BY <1>4, <2>2, <3>4, <3>6, <3>7
  <2>3. QED
    BY <2>1, <2>2
<1>5. CASE call = "addFavorite"
  <2>0. r.what \in Favorites
    BY <1>5 DEF Proper, Caller
  <2>1. CASE ds = <<>>
    <3>1. e = <<Ghost(r.what)>>
      BY <1>5, <2>1 DEF After
    <3>2. e \in Seq(Document) /\ e # <<>> /\ e[1] = Ghost(r.what)
      BY <2>0, <3>1, GhostFacts
    <3>3. Cars(e) = {} /\ Favs(e) = {r.what} /\ Cars(ds) = {} /\ Favs(ds) = {}
      BY <2>0, <2>1, <3>2, GhostFacts DEF Cars, Favs
    <3>4. QED
      BY <1>5, <3>2, <3>3
  <2>2. CASE ds # <<>>
    <3>1. PICK d \in Document : d = ds[1]
      BY <2>2
    <3>0. PICK n \in Document : n = PlusFavorite(d, r.what)
      BY <2>0, PlusFavoriteFacts
    <3>2. n = PlusFavorite(d, r.what) /\ n.cars = d.cars /\ n.favorites = d.favorites \cup {r.what}
      BY <2>0, <3>0, PlusFavoriteFacts
    <3>3. e = [ds EXCEPT ![1] = n]
      BY <1>5, <2>2, <3>1, <3>2 DEF After
    <3>4. e \in Seq(Document) /\ e # <<>> /\ e[1] = n
      BY <2>2, <3>3, FirstReplaced
    <3>5. Cars(e) = Cars(ds)
      BY <2>2, <3>1, <3>2, <3>4 DEF Cars
    <3>6. Favs(e) = Favs(ds) \cup {r.what}
      BY <2>2, <3>1, <3>2, <3>4 DEF Favs
    <3>7. QED
      BY <1>5, <3>4, <3>5, <3>6
  <2>3. QED
    BY <2>1, <2>2
<1>6. QED
  BY <1>1, <1>2, <1>3, <1>4, <1>5 DEF UserCalls

-----------------------------------------------------------------------------
(***************************************************************************)
(* The updates of the other documents                                      *)
(***************************************************************************)

LEMMA ToSetAppend ==
  ASSUME NEW S, NEW q \in Seq(S), NEW x \in S
  PROVE  Append(q, x) \in Seq(S) /\ ToSet(Append(q, x)) = ToSet(q) \cup {x}
<1>1. /\ Append(q, x) \in Seq(S) /\ Len(Append(q, x)) = Len(q) + 1 /\ Len(q) \in Nat
      /\ \A k \in 1..Len(q) : Append(q, x)[k] = q[k]
      /\ Append(q, x)[Len(q) + 1] = x
  OBVIOUS
<1>2. DOMAIN q = 1..Len(q) /\ DOMAIN Append(q, x) = 1..(Len(q) + 1)
  BY <1>1
<1>3. ToSet(Append(q, x)) \subseteq ToSet(q) \cup {x}
  BY <1>1, <1>2 DEF ToSet
<1>4. ToSet(q) \subseteq ToSet(Append(q, x)) /\ x \in ToSet(Append(q, x))
  BY <1>1, <1>2 DEF ToSet
<1>5. QED
  BY <1>1, <1>3, <1>4

\* Comments and replies are added, messages and calls for help stay.
OnlyGrows ==
    /\ \A i \in Sellers :
          /\ ToSet(comments[i].comments) \subseteq ToSet(comments'[i].comments)
          /\ ToSet(comments[i].SellerCommentList) \subseteq ToSet(comments'[i].SellerCommentList)
    /\ \A m \in Ids : msgs[m] # None =>
          /\ msgs'[m] # None /\ msgs'[m].seller = msgs[m].seller
          /\ ToSet(msgs[m].replies) \subseteq ToSet(msgs'[m].replies)
    /\ \A m \in Ids : sos[m] # None => sos'[m] = sos[m]

\* A call occupies no identifier but that of its request.
OnlyItsId(r) == \A m \in Ids : m # r.id /\ Vacant(m) => Vacant(m)'

\* What the write of a handler that notifies has recorded.
HasRecorded(r, found) ==
    /\ r.op = "comment" => r.id \in ToSet(comments'[r.seller].comments)
    /\ r.op = "listComment" => r.id \in ToSet(comments'[r.seller].SellerCommentList)
    /\ r.op = "message" => msgs'[r.id] # None /\ msgs'[r.id].seller = r.seller
    /\ r.op = "reply" => msgs'[r.what] # None /\ r.id \in ToSet(msgs'[r.what].replies)
    /\ r.op = "sos" => sos'[r.id] # None /\ sos'[r.id].sellers = found

\* What holds of a call that is about to be made.
Due(call, r, found) ==
    /\ call \in AllCalls /\ Proper(r) /\ Caller(r.op, call)
    /\ found \in SUBSET Sellers
    /\ call = "insertSos" => found # {}
    /\ call = "pushReply" => msgs[r.what] # None
    /\ call # "push" /\ r.id \in Ids => Vacant(r.id)

LEMMA CommentsGrow ==
  ASSUME DocsTyped, NEW call \in {"pushComment", "pushListComment"}, NEW r, r.seller \in Sellers, r.id \in Ids
  PROVE  /\ NewComments(call, r) \in [Sellers -> [comments : Seq(Ids), SellerCommentList : Seq(Ids)]]
         /\ \A i \in Sellers :
               /\ ToSet(comments[i].comments) \subseteq ToSet(NewComments(call, r)[i].comments)
               /\ ToSet(comments[i].SellerCommentList) \subseteq ToSet(NewComments(call, r)[i].SellerCommentList)
         /\ call = "pushComment" => r.id \in ToSet(NewComments(call, r)[r.seller].comments)
         /\ call = "pushListComment" => r.id \in ToSet(NewComments(call, r)[r.seller].SellerCommentList)
<1>1. PICK d \in [comments : Seq(Ids), SellerCommentList : Seq(Ids)] : d = comments[r.seller]
  BY DEF DocsTyped
<1>a. d.comments \in Seq(Ids) /\ d.SellerCommentList \in Seq(Ids)
  OBVIOUS
<1>b. PICK a, b : a = Append(d.comments, r.id) /\ b = Append(d.SellerCommentList, r.id)
  OBVIOUS
<1>2. a = Append(d.comments, r.id) /\ a \in Seq(Ids) /\ ToSet(a) = ToSet(d.comments) \cup {r.id}
  BY <1>a, <1>b, ToSetAppend
<1>3. /\ b = Append(d.SellerCommentList, r.id)
      /\ b \in Seq(Ids) /\ ToSet(b) = ToSet(d.SellerCommentList) \cup {r.id}
  BY <1>a, <1>b, ToSetAppend
<1>4. CASE call = "pushComment"
  <2>1. PICK e : e = [d EXCEPT !.comments = a]
    OBVIOUS
  <2>2. /\ e \in [comments : Seq(Ids), SellerCommentList : Seq(Ids)]
        /\ e.comments = a /\ e.SellerCommentList = d.SellerCommentList
    BY <1>2, <2>1
  <2>3. NewComments(call, r) = [comments EXCEPT ![r.seller] = e]
    BY <1>1, <1>2, <1>4, <2>1 DEF NewComments, PushComment
  <2>4. QED
    BY <1>1, <1>2, <1>4, <2>2, <2>3 DEF DocsTyped
<1>5. CASE call = "pushListComment"
  <2>1. PICK e : e = [d EXCEPT !.SellerCommentList = b]
    OBVIOUS
  <2>2. /\ e \in [comments : Seq(Ids), SellerCommentList : Seq(Ids)]
        /\ e.comments = d.comments /\ e.SellerCommentList = b
    BY <1>3, <2>1
  <2>3. NewComments(call, r) = [comments EXCEPT ![r.seller] = e]
    BY <1>1, <1>3, <1>5, <2>1 DEF NewComments, PushListComment
  <2>4. QED
    BY <1>1, <1>3, <1>5, <2>2, <2>3 DEF DocsTyped
<1>6. QED
  BY <1>4, <1>5

\* The messages after the writes to DB_MSG.
MsgsGrown(new) ==
    /\ new \in [Ids -> {None} \cup Message]
    /\ \A m \in Ids : msgs[m] # None =>
          new[m] # None /\ new[m].seller = msgs[m].seller /\ ToSet(msgs[m].replies) \subseteq ToSet(new[m].replies)

LEMMA InsertMsgFacts ==
  ASSUME DocsTyped, NEW r, r.id \in Ids, r.user \in Users, r.seller \in Sellers, msgs[r.id] = None
  PROVE  /\ MsgsGrown(InsertMsg(r))
         /\ \A m \in Ids : m # r.id => InsertMsg(r)[m] = msgs[m]
         /\ InsertMsg(r)[r.id] # None /\ InsertMsg(r)[r.id].seller = r.seller
<1>1. <<>> \in Seq(Ids)
  OBVIOUS
<1>2. PICK d : d = [user |-> r.user, seller |-> r.seller, replies |-> <<>>]
  OBVIOUS
<1>3. d \in Message /\ d.seller = r.seller
  BY <1>1, <1>2 DEF Message
<1>4. d # None
  BY <1>3, RecordsAssumption
<1>5. InsertMsg(r) = [msgs EXCEPT ![r.id] = d] /\ msgs \in [Ids -> {None} \cup Message]
  BY <1>2 DEF InsertMsg, DocsTyped
<1>6. QED
  BY <1>3, <1>4, <1>5 DEF MsgsGrown

LEMMA PushReplyFacts ==
  ASSUME DocsTyped, NEW r, r.id \in Ids, r.what \in Ids
  PROVE  /\ MsgsGrown(PushReply(r))
         /\ \A m \in Ids : msgs[m] = None => PushReply(r)[m] = None
         /\ msgs[r.what] # None => r.id \in ToSet(PushReply(r)[r.what].replies)
<1>0. msgs \in [Ids -> {None} \cup Message]
  BY DEF DocsTyped
<1>1. CASE msgs[r.what] = None
  BY <1>0, <1>1 DEF PushReply, MsgsGrown
<1>2. CASE msgs[r.what] # None
  <2>1. PICK d \in Message : d = msgs[r.what]
    BY <1>0, <1>2
  <2>2. d.replies \in Seq(Ids)
    BY DEF Message
  <2>a. PICK a : a = Append(d.replies, r.id)
    OBVIOUS
  <2>3. a = Append(d.replies, r.id) /\ a \in Seq(Ids) /\ ToSet(a) = ToSet(d.replies) \cup {r.id}
    BY <2>2, <2>a, ToSetAppend
  <2>4. PICK e : e = [d EXCEPT !.replies = a]
    OBVIOUS
  <2>5. e \in Message /\ e.seller = d.seller /\ e.replies = a
    BY <2>3, <2>4 DEF Message
  <2>6. e # None
    BY <2>5, RecordsAssumption
  <2>7. PushReply(r) = [msgs EXCEPT ![r.what] = e]
    BY <1>2, <2>1, <2>3, <2>4 DEF PushReply
  <2>8. QED
    BY <1>0, <1>2, <2>1, <2>3, <2>5, <2>6, <2>7 DEF MsgsGrown
<1>3. QED
  BY <1>1, <1>2

WithSos(r, found) == [sos EXCEPT ![r.id] = [user |-> r.user, sellers |-> found]]

LEMMA InsertSosFacts ==
  ASSUME DocsTyped, NEW r, r.id \in Ids, r.user \in Users, NEW found \in SUBSET Sellers, found # {}, sos[r.id] = None
  PROVE  /\ WithSos(r, found) \in [Ids -> {None} \cup CallForHelp]
         /\ \A m \in Ids : m # r.id => WithSos(r, found)[m] = sos[m]
         /\ WithSos(r, found)[r.id] # None /\ WithSos(r, found)[r.id].sellers = found
<1>1. PICK d : d = [user |-> r.user, sellers |-> found]
  OBVIOUS
<1>2. d \in CallForHelp /\ d.sellers = found
  BY <1>1 DEF CallForHelp
<1>3. d # None
  BY <1>2, RecordsAssumption
<1>4. QED
  BY <1>1, <1>2, <1>3 DEF DocsTyped, WithSos

\* What any call leaves of the documents.
LEMMA DocsAfter ==
  ASSUME DocsTyped, NEW call, NEW r, NEW found, Due(call, r, found), Stored(call, r, found)
  PROVE  /\ DocsTyped' /\ OnlyGrows /\ OnlyItsId(r)
         /\ call \in Writes /\ r.op \in Telling => HasRecorded(r, found)
<1>1. /\ call \in AllCalls /\ Proper(r) /\ Caller(r.op, call) /\ found \in SUBSET Sellers
      /\ r \in Request /\ r.user \in Users
  BY DEF Due, Proper, Request
<1>2. /\ users' = NewUsers(call, r) /\ comments' = NewComments(call, r)
      /\ msgs' = CASE call = "insertMsg" -> InsertMsg(r) [] call = "pushReply" -> PushReply(r) [] OTHER -> msgs
      /\ sos' = IF call = "insertSos" THEN [sos EXCEPT ![r.id] = [user |-> r.user, sellers |-> found]] ELSE sos
  BY DEF Stored
<1>3. call \notin UserCalls => users' = users
  BY <1>2 DEF NewUsers, UserCalls
<1>4. call \notin {"pushComment", "pushListComment"} => comments' = comments
  BY <1>2 DEF NewComments
<1>5. call \notin {"insertMsg", "pushReply"} => msgs' = msgs
  BY <1>2
<1>6. call # "insertSos" => sos' = sos
  BY <1>2
<1>7. CASE call \in UserCalls
  <2>1. PICK e : e = After(call, r, users[r.user])
    OBVIOUS
  <2>2. users' = [users EXCEPT ![r.user] = e]
    BY <1>7, <2>1, UserCall
  <2>3. users[r.user] \in Seq(Document)
    BY <1>1 DEF DocsTyped
  <2>4. e \in Seq(Document)
    BY <1>1, <1>7, <2>1, <2>3, AfterFacts
  <2>5. users' \in [Users -> Seq(Document)]
    BY <2>2, <2>4 DEF DocsTyped
  <2>6. UNCHANGED <<comments, msgs, sos>>
    BY <1>4, <1>5, <1>6, <1>7 DEF UserCalls
  <2>7. r.op \notin Telling
    BY <1>1, <1>7 DEF Caller, UserCalls, Telling
  <2>8. QED
    BY <2>5, <2>6, <2>7 DEF DocsTyped, OnlyGrows, OnlyItsId, Vacant
<1>8. CASE call \in {"pushComment", "pushListComment"}
  <2>1. /\ r.seller \in Sellers /\ r.id \in Ids /\ (call = "pushComment" => r.op = "comment")
        /\ (call = "pushListComment" => r.op = "listComment")
    BY <1>1, <1>8 DEF Caller, Proper, Telling
  <2>2. /\ comments' \in [Sellers -> [comments : Seq(Ids), SellerCommentList : Seq(Ids)]]
        /\ \A i \in Sellers :
              /\ ToSet(comments[i].comments) \subseteq ToSet(comments'[i].comments)
              /\ ToSet(comments[i].SellerCommentList) \subseteq ToSet(comments'[i].SellerCommentList)
        /\ call = "pushComment" => r.id \in ToSet(comments'[r.seller].comments)
        /\ call = "pushListComment" => r.id \in ToSet(comments'[r.seller].SellerCommentList)
    BY <1>2, <1>8, <2>1, CommentsGrow
  <2>3. UNCHANGED <<users, msgs, sos>>
    BY <1>3, <1>5, <1>6, <1>8 DEF UserCalls
  <2>4. HasRecorded(r, found)
    BY <1>8, <2>1, <2>2 DEF HasRecorded
  <2>5. QED
    BY <2>2, <2>3, <2>4 DEF DocsTyped, OnlyGrows, OnlyItsId, Vacant
<1>9. CASE call = "insertMsg"
  <2>1. r.op = "message" /\ r.seller \in Sellers /\ r.id \in Ids /\ msgs[r.id] = None
    BY <1>1, <1>9 DEF Caller, Proper, Telling, Due, Vacant
  <2>2. msgs' = InsertMsg(r)
    BY <1>2, <1>9
  <2>3. /\ MsgsGrown(msgs')
        /\ \A m \in Ids : m # r.id => msgs'[m] = msgs[m]
        /\ msgs'[r.id] # None /\ msgs'[r.id].seller = r.seller
    BY <1>1, <2>1, <2>2, InsertMsgFacts
  <2>4. UNCHANGED <<users, comments, sos>>
    BY <1>3, <1>4, <1>6, <1>9 DEF UserCalls
  <2>5. HasRecorded(r, found)
    BY <2>1, <2>3 DEF HasRecorded
  <2>6. QED
    BY <2>3, <2>4, <2>5 DEF DocsTyped, OnlyGrows, OnlyItsId, Vacant, MsgsGrown
<1>10. CASE call = "pushReply"
  <2>1. r.op = "reply" /\ r.id \in Ids /\ r.what \in Ids /\ msgs[r.what] # None
    BY <1>1, <1>10 DEF Caller, Proper, Telling, Due
  <2>2. msgs' = PushReply(r)
    BY <1>2, <1>10
  <2>3. /\ MsgsGrown(msgs')
        /\ \A m \in Ids : msgs[m] = None => msgs'[m] = None
        /\ r.id \in ToSet(msgs'[r.what].replies)
    BY <1>1, <2>1, <2>2, PushReplyFacts
  <2>4. UNCHANGED <<users, comments, sos>>
    BY <1>3, <1>4, <1>6, <1>10 DEF UserCalls
  <2>5. HasRecorded(r, found)
    BY <2>1, <2>3 DEF HasRecorded, MsgsGrown
  <2>6. QED
    BY <2>3, <2>4, <2>5 DEF DocsTyped, OnlyGrows, OnlyItsId, Vacant, MsgsGrown
<1>11. CASE call = "insertSos"
  <2>1. r.op = "sos" /\ r.id \in Ids /\ sos[r.id] = None /\ found # {}
    BY <1>1, <1>11 DEF Caller, Proper, Telling, Due, Vacant
  <2>2. sos' = WithSos(r, found)
    BY <1>2, <1>11 DEF WithSos
  <2>3. /\ sos' \in [Ids -> {None} \cup CallForHelp]
        /\ \A m \in Ids : m # r.id => sos'[m] = sos[m]
        /\ sos'[r.id] # None /\ sos'[r.id].sellers = found
    BY <1>1, <2>1, <2>2, InsertSosFacts
  <2>4. UNCHANGED <<users, comments, msgs>>
    BY <1>3, <1>4, <1>5, <1>11 DEF UserCalls
  <2>5. HasRecorded(r, found)
    BY <2>1, <2>3 DEF HasRecorded
  <2>6. QED
    BY <2>1, <2>3, <2>4, <2>5 DEF DocsTyped, OnlyGrows, OnlyItsId, Vacant
<1>12. CASE call \notin Writes
  <2>1. UNCHANGED <<users, comments, msgs, sos>>
    BY <1>3, <1>4, <1>5, <1>6, <1>12 DEF UserCalls, Writes
  <2>2. QED
    BY <1>12, <2>1 DEF DocsTyped, OnlyGrows, OnlyItsId, Vacant
<1>13. QED
  BY <1>1, <1>7, <1>8, <1>9, <1>10, <1>11, <1>12 DEF AllCalls, Writes, UserCalls

\* What has been recorded stays so.
LEMMA RecordedStays ==
  ASSUME NEW p, Notice(p), Recorded(p), OnlyGrows
  PROVE  Recorded(p)'
<1>1. p.op \in Telling /\ p.id \in Ids /\ p.to \in SUBSET Sellers /\ (p.op = "reply" => p.what \in Ids)
  BY DEF Notice
<1>2. CASE p.op = "comment"
  BY <1>1, <1>2 DEF Recorded, OnlyGrows, CommentList
<1>3. CASE p.op = "listComment"
  BY <1>1, <1>3 DEF Recorded, OnlyGrows
<1>4. CASE p.op = "message"
  BY <1>1, <1>4 DEF Recorded, OnlyGrows
<1>5. CASE p.op = "reply"
  BY <1>1, <1>5 DEF Recorded, OnlyGrows, RepliesOf
<1>6. CASE p.op = "sos"
  BY <1>1, <1>6 DEF Recorded, OnlyGrows
<1>7. QED
  BY <1>1, <1>2, <1>3, <1>4, <1>5, <1>6 DEF Telling

\* A handler that has written may notify.
LEMMA ToldIsRecorded ==
  ASSUME NEW r, Proper(r), r.op \in Telling, NEW found \in SUBSET Sellers
  PROVE  Notice(Told(r, found)) /\ (HasRecorded(r, found) => Recorded(Told(r, found))')
<1>1. /\ r.op \in Telling /\ r.id \in Ids /\ (r.op # "sos" => r.seller \in Sellers)
      /\ r.what \in Ids \cup {None} /\ (r.op = "reply" => r.what \in Ids)
  BY DEF Proper
<1>2. PICK p : p = Told(r, found)
  OBVIOUS
<1>3. /\ p \in [op : Telling, id : Ids, what : Ids \cup {None}, to : SUBSET Sellers]
      /\ p.op = r.op /\ p.id = r.id /\ p.what = r.what
      /\ p.op = "sos" => p.to = found
      /\ p.op # "sos" => p.to = {r.seller}
  BY <1>1, <1>2 DEF Told
<1>4. Notice(p)
  BY <1>1, <1>3 DEF Notice
<1>5. HasRecorded(r, found) => Recorded(p)'
  <2>1. CASE r.op = "comment"
    BY <1>3, <2>1 DEF HasRecorded, Recorded, CommentList
  <2>2. CASE r.op = "listComment"
    BY <1>3, <2>2 DEF HasRecorded, Recorded
  <2>3. CASE r.op = "message"
    BY <1>3, <2>3 DEF HasRecorded, Recorded
  <2>4. CASE r.op = "reply"
    BY <1>3, <2>4 DEF HasRecorded, Recorded, RepliesOf
  <2>5. CASE r.op = "sos"
    BY <1>3, <2>5 DEF HasRecorded, Recorded
  <2>6. QED
    BY <1>1, <2>1, <2>2, <2>3, <2>4, <2>5 DEF Telling
<1>6. QED
  BY <1>2, <1>4, <1>5

-----------------------------------------------------------------------------
(***************************************************************************)
(* Every step keeps the invariant for any number of processes              *)
(***************************************************************************)

\* The first call that server s has before it.
LEMMA BusyDue ==
  ASSUME FleetInv, NEW s \in Servers, Busy(s)
  PROVE  /\ Due(Head(todo[s]), req[s], near[s])
         /\ s \in deployed /\ req[s].op \in Ops /\ InOrder(todo[s], req[s], near[s])
         /\ Tail(todo[s]) = <<>> <=> Head(todo[s]) = LastCall(req[s].op)
         /\ Tail(todo[s]) # <<>> => /\ Tail(todo[s]) \in Stages(Handlers[req[s].op])
                                    /\ Follows(req[s].op, Head(todo[s]), Head(Tail(todo[s])))
<1>1. PICK q, r, n : q = todo[s] /\ r = req[s] /\ n = near[s]
  OBVIOUS
<1>2. s \in deployed /\ InOrder(q, r, n) /\ n \in SUBSET Sellers
  BY <1>1 DEF FleetInv, Handling, Typed
<1>3. Proper(r) /\ q \in Stages(Handlers[r.op]) /\ r.op \in Ops
  BY <1>2 DEF InOrder, Proper, Request
<1>4. /\ Caller(r.op, Head(q))
      /\ Tail(q) = <<>> <=> Head(q) = LastCall(r.op)
      /\ Tail(q) # <<>> => Tail(q) \in Stages(Handlers[r.op]) /\ Follows(r.op, Head(q), Head(Tail(q)))
  BY <1>3, StageFacts
<1>5. Head(q) \in AllCalls
  BY <1>4 DEF Caller
<1>6. Due(Head(q), r, n)
  BY <1>2, <1>3, <1>4, <1>5 DEF InOrder, Due
<1>7. QED
  BY <1>1, <1>2, <1>3, <1>4, <1>6

LEMMA InOrderStays ==
  ASSUME NEW q, NEW r, NEW n \in SUBSET Sellers, InOrder(q, r, n), OnlyGrows, used \subseteq used',
         r.id \in Ids /\ Vacant(r.id) => Vacant(r.id)'
  PROVE  InOrder(q, r, n)'
<1>1. Proper(r) /\ r.op \in Ops
  BY DEF InOrder, Proper, Request
<1>2. Caller(r.op, Head(q))
  BY <1>1, StageFacts DEF InOrder
<1>3. Head(q) = "push" => Recorded(Told(r, n))'
  <2>1. SUFFICES ASSUME Head(q) = "push" PROVE Recorded(Told(r, n))'
    OBVIOUS
  <2>2. r.op \in Telling
    BY <1>2, <2>1 DEF Caller
  <2>3. Notice(Told(r, n))
    BY <1>1, <2>2, ToldIsRecorded
  <2>4. Recorded(Told(r, n))
    BY <2>1 DEF InOrder
  <2>5. PICK p : p = Told(r, n)
    OBVIOUS
  <2>6. Recorded(p)'
    BY <2>3, <2>4, <2>5, RecordedStays
  <2>7. QED
    BY <2>5, <2>6
<1>4. Head(q) = "pushReply" => msgs'[r.what] # None
  <2>1. Head(q) = "pushReply" => r.what \in Ids /\ msgs[r.what] # None
    BY <1>1, <1>2 DEF InOrder, Caller, Proper
  <2>2. QED
    BY <2>1 DEF OnlyGrows
<1>5. /\ q \in Stages(Handlers[r.op])
      /\ r.id \in Ids => r.id \in used' /\ (Head(q) # "push" => Vacant(r.id)')
      /\ Head(q) = "insertSos" => n # {}
  BY DEF InOrder
<1>6. QED
  BY <1>1, <1>3, <1>4, <1>5 DEF InOrder

\* The other servers are not disturbed by a step of server s that makes its
\* request's changes.
LEMMA OthersInOrder ==
  ASSUME FleetInv, NEW s \in Servers, NEW t \in Servers, t # s, Busy(t), Busy(s),
         OnlyGrows, OnlyItsId(req[s]), used' = used,
         todo'[t] = todo[t], req'[t] = req[t], near'[t] = near[t], deployed' = deployed
  PROVE  t \in deployed' /\ InOrder(todo[t], req[t], near[t])'
<1>1. PICK q, r, n : q = todo[t] /\ r = req[t] /\ n = near[t]
  OBVIOUS
<1>2. t \in deployed /\ InOrder(q, r, n) /\ n \in SUBSET Sellers
  BY <1>1 DEF FleetInv, Handling, Typed
<1>3. r.id \in Ids => r.id # req[s].id
  BY <1>1 DEF FleetInv, IdsApart
<1>4. r.id \in Ids /\ Vacant(r.id) => Vacant(r.id)'
  BY <1>3 DEF OnlyItsId
<1>5. InOrder(q, r, n)'
  BY <1>2, <1>4, InOrderStays
<1>6. QED
  BY <1>1, <1>2, <1>5 DEF InOrder, Proper, Recorded, Told, Vacant, RepliesOf, CommentList

GhostsTyped ==
    /\ \A k \in kept : Keepsake(k)
    /\ dropped \in SUBSET (Users \X Plates)
    /\ gone \in SUBSET Users

\* What the steps of a busy server have in common.
StepOf(s) ==
    /\ UNCHANGED <<deployed, sellers, used>>
    /\ DocsTyped' /\ OnlyGrows /\ OnlyItsId(req[s]) /\ GhostsTyped'
    /\ DOMAIN todo' = Servers /\ req' \in [Servers -> Request \cup {NoRequest}] /\ near' \in [Servers -> SUBSET Sellers]
    /\ \A t \in Servers : t # s => todo'[t] = todo[t] /\ req'[t] = req[t] /\ near'[t] = near[t]
    /\ todo'[s] # <<>> => req'[s] = req[s] /\ InOrder(todo[s], req[s], near[s])'
    /\ \A p \in pushed' : p \notin pushed => Notice(p) /\ Recorded(p)'

LEMMA StepKeeps ==
  ASSUME FleetInv, NEW s \in Servers, Busy(s), StepOf(s)
  PROVE  FleetInv'
<1>1. \A p \in pushed' : Notice(p) /\ Recorded(p)'
  <2>1. SUFFICES ASSUME NEW p \in pushed' PROVE Notice(p) /\ Recorded(p)'
    OBVIOUS
  <2>2. CASE p \in pushed
    <3>1. Notice(p) /\ Recorded(p)
      BY <2>2 DEF FleetInv, Typed, NotifiedIsRecorded
    <3>2. OnlyGrows
      BY DEF StepOf
    <3>3. Recorded(p)'
      BY <3>1, <3>2, RecordedStays
    <3>4. QED
      BY <3>1, <3>3
  <2>3. CASE p \notin pushed
    BY <2>1, <2>3 DEF StepOf
  <2>4. QED
    BY <2>2, <2>3
<1>2. Typed'
  <2>1. \A p \in pushed' : Notice(p)'
    BY <1>1 DEF Notice, Telling
  <2>2. QED
    BY <2>1 DEF StepOf, GhostsTyped, FleetInv, Typed
<1>3. \A t \in Servers : Busy(t)' => Busy(t) /\ req'[t] = req[t]
  BY DEF Busy, StepOf
<1>4. Handling'
  <2>1. SUFFICES ASSUME NEW t \in Servers, Busy(t)'
                 PROVE  t \in deployed' /\ InOrder(todo[t], req[t], near[t])'
    BY DEF Handling
  <2>2. CASE t = s
    <3>1. s \in deployed
      BY BusyDue
    <3>2. QED
      BY <2>1, <2>2, <3>1 DEF StepOf, Busy
  <2>3. CASE t # s
    <3>1. /\ OnlyGrows /\ OnlyItsId(req[s]) /\ used' = used /\ deployed' = deployed
          /\ todo'[t] = todo[t] /\ req'[t] = req[t] /\ near'[t] = near[t]
      BY <2>3 DEF StepOf
    <3>2. QED
      BY <1>3, <2>1, <2>3, <3>1, OthersInOrder
  <2>4. QED
    BY <2>2, <2>3
<1>5. IdsApart'
  <2>1. \A i \in Ids : i \notin used' => Vacant(i)'
    <3>1. SUFFICES ASSUME NEW i \in Ids, i \notin used' PROVE Vacant(i)'
      OBVIOUS
    <3>2. used' = used /\ OnlyItsId(req[s])
      BY DEF StepOf
    <3>3. InOrder(todo[s], req[s], near[s])
      BY BusyDue
    <3>4. Vacant(i) /\ i # req[s].id
      BY <3>1, <3>2, <3>3 DEF InOrder, FleetInv, IdsApart
    <3>5. QED
      BY <3>2, <3>4 DEF OnlyItsId
  <2>2. \A x, t \in Servers : Busy(x)' /\ Busy(t)' /\ x # t /\ req'[x].id = req'[t].id => req'[x].id \notin Ids
    <3>1. SUFFICES ASSUME NEW x \in Servers, NEW t \in Servers, Busy(x)', Busy(t)', x # t, req'[x].id = req'[t].id
                   PROVE  req'[x].id \notin Ids
      OBVIOUS
    <3>2. Busy(x) /\ Busy(t) /\ req'[x] = req[x] /\ req'[t] = req[t]
      BY <1>3, <3>1
    <3>3. QED
      BY <3>1, <3>2 DEF FleetInv, IdsApart
  <2>3. QED
    BY <2>1, <2>2 DEF IdsApart
<1>6. NotifiedIsRecorded'
  BY <1>1 DEF NotifiedIsRecorded
<1>7. QED
  BY <1>2, <1>4, <1>5, <1>6 DEF FleetInv

LEMMA NothingGrows ==
  ASSUME UNCHANGED docs, DocsTyped, NEW r
  PROVE  DocsTyped' /\ OnlyGrows /\ OnlyItsId(r)
  BY DEF docs, DocsTyped, OnlyGrows, OnlyItsId, Vacant

LEMMA EndFacts ==
  ASSUME FleetInv, NEW s \in Servers, End(s)
  PROVE  /\ DOMAIN todo' = Servers /\ req' \in [Servers -> Request \cup {NoRequest}] /\ todo'[s] = <<>>
         /\ \A t \in Servers : t # s => todo'[t] = todo[t] /\ req'[t] = req[t]
  BY DEF End, FleetInv, Typed

LEMMA AcknowledgeTyped ==
  ASSUME FleetInv, NEW r, Proper(r), Acknowledge(r)
  PROVE  GhostsTyped'
<1>1. /\ r.op \in {"carPost", "carDelete"} => r.what \in Plates
      /\ r.op = "favorite" => r.what \in Favorites
      /\ r.op = "comment" => r.id \in Ids /\ r.seller \in Sellers
      /\ r.op = "reply" => r.id \in Ids /\ r.what \in Ids
      /\ r.user \in Users
  BY DEF Proper, Telling, Request
<1>2. \A k \in kept' : Keepsake(k)'
  <2>1. \A k \in kept : Keepsake(k)
    BY DEF FleetInv, Typed
  <2>2. CASE r.op \in {"carPost", "favorite"}
    <3>1. PICK n : n = [op |-> r.op, owner |-> r.user, what |-> r.what]
      OBVIOUS
    <3>2. Keepsake(n) /\ kept' = kept \cup {n}
      BY <1>1, <2>2, <3>1 DEF Acknowledge, Keepsake
    <3>3. QED
      BY <2>1, <3>2 DEF Keepsake
  <2>3. CASE r.op = "comment"
    <3>1. PICK n : n = [op |-> r.op, owner |-> r.seller, what |-> r.id]
      OBVIOUS
    <3>2. Keepsake(n) /\ kept' = kept \cup {n}
      BY <1>1, <2>3, <3>1 DEF Acknowledge, Keepsake
    <3>3. QED
      BY <2>1, <3>2 DEF Keepsake
  <2>4. CASE r.op = "reply"
    <3>1. PICK n : n = [op |-> r.op, owner |-> r.what, what |-> r.id]
      OBVIOUS
    <3>2. Keepsake(n) /\ kept' = kept \cup {n}
      BY <1>1, <2>4, <3>1 DEF Acknowledge, Keepsake
    <3>3. QED
      BY <2>1, <3>2 DEF Keepsake
  <2>5. CASE r.op \notin {"carPost", "favorite", "comment", "reply"}
    BY <2>1, <2>5 DEF Acknowledge, Keepsake
  <2>6. QED
    BY <2>2, <2>3, <2>4, <2>5
<1>3. dropped' \in SUBSET (Users \X Plates) /\ gone' \in SUBSET Users
  BY <1>1 DEF Acknowledge, FleetInv, Typed
<1>4. QED
  BY <1>2, <1>3 DEF GhostsTyped

LEMMA PushFleet ==
  ASSUME FleetInv, NEW s \in Servers, Push(s)
  PROVE  FleetInv'
<1>1. Busy(s) /\ Head(todo[s]) = "push" /\ End(s) /\ Acknowledge(req[s]) /\ UNCHANGED <<deployed, sellers, docs, used, near>>
      /\ pushed' = pushed \cup {Told(req[s], near[s])}
  BY DEF Push, Busy, Told
<1>2. DocsTyped
  BY DEF FleetInv, Typed
<1>3. DocsTyped' /\ OnlyGrows /\ OnlyItsId(req[s])
  BY <1>1, <1>2, NothingGrows
<1>4. PICK r, n : r = req[s] /\ n = near[s]
  OBVIOUS
<1>5. Due("push", r, n) /\ InOrder(todo[s], r, n)
  BY <1>1, <1>4, BusyDue
<1>6. Proper(r) /\ r.op \in Telling /\ n \in SUBSET Sellers /\ Recorded(Told(r, n))
  BY <1>1, <1>5 DEF Due, Caller, InOrder
<1>7. Notice(Told(r, n))
  BY <1>6, ToldIsRecorded
<1>8. PICK p : p = Told(r, n)
  OBVIOUS
<1>9. Notice(p) /\ Recorded(p)'
  BY <1>3, <1>6, <1>7, <1>8, RecordedStays
<1>10. GhostsTyped'
  BY <1>1, <1>4, <1>6, AcknowledgeTyped
<1>11. /\ DOMAIN todo' = Servers /\ req' \in [Servers -> Request \cup {NoRequest}] /\ todo'[s] = <<>>
       /\ \A t \in Servers : t # s => todo'[t] = todo[t] /\ req'[t] = req[t]
  BY <1>1, EndFacts
<1>12. StepOf(s)
  BY <1>1, <1>3, <1>4, <1>8, <1>9, <1>10, <1>11 DEF StepOf, FleetInv, Typed
<1>13. QED
  BY <1>1, <1>12, StepKeeps

LEMMA SameGhosts ==
  ASSUME FleetInv, UNCHANGED <<kept, dropped, gone>>
  PROVE  GhostsTyped'
  BY DEF FleetInv, Typed, GhostsTyped, Keepsake

LEMMA FailFleet ==
  ASSUME FleetInv, NEW s \in Servers, Fail(s)
  PROVE  FleetInv'
<1>1. /\ Busy(s) /\ End(s) /\ UNCHANGED <<kept, dropped, gone>>
      /\ UNCHANGED <<deployed, sellers, pushed, used, near>>
      /\ Stored(Head(todo[s]), req[s], near[s]) \/ UNCHANGED docs
  BY DEF Fail, Busy, Abandon
<1>2. DocsTyped /\ Due(Head(todo[s]), req[s], near[s])
  BY <1>1, BusyDue DEF FleetInv, Typed
<1>3. DocsTyped' /\ OnlyGrows /\ OnlyItsId(req[s])
  <2>1. CASE UNCHANGED docs
    BY <1>2, <2>1, NothingGrows
  <2>2. CASE Stored(Head(todo[s]), req[s], near[s])
    BY <1>2, <2>2, DocsAfter
  <2>3. QED
    BY <1>1, <2>1, <2>2
<1>4. GhostsTyped'
  BY <1>1, SameGhosts
<1>5. /\ DOMAIN todo' = Servers /\ req' \in [Servers -> Request \cup {NoRequest}] /\ todo'[s] = <<>>
      /\ \A t \in Servers : t # s => todo'[t] = todo[t] /\ req'[t] = req[t]
  BY <1>1, EndFacts
<1>6. StepOf(s)
  BY <1>1, <1>3, <1>4, <1>5 DEF StepOf, FleetInv, Typed
<1>7. QED
  BY <1>1, <1>6, StepKeeps

LEMMA GotoFacts ==
  ASSUME FleetInv, NEW s \in Servers, Goto(s)
  PROVE  /\ DOMAIN todo' = Servers /\ req' = req /\ todo'[s] = Tail(todo[s])
         /\ \A t \in Servers : t # s => todo'[t] = todo[t]
         /\ UNCHANGED <<kept, dropped, gone>>
  BY DEF Goto, FleetInv, Typed

LEMMA WriteFleet ==
  ASSUME FleetInv, NEW s \in Servers, Write(s)
  PROVE  FleetInv'
<1>1. /\ Busy(s) /\ Head(todo[s]) \notin Queries \cup {"push"} /\ Stored(Head(todo[s]), req[s], near[s])
      /\ IF Tail(todo[s]) = <<>> THEN End(s) /\ Acknowledge(req[s]) ELSE Goto(s)
      /\ UNCHANGED <<deployed, sellers, pushed, used, near>>
  BY DEF Write, Busy
<1>2. PICK q, r, n : q = todo[s] /\ r = req[s] /\ n = near[s]
  OBVIOUS
<1>3. /\ Due(Head(q), r, n) /\ r.op \in Ops /\ InOrder(q, r, n)
      /\ Tail(q) # <<>> => Tail(q) \in Stages(Handlers[r.op]) /\ Follows(r.op, Head(q), Head(Tail(q)))
  BY <1>1, <1>2, BusyDue
<1>4. DocsTyped /\ req \in [Servers -> Request \cup {NoRequest}] /\ near \in [Servers -> SUBSET Sellers]
  BY DEF FleetInv, Typed
<1>5. Head(q) \in Writes /\ Proper(r) /\ n \in SUBSET Sellers
  BY <1>1, <1>2, <1>3 DEF Due, AllCalls
<1>6. DocsTyped' /\ OnlyGrows /\ OnlyItsId(r) /\ (r.op \in Telling => HasRecorded(r, n))
  BY <1>1, <1>2, <1>3, <1>4, <1>5, DocsAfter
<1>7. CASE Tail(q) = <<>>
  <2>1. End(s) /\ Acknowledge(r)
    BY <1>1, <1>2, <1>7
  <2>2. GhostsTyped'
    BY <1>5, <2>1, AcknowledgeTyped
  <2>3. /\ DOMAIN todo' = Servers /\ req' \in [Servers -> Request \cup {NoRequest}] /\ todo'[s] = <<>>
        /\ \A t \in Servers : t # s => todo'[t] = todo[t] /\ req'[t] = req[t]
    BY <2>1, EndFacts
  <2>4. StepOf(s)
    BY <1>1, <1>2, <1>4, <1>6, <2>2, <2>3 DEF StepOf
  <2>5. QED
    BY <1>1, <2>4, StepKeeps
<1>8. CASE Tail(q) # <<>>
  <2>1. Goto(s)
    BY <1>1, <1>2, <1>8
  <2>2. /\ DOMAIN todo' = Servers /\ req' = req /\ todo'[s] = Tail(q)
        /\ \A t \in Servers : t # s => todo'[t] = todo[t]
        /\ UNCHANGED <<kept, dropped, gone>>
    BY <1>2, <2>1, GotoFacts
  <2>3. GhostsTyped'
    BY <2>2, SameGhosts
  <2>4. PICK x : x = Tail(q)
    OBVIOUS
  <2>5. Head(x) = "push" /\ r.op \in Telling /\ x \in Stages(Handlers[r.op])
    BY <1>3, <1>5, <1>8, <2>4 DEF Follows
  <2>6. Recorded(Told(r, n))'
    BY <1>5, <1>6, <2>5, ToldIsRecorded
  <2>7. r.id \in Ids => r.id \in used'
    BY <1>1, <1>3 DEF InOrder
  <2>8. InOrder(x, r, n)'
    BY <1>5, <2>5, <2>6, <2>7 DEF InOrder
  <2>9. todo'[s] = x /\ req'[s] = r /\ near'[s] = n
    BY <1>1, <1>2, <2>2, <2>4
  <2>10. InOrder(todo[s], req[s], near[s])'
    BY <2>8, <2>9 DEF InOrder, Proper, Recorded, Told, Vacant, RepliesOf, CommentList
  <2>11. StepOf(s)
    BY <1>1, <1>2, <1>4, <1>6, <2>2, <2>3, <2>9, <2>10 DEF StepOf
  <2>12. QED
    BY <1>1, <2>11, StepKeeps
<1>9. QED
  BY <1>7, <1>8

LEMMA QueryFleet ==
  ASSUME FleetInv, NEW s \in Servers, Query(s)
  PROVE  FleetInv'
<1>1. /\ Busy(s) /\ Head(todo[s]) \in Queries /\ UNCHANGED <<deployed, sellers, docs, pushed, used>>
  BY DEF Query, Busy
<1>2. PICK found \in Found(Head(todo[s])) :
         /\ near' = [near EXCEPT ![s] = found]
         /\ IF Passes(Head(todo[s]), req[s], found) THEN Goto(s) ELSE Abandon(s)
  BY DEF Query
<1>3. PICK q, r : q = todo[s] /\ r = req[s]
  OBVIOUS
<1>4. /\ r.op \in Ops /\ InOrder(q, r, near[s]) /\ Due(Head(q), r, near[s])
      /\ Tail(q) = <<>> <=> Head(q) = LastCall(r.op)
      /\ Tail(q) # <<>> => Tail(q) \in Stages(Handlers[r.op]) /\ Follows(r.op, Head(q), Head(Tail(q)))
  BY <1>1, <1>3, BusyDue
<1>5. /\ DocsTyped /\ sellers \in SUBSET Sellers
      /\ req \in [Servers -> Request \cup {NoRequest}] /\ near \in [Servers -> SUBSET Sellers]
  BY DEF FleetInv, Typed
<1>6. found \in SUBSET Sellers
  BY <1>2, <1>5 DEF Found
<1>7. /\ near' \in [Servers -> SUBSET Sellers] /\ near'[s] = found
      /\ \A t \in Servers : t # s => near'[t] = near[t]
  BY <1>2, <1>5, <1>6
<1>8. DocsTyped' /\ OnlyGrows /\ OnlyItsId(r)
  BY <1>1, <1>5, NothingGrows
<1>9. CASE ~Passes(Head(q), r, found)
  <2>1. End(s) /\ UNCHANGED <<kept, dropped, gone>>
    BY <1>2, <1>3, <1>9 DEF Abandon
  <2>2. GhostsTyped'
    BY <2>1, SameGhosts
  <2>3. /\ DOMAIN todo' = Servers /\ req' \in [Servers -> Request \cup {NoRequest}] /\ todo'[s] = <<>>
        /\ \A t \in Servers : t # s => todo'[t] = todo[t] /\ req'[t] = req[t]
    BY <2>1, EndFacts
  <2>4. StepOf(s)
    BY <1>1, <1>3, <1>7, <1>8, <2>2, <2>3 DEF StepOf
  <2>5. QED
    BY <1>1, <2>4, StepKeeps
<1>10. CASE Passes(Head(q), r, found)
  <2>1. Goto(s)
    BY <1>2, <1>3, <1>10
  <2>2. /\ DOMAIN todo' = Servers /\ req' = req /\ todo'[s] = Tail(q)
        /\ \A t \in Servers : t # s => todo'[t] = todo[t]
        /\ UNCHANGED <<kept, dropped, gone>>
    BY <1>3, <2>1, GotoFacts
  <2>3. GhostsTyped'
    BY <2>2, SameGhosts
  <2>4. Head(q) \in Queries /\ Head(q) # LastCall(r.op) /\ Head(q) # "push"
    BY <1>1, <1>3 DEF Queries, LastCall
  <2>5. PICK x : x = Tail(q) /\ x \in Stages(Handlers[r.op]) /\ Follows(r.op, Head(q), Head(x))
    BY <1>4, <2>4
  <2>6. Head(x) # "push"
    BY <2>4, <2>5 DEF Follows, Queries, Writes
  <2>7. Head(x) = "insertSos" => found # {}
    BY <1>10, <2>5 DEF Follows, Passes, EnoughSellers
  <2>8. Head(x) = "pushReply" => msgs[r.what] # None
    BY <1>10, <2>5 DEF Follows, Passes, FoundMsg
  <2>9. InOrder(x, r, found)
    BY <1>4, <2>4, <2>5, <2>6, <2>7, <2>8 DEF InOrder
  <2>10. used' = used /\ msgs' = msgs /\ sos' = sos
    BY <1>1 DEF docs
  <2>11. r.id \in Ids /\ Vacant(r.id) => Vacant(r.id)'
    BY <2>10 DEF Vacant
  <2>12. InOrder(x, r, found)'
    BY <1>6, <1>8, <2>9, <2>10, <2>11, InOrderStays
  <2>13. todo'[s] = x /\ req'[s] = r /\ near'[s] = found
    BY <1>3, <1>7, <2>2, <2>5
  <2>14. InOrder(todo[s], req[s], near[s])'
    BY <2>12, <2>13 DEF InOrder, Proper, Recorded, Told, Vacant, RepliesOf, CommentList
  <2>15. StepOf(s)
    BY <1>1, <1>3, <1>5, <1>7, <1>8, <2>2, <2>3, <2>13, <2>14 DEF StepOf
  <2>16. QED
    BY <1>1, <2>15, StepKeeps
<1>11. QED
  BY <1>9, <1>10

\* A request that arrives has the parameters of its kind and, if any, a new
\* identifier.
LEMMA RequestsProper ==
  ASSUME NEW r \in Requests
  PROVE  Proper(r) /\ (r.id \in Ids => r.id \notin used) /\ r.id \in Ids \cup {None}
<1>1. \/ r \in RequestOf({"register", "remove"}, {None}, {None}, {None})
      \/ r \in RequestOf({"carPost", "carDelete"}, {None}, Plates, {None})
      \/ r \in RequestOf({"favorite"}, {None}, Favorites, {None})
      \/ r \in RequestOf({"comment", "listComment", "message"}, Sellers, {None}, Ids \ used)
      \/ r \in RequestOf({"reply"}, Sellers, Ids, Ids \ used)
      \/ r \in RequestOf({"sos"}, {None}, {None}, Ids \ used)
  BY DEF Requests
<1>2. None \notin Ids
  BY RecordsAssumption
<1>3. CASE r \in RequestOf({"register", "remove"}, {None}, {None}, {None})
  BY <1>2, <1>3 DEF RequestOf, Proper, Request, Ops, Telling
<1>4. CASE r \in RequestOf({"carPost", "carDelete"}, {None}, Plates, {None})
  BY <1>2, <1>4 DEF RequestOf, Proper, Request, Ops, Telling
<1>5. CASE r \in RequestOf({"favorite"}, {None}, Favorites, {None})
  BY <1>2, <1>5 DEF RequestOf, Proper, Request, Ops, Telling
<1>6. CASE r \in RequestOf({"comment", "listComment", "message"}, Sellers, {None}, Ids \ used)
  BY <1>2, <1>6 DEF RequestOf, Proper, Request, Ops, Telling
<1>7. CASE r \in RequestOf({"reply"}, Sellers, Ids, Ids \ used)
  BY <1>2, <1>7 DEF RequestOf, Proper, Request, Ops, Telling
<1>8. CASE r \in RequestOf({"sos"}, {None}, {None}, Ids \ used)
  BY <1>2, <1>8 DEF RequestOf, Proper, Request, Ops, Telling
<1>9. QED
  BY <1>1, <1>3, <1>4, <1>5, <1>6, <1>7, <1>8

LEMMA ReceiveFleet ==
  ASSUME FleetInv, NEW s \in deployed, NEW r \in Requests, Receive(s, r)
  PROVE  FleetInv'
<1>1. /\ Proper(r) /\ (r.id \in Ids => r.id \notin used) /\ r.id \in Ids \cup {None} /\ r.op \in Ops /\ r \in Request
  BY RequestsProper DEF Proper, Request
<1>2. s \in Servers /\ DocsTyped /\ None \notin Ids
  BY RecordsAssumption DEF FleetInv, Typed
<1>3. PICK h : h = Handlers[r.op] /\ h \in Stages(Handlers[r.op]) /\ h # <<>> /\ Head(h) \in Queries
  BY <1>1, FirstStage
<1>4. /\ ~Busy(s) /\ UNCHANGED docs /\ UNCHANGED <<deployed, sellers, pushed>>
      /\ DOMAIN todo' = Servers /\ todo'[s] = h /\ req' \in [Servers -> Request \cup {NoRequest}] /\ req'[s] = r
      /\ near' \in [Servers -> SUBSET Sellers] /\ near'[s] = {}
      /\ \A t \in Servers : t # s => todo'[t] = todo[t] /\ req'[t] = req[t] /\ near'[t] = near[t]
  BY <1>1, <1>2, <1>3 DEF Receive, Busy, FleetInv, Typed
<1>5. /\ used' = used \cup ({r.id} \ {None}) /\ kept' \subseteq kept /\ dropped' \subseteq dropped /\ gone' \subseteq gone
  BY DEF Receive
<1>6. used' \in SUBSET Ids /\ used \subseteq used' /\ (r.id \in Ids => r.id \in used')
  BY <1>1, <1>2, <1>5 DEF FleetInv, Typed
<1>7. DocsTyped' /\ OnlyGrows /\ msgs' = msgs /\ sos' = sos
  BY <1>2, <1>4, NothingGrows DEF docs
<1>8. \A i : Vacant(i)' <=> Vacant(i)
  BY <1>7 DEF Vacant
<1>9. Typed'
  BY <1>4, <1>5, <1>6, <1>7 DEF FleetInv, Typed, Notice, Telling, Keepsake
<1>10. InOrder(h, r, {})'
  <2>1. Head(h) \notin {"push", "insertSos", "pushReply"}
    BY <1>3 DEF Queries
  <2>2. r.id \in Ids => Vacant(r.id)'
    BY <1>1, <1>8 DEF FleetInv, IdsApart
  <2>3. QED
    BY <1>1, <1>3, <1>6, <2>1, <2>2 DEF InOrder
<1>11. Handling'
  <2>1. SUFFICES ASSUME NEW t \in Servers, Busy(t)'
                 PROVE  t \in deployed' /\ InOrder(todo[t], req[t], near[t])'
    BY DEF Handling
  <2>2. CASE t = s
    BY <1>4, <1>10, <2>2 DEF InOrder, Proper, Recorded, Told, Vacant, RepliesOf, CommentList
  <2>3. CASE t # s
    <3>1. PICK q, x, n : q = todo[t] /\ x = req[t] /\ n = near[t]
      OBVIOUS
    <3>2. t \in deployed /\ InOrder(q, x, n) /\ n \in SUBSET Sellers
      BY <1>4, <2>1, <2>3, <3>1 DEF Busy, FleetInv, Handling, Typed
    <3>3. InOrder(q, x, n)'
      BY <1>6, <1>7, <1>8, <3>2, InOrderStays
    <3>4. todo'[t] = q /\ req'[t] = x /\ near'[t] = n
      BY <1>4, <2>3, <3>1
    <3>5. QED
      BY <1>4, <3>2, <3>3, <3>4 DEF InOrder, Proper, Recorded, Told, Vacant, RepliesOf, CommentList
  <2>4. QED
    BY <2>2, <2>3
<1>12. IdsApart'
  <2>1. \A i \in Ids : i \notin used' => Vacant(i)'
    BY <1>6, <1>8 DEF FleetInv, IdsApart
  <2>2. \A t \in Servers : Busy(t) /\ req[t].id \in Ids => req[t].id \in used
    BY BusyDue DEF InOrder
  <2>3. \A x, t \in Servers : Busy(x)' /\ Busy(t)' /\ x # t /\ req'[x].id = req'[t].id => req'[x].id \notin Ids
    <3>1. SUFFICES ASSUME NEW x \in Servers, NEW t \in Servers, Busy(x)', Busy(t)', x # t,
                          req'[x].id = req'[t].id, req'[x].id \in Ids
                   PROVE  FALSE
      OBVIOUS
    <3>2. CASE x = s
      BY <1>1, <1>4, <2>2, <3>1, <3>2 DEF Busy
    <3>3. CASE t = s
      BY <1>1, <1>4, <2>2, <3>1, <3>3 DEF Busy
    <3>4. CASE x # s /\ t # s
      BY <1>4, <3>1, <3>4 DEF Busy, FleetInv, IdsApart
    <3>5. QED
      BY <3>2, <3>3, <3>4
  <2>4. QED
    BY <2>1, <2>3 DEF IdsApart
<1>13. NotifiedIsRecorded'
  <2>1. \A p \in pushed : Notice(p) /\ Recorded(p)
    BY DEF FleetInv, Typed, NotifiedIsRecorded
  <2>2. \A p \in pushed : Recorded(p)'
    BY <1>7, <2>1, RecordedStays
  <2>3. QED
    BY <1>4, <2>2 DEF NotifiedIsRecorded
<1>14. QED
  BY <1>9, <1>11, <1>12, <1>13 DEF FleetInv

LEMMA InitFleet ==
  ASSUME Init
  PROVE  FleetInv
<1>1. DocsTyped
  <2>1. users \in [Users -> Seq(Document)]
    BY DEF Init
  <2>2. comments \in [Sellers -> [comments : Seq(Ids), SellerCommentList : Seq(Ids)]]
    BY DEF Init
  <2>3. QED
    BY <2>1, <2>2 DEF Init, DocsTyped
<1>2. Typed
  BY <1>1 DEF Init, Typed
<1>3. \A s \in Servers : ~Busy(s)
  BY DEF Init, Busy
<1>4. QED
  BY <1>2, <1>3 DEF Init, FleetInv, Handling, IdsApart, Vacant, NotifiedIsRecorded

LEMMA StutterFleet ==
  ASSUME FleetInv, UNCHANGED vars
  PROVE  FleetInv'
<1>1. /\ UNCHANGED <<deployed, sellers, users, comments, msgs, sos, pushed, used, todo, req, near, kept, dropped, gone>>
  BY DEF vars
<1>2. Typed'
  BY <1>1 DEF FleetInv, Typed, DocsTyped, Notice, Keepsake
<1>3. Handling'
  <2>1. SUFFICES ASSUME NEW t \in Servers, Busy(t)'
                 PROVE  t \in deployed' /\ InOrder(todo[t], req[t], near[t])'
    BY DEF Handling
  <2>2. PICK q, r, n : q = todo[t] /\ r = req[t] /\ n = near[t]
    OBVIOUS
  <2>3. t \in deployed /\ InOrder(q, r, n) /\ n \in SUBSET Sellers /\ DocsTyped
    BY <1>1, <2>1, <2>2 DEF Busy, FleetInv, Handling, Typed
  <2>4. OnlyGrows /\ (Vacant(r.id) => Vacant(r.id)')
    BY <1>1, <2>3, NothingGrows DEF docs, Vacant
  <2>5. InOrder(q, r, n)'
    BY <1>1, <2>3, <2>4, InOrderStays
  <2>6. QED
    BY <1>1, <2>2, <2>3, <2>5 DEF InOrder, Proper, Recorded, Told, Vacant, RepliesOf, CommentList
<1>4. IdsApart' /\ NotifiedIsRecorded'
  BY <1>1 DEF FleetInv, IdsApart, Busy, Vacant, NotifiedIsRecorded, Recorded, RepliesOf, CommentList
<1>5. QED
  BY <1>2, <1>3, <1>4 DEF FleetInv

LEMMA NextFleet ==
  ASSUME FleetInv, [Next]_vars
  PROVE  FleetInv'
<1>1. CASE UNCHANGED vars
  BY <1>1, StutterFleet
<1>2. CASE Next
  <2>1. PICK s \in deployed :
           (\E r \in Requests : Receive(s, r)) \/ Query(s) \/ Write(s) \/ Push(s) \/ Fail(s)
    BY <1>2 DEF Next
  <2>2. s \in Servers
    BY DEF FleetInv, Typed
  <2>3. CASE \E r \in Requests : Receive(s, r)
    BY <2>3, ReceiveFleet
  <2>4. CASE Query(s)
    BY <2>2, <2>4, QueryFleet
  <2>5. CASE Write(s)
    BY <2>2, <2>5, WriteFleet
  <2>6. CASE Push(s)
    BY <2>2, <2>6, PushFleet
  <2>7. CASE Fail(s)
    BY <2>2, <2>7, FailFleet
  <2>8. QED
    BY <2>1, <2>3, <2>4, <2>5, <2>6, <2>7
<1>3. QED
  BY <1>1, <1>2

\* However many processes there are and wherever their handlers stop, what a
\* seller is notified of is recorded: the comment, the reply, the message for
\* that seller, the call for help for those sellers.
THEOREM RecordsNotified == Spec => []NotifiedIsRecorded
<1>1. Init => FleetInv
  BY InitFleet
<1>2. FleetInv /\ [Next]_vars => FleetInv'
  BY NextFleet
<1>3. FleetInv => NotifiedIsRecorded
  BY DEF FleetInv
<1>4. QED
  BY <1>1, <1>2, <1>3, PTL DEF Spec

-----------------------------------------------------------------------------
(***************************************************************************)
(* One process: what a call leaves of what was promised                    *)
(***************************************************************************)

LEMMA StoredUsers ==
  ASSUME DocsTyped, NEW call, NEW r, NEW found, Due(call, r, found), Stored(call, r, found), NEW u \in Users
  PROVE  \/ users'[u] = users[u] /\ (call \notin UserCalls \/ u # r.user)
         \/ /\ call \in UserCalls /\ u = r.user /\ users[u] \in Seq(Document)
            /\ users'[u] = After(call, r, users[u])
<1>1. users \in [Users -> Seq(Document)]
  BY DEF DocsTyped
<1>2. CASE call \in UserCalls
  <2>1. PICK e : e = After(call, r, users[r.user])
    OBVIOUS
  <2>2. users' = [users EXCEPT ![r.user] = e]
    BY <1>2, <2>1, UserCall
  <2>3. QED
    BY <1>1, <1>2, <2>1, <2>2
<1>3. CASE call \notin UserCalls
  <2>1. users' = users
    BY <1>3 DEF Stored, NewUsers, UserCalls
  <2>2. QED
    BY <1>3, <2>1
<1>4. QED
  BY <1>2, <1>3

\* What a call makes of the cars, the favourites and the presence of user u.
UserChange(call, r, u) ==
    /\ Cars(users[u]) \ Cars(users'[u]) \subseteq
          IF r.user = u THEN (IF r.op = "remove" THEN Plates ELSE IF r.op = "carDelete" THEN {r.what} ELSE {}) ELSE {}
    /\ Cars(users'[u]) \ Cars(users[u]) \subseteq IF r.user = u /\ r.op = "carPost" THEN {r.what} ELSE {}
    /\ (r.user # u \/ r.op # "remove") => Favs(users[u]) \subseteq Favs(users'[u])
    /\ (users[u] = <<>> /\ ~(r.user = u /\ r.op = "register") /\ ~(r.user = u /\ call = "addFavorite")) => users'[u] = <<>>

LEMMA UserChanged ==
  ASSUME DocsTyped, NEW call, NEW r, NEW found, Due(call, r, found), Stored(call, r, found), NEW u \in Users
  PROVE  UserChange(call, r, u)
<1>1. CASE users'[u] = users[u]
  <2>1. PICK ds : ds = users[u] /\ ds = users'[u]
    BY <1>1
  <2>2. QED
    BY <2>1 DEF UserChange
<1>2. CASE /\ call \in UserCalls /\ u = r.user /\ users[u] \in Seq(Document)
           /\ users'[u] = After(call, r, users[u])
  <2>1. Proper(r) /\ Caller(r.op, call)
    BY DEF Due
  <2>2. PICK ds \in Seq(Document) : ds = users[u]
    BY <1>2
  <2>3. PICK e : e = After(call, r, ds)
    OBVIOUS
  <2>4. /\ call = "insertUser"  => e # <<>> /\ Cars(e) = Cars(ds) /\ Favs(e) = Favs(ds)
        /\ call = "removeUser"  => e = <<>> /\ Cars(e) = {} /\ Favs(e) = {}
        /\ call \in {"pushCar", "pullCar"} => (e = <<>> <=> ds = <<>>) /\ Favs(e) = Favs(ds)
        /\ call = "pushCar"     => Cars(e) \subseteq Cars(ds) \cup {r.what}
        /\ call = "pushCar" /\ ds # <<>> => Cars(e) = Cars(ds) \cup {r.what}
        /\ call = "pullCar"     => Cars(e) = Cars(ds) \ {r.what}
        /\ call = "addFavorite" => e # <<>> /\ Cars(e) = Cars(ds) /\ Favs(e) = Favs(ds) \cup {r.what}
    BY <1>2, <2>1, <2>3, AfterFacts
  <2>5. ds = <<>> => Cars(ds) = {}
    BY DEF Cars
  <2>6. Cars(ds) \subseteq Plates
    BY DEF Cars
  <2>7. /\ Cars(ds) \ Cars(e) \subseteq IF r.op = "remove" THEN Plates ELSE IF r.op = "carDelete" THEN {r.what} ELSE {}
        /\ Cars(e) \ Cars(ds) \subseteq IF r.op = "carPost" THEN {r.what} ELSE {}
        /\ r.op # "remove" => Favs(ds) \subseteq Favs(e)
        /\ (ds = <<>> /\ r.op # "register" /\ call # "addFavorite") => e = <<>>
    <3>1. CASE call = "insertUser"
      BY <2>1, <2>4, <3>1 DEF Caller
    <3>2. CASE call = "removeUser"
      BY <2>1, <2>4, <2>6, <3>2 DEF Caller
    <3>3. CASE call = "pushCar"
      BY <2>1, <2>4, <2>5, <3>3 DEF Caller
    <3>4. CASE call = "pullCar"
      BY <2>1, <2>4, <3>4 DEF Caller
    <3>5. CASE call = "addFavorite"
      BY <2>1, <2>4, <3>5 DEF Caller
    <3>6. QED
      BY <1>2, <3>1, <3>2, <3>3, <3>4, <3>5 DEF UserCalls
  <2>8. users[u] = ds /\ users'[u] = e /\ r.user = u
    BY <1>2, <2>2, <2>3
  <2>9. QED
    BY <2>7, <2>8 DEF UserChange
<1>3. QED
  BY <1>1, <1>2, StoredUsers

\* What a call that ends its handler has done.
LEMMA LastChange ==
  ASSUME DocsTyped, NEW call, NEW r, NEW found, Due(call, r, found), Stored(call, r, found),
         call \in {"pushCar", "addFavorite"} => users[r.user] # <<>>
  PROVE  /\ call = "pushCar" => r.what \in Cars(users'[r.user])
         /\ call = "addFavorite" => users'[r.user] # <<>> /\ r.what \in Favs(users'[r.user])
         /\ call = "pullCar" => r.what \notin Cars(users'[r.user])
         /\ call = "removeUser" => users'[r.user] = <<>>
<1>1. Proper(r) /\ Caller(r.op, call) /\ r.user \in Users
  BY DEF Due, Proper, Request
<1>2. CASE call \in UserCalls
  <2>1. PICK ds \in Seq(Document) : ds = users[r.user] /\ users'[r.user] = After(call, r, ds)
    BY <1>1, <1>2, StoredUsers
  <2>2. PICK e : e = After(call, r, ds)
    OBVIOUS
  <2>3. /\ call = "removeUser"  => e = <<>>
        /\ call = "pushCar" /\ ds # <<>> => Cars(e) = Cars(ds) \cup {r.what}
        /\ call = "pullCar"     => Cars(e) = Cars(ds) \ {r.what}
        /\ call = "addFavorite" => e # <<>> /\ Favs(e) = Favs(ds) \cup {r.what}
    BY <1>1, <1>2, <2>2, AfterFacts
  <2>4. QED
    BY <2>1, <2>2, <2>3
<1>3. CASE call \notin UserCalls
  BY <1>3 DEF UserCalls
<1>4. QED
  BY <1>2, <1>3

LEMMA PresentAs ==
  ASSUME NEW k, Keepsake(k)
  PROVE  /\ k.op \in {"carPost", "favorite", "comment", "reply"}
         /\ k.op \in {"carPost", "favorite"} => k.owner \in Users
         /\ k.op = "carPost" => k.what \in Plates /\ (Present(k) <=> k.what \in Cars(users[k.owner]))
         /\ k.op = "favorite" => (Present(k) <=> k.what \in Favs(users[k.owner]))
         /\ k.op = "comment" => k.owner \in Sellers /\ (Present(k) <=> k.what \in ToSet(comments[k.owner].comments))
         /\ k.op = "reply" => k.owner \in Ids /\ (Present(k) <=> k.what \in RepliesOf(k.owner))
<1>1. CASE k \in [op : {"carPost"}, owner : Users, what : Plates]
  BY <1>1 DEF Present, CarList, Cars
<1>2. CASE k \in [op : {"favorite"}, owner : Users, what : Favorites]
  BY <1>2 DEF Present, Favs
<1>3. CASE k \in [op : {"comment"}, owner : Sellers, what : Ids]
  BY <1>3 DEF Present, Comments, SellerCommentList
<1>4. CASE k \in [op : {"reply"}, owner : Ids, what : Ids]
  BY <1>4 DEF Present
<1>5. QED
  BY <1>1, <1>2, <1>3, <1>4 DEF Keepsake

LEMMA PresentAsNext ==
  ASSUME NEW k, Keepsake(k)
  PROVE  /\ k.op = "carPost" => (Present(k)' <=> k.what \in Cars(users'[k.owner]))
         /\ k.op = "favorite" => (Present(k)' <=> k.what \in Favs(users'[k.owner]))
         /\ k.op = "comment" => (Present(k)' <=> k.what \in ToSet(comments'[k.owner].comments))
         /\ k.op = "reply" => (Present(k)' <=> msgs'[k.owner] # None /\ k.what \in ToSet(msgs'[k.owner].replies))
<1>1. CASE k \in [op : {"carPost"}, owner : Users, what : Plates]
  BY <1>1 DEF Present, CarList, Cars
<1>2. CASE k \in [op : {"favorite"}, owner : Users, what : Favorites]
  BY <1>2 DEF Present, Favs
<1>3. CASE k \in [op : {"comment"}, owner : Sellers, what : Ids]
  BY <1>3 DEF Present, Comments, SellerCommentList
<1>4. CASE k \in [op : {"reply"}, owner : Ids, what : Ids]
  BY <1>4 DEF Present, RepliesOf
<1>5. QED
  BY <1>1, <1>2, <1>3, <1>4 DEF Keepsake

\* A call undoes only what its request asks to undo.
LEMMA PresentStays ==
  ASSUME DocsTyped, NEW call, NEW r, NEW found, Due(call, r, found), Stored(call, r, found),
         NEW k, Keepsake(k), Present(k), ~Ends(r, k)
  PROVE  Present(k)'
<1>1. OnlyGrows
  BY DocsAfter
<1>2. CASE k.op = "carPost"
  <2>1. k.owner \in Users /\ k.what \in Cars(users[k.owner]) /\ k.what \in Plates
    BY <1>2, PresentAs
  <2>2. UserChange(call, r, k.owner)
    BY <2>1, UserChanged
  <2>3. ~(k.owner = r.user /\ r.op = "remove") /\ ~(k.owner = r.user /\ r.op = "carDelete" /\ k.what = r.what)
    BY <1>2 DEF Ends
  <2>4. k.what \in Cars(users'[k.owner])
    BY <2>1, <2>2, <2>3 DEF UserChange
  <2>5. QED
    BY <1>2, <2>4, PresentAsNext
<1>3. CASE k.op = "favorite"
  <2>1. k.owner \in Users /\ k.what \in Favs(users[k.owner])
    BY <1>3, PresentAs
  <2>2. UserChange(call, r, k.owner)
    BY <2>1, UserChanged
  <2>3. ~(k.owner = r.user /\ r.op = "remove")
    BY <1>3 DEF Ends
  <2>4. k.what \in Favs(users'[k.owner])
    BY <2>1, <2>2, <2>3 DEF UserChange
  <2>5. QED
    BY <1>3, <2>4, PresentAsNext
<1>4. CASE k.op = "comment"
  <2>1. k.owner \in Sellers /\ k.what \in ToSet(comments[k.owner].comments)
    BY <1>4, PresentAs
  <2>2. k.what \in ToSet(comments'[k.owner].comments)
    BY <1>1, <2>1 DEF OnlyGrows
  <2>3. QED
    BY <1>4, <2>2, PresentAsNext
<1>5. CASE k.op = "reply"
  <2>1. k.owner \in Ids /\ msgs[k.owner] # None /\ k.what \in ToSet(msgs[k.owner].replies)
    BY <1>5, PresentAs DEF RepliesOf
  <2>2. msgs'[k.owner] # None /\ k.what \in ToSet(msgs'[k.owner].replies)
    BY <1>1, <2>1 DEF OnlyGrows
  <2>3. QED
    BY <1>5, <2>2, PresentAsNext
<1>6. QED
  BY <1>2, <1>3, <1>4, <1>5, PresentAs

\* Of what was promised before, everything is still so after the step.
PromisesKept ==
    /\ \A k \in kept : Present(k)'
    /\ \A u \in Users, p \in Plates : <<u, p>> \in dropped => p \notin Cars(users'[u])
    /\ \A u \in gone : users'[u] = <<>>

LEMMA StoredKeepsPromises ==
  ASSUME FleetInv, ProcessInv, NEW s \in Servers, Busy(s), Stored(Head(todo[s]), req[s], near[s])
  PROVE  PromisesKept
<1>1. PICK call, r, n : call = Head(todo[s]) /\ r = req[s] /\ n = near[s]
  OBVIOUS
<1>2. Due(call, r, n) /\ Stored(call, r, n) /\ DocsTyped
  BY <1>1, BusyDue DEF FleetInv, Typed
<1>3. \A k \in kept : Present(k)'
  <2>1. SUFFICES ASSUME NEW k \in kept PROVE Present(k)'
    OBVIOUS
  <2>2. Keepsake(k) /\ Present(k) /\ ~Ends(r, k)
    BY <1>1 DEF FleetInv, Typed, ProcessInv, KeptIsPresent
  <2>3. QED
    BY <1>2, <2>2, PresentStays
<1>4. \A u \in Users, p \in Plates : <<u, p>> \in dropped => p \notin Cars(users'[u])
  <2>1. SUFFICES ASSUME NEW u \in Users, NEW p \in Plates, <<u, p>> \in dropped PROVE p \notin Cars(users'[u])
    OBVIOUS
  <2>2. p \notin Cars(users[u]) /\ (r.op = "carPost" => <<r.user, r.what>> # <<u, p>>)
    BY <1>1, <2>1 DEF ProcessInv, DroppedIsHidden, CarList, Cars
  <2>3. ~(r.user = u /\ r.op = "carPost" /\ r.what = p)
    BY <2>2
  <2>4. UserChange(call, r, u)
    BY <1>2, UserChanged
  <2>5. QED
    BY <2>2, <2>3, <2>4 DEF UserChange
<1>5. \A u \in gone : users'[u] = <<>>
  <2>1. SUFFICES ASSUME NEW u \in gone PROVE users'[u] = <<>>
    OBVIOUS
  <2>2. u \in Users /\ users[u] = <<>> /\ ~(r.user = u /\ r.op = "register")
    BY <1>1 DEF ProcessInv, GoneIsEmpty, FleetInv, Typed
  <2>3. ~(r.user = u /\ call = "addFavorite")
    BY <1>1, <2>2 DEF ProcessInv, StillFound
  <2>4. UserChange(call, r, u)
    BY <1>2, <2>2, UserChanged
  <2>5. QED
    BY <2>2, <2>3, <2>4 DEF UserChange
<1>6. QED
  BY <1>3, <1>4, <1>5 DEF PromisesKept

LEMMA UnchangedKeepsPromises ==
  ASSUME FleetInv, ProcessInv, UNCHANGED docs
  PROVE  PromisesKept
<1>1. UNCHANGED <<users, comments, msgs, sos>>
  BY DEF docs
<1>2. \A k \in kept : Present(k)'
  BY <1>1 DEF ProcessInv, KeptIsPresent, Present, CarList, Comments, SellerCommentList, RepliesOf
<1>3. QED
  BY <1>1, <1>2 DEF PromisesKept, ProcessInv, DroppedIsHidden, GoneIsEmpty, CarList, Cars

LEMMA OnlyOne ==
  ASSUME FleetInv, OneServer, NEW s \in deployed, NEW t \in Servers, Busy(t)
  PROVE  t = s
  BY BusyDue DEF OneServer

\* After the last call of the only handler.
LEMMA AtRest ==
  ASSUME \A t \in Servers : todo'[t] = <<>>,
         \A k \in kept' : Present(k)',
         \A u \in Users, p \in Plates : <<u, p>> \in dropped' => p \notin Cars(users'[u]),
         \A u \in gone' : users'[u] = <<>>
  PROVE  ProcessInv'
  BY DEF ProcessInv, StillFound, KeptIsPresent, DroppedIsHidden, GoneIsEmpty, Busy, CarList, Cars

\* In the course of the only handler.
LEMMA GoesOn ==
  ASSUME ProcessInv, PromisesKept, NEW s \in Servers, Busy(s), req' = req, UNCHANGED <<kept, dropped, gone>>,
         \A t \in Servers : t # s => todo'[t] = <<>>,
         Head(todo'[s]) \in {"pushCar", "addFavorite"} => users'[req[s].user] # <<>>
  PROVE  ProcessInv'
<1>1. \A t \in Servers : Busy(t)' => t = s
  BY DEF Busy
<1>2. StillFound'
  BY <1>1 DEF StillFound
<1>3. KeptIsPresent'
  BY <1>1 DEF KeptIsPresent, ProcessInv, PromisesKept, Ends
<1>4. DroppedIsHidden'
  BY <1>1 DEF DroppedIsHidden, ProcessInv, PromisesKept, CarList, Cars
<1>5. GoneIsEmpty'
  BY <1>1 DEF GoneIsEmpty, ProcessInv, PromisesKept
<1>6. QED
  BY <1>2, <1>3, <1>4, <1>5 DEF ProcessInv

LEMMA EndsAlone ==
  ASSUME FleetInv, OneServer, NEW s \in deployed, End(s)
  PROVE  \A t \in Servers : todo'[t] = <<>>
<1>1. s \in Servers
  BY DEF FleetInv, Typed
<1>2. \A t \in Servers : t # s => todo[t] = <<>>
  BY OnlyOne DEF Busy
<1>3. QED
  BY <1>1, <1>2, EndFacts

LEMMA FailProcess ==
  ASSUME FleetInv, OneServer, ProcessInv, NEW s \in deployed, Fail(s)
  PROVE  ProcessInv'
<1>1. /\ Busy(s) /\ End(s) /\ UNCHANGED <<kept, dropped, gone>> /\ s \in Servers
      /\ Stored(Head(todo[s]), req[s], near[s]) \/ UNCHANGED docs
  BY DEF Fail, Busy, Abandon, FleetInv, Typed
<1>2. PromisesKept
  BY <1>1, StoredKeepsPromises, UnchangedKeepsPromises
<1>3. \A t \in Servers : todo'[t] = <<>>
  BY <1>1, EndsAlone
<1>4. QED
  BY <1>1, <1>2, <1>3, AtRest DEF PromisesKept

LEMMA PushProcess ==
  ASSUME FleetInv, OneServer, ProcessInv, NEW s \in deployed, Push(s)
  PROVE  ProcessInv'
<1>1. /\ Busy(s) /\ End(s) /\ Acknowledge(req[s]) /\ UNCHANGED docs /\ s \in Servers /\ Head(todo[s]) = "push"
  BY DEF Push, Busy, FleetInv, Typed
<1>2. PromisesKept
  BY <1>1, UnchangedKeepsPromises
<1>3. \A t \in Servers : todo'[t] = <<>>
  BY <1>1, EndsAlone
<1>4. PICK r, n : r = req[s] /\ n = near[s]
  OBVIOUS
<1>5. Due("push", r, n) /\ InOrder(todo[s], r, n)
  BY <1>1, <1>4, BusyDue
<1>6. Proper(r) /\ r.op \in Telling /\ Recorded(Told(r, n)) /\ n \in SUBSET Sellers
  BY <1>1, <1>5 DEF Due, Caller, InOrder
<1>7. PICK p : p = Told(r, n)
  OBVIOUS
<1>8. p.op = r.op /\ p.id = r.id /\ p.what = r.what /\ (r.op # "sos" => p.to = {r.seller}) /\ Recorded(p)
  BY <1>6, <1>7 DEF Told
<1>9. UNCHANGED <<users, comments, msgs, sos>>
  BY <1>1 DEF docs
<1>10. \A k \in kept' : Present(k)'
  <2>1. CASE r.op = "comment"
    <3>1. PICK k : k = [op |-> r.op, owner |-> r.seller, what |-> r.id]
      OBVIOUS
    <3>2. kept' = kept \cup {k} /\ k.op = "comment" /\ k.owner = r.seller /\ k.what = r.id
      BY <1>1, <1>4, <2>1, <3>1 DEF Acknowledge
    <3>3. r.id \in ToSet(comments[r.seller].comments)
      BY <1>8, <2>1 DEF Recorded, CommentList
    <3>4. Present(k)'
      BY <1>9, <3>2, <3>3 DEF Present, Comments, SellerCommentList
    <3>5. QED
      BY <1>2, <3>2, <3>4 DEF PromisesKept
  <2>2. CASE r.op = "reply"
    <3>1. PICK k : k = [op |-> r.op, owner |-> r.what, what |-> r.id]
      OBVIOUS
    <3>2. kept' = kept \cup {k} /\ k.op = "reply" /\ k.owner = r.what /\ k.what = r.id
      BY <1>1, <1>4, <2>2, <3>1 DEF Acknowledge
    <3>3. r.id \in RepliesOf(r.what)
      BY <1>8, <2>2 DEF Recorded
    <3>4. Present(k)'
      BY <1>9, <3>2, <3>3 DEF Present, RepliesOf
    <3>5. QED
      BY <1>2, <3>2, <3>4 DEF PromisesKept
  <2>3. CASE r.op \notin {"comment", "reply"}
    <3>1. kept' = kept
      BY <1>1, <1>4, <1>6, <2>3 DEF Acknowledge, Telling
    <3>2. QED
      BY <1>2, <3>1 DEF PromisesKept
  <2>4. QED
    BY <2>1, <2>2, <2>3
<1>11. dropped' = dropped /\ gone' = gone
  BY <1>1, <1>4, <1>6 DEF Acknowledge, Telling
<1>12. QED
  BY <1>2, <1>3, <1>10, <1>11, AtRest DEF PromisesKept

LEMMA WriteProcess ==
  ASSUME FleetInv, OneServer, ProcessInv, NEW s \in deployed, Write(s)
  PROVE  ProcessInv'
<1>1. /\ Busy(s) /\ Head(todo[s]) \notin Queries \cup {"push"} /\ Stored(Head(todo[s]), req[s], near[s])
      /\ IF Tail(todo[s]) = <<>> THEN End(s) /\ Acknowledge(req[s]) ELSE Goto(s)
      /\ s \in Servers
  BY DEF Write, Busy, FleetInv, Typed
<1>2. PICK q, r, n : q = todo[s] /\ r = req[s] /\ n = near[s]
  OBVIOUS
<1>3. /\ Due(Head(q), r, n) /\ r.op \in Ops
      /\ Tail(q) = <<>> <=> Head(q) = LastCall(r.op)
      /\ Tail(q) # <<>> => Follows(r.op, Head(q), Head(Tail(q)))
  BY <1>1, <1>2, BusyDue
<1>4. PromisesKept
  BY <1>1, StoredKeepsPromises
<1>5. DocsTyped /\ Head(q) \in Writes /\ Proper(r) /\ r.user \in Users
  BY <1>1, <1>2, <1>3 DEF FleetInv, Typed, Due, AllCalls, Proper, Request
<1>6. CASE Tail(q) = <<>>
  <2>1. End(s) /\ Acknowledge(r) /\ Head(q) = LastCall(r.op)
    BY <1>1, <1>2, <1>3, <1>6
  <2>2. \A t \in Servers : todo'[t] = <<>>
    BY <2>1, EndsAlone
  <2>3. Head(q) \in {"pushCar", "addFavorite"} => users[r.user] # <<>>
    BY <1>1, <1>2 DEF ProcessInv, StillFound
  <2>4. /\ Head(q) = "pushCar" => r.what \in Cars(users'[r.user])
        /\ Head(q) = "addFavorite" => r.what \in Favs(users'[r.user])
        /\ Head(q) = "pullCar" => r.what \notin Cars(users'[r.user])
        /\ Head(q) = "removeUser" => users'[r.user] = <<>>
    BY <1>1, <1>2, <1>3, <1>5, <2>3, LastChange
  <2>5. r.op \in {"register", "remove", "carPost", "carDelete", "favorite"}
    BY <1>1, <1>2, <2>1 DEF LastCall
  <2>6. \A k \in kept' : Present(k)'
    <3>1. CASE r.op \in {"carPost", "favorite"}
      <4>1. PICK k : k = [op |-> r.op, owner |-> r.user, what |-> r.what]
        OBVIOUS
      <4>2. kept' = kept \cup {k} /\ Keepsake(k) /\ k.op = r.op /\ k.owner = r.user /\ k.what = r.what
        BY <1>5, <2>1, <3>1, <4>1 DEF Acknowledge, Keepsake, Proper
      <4>3. Present(k)'
        <5>1. r.op = "carPost" => k.what \in Cars(users'[k.owner])
          BY <2>1, <2>4, <4>2 DEF LastCall
        <5>2. r.op = "favorite" => k.what \in Favs(users'[k.owner])
          BY <2>1, <2>4, <4>2 DEF LastCall
        <5>3. QED
          BY <3>1, <4>2, <5>1, <5>2, PresentAsNext
      <4>4. QED
        BY <1>4, <4>2, <4>3 DEF PromisesKept
    <3>2. CASE r.op \in {"register", "remove", "carDelete"}
      <4>1. kept' = kept
        BY <2>1, <3>2 DEF Acknowledge
      <4>2. QED
        BY <1>4, <4>1 DEF PromisesKept
    <3>3. QED
      BY <2>5, <3>1, <3>2
  <2>7. \A u \in Users, p \in Plates : <<u, p>> \in dropped' => p \notin Cars(users'[u])
    <3>1. SUFFICES ASSUME NEW u \in Users, NEW p \in Plates, <<u, p>> \in dropped', <<u, p>> \notin dropped
                   PROVE  p \notin Cars(users'[u])
      BY <1>4 DEF PromisesKept
    <3>2. r.op = "carDelete" /\ <<u, p>> = <<r.user, r.what>>
      BY <2>1, <3>1 DEF Acknowledge
    <3>3. u = r.user /\ p = r.what
      BY <3>2
    <3>4. QED
      BY <2>1, <2>4, <3>2, <3>3 DEF LastCall
  <2>8. \A u \in gone' : users'[u] = <<>>
    <3>1. SUFFICES ASSUME NEW u \in gone', u \notin gone
                   PROVE  users'[u] = <<>>
      BY <1>4 DEF PromisesKept
    <3>2. r.op = "remove" /\ u = r.user
      BY <2>1, <3>1 DEF Acknowledge
    <3>3. QED
      BY <2>1, <2>4, <3>2 DEF LastCall
  <2>9. QED
    BY <2>2, <2>6, <2>7, <2>8, AtRest
<1>7. CASE Tail(q) # <<>>
  <2>1. Goto(s)
    BY <1>1, <1>2, <1>7
  <2>2. /\ req' = req /\ todo'[s] = Tail(q) /\ UNCHANGED <<kept, dropped, gone>>
        /\ \A t \in Servers : t # s => todo'[t] = todo[t]
    BY <1>1, <1>2, <2>1, GotoFacts
  <2>3. \A t \in Servers : t # s => todo'[t] = <<>>
    BY <2>2, OnlyOne DEF Busy
  <2>4. Head(Tail(q)) = "push"
    BY <1>3, <1>5, <1>7 DEF Follows
  <2>5. Head(todo'[s]) \notin {"pushCar", "addFavorite"}
    BY <2>2, <2>4
  <2>6. QED
    BY <1>1, <1>4, <2>2, <2>3, <2>5, GoesOn
<1>8. QED
  BY <1>6, <1>7

LEMMA QueryProcess ==
  ASSUME FleetInv, OneServer, ProcessInv, NEW s \in deployed, Query(s)
  PROVE  ProcessInv'
<1>1. /\ Busy(s) /\ Head(todo[s]) \in Queries /\ UNCHANGED docs /\ s \in Servers
  BY DEF Query, Busy, FleetInv, Typed
<1>2. PICK found : IF Passes(Head(todo[s]), req[s], found) THEN Goto(s) ELSE Abandon(s)
  BY DEF Query
<1>3. PICK q, r : q = todo[s] /\ r = req[s]
  OBVIOUS
<1>4. PromisesKept
  BY <1>1, UnchangedKeepsPromises
<1>5. CASE ~Passes(Head(q), r, found)
  <2>1. End(s) /\ UNCHANGED <<kept, dropped, gone>>
    BY <1>2, <1>3, <1>5 DEF Abandon
  <2>2. \A t \in Servers : todo'[t] = <<>>
    BY <2>1, EndsAlone
  <2>3. QED
    BY <1>4, <2>1, <2>2, AtRest DEF PromisesKept
<1>6. CASE Passes(Head(q), r, found)
  <2>1. Goto(s)
    BY <1>2, <1>3, <1>6
  <2>2. /\ req' = req /\ todo'[s] = Tail(q) /\ UNCHANGED <<kept, dropped, gone>>
        /\ \A t \in Servers : t # s => todo'[t] = todo[t]
    BY <1>1, <1>3, <2>1, GotoFacts
  <2>3. \A t \in Servers : t # s => todo'[t] = <<>>
    BY <2>2, OnlyOne DEF Busy
  <2>4. Head(q) # LastCall(r.op)
    BY <1>1, <1>3 DEF Queries, LastCall
  <2>5. Follows(r.op, Head(q), Head(Tail(q)))
    BY <1>1, <1>3, <2>4, BusyDue
  <2>6. Head(Tail(q)) \in {"pushCar", "addFavorite"} => users[r.user] # <<>>
    BY <1>6, <2>5 DEF Follows, Passes
  <2>7. Head(todo'[s]) \in {"pushCar", "addFavorite"} => users'[req[s].user] # <<>>
    BY <1>1, <1>3, <2>2, <2>6 DEF docs
  <2>8. QED
    BY <1>1, <1>4, <2>2, <2>3, <2>7, GoesOn
<1>7. QED
  BY <1>5, <1>6

LEMMA ReceiveProcess ==
  ASSUME FleetInv, OneServer, ProcessInv, NEW s \in deployed, NEW r \in Requests, Receive(s, r)
  PROVE  ProcessInv'
<1>1. s \in Servers /\ r.op \in Ops /\ UNCHANGED docs /\ ~Busy(s)
  BY RequestsProper DEF FleetInv, Typed, Proper, Request, Receive, Busy
<1>2. PICK h : h = Handlers[r.op] /\ Head(h) \in Queries
  BY <1>1, FirstStage
<1>3. \A t \in Servers : todo[t] = <<>>
  BY <1>1, OnlyOne DEF Busy
<1>4. /\ todo'[s] = h /\ req'[s] = r
      /\ \A t \in Servers : t # s => todo'[t] = <<>>
  BY <1>1, <1>2, <1>3 DEF Receive, FleetInv, Typed
<1>5. \A t \in Servers : Busy(t)' => t = s
  BY <1>4 DEF Busy
<1>6. PromisesKept
  BY <1>1, UnchangedKeepsPromises
<1>7. StillFound'
  <2>1. Head(h) \notin {"pushCar", "addFavorite"}
    BY <1>2 DEF Queries
  <2>2. QED
    BY <1>4, <1>5, <2>1 DEF StillFound
<1>8. KeptIsPresent'
  <2>1. \A k \in kept' : k \in kept /\ ~Ends(r, k)
    BY DEF Receive
  <2>2. \A k : Ends(r, k)' <=> Ends(r, k)
    BY DEF Ends
  <2>3. \A k \in kept' : Present(k)' /\ ~Ends(r, k)'
    BY <1>6, <2>1, <2>2 DEF PromisesKept
  <2>4. QED
    BY <1>4, <1>5, <2>3 DEF KeptIsPresent, Ends
<1>9. DroppedIsHidden'
  <2>1. dropped' \subseteq dropped /\ (r.op = "carPost" => <<r.user, r.what>> \notin dropped')
    BY DEF Receive
  <2>2. QED
    BY <1>4, <1>5, <1>6, <2>1 DEF DroppedIsHidden, PromisesKept, CarList, Cars
<1>10. GoneIsEmpty'
  <2>1. gone' \subseteq gone /\ (r.op = "register" => r.user \notin gone')
    BY DEF Receive
  <2>2. QED
    BY <1>4, <1>5, <1>6, <2>1 DEF GoneIsEmpty, PromisesKept
<1>11. QED
  BY <1>7, <1>8, <1>9, <1>10 DEF ProcessInv

LEMMA NextProcess ==
  ASSUME FleetInv, OneServer, ProcessInv, Next
  PROVE  ProcessInv'
<1>1. PICK s \in deployed :
         (\E r \in Requests : Receive(s, r)) \/ Query(s) \/ Write(s) \/ Push(s) \/ Fail(s)
  BY DEF Next
<1>2. CASE \E r \in Requests : Receive(s, r)
  BY <1>2, ReceiveProcess
<1>3. CASE Query(s)
  BY <1>3, QueryProcess
<1>4. CASE Write(s)
  BY <1>4, WriteProcess
<1>5. CASE Push(s)
  BY <1>5, PushProcess
<1>6. CASE Fail(s)
  BY <1>6, FailProcess
<1>7. QED
  BY <1>1, <1>2, <1>3, <1>4, <1>5, <1>6

LEMMA StutterProcess ==
  ASSUME ProcessInv, UNCHANGED vars
  PROVE  ProcessInv'
<1>1. UNCHANGED <<users, comments, msgs, todo, req, kept, dropped, gone>>
  BY DEF vars
<1>2. StillFound' /\ GoneIsEmpty'
  BY <1>1 DEF ProcessInv, StillFound, GoneIsEmpty, Busy
<1>3. KeptIsPresent'
  BY <1>1 DEF ProcessInv, KeptIsPresent, Busy, Ends, Present, CarList, Comments, SellerCommentList, RepliesOf
<1>4. DroppedIsHidden'
  BY <1>1 DEF ProcessInv, DroppedIsHidden, Busy, CarList
<1>5. QED
  BY <1>2, <1>3, <1>4 DEF ProcessInv

LEMMA DeployedStays ==
  ASSUME [Next]_vars
  PROVE  deployed' = deployed
  BY DEF Next, Receive, Query, Write, Push, Fail, vars

\* The invariant of one process holds from the beginning.
THEOREM RecordsInvariant == Spec => []RecordsInv
<1>1. Init => RecordsInv
  <2>1. SUFFICES ASSUME Init PROVE FleetInv /\ ProcessInv
    BY DEF RecordsInv
  <2>2. ProcessInv
    BY <2>1 DEF Init, ProcessInv, StillFound, KeptIsPresent, DroppedIsHidden, GoneIsEmpty, Busy
  <2>3. QED
    BY <2>1, <2>2, InitFleet
<1>2. RecordsInv /\ [Next]_vars => RecordsInv'
  <2>1. SUFFICES ASSUME RecordsInv, [Next]_vars PROVE RecordsInv'
    OBVIOUS
  <2>2. FleetInv'
    BY <2>1, NextFleet DEF RecordsInv
  <2>3. OneServer' <=> OneServer
    BY <2>1, DeployedStays DEF OneServer
  <2>4. OneServer => ProcessInv'
    <3>1. SUFFICES ASSUME OneServer PROVE ProcessInv'
      OBVIOUS
    <3>2. FleetInv /\ ProcessInv
      BY <2>1, <3>1 DEF RecordsInv
    <3>3. CASE Next
      BY <3>1, <3>2, <3>3, NextProcess
    <3>4. CASE UNCHANGED vars
      BY <3>2, <3>4, StutterProcess
    <3>5. QED
      BY <2>1, <3>3, <3>4
  <2>5. QED
    BY <2>2, <2>3, <2>4 DEF RecordsInv
<1>3. QED
  BY <1>1, <1>2, PTL DEF Spec

\* With one process, what was answered with APIE_OK stays where it was put: a
\* car and a favourite until somebody asks to remove it or the user, a comment
\* and a reply for ever, wherever the handlers of other requests stop.
THEOREM RecordsKept == Spec => []AcknowledgedIsKept
<1>1. RecordsInv => AcknowledgedIsKept
  BY DEF RecordsInv, ProcessInv, KeptIsPresent, AcknowledgedIsKept
<1>2. QED
  BY <1>1, RecordsInvariant, PTL

\* With one process, a car or a user whose removal was answered with APIE_OK
\* does not come back before somebody asks for it, although CarList::Post and
\* Favorite::Post write to a document that they looked for some time ago.
THEOREM RecordsRemoved == Spec => []RemovedIsGone
<1>1. RecordsInv => RemovedIsGone
  <2>1. SUFFICES ASSUME RecordsInv, OneServer
                 PROVE  /\ \A d \in dropped : d[2] \notin CarList(d[1])
                        /\ \A u \in gone : users[u] = <<>>
    BY DEF RemovedIsGone
  <2>2. DroppedIsHidden /\ GoneIsEmpty /\ dropped \in SUBSET (Users \X Plates)
    BY <2>1 DEF RecordsInv, ProcessInv, FleetInv, Typed
  <2>3. \A d \in dropped : d[2] \notin CarList(d[1])
    <3>1. SUFFICES ASSUME NEW d \in dropped PROVE d[2] \notin CarList(d[1])
      OBVIOUS
    <3>2. d[1] \in Users /\ d[2] \in Plates /\ d = <<d[1], d[2]>>
      BY <2>2
    <3>3. QED
      BY <2>2, <3>1, <3>2 DEF DroppedIsHidden
  <2>4. QED
    BY <2>2, <2>3 DEF GoneIsEmpty
<1>2. QED
  BY <1>1, RecordsInvariant, PTL
=============================================================================
