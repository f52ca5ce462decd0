------------------------ MODULE SellerCustomersProofs ------------------------
(***************************************************************************)
(* Proofs about SellerCustomers: any sets of sellers, users, names and     *)
(* identifiers.  Customers are kept and messages are stored before anybody *)
(* is notified with any number of processes; the other results are about   *)
(* one process, as the properties say.                                     *)
(***************************************************************************)
EXTENDS SellerCustomers, FiniteSetTheorems, SequenceTheorems, WellFoundedInduction, TLAPS

-----------------------------------------------------------------------------
(***************************************************************************)
(* The inductive invariant, for any number of processes                    *)
(***************************************************************************)

Typed ==
    /\ deployed \in SUBSET Servers
    /\ books \in [Sellers -> Seq(Book)]
    /\ msgs \in [MsgIds -> {None} \cup Message]
    /\ pushed \in SUBSET Notification
    /\ used \in SUBSET (GroupIds \cup MsgIds)
    /\ DOMAIN todo = Servers
    /\ req \in [Servers -> Request \cup {NoRequest}]
    /\ members \in [Servers -> Collected]
    /\ filed \in SUBSET (Sellers \X Names \X Users)
    /\ removed \in SUBSET (Sellers \X GroupIds)

Busy(s) == todo[s] # <<>>

Messaging == {"groupMessage", "userMessage"}

\* The request a process handles has the parameters of its kind.
Proper(r) ==
    /\ r \in Request
    /\ r.op \in {"userPost", "userPut", "userDelete", "groupPut", "userMessage"} => r.user \in Users
    /\ r.op \in {"userPost", "groupPost", "groupPut"} => r.name \in Names
    /\ r.op = "groupDelete" => r.group \in GroupIds \cap used
    /\ r.op \in Messaging => r.msg \in MsgIds \cap used /\ r.group \in GroupIds \cup {None}
    /\ r.op = "userMessage" => r.group = None

\* What is left of a handler after some of its calls, and the handlers that a
\* request may be in: the one it starts with, and what it does instead when a
\* query finds nothing.
Stages(h) == {SubSeq(h, k, Len(h)) : k \in 1..Len(h)}

Programs(r) ==
    {h \in {Handler(r), <<"insertBook">>, <<"replaceGroups">>} :
        /\ h = <<"insertBook">> => r.op \in {"userPost", "groupPost"}
        /\ h = <<"replaceGroups">> => r.op = "userPost"}

\* A handler at the calls q: where it is in its program.
At(q, r) == \E h \in Programs(r) : q \in Stages(h)

\* Of a handler with the request r and the calls q before it: nothing is stored
\* under its msg_id until it has inserted the message, which it has done, for
\* the user it names, when it is about to notify.
InOrder(q, r) ==
    /\ Proper(r)
    /\ At(q, r)
    /\ (r.op \in Messaging /\ Head(q) # "push") => msgs[r.msg] = None
    /\ Head(q) = "push" =>
          msgs[r.msg] # None /\ (r.op = "userMessage" => msgs[r.msg].to = {r.user})

Handling == \A s \in Servers : Busy(s) => s \in deployed /\ InOrder(todo[s], req[s])

\* Nothing is stored under a msg_id that has not been handed out, and no two
\* handlers have the same.
IdsApart ==
    /\ \A i \in MsgIds : i \notin used => msgs[i] = None
    /\ \A s, t \in Servers :
          (/\ Busy(s) /\ Busy(t) /\ s # t
           /\ req[s].op \in Messaging /\ req[t].op \in Messaging) => req[s].msg # req[t].msg

FleetInv ==
    /\ Typed
    /\ Handling
    /\ IdsApart
    /\ NotifiedIsStored

-----------------------------------------------------------------------------
(***************************************************************************)
(* The inductive invariant, for one process                                *)
(***************************************************************************)

\* The groups gs list user u under the name n; one of them has the id x.
Lists(gs, n, u) ==
    \E j \in 1..Len(gs) : gs[j].name = n /\ \E k \in 1..Len(gs[j].users) : gs[j].users[k] = u
HasId(gs, x) == \E j \in 1..Len(gs) : gs[j].id = x

\* The same of the documents bs of a seller: one of them does.
ListsIn(bs, n, u) == \E k \in 1..Len(bs) : Lists(bs[k].groups, n, u)
HasIdIn(bs, x) == \E k \in 1..Len(bs) : HasId(bs[k].groups, x)

\* What findBook has found, or not found, is still so when the handler writes.
Fits(call, bs) ==
    /\ call = "insertBook" => bs = <<>>
    /\ call \in {"findGroup", "pushGroup", "replaceGroups"} => bs # <<>>

StillFound ==
    \A s \in Servers : Busy(s) => Fits(Head(todo[s]), books[req[s].seller])

\* A customer is filed only while listed, and while nobody asks for the end of it.
FiledStays ==
    \A i \in Sellers, n \in Names, u \in Users : <<i, n, u>> \in filed =>
        /\ ListsIn(books[i], n, u)
        /\ \A s \in Servers : Busy(s) =>
              /\ req[s].op = "groupPut" => <<req[s].seller, req[s].name, req[s].user>> # <<i, n, u>>
              /\ req[s].op = "groupDelete" => req[s].seller # i

\* A removed group is in no document, and its identifier is not handed out again.
RemovedIsGone ==
    \A i \in Sellers, x \in GroupIds : <<i, x>> \in removed =>
        x \in used /\ ~HasIdIn(books[i], x)

\* Whom a process is about to notify it has read from a group that is there.
CollectedIsThere ==
    \A s \in Servers :
        (Busy(s) /\ Head(todo[s]) \in {"insertMsg", "push"} /\ req[s].op = "groupMessage"
             /\ members[s].notified # {}) => <<req[s].seller, req[s].group>> \notin removed

ProcessInv ==
    /\ StillFound
    /\ FiledStays
    /\ RemovedIsGone
    /\ CollectedIsThere

CustomersInv == FleetInv /\ (OneServer => ProcessInv)

-----------------------------------------------------------------------------
(***************************************************************************)
(* What the proofs need of sequences                                       *)
(***************************************************************************)

LEMMA Elements ==
  ASSUME NEW S, NEW q \in Seq(S)
  PROVE  /\ Len(q) \in Nat /\ DOMAIN q = 1..Len(q)
         /\ \A k \in 1..Len(q) : q[k] \in S
         /\ q # <<>> <=> 1 \in 1..Len(q)
OBVIOUS

LEMMA Appended ==
  ASSUME NEW S, NEW q \in Seq(S), NEW x \in S
  PROVE  /\ Append(q, x) \in Seq(S) /\ Len(Append(q, x)) = Len(q) + 1
         /\ Append(q, x)[Len(q) + 1] = x
         /\ \A k \in 1..Len(q) : k \in 1..Len(Append(q, x)) /\ Append(q, x)[k] = q[k]
         /\ \A k \in 1..Len(Append(q, x)) : k \in 1..Len(q) \/ k = Len(q) + 1
OBVIOUS

LEMMA Single ==
  ASSUME NEW S, NEW x \in S
  PROVE  <<x>> \in Seq(S) /\ Len(<<x>>) = 1 /\ <<x>>[1] = x /\ <<x>> # <<>>
OBVIOUS

LEMMA Replaced ==
  ASSUME NEW S, NEW q \in Seq(S), NEW k \in 1..Len(q), NEW x \in S
  PROVE  /\ [q EXCEPT ![k] = x] \in Seq(S) /\ Len([q EXCEPT ![k] = x]) = Len(q)
         /\ [q EXCEPT ![k] = x][k] = x
         /\ \A j \in 1..Len(q) : j # k => [q EXCEPT ![k] = x][j] = q[j]
BY ExceptSeq

\* The smallest of some positions.
LEMMA FirstFacts ==
  ASSUME NEW S, S \subseteq Nat, S # {}
  PROVE  First(S) \in S
<1>1. PICK x \in S : \A y \in S : ~ (<<y, x>> \in OpToRel(<, Nat))
  BY NatLessThanWellFounded, WFMin
<1>2. \A y \in S : ~ (y < x)
  BY <1>1 DEF OpToRel
<1>3. x \in S /\ \A y \in S : x <= y
  BY <1>2
<1>4. QED
  BY <1>3 DEF First

\* A $pull leaves the elements that it does not select, and no other.  The
\* places of the kept ones are numbered without gaps: counting those up to a
\* place maps the places one to one into as many numbers, so onto them.
LEMMA Kept ==
  ASSUME NEW S, NEW q \in Seq(S), NEW K \in SUBSET (1..Len(q))
  PROVE  /\ Keep(q, K) \in Seq(S)
         /\ \A k \in K : \E j \in 1..Len(Keep(q, K)) : Keep(q, K)[j] = q[k]
         /\ \A j \in 1..Len(Keep(q, K)) : \E k \in K : Keep(q, K)[j] = q[k]
<1> DEFINE Upto(k) == {i \in K : i <= k}
           n == Cardinality(K)
           rank == [k \in K |-> Cardinality(Upto(k))]
<1>0. Len(q) \in Nat /\ \A k \in K : k \in Nat
  OBVIOUS
<1>1. IsFiniteSet(K) /\ n \in Nat
  <2>1. IsFiniteSet(1..Len(q))
    BY <1>0, FS_Interval
  <2>2. QED
    BY <2>1, FS_Subset, FS_CardinalityType
<1>2. ASSUME NEW k \in K PROVE rank[k] \in 1..n
  <2>1. Upto(k) \in SUBSET K /\ k \in Upto(k)
    BY <1>0
  <2>2. IsFiniteSet(Upto(k)) /\ Cardinality(Upto(k)) <= n
    BY <1>1, <2>1, FS_Subset
  <2>3. Cardinality(Upto(k)) \in Nat /\ Cardinality(Upto(k)) # 0
    BY <2>1, <2>2, FS_CardinalityType, FS_EmptySet
  <2>4. QED
    BY <1>1, <2>2, <2>3
<1>3. ASSUME NEW k \in K, NEW l \in K, k < l PROVE rank[k] # rank[l]
  <2>1. l \in Nat /\ k \in Nat
    BY <1>0
  <2>2. Upto(l) \in SUBSET K
    OBVIOUS
  <2>3. l \in Upto(l) /\ l \notin Upto(k)
    BY <1>3, <2>1
  <2>4. ASSUME NEW i \in Upto(k) PROVE i \in Upto(l)
    <3>1. i \in K /\ i \in Nat /\ i <= k
      BY <1>0
    <3>2. QED
      BY <1>3, <2>1, <3>1
  <2>5. Upto(k) \in SUBSET Upto(l)
    BY <2>4
  <2>6. IsFiniteSet(Upto(l))
    BY <1>1, <2>2, FS_Subset
  <2>7. Cardinality(Upto(l)) # Cardinality(Upto(k))
    BY <2>3, <2>5, <2>6, FS_Subset
  <2>8. QED
    BY <2>7
<1>4. \A k \in K : rank[k] = Cardinality({i \in K : i <= k})
  OBVIOUS
<1>5. rank \in [K -> 1..n]
  BY <1>2
<1> HIDE DEF rank
<1>6. rank \in Injection(K, 1..n)
  <2>1. ASSUME NEW k \in K, NEW l \in K, rank[k] = rank[l] PROVE k = l
    <3>1. k \in Nat /\ l \in Nat /\ ~(k < l) /\ ~(l < k)
      BY <1>0, <1>3, <2>1
    <3>2. QED
      BY <3>1
  <2>2. QED
    BY <1>5, <2>1 DEF Injection, IsInjective
<1>7. IsFiniteSet(1..n) /\ Cardinality(1..n) = n
  BY <1>1, FS_Interval
<1>8. rank \in Surjection(K, 1..n)
  BY <1>6, <1>7, FS_Injection
<1>9. \A j \in 1..n : \E k \in K : rank[k] = j
  BY <1>8 DEF Surjection
<1> DEFINE c(j) == CHOOSE k \in K : Cardinality({i \in K : i <= k}) = j
<1>10. ASSUME NEW j \in 1..n PROVE c(j) \in K /\ rank[c(j)] = j
  <2>1. \E k \in K : Cardinality({i \in K : i <= k}) = j
    BY <1>4, <1>9
  <2>2. c(j) \in K /\ Cardinality({i \in K : i <= c(j)}) = j
    BY <2>1
  <2>3. QED
    BY <1>4, <2>2
<1>11. Keep(q, K) = [j \in 1..n |-> q[c(j)]]
  BY DEF Keep
<1> HIDE DEF c, n
<1>12. \A k \in K : q[k] \in S
  OBVIOUS
<1>13. Keep(q, K) \in Seq(S) /\ Len(Keep(q, K)) = n
  <2> DEFINE p == [j \in 1..n |-> q[c(j)]]
  <2>1. \A j \in 1..n : q[c(j)] \in S
    BY <1>10, <1>12
  <2>2. p \in [1..n -> S]
    BY <2>1
  <2>3. Keep(q, K) = p
    BY <1>11
  <2> HIDE DEF p
  <2>4. p \in Seq(S) /\ Len(p) = n
    BY <1>1, <2>2
  <2>5. QED
    BY <2>3, <2>4
<1>14. ASSUME NEW k \in K PROVE \E j \in 1..n : Keep(q, K)[j] = q[k]
  <2>1. rank[k] \in 1..n
    BY <1>5
  <2>2. c(rank[k]) = k
    BY <1>6, <1>10, <2>1 DEF Injection, IsInjective
  <2>3. QED
    BY <1>11, <2>1, <2>2
<1>15. \A j \in 1..n : \E k \in K : Keep(q, K)[j] = q[k]
  BY <1>10, <1>11
<1>16. QED
  BY <1>13, <1>14, <1>15

-----------------------------------------------------------------------------
(***************************************************************************)
(* The calls of a handler                                                  *)
(***************************************************************************)

LEMMA StageOf ==
  ASSUME NEW S, NEW h \in Seq(S), NEW q \in Stages(h)
  PROVE  \E k \in 1..Len(h) :
            /\ q # <<>> /\ Head(q) = h[k]
            /\ k = Len(h) => Tail(q) = <<>>
            /\ k # Len(h) => Tail(q) # <<>> /\ Tail(q) \in Stages(h) /\ Head(Tail(q)) = h[k + 1]
<1>1. PICK k \in 1..Len(h) : q = SubSeq(h, k, Len(h))
  BY DEF Stages
<1>2. Len(h) \in Nat /\ k \in Int /\ Len(h) \in Int /\ Len(h) \in k..Len(h)
  OBVIOUS
<1>3. \A j \in 1..Len(h) : h[j] \in S
  OBVIOUS
<1>4. q \in Seq(S) /\ Len(q) = Len(h) - k + 1
  BY <1>1, <1>2, <1>3, SubSeqProperties
<1>5. q # <<>>
  BY <1>2, <1>4
<1>6. Head(q) = h[k] /\ Tail(q) = SubSeq(h, k + 1, Len(h))
  BY <1>1, <1>2, HeadTailOfSubSeq
<1>7. CASE k = Len(h)
  <2>1. SubSeq(h, k + 1, Len(h)) = <<>>
    BY <1>2, <1>7, SubSeqEmpty
  <2>2. QED
    BY <1>5, <1>6, <1>7, <2>1
<1>8. CASE k # Len(h)
  <2>1. k + 1 \in 1..Len(h) /\ Len(h) \in (k + 1)..Len(h)
    BY <1>2, <1>8
  <2>2. Head(SubSeq(h, k + 1, Len(h))) = h[k + 1]
    BY <2>1, HeadTailOfSubSeq
  <2>3. Tail(q) \in Stages(h)
    BY <1>6, <2>1 DEF Stages
  <2>4. Len(Tail(q)) = Len(h) - k /\ Len(h) - k > 0
    BY <1>2, <1>4, <1>5, <1>8
  <2>5. Tail(q) # <<>>
    <3>1. Len(<<>>) = 0
      OBVIOUS
    <3>2. Len(h) - k # 0
      BY <1>2, <2>4
    <3>3. QED
      BY <2>4, <3>1, <3>2, Zenon
  <2>6. QED
    BY <1>5, <1>6, <1>8, <2>2, <2>3, <2>5
<1>9. QED
  BY <1>7, <1>8

LEMMA WholeIsStage ==
  ASSUME NEW S, NEW h \in Seq(S), h # <<>>
  PROVE  h \in Stages(h)
<1>1. SubSeq(h, 1, Len(h)) = h
  BY SubSeqFull
<1>2. 1 \in 1..Len(h)
  OBVIOUS
<1>3. QED
  BY <1>1, <1>2 DEF Stages

Writes == {"insertBook", "replaceGroups", "pushGroup", "addToGroup", "pullMember", "pullGroup",
           "joinGroup", "setCustomer", "leaveOldGroup", "pullCustomer", "pullFromGroups", "insertMsg"}
AllCalls == Queries \cup Writes \cup {"push"}

\* The handlers in which a call occurs.
Caller(op, call) ==
    /\ call = "findBook" => op \in {"userPost", "groupPost", "groupPut"}
    /\ call = "insertBook" => op \in {"userPost", "groupPost"}
    /\ call \in {"findGroup", "replaceGroups", "addToGroup"} => op = "userPost"
    /\ call = "pushGroup" => op = "groupPost"
    /\ call = "pullMember" => op = "groupPut"
    /\ call = "pullGroup" => op = "groupDelete"
    /\ call \in {"joinGroup", "setCustomer", "leaveOldGroup"} => op = "userPut"
    /\ call \in {"pullCustomer", "pullFromGroups"} => op = "userDelete"
    /\ call = "readGroup" => op = "groupMessage"
    /\ call \in {"insertMsg", "push"} => op \in Messaging
    /\ call \in AllCalls

\* The calls that may follow one another.
Follows(op, call, next) ==
    /\ call \notin {"replaceGroups", "push"}
    /\ next = "push" <=> call = "insertMsg"
    /\ (next = "insertMsg" /\ op = "groupMessage") => call = "readGroup"
    /\ next \in {"findGroup", "pushGroup"} => call = "findBook"
    /\ next \notin {"insertBook", "replaceGroups"}

\* A handler as a sequence of calls with these properties.
WellFormed(op, h) ==
    /\ h \in Seq(AllCalls) /\ h # <<>>
    /\ \A k \in 1..Len(h) : Caller(op, h[k])
    /\ \A k \in 1..Len(h) : k # Len(h) => Follows(op, h[k], h[k + 1])

LEMMA OneCall ==
  ASSUME NEW op, NEW a \in AllCalls, Caller(op, a)
  PROVE  WellFormed(op, <<a>>) /\ <<a>> # <<>> /\ Head(<<a>>) = a /\ <<a>> \in Stages(<<a>>)
<1>1. PICK h : h = <<a>>
  OBVIOUS
<1>2. Len(h) = 1 /\ h[1] = a /\ h \in Seq(AllCalls) /\ h # <<>> /\ Head(h) = a
  BY <1>1
<1>3. WellFormed(op, h)
  BY <1>2 DEF WellFormed
<1>4. h \in Stages(h)
  BY <1>2, WholeIsStage
<1>5. QED
  BY <1>1, <1>2, <1>3, <1>4

LEMMA TwoCalls ==
  ASSUME NEW op, NEW a \in AllCalls, NEW b \in AllCalls,
         Caller(op, a), Caller(op, b), Follows(op, a, b)
  PROVE  WellFormed(op, <<a, b>>)
<1>1. \A k \in 1..2 : k = 1 \/ k = 2
  OBVIOUS
<1>2. PICK h : h = <<a, b>>
  OBVIOUS
<1>3. Len(h) = 2 /\ h[1] = a /\ h[2] = b /\ h[1 + 1] = b
  BY <1>2
<1>4. h \in Seq(AllCalls) /\ h # <<>>
  BY <1>2
<1>5. WellFormed(op, h)
  BY <1>1, <1>3, <1>4 DEF WellFormed
<1>6. QED
  BY <1>2, <1>5

LEMMA ThreeCalls ==
  ASSUME NEW op, NEW a \in AllCalls, NEW b \in AllCalls, NEW c \in AllCalls,
         Caller(op, a), Caller(op, b), Caller(op, c), Follows(op, a, b), Follows(op, b, c)
  PROVE  WellFormed(op, <<a, b, c>>)
<1>1. \A k \in 1..3 : k = 1 \/ k = 2 \/ k = 3
  OBVIOUS
<1>2. PICK h : h = <<a, b, c>>
  OBVIOUS
<1>3. Len(h) = 3 /\ h[1] = a /\ h[2] = b /\ h[3] = c /\ h[1 + 1] = b /\ h[2 + 1] = c
  BY <1>2
<1>4. h \in Seq(AllCalls) /\ h # <<>>
  BY <1>2
<1>5. WellFormed(op, h)
  BY <1>1, <1>3, <1>4 DEF WellFormed
<1>6. QED
  BY <1>2, <1>5

LEMMA FourCalls ==
  ASSUME NEW op, NEW a \in AllCalls, NEW b \in AllCalls, NEW c \in AllCalls, NEW d \in AllCalls,
         Caller(op, a), Caller(op, b), Caller(op, c), Caller(op, d),
         Follows(op, a, b), Follows(op, b, c), Follows(op, c, d)
  PROVE  WellFormed(op, <<a, b, c, d>>)
<1>1. \A k \in 1..4 : k = 1 \/ k = 2 \/ k = 3 \/ k = 4
  OBVIOUS
<1>2. PICK h : h = <<a, b, c, d>>
  OBVIOUS
<1>3. /\ Len(h) = 4 /\ h[1] = a /\ h[2] = b /\ h[3] = c /\ h[4] = d
      /\ h[1 + 1] = b /\ h[2 + 1] = c /\ h[3 + 1] = d
  BY <1>2
<1>4. h \in Seq(AllCalls) /\ h # <<>>
  BY <1>2
<1>5. WellFormed(op, h)
  BY <1>1, <1>3, <1>4 DEF WellFormed
<1>6. QED
  BY <1>2, <1>5

\* The calls with which a handler may start.
Starts == {"findSeller", "findUser", "findBook", "findCustomer"}

LEMMA HandlersWellFormed ==
  ASSUME NEW r, r.op \in Ops
  PROVE  WellFormed(r.op, Handler(r)) /\ Head(Handler(r)) \in Starts
<1> USE DEF Caller, Follows, AllCalls, Writes, Queries, Messaging
<1>1. CASE r.op = "userPost"
  <2>1. Handler(r) = UserPost
    BY <1>1 DEF Handler
  <2>2. WellFormed(r.op, UserPost)
    BY <1>1, FourCalls DEF UserPost
  <2>3. Head(UserPost) \in Starts
    BY DEF UserPost, Starts
  <2>4. QED
    BY <2>1, <2>2, <2>3, Zenon
<1>2. CASE r.op = "userPut" /\ r.group = None
  <2>1. Handler(r) = UserPutWithoutGroup
    BY <1>2 DEF Handler
  <2>2. WellFormed(r.op, UserPutWithoutGroup)
    BY <1>2, TwoCalls DEF UserPutWithoutGroup
  <2>3. Head(UserPutWithoutGroup) \in Starts
    BY DEF UserPutWithoutGroup, Starts
  <2>4. QED
    BY <2>1, <2>2, <2>3, Zenon
<1>3. CASE r.op = "userPut" /\ r.group # None
  <2>1. Handler(r) = UserPut
    BY <1>3 DEF Handler
  <2>2. WellFormed(r.op, UserPut)
    BY <1>3, FourCalls DEF UserPut
  <2>3. Head(UserPut) \in Starts
    BY DEF UserPut, Starts
  <2>4. QED
    BY <2>1, <2>2, <2>3, Zenon
<1>4. CASE r.op = "userDelete"
  <2>1. Handler(r) = UserDelete
    BY <1>4 DEF Handler
  <2>2. WellFormed(r.op, UserDelete)
    BY <1>4, ThreeCalls DEF UserDelete
  <2>3. Head(UserDelete) \in Starts
    BY DEF UserDelete, Starts
  <2>4. QED
    BY <2>1, <2>2, <2>3, Zenon
<1>5. CASE r.op = "groupPost"
  <2>1. Handler(r) = UserGroupPost
    BY <1>5 DEF Handler
  <2>2. WellFormed(r.op, UserGroupPost)
    BY <1>5, ThreeCalls DEF UserGroupPost
  <2>3. Head(UserGroupPost) \in Starts
    BY DEF UserGroupPost, Starts
  <2>4. QED
    BY <2>1, <2>2, <2>3, Zenon
<1>6. CASE r.op = "groupPut"
  <2>1. Handler(r) = UserGroupPut
    BY <1>6 DEF Handler
  <2>2. WellFormed(r.op, UserGroupPut)
    BY <1>6, TwoCalls DEF UserGroupPut
  <2>3. Head(UserGroupPut) \in Starts
    BY DEF UserGroupPut, Starts
  <2>4. QED
    BY <2>1, <2>2, <2>3, Zenon
<1>7. CASE r.op = "groupDelete"
  <2>1. Handler(r) = UserGroupDelete
    BY <1>7 DEF Handler
  <2>2. WellFormed(r.op, UserGroupDelete)
    BY <1>7, TwoCalls DEF UserGroupDelete
  <2>3. Head(UserGroupDelete) \in Starts
    BY DEF UserGroupDelete, Starts
  <2>4. QED
    BY <2>1, <2>2, <2>3, Zenon
<1>8. CASE r.op = "groupMessage"
  <2>1. Handler(r) = GroupMessagePost
    BY <1>8 DEF Handler
  <2>2. WellFormed(r.op, GroupMessagePost)
    BY <1>8, FourCalls DEF GroupMessagePost
  <2>3. Head(GroupMessagePost) \in Starts
    BY DEF GroupMessagePost, Starts
  <2>4. QED
    BY <2>1, <2>2, <2>3, Zenon
<1>9. CASE r.op = "userMessage"
  <2>1. Handler(r) = UserMessagePost
    BY <1>9 DEF Handler
  <2>2. WellFormed(r.op, UserMessagePost)
    BY <1>9, FourCalls DEF UserMessagePost
  <2>3. Head(UserMessagePost) \in Starts
    BY DEF UserMessagePost, Starts
  <2>4. QED
    BY <2>1, <2>2, <2>3, Zenon
<1>10. QED
  BY <1>1, <1>2, <1>3, <1>4, <1>5, <1>6, <1>7, <1>8, <1>9 DEF Ops

LEMMA ProgramsWellFormed ==
  ASSUME NEW r, r.op \in Ops, NEW h \in Programs(r)
  PROVE  WellFormed(r.op, h)
<1>1. CASE h = Handler(r)
  BY <1>1, HandlersWellFormed
<1>2. CASE h = <<"insertBook">>
  <2>1. Caller(r.op, "insertBook") /\ "insertBook" \in AllCalls
    BY <1>2 DEF Programs, Caller, AllCalls, Writes
  <2>2. QED
    BY <1>2, <2>1, OneCall
<1>3. CASE h = <<"replaceGroups">>
  <2>1. Caller(r.op, "replaceGroups") /\ "replaceGroups" \in AllCalls
    BY <1>3 DEF Programs, Caller, AllCalls, Writes
  <2>2. QED
    BY <1>3, <2>1, OneCall
<1>4. QED
  BY <1>1, <1>2, <1>3 DEF Programs

LEMMA StageFacts ==
  ASSUME NEW r, r.op \in Ops, NEW q, At(q, r)
  PROVE  /\ q # <<>> /\ Caller(r.op, Head(q))
         /\ Tail(q) # <<>> => At(Tail(q), r) /\ Follows(r.op, Head(q), Head(Tail(q)))
<1>1. PICK h \in Programs(r) : q \in Stages(h)
  BY DEF At
<1>2. WellFormed(r.op, h)
  BY <1>1, ProgramsWellFormed
<1>3. h \in Seq(AllCalls)
  BY <1>2 DEF WellFormed
<1>4. PICK k \in 1..Len(h) :
         /\ q # <<>> /\ Head(q) = h[k]
         /\ k = Len(h) => Tail(q) = <<>>
         /\ k # Len(h) => Tail(q) # <<>> /\ Tail(q) \in Stages(h) /\ Head(Tail(q)) = h[k + 1]
  BY <1>1, <1>3, StageOf
<1>5. Caller(r.op, h[k]) /\ (k # Len(h) => Follows(r.op, h[k], h[k + 1]))
  BY <1>2 DEF WellFormed
<1>6. QED
  BY <1>1, <1>4, <1>5 DEF At

LEMMA FirstStage ==
  ASSUME NEW r, r.op \in Ops
  PROVE  /\ At(Handler(r), r) /\ Handler(r) # <<>>
         /\ Head(Handler(r)) \in Starts
<1>1. WellFormed(r.op, Handler(r)) /\ Head(Handler(r)) \in Starts
  BY HandlersWellFormed
<1>2. Handler(r) # <<>> /\ Handler(r) \in Seq(AllCalls)
  BY <1>1 DEF WellFormed
<1>3. Handler(r) \in Stages(Handler(r))
  BY <1>2, WholeIsStage
<1>4. Handler(r) # <<"insertBook">> /\ Handler(r) # <<"replaceGroups">>
  BY <1>1 DEF Starts
<1>5. Handler(r) \in Programs(r)
  BY <1>4 DEF Programs
<1>6. QED
  BY <1>1, <1>2, <1>3, <1>5 DEF At

\* What a handler does instead when a query finds nothing.
LEMMA OtherwiseFacts ==
  ASSUME NEW r, r.op \in Ops, NEW call, Caller(r.op, call), NEW q, q = Otherwise(call, r), q # <<>>
  PROVE  /\ At(q, r)
         /\ \/ call = "findBook" /\ Head(q) = "insertBook" /\ r.op \in {"userPost", "groupPost"}
            \/ call = "findGroup" /\ Head(q) = "replaceGroups" /\ r.op = "userPost"
<1>1. \/ call = "findBook" /\ r.op # "groupPut" /\ q = <<"insertBook">>
      \/ call = "findGroup" /\ q = <<"replaceGroups">>
  BY DEF Otherwise
<1>2. CASE call = "findBook" /\ r.op # "groupPut" /\ q = <<"insertBook">>
  <2>1. r.op \in {"userPost", "groupPost"}
    BY <1>2 DEF Caller
  <2>2. Caller(r.op, "insertBook") /\ "insertBook" \in AllCalls
    BY <2>1 DEF Caller, AllCalls, Writes
  <2>3. q \in Stages(q) /\ Head(q) = "insertBook"
    BY <1>2, <2>2, OneCall
  <2>4. q \in Programs(r)
    <3>1. q # <<"replaceGroups">>
      BY <1>2
    <3>2. QED
      BY <1>2, <2>1, <3>1 DEF Programs
  <2>5. QED
    BY <1>2, <2>1, <2>3, <2>4 DEF At
<1>3. CASE call = "findGroup" /\ q = <<"replaceGroups">>
  <2>1. r.op = "userPost"
    BY <1>3 DEF Caller
  <2>2. Caller(r.op, "replaceGroups") /\ "replaceGroups" \in AllCalls
    BY <2>1 DEF Caller, AllCalls, Writes
  <2>3. q \in Stages(q) /\ Head(q) = "replaceGroups"
    BY <1>3, <2>2, OneCall
  <2>4. q \in Programs(r)
    <3>1. q # <<"insertBook">>
      BY <1>3
    <3>2. QED
      BY <1>3, <2>1, <3>1 DEF Programs
  <2>5. QED
    BY <1>3, <2>1, <2>3, <2>4 DEF At
<1>4. QED
  BY <1>1, <1>2, <1>3

-----------------------------------------------------------------------------
(***************************************************************************)
(* The updates of a seller's documents                                     *)
(***************************************************************************)

LEMMA BookFields ==
  ASSUME NEW b \in Book
  PROVE  b.users \in SUBSET Users /\ b.groups \in Seq(Group)
BY DEF Book

LEMMA GroupFields ==
  ASSUME NEW g \in Group
  PROVE  g.name \in Names /\ g.id \in GroupIds \cup {None} /\ g.users \in Seq(Users)
BY DEF Group

LEMMA BookUpdated ==
  ASSUME NEW S, NEW T, NEW b \in [users : S, groups : T], NEW y
  PROVE  [b EXCEPT !.groups = y] = [users |-> b.users, groups |-> y]
OBVIOUS

\* The j-th group of a document gets the users us, no group changes otherwise,
\* and the document loses no user.
Regrouped(b, c, j, us) ==
    /\ c \in Book /\ b.users \subseteq c.users
    /\ Len(c.groups) = Len(b.groups)
    /\ \A i \in 1..Len(b.groups) : /\ c.groups[i].name = b.groups[i].name
                                   /\ c.groups[i].id = b.groups[i].id
                                   /\ i # j => c.groups[i].users = b.groups[i].users
    /\ c.groups[j].users = us

LEMMA RegroupedBy ==
  ASSUME NEW b \in Book, NEW j \in 1..Len(b.groups), NEW us \in Seq(Users),
         NEW vs \in SUBSET Users, b.users \subseteq vs,
         NEW c, c = [users |-> vs, groups |-> [b.groups EXCEPT ![j] = [b.groups[j] EXCEPT !.users = us]]]
  PROVE  Regrouped(b, c, j, us)
<1>1. b.groups \in Seq(Group) /\ b.users \in SUBSET Users
  BY BookFields
<1>2. b.groups[j] \in Group
  BY <1>1
<1>3. PICK g : g = [b.groups[j] EXCEPT !.users = us]
  OBVIOUS
<1>4. g \in Group /\ g.name = b.groups[j].name /\ g.id = b.groups[j].id /\ g.users = us
  BY <1>2, <1>3 DEF Group
<1>5. PICK gs : gs = [b.groups EXCEPT ![j] = g]
  OBVIOUS
<1>6. /\ gs \in Seq(Group) /\ Len(gs) = Len(b.groups) /\ gs[j] = g
      /\ \A i \in 1..Len(b.groups) : i # j => gs[i] = b.groups[i]
  BY <1>1, <1>4, <1>5, Replaced
<1>7. c = [users |-> vs, groups |-> gs]
  BY <1>3, <1>5
<1>8. c \in Book /\ c.users = vs /\ c.groups = gs
  <2>1. vs \in SUBSET Users /\ gs \in Seq(Group)
    BY <1>6
  <2>2. QED
    BY ONLY <1>7, <2>1 DEF Book
<1>9. QED
  BY <1>4, <1>6, <1>8 DEF Regrouped

\* The positional "$" is a group with the name or the identifier of the query.
LEMMA SelectedFacts ==
  ASSUME NEW b \in Book, NEW field \in {"name", "id"}, NEW v, GroupsWith(b, field, v) # {}
  PROVE  Selected(b, field, v) \in 1..Len(b.groups) /\ b.groups[Selected(b, field, v)][field] = v
<1>1. b.groups \in Seq(Group)
  BY BookFields
<1>2. DOMAIN b.groups = 1..Len(b.groups) /\ Len(b.groups) \in Nat
  BY <1>1
<1>3. GroupsWith(b, field, v) \subseteq Nat
  BY <1>2 DEF GroupsWith
<1>4. PICK j : j = First(GroupsWith(b, field, v))
  OBVIOUS
<1>5. j \in GroupsWith(b, field, v)
  BY <1>3, <1>4, FirstFacts
<1>6. j \in 1..Len(b.groups) /\ b.groups[j][field] = v
  BY <1>2, <1>5 DEF GroupsWith
<1>7. QED
  BY <1>4, <1>6 DEF Selected

LEMMA NewGroupFacts ==
  ASSUME NEW r, Proper(r), r.op \in {"userPost", "groupPost"}, NEW g \in GroupIds \cup {None}
  PROVE  /\ NewGroup(r, g) \in Group
         /\ NewGroup(r, g).name = r.name
         /\ NewGroup(r, g).id \in {g, None}
         /\ r.group = "given" => NewGroup(r, g).id = None
         /\ r.op = "userPost" => NewGroup(r, g).users = <<r.user>>
<1>1. r.name \in Names /\ (r.op = "userPost" => r.user \in Users)
  BY DEF Proper
<1>2. r.list \in Seq(Users)
  <2>1. r.list \in Members
    BY DEF Proper, Request
  <2>2. PICK n \in 0..MaxMembers : r.list \in [1..n -> Users]
    BY <2>1 DEF Members
  <2>3. n \in Nat
    OBVIOUS
  <2>4. QED
    BY <2>2, <2>3
<1>3. r.op = "userPost" => <<r.user>> \in Seq(Users)
  BY <1>1
<1>4. QED
  BY <1>1, <1>2, <1>3 DEF NewGroup, Group

-----------------------------------------------------------------------------
(***************************************************************************)
(* What a call does to the documents of its seller                         *)
(***************************************************************************)

In(q, u) == \E k \in 1..Len(q) : q[k] = u

LEMMA AddToFacts ==
  ASSUME NEW us \in Seq(Users), NEW u \in Users
  PROVE  /\ AddTo(us, u) \in Seq(Users) /\ In(AddTo(us, u), u)
         /\ \A v : In(us, v) => In(AddTo(us, u), v)
<1>1. CASE Contains(us, u)
  <2>1. AddTo(us, u) = us
    BY <1>1 DEF AddTo
  <2>2. In(us, u)
    BY <1>1 DEF Contains, In
  <2>3. QED
    BY <2>1, <2>2
<1>2. CASE ~Contains(us, u)
  <2>1. AddTo(us, u) = Append(us, u)
    BY <1>2 DEF AddTo
  <2>2. In(Append(us, u), u)
    <3>1. Len(us) + 1 \in 1..Len(Append(us, u)) /\ Append(us, u)[Len(us) + 1] = u
      OBVIOUS
    <3>2. QED
      BY <3>1 DEF In
  <2>3. \A v : In(us, v) => In(Append(us, u), v)
    BY Appended DEF In
  <2>4. QED
    BY <2>1, <2>2, <2>3
<1>3. QED
  BY <1>1, <1>2

LEMMA AppendedIn ==
  ASSUME NEW us \in Seq(Users), NEW u \in Users
  PROVE  /\ Append(us, u) \in Seq(Users)
         /\ \A v : In(us, v) => In(Append(us, u), v)
BY Appended DEF In

Pulled(us, u) == Keep(us, {k \in DOMAIN us : us[k] # u})

LEMMA PulledFacts ==
  ASSUME NEW us \in Seq(Users), NEW u
  PROVE  /\ Pulled(us, u) \in Seq(Users)
         /\ \A v : v # u /\ In(us, v) => In(Pulled(us, u), v)
<1>0. PICK ks : ks = Pulled(us, u)
  OBVIOUS
<1>1. PICK K : K = {k \in DOMAIN us : us[k] # u}
  OBVIOUS
<1>2. K \in SUBSET (1..Len(us)) /\ ks = Keep(us, K)
  BY <1>0, <1>1 DEF Pulled
<1>3. ks \in Seq(Users) /\ \A k \in K : \E j \in 1..Len(ks) : ks[j] = us[k]
  <2>1. us \in Seq(Users) /\ K \in SUBSET (1..Len(us))
    BY <1>2
  <2>2. Keep(us, K) \in Seq(Users) /\ \A k \in K : \E j \in 1..Len(Keep(us, K)) : Keep(us, K)[j] = us[k]
    BY ONLY <2>1, Kept
  <2>3. QED
    BY <1>2, <2>2, Zenon
<1>4. ASSUME NEW v, v # u, In(us, v) PROVE In(ks, v)
  <2>1. PICK k \in 1..Len(us) : us[k] = v
    BY <1>4 DEF In
  <2>2. k \in K
    BY <1>1, <1>4, <2>1
  <2>3. QED
    BY <1>3, <2>1, <2>2 DEF In
<1>5. QED
  BY <1>0, <1>3, <1>4

LEMMA AddToGroupFacts ==
  ASSUME NEW b \in Book, NEW r, r.user \in Users, GroupsWith(b, "name", r.name) # {},
         NEW c, c = AddToGroup(b, r)
  PROVE  \E j \in 1..Len(b.groups) :
            b.groups[j].name = r.name /\ Regrouped(b, c, j, AddTo(b.groups[j].users, r.user))
<1>1. PICK j : j = Selected(b, "name", r.name)
  OBVIOUS
<1>2. j \in 1..Len(b.groups) /\ b.groups[j].name = r.name
  BY <1>1, SelectedFacts
<1>3. b.users \in SUBSET Users /\ b.groups[j] \in Group
  BY <1>2, BookFields
<1>4. PICK os, us : os = b.groups[j].users /\ us = AddTo(os, r.user)
  OBVIOUS
<1>5. os \in Seq(Users)
  BY <1>3, <1>4, GroupFields
<1>6. us \in Seq(Users)
  BY <1>3, <1>4, <1>5, AddToFacts
<1>7. PICK vs, gs : vs = b.users \cup {r.user} /\ gs = [b.groups EXCEPT ![j] = [b.groups[j] EXCEPT !.users = us]]
  OBVIOUS
<1>8. c = [users |-> vs, groups |-> gs]
  BY <1>1, <1>4, <1>7 DEF AddToGroup
<1>9. Regrouped(b, c, j, us)
  BY <1>2, <1>3, <1>6, <1>7, <1>8, RegroupedBy
<1>10. QED
  BY <1>2, <1>4, <1>6, <1>9

LEMMA PullMemberFacts ==
  ASSUME NEW b \in Book, NEW r, GroupsWith(b, "name", r.name) # {}, NEW c, c = PullMember(b, r)
  PROVE  \E j \in 1..Len(b.groups), us \in Seq(Users) :
            /\ b.groups[j].name = r.name /\ Regrouped(b, c, j, us)
            /\ \A v : v # r.user /\ In(b.groups[j].users, v) => In(us, v)
<1>1. PICK j : j = Selected(b, "name", r.name)
  OBVIOUS
<1>2. j \in 1..Len(b.groups) /\ b.groups[j].name = r.name
  BY <1>1, SelectedFacts
<1>3. b.users \in SUBSET Users /\ b.groups[j] \in Group
  BY <1>2, BookFields
<1>4. PICK os, us : os = b.groups[j].users /\ us = Pulled(os, r.user)
  OBVIOUS
<1>5. os \in Seq(Users)
  BY <1>3, <1>4, GroupFields
<1>6. us \in Seq(Users) /\ \A v : v # r.user /\ In(os, v) => In(us, v)
  BY <1>4, <1>5, PulledFacts
<1>7. PICK gs : gs = [b.groups EXCEPT ![j] = [b.groups[j] EXCEPT !.users = us]]
  OBVIOUS
<1>8. c = [users |-> b.users, groups |-> gs]
  <2>1. b \in [users : SUBSET Users, groups : Seq(Group)]
    BY DEF Book
  <2>2. c = [b EXCEPT !.groups = gs]
    BY <1>1, <1>4, <1>7 DEF PullMember, Pulled
  <2>3. QED
    BY ONLY <2>1, <2>2, BookUpdated
<1>9. Regrouped(b, c, j, us)
  BY <1>2, <1>3, <1>6, <1>7, <1>8, RegroupedBy
<1>10. QED
  BY <1>2, <1>4, <1>6, <1>9

LEMMA JoinGroupFacts ==
  ASSUME NEW b \in Book, NEW r, r.user \in Users, GroupsWith(b, "id", r.group) # {},
         NEW c, c = JoinGroup(b, r)
  PROVE  \E j \in 1..Len(b.groups), us \in Seq(Users) :
            Regrouped(b, c, j, us) /\ \A v : In(b.groups[j].users, v) => In(us, v)
<1>1. PICK j : j = Selected(b, "id", r.group)
  OBVIOUS
<1>2. j \in 1..Len(b.groups)
  BY <1>1, SelectedFacts
<1>3. b.users \in SUBSET Users /\ b.groups[j] \in Group
  BY <1>2, BookFields
<1>4. PICK os, us : os = b.groups[j].users /\ us = Append(os, r.user)
  OBVIOUS
<1>5. os \in Seq(Users)
  BY <1>3, <1>4, GroupFields
<1>6. us \in Seq(Users) /\ \A v : In(os, v) => In(us, v)
  BY <1>4, <1>5, AppendedIn
<1>7. PICK gs : gs = [b.groups EXCEPT ![j] = [b.groups[j] EXCEPT !.users = us]]
  OBVIOUS
<1>8. c = [users |-> b.users, groups |-> gs]
  <2>1. b \in [users : SUBSET Users, groups : Seq(Group)]
    BY DEF Book
  <2>2. c = [b EXCEPT !.groups = gs]
    BY <1>1, <1>4, <1>7 DEF JoinGroup
  <2>3. QED
    BY ONLY <2>1, <2>2, BookUpdated
<1>9. Regrouped(b, c, j, us)
  BY <1>2, <1>3, <1>6, <1>7, <1>8, RegroupedBy
<1>10. QED
  BY <1>2, <1>4, <1>6, <1>9

LEMMA RegroupedLists ==
  ASSUME NEW b, NEW j \in 1..Len(b.groups), NEW us, NEW c, Regrouped(b, c, j, us)
  PROVE  /\ \A n, u : /\ Lists(b.groups, n, u)
                      /\ n = b.groups[j].name /\ In(b.groups[j].users, u) => In(us, u)
                      => Lists(c.groups, n, u)
         /\ \A u : In(us, u) => Lists(c.groups, b.groups[j].name, u)
         /\ \A x : HasId(c.groups, x) => HasId(b.groups, x)
<1>1. PICK os, ns : os = b.groups /\ ns = c.groups
  OBVIOUS
<1>2. j \in 1..Len(os) /\ Len(ns) = Len(os) /\ ns[j].users = us
  BY <1>1 DEF Regrouped
<1>3. \A i \in 1..Len(os) : ns[i].name = os[i].name /\ ns[i].id = os[i].id /\ (i # j => ns[i].users = os[i].users)
  BY <1>1 DEF Regrouped
<1>4. ASSUME NEW n, NEW u, Lists(os, n, u), n = os[j].name /\ In(os[j].users, u) => In(us, u)
      PROVE  Lists(ns, n, u)
  <2>1. PICK i \in 1..Len(os) : os[i].name = n /\ In(os[i].users, u)
    BY <1>4 DEF Lists, In
  <2>2. ns[i].name = n /\ In(ns[i].users, u)
    BY <1>2, <1>3, <1>4, <2>1
  <2>3. QED
    BY <1>2, <2>2 DEF Lists, In
<1>5. ASSUME NEW u, In(us, u) PROVE Lists(ns, os[j].name, u)
  BY <1>2, <1>3, <1>5 DEF Lists, In
<1>6. ASSUME NEW x, HasId(ns, x) PROVE HasId(os, x)
  BY <1>2, <1>3, <1>6 DEF HasId
<1>7. QED
  BY <1>1, <1>4, <1>5, <1>6

\* A list of groups that ends with the new group.
LEMMA NewGroupListed ==
  ASSUME CustomersAssumption, NEW r, Proper(r), r.op \in {"userPost", "groupPost"},
         NEW g \in GroupIds \cup {None}, NEW gs, NEW n \in Nat, Len(gs) = n + 1, gs[n + 1] = NewGroup(r, g)
  PROVE  /\ r.op = "userPost" => Lists(gs, r.name, r.user)
         /\ \A x \in GroupIds : HasId(gs, x) =>
               (\E j \in 1..n : gs[j].id = x) \/ (r.group # "given" /\ x = g)
<1>1. PICK e : e = NewGroup(r, g)
  OBVIOUS
<1>2. /\ e.name = r.name /\ e.id \in {g, None} /\ (r.group = "given" => e.id = None)
      /\ r.op = "userPost" => e.users = <<r.user>>
  BY <1>1, NewGroupFacts
<1>3. n + 1 \in 1..Len(gs) /\ gs[n + 1] = e /\ \A j \in 1..Len(gs) : j \in 1..n \/ j = n + 1
  BY <1>1
<1>4. ASSUME r.op = "userPost" PROVE Lists(gs, r.name, r.user)
  <2>1. PICK us : us = <<r.user>>
    OBVIOUS
  <2>2. Len(us) = 1 /\ us[1] = r.user
    BY <2>1
  <2>3. 1 \in 1..Len(us)
    BY <2>2
  <2>4. QED
    BY <1>2, <1>3, <1>4, <2>1, <2>2, <2>3 DEF Lists
<1>5. \A x \in GroupIds : x # None
  BY DEF CustomersAssumption
<1>6. QED
  BY <1>2, <1>3, <1>4, <1>5 DEF HasId

\* One new group, in the place of what there was.
LEMMA AloneIsListed ==
  ASSUME CustomersAssumption, NEW r, Proper(r), r.op \in {"userPost", "groupPost"},
         NEW g \in GroupIds \cup {None}, NEW gs, gs = <<NewGroup(r, g)>>
  PROVE  /\ r.op = "userPost" => Lists(gs, r.name, r.user)
         /\ \A x \in GroupIds : HasId(gs, x) => r.group # "given" /\ x = g
<1>1. PICK n \in Nat : n = 0
  OBVIOUS
<1>2. /\ n \in Nat /\ Len(gs) = n + 1 /\ gs[n + 1] = NewGroup(r, g)
      /\ CustomersAssumption /\ Proper(r) /\ r.op \in {"userPost", "groupPost"} /\ g \in GroupIds \cup {None}
  BY <1>1
<1>3. \A j \in 1..n : FALSE
  BY <1>1
<1>4. /\ r.op = "userPost" => Lists(gs, r.name, r.user)
      /\ \A x \in GroupIds : HasId(gs, x) =>
            (\E j \in 1..n : gs[j].id = x) \/ (r.group # "given" /\ x = g)
  BY ONLY <1>2, NewGroupListed
<1>5. QED
  BY <1>3, <1>4, Zenon

PulledGroups(gs, x) == Keep(gs, {j \in DOMAIN gs : gs[j].id # x})

LEMMA PulledGroupsFacts ==
  ASSUME NEW gs \in Seq(Group), NEW x
  PROVE  /\ PulledGroups(gs, x) \in Seq(Group)
         /\ ~HasId(PulledGroups(gs, x), x)
         /\ \A y : HasId(PulledGroups(gs, x), y) => HasId(gs, y)
<1>0. PICK ks : ks = PulledGroups(gs, x)
  OBVIOUS
<1>1. PICK K : K = {j \in DOMAIN gs : gs[j].id # x}
  OBVIOUS
<1>2. K \in SUBSET (1..Len(gs)) /\ ks = Keep(gs, K)
  BY <1>0, <1>1 DEF PulledGroups
<1>3. ks \in Seq(Group) /\ \A j \in 1..Len(ks) : \E k \in K : ks[j] = gs[k]
  <2>1. gs \in Seq(Group) /\ K \in SUBSET (1..Len(gs))
    BY <1>2
  <2>2. Keep(gs, K) \in Seq(Group) /\ \A j \in 1..Len(Keep(gs, K)) : \E k \in K : Keep(gs, K)[j] = gs[k]
    BY ONLY <2>1, Kept
  <2>3. QED
    BY <1>2, <2>2, Zenon
<1>4. ~HasId(ks, x) /\ \A y : HasId(ks, y) => HasId(gs, y)
  BY <1>1, <1>3 DEF HasId
<1>5. QED
  BY <1>0, <1>3, <1>4

\* The call does not fail for want of a group.
\* What a call makes of the document it meets.
BookEffect(call, b, c, r, g) ==
    /\ c \in Book /\ b.users \subseteq c.users
    /\ \A n, u : (/\ Lists(b.groups, n, u)
                  /\ call \notin {"replaceGroups", "pullGroup"}
                  /\ call = "pullMember" => <<n, u>> # <<r.name, r.user>>) => Lists(c.groups, n, u)
    /\ call \in {"replaceGroups", "addToGroup"} => Lists(c.groups, r.name, r.user)
    /\ \A x \in GroupIds : HasId(c.groups, x) => HasId(b.groups, x) \/ (Creates(call, r) /\ x = g)
    /\ call = "pullGroup" => ~HasId(c.groups, r.group)

\* The document has the group that the call asks for.
Asked(call, b, r) ==
    /\ call \in {"addToGroup", "pullMember"} => GroupsWith(b, "name", r.name) # {}
    /\ call = "joinGroup" => GroupsWith(b, "id", r.group) # {}

LEMMA NewBookFacts ==
  ASSUME CustomersAssumption, NEW b \in Book, NEW r, Proper(r), NEW call, Caller(r.op, call),
         call # "insertBook", Asked(call, b, r), NEW g \in GroupIds \cup {None},
         NEW c, c = NewBook(call, b, r, g)
  PROVE  BookEffect(call, b, c, r, g)
<1>0. b.users \in SUBSET Users /\ b.groups \in Seq(Group) /\ b \in [users : SUBSET Users, groups : Seq(Group)]
  BY BookFields DEF Book
<1>1. CASE call = "replaceGroups"
  <2>1. r.op = "userPost" /\ c = ReplaceGroups(b, r, g)
    BY <1>1 DEF Caller, NewBook
  <2>2. PICK gs : gs = <<NewGroup(r, g)>>
    OBVIOUS
  <2>3. gs \in Seq(Group)
    BY <2>1, <2>2, NewGroupFacts
  <2>4. c \in Book /\ b.users \subseteq c.users /\ c.groups = gs
    <3>1. r.user \in Users
      BY <2>1 DEF Proper
    <3>2. c = [users |-> b.users \cup {r.user}, groups |-> gs]
      BY <2>1, <2>2 DEF ReplaceGroups
    <3>3. QED
      BY <1>0, <2>3, <3>1, <3>2 DEF Book
  <2>5. /\ Lists(gs, r.name, r.user)
        /\ \A x \in GroupIds : HasId(gs, x) => r.group # "given" /\ x = g
    BY <2>1, <2>2, AloneIsListed
  <2>6. QED
    BY <1>1, <2>4, <2>5 DEF BookEffect, Creates
<1>2. CASE call = "pushGroup"
  <2>1. r.op = "groupPost" /\ c = PushGroup(b, r, g)
    BY <1>2 DEF Caller, NewBook
  <2>2. PICK os, gs : os = b.groups /\ gs = Append(os, NewGroup(r, g))
    OBVIOUS
  <2>3. NewGroup(r, g) \in Group /\ os \in Seq(Group)
    BY <1>0, <2>1, <2>2, NewGroupFacts
  <2>4. gs \in Seq(Group) /\ Len(os) \in Nat /\ Len(gs) = Len(os) + 1 /\ gs[Len(os) + 1] = NewGroup(r, g)
    BY <2>2, <2>3
  <2>5. \A k \in 1..Len(os) : k \in 1..Len(gs) /\ gs[k] = os[k]
    BY <2>2, <2>3
  <2>6. c \in Book /\ c.users = b.users /\ c.groups = gs
    <3>1. c = [b EXCEPT !.groups = gs]
      BY <2>1, <2>2 DEF PushGroup
    <3>2. c = [users |-> b.users, groups |-> gs]
      BY ONLY <1>0, <3>1, BookUpdated
    <3>3. QED
      BY <1>0, <2>4, <3>2 DEF Book
  <2>7. \A x \in GroupIds : HasId(gs, x) =>
           (\E j \in 1..Len(os) : gs[j].id = x) \/ (r.group # "given" /\ x = g)
    BY <2>1, <2>4, NewGroupListed
  <2>8. \A x \in GroupIds : HasId(gs, x) => HasId(os, x) \/ (r.group # "given" /\ x = g)
    BY <2>5, <2>7 DEF HasId
  <2>9. \A n, u : Lists(os, n, u) => Lists(gs, n, u)
    BY <2>5 DEF Lists
  <2>10. QED
    BY <1>2, <2>2, <2>6, <2>8, <2>9 DEF BookEffect, Creates
<1>3. CASE call = "addToGroup"
  <2>1. r.user \in Users /\ GroupsWith(b, "name", r.name) # {} /\ c = AddToGroup(b, r)
    BY <1>3 DEF Caller, Proper, Asked, NewBook
  <2>2. PICK j \in 1..Len(b.groups) :
           b.groups[j].name = r.name /\ Regrouped(b, c, j, AddTo(b.groups[j].users, r.user))
    BY <2>1, AddToGroupFacts
  <2>3. PICK us : us = AddTo(b.groups[j].users, r.user)
    OBVIOUS
  <2>4. In(us, r.user) /\ \A v : In(b.groups[j].users, v) => In(us, v)
    <3>1. b.groups[j] \in Group
      BY <1>0
    <3>2. b.groups[j].users \in Seq(Users)
      BY <3>1, GroupFields
    <3>3. QED
      BY <2>1, <2>3, <3>2, AddToFacts
  <2>5. /\ \A n, u : /\ Lists(b.groups, n, u)
                     /\ n = b.groups[j].name /\ In(b.groups[j].users, u) => In(us, u)
                     => Lists(c.groups, n, u)
        /\ \A u : In(us, u) => Lists(c.groups, b.groups[j].name, u)
        /\ \A x : HasId(c.groups, x) => HasId(b.groups, x)
    BY <2>2, <2>3, RegroupedLists
  <2>6. c \in Book /\ b.users \subseteq c.users
    BY <2>2, <2>3 DEF Regrouped
  <2>7. QED
    BY <1>3, <2>2, <2>5, <2>6, <2>4 DEF BookEffect
<1>4. CASE call = "pullMember"
  <2>1. GroupsWith(b, "name", r.name) # {} /\ c = PullMember(b, r)
    BY <1>4 DEF Asked, NewBook
  <2>2. PICK j \in 1..Len(b.groups), us \in Seq(Users) :
           /\ b.groups[j].name = r.name /\ Regrouped(b, c, j, us)
           /\ \A v : v # r.user /\ In(b.groups[j].users, v) => In(us, v)
    BY <2>1, PullMemberFacts
  <2>3. /\ \A n, u : /\ Lists(b.groups, n, u)
                     /\ n = b.groups[j].name /\ In(b.groups[j].users, u) => In(us, u)
                     => Lists(c.groups, n, u)
        /\ \A x : HasId(c.groups, x) => HasId(b.groups, x)
    BY <2>2, RegroupedLists
  <2>4. \A n, u : (Lists(b.groups, n, u) /\ <<n, u>> # <<r.name, r.user>>) => Lists(c.groups, n, u)
    BY <2>2, <2>3
  <2>5. c \in Book /\ b.users \subseteq c.users
    BY <2>2 DEF Regrouped
  <2>6. QED
    BY <1>4, <2>3, <2>4, <2>5 DEF BookEffect
<1>5. CASE call = "pullGroup"
  <2>1. PICK os, gs : os = b.groups /\ gs = PulledGroups(os, r.group)
    OBVIOUS
  <2>2. gs \in Seq(Group) /\ ~HasId(gs, r.group) /\ \A y : HasId(gs, y) => HasId(os, y)
    BY <1>0, <2>1, PulledGroupsFacts
  <2>3. c \in Book /\ c.users = b.users /\ c.groups = gs
    <3>1. c = [b EXCEPT !.groups = gs]
      BY <1>5, <2>1 DEF NewBook, PullGroup, PulledGroups
    <3>2. c = [users |-> b.users, groups |-> gs]
      BY ONLY <1>0, <3>1, BookUpdated
    <3>3. QED
      BY <1>0, <2>2, <3>2 DEF Book
  <2>4. QED
    BY <1>5, <2>1, <2>2, <2>3 DEF BookEffect
<1>6. CASE call = "joinGroup"
  <2>1. r.user \in Users /\ GroupsWith(b, "id", r.group) # {} /\ c = JoinGroup(b, r)
    BY <1>6 DEF Caller, Proper, Asked, NewBook
  <2>2. PICK j \in 1..Len(b.groups), us \in Seq(Users) :
           Regrouped(b, c, j, us) /\ \A v : In(b.groups[j].users, v) => In(us, v)
    BY <2>1, JoinGroupFacts
  <2>3. /\ \A n, u : /\ Lists(b.groups, n, u)
                     /\ n = b.groups[j].name /\ In(b.groups[j].users, u) => In(us, u)
                     => Lists(c.groups, n, u)
        /\ \A x : HasId(c.groups, x) => HasId(b.groups, x)
    BY <2>2, RegroupedLists
  <2>4. c \in Book /\ b.users \subseteq c.users
    BY <2>2 DEF Regrouped
  <2>5. QED
    BY <1>6, <2>2, <2>3, <2>4 DEF BookEffect
<1>7. CASE call \notin {"replaceGroups", "pushGroup", "addToGroup", "pullMember", "pullGroup", "joinGroup"}
  <2>1. c = b
    BY <1>7 DEF NewBook
  <2>2. QED
    BY <1>7, <2>1 DEF BookEffect
<1>8. QED
  BY <1>1, <1>2, <1>3, <1>4, <1>5, <1>6, <1>7

\* No document loses a user.
Grown(bs, cs) ==
    /\ cs \in Seq(Book) /\ Len(bs) <= Len(cs)
    /\ \A k \in 1..Len(bs) : bs[k].users \subseteq cs[k].users

\* A call that does not fail meets a document that it asks for, or there is none.
Met(call, bs, r, k) ==
    /\ k # 0 => k \in 1..Len(bs) /\ Asked(call, bs[k], r)
    /\ k = 0 => /\ call \notin {"addToGroup", "pullMember"}
                /\ call \in {"replaceGroups", "pushGroup", "pullGroup"} => bs = <<>>

LEMMA MeetsFacts ==
  ASSUME NEW r, NEW bs \in Seq(Book), bs = books[r.seller], NEW call, NEW k \in Meets(call, r),
         ~Throws(call, r, k)
  PROVE  Met(call, bs, r, k)
<1>0. DOMAIN bs = 1..Len(bs) /\ Len(bs) \in Nat
  OBVIOUS
<1>1. 0 \notin 1..Len(bs)
  BY <1>0
<1>2. Matches(call, r) \subseteq 1..Len(bs)
  BY <1>0 DEF Matches, Having
<1>3. CASE Matches(call, r) = {}
  <2>1. k = 0
    BY <1>3 DEF Meets
  <2>2. call \notin {"addToGroup", "pullMember"}
    BY <2>1 DEF Throws
  <2>3. ASSUME call \in {"replaceGroups", "pushGroup", "pullGroup"} PROVE bs = <<>>
    <3>1. Matches(call, r) = 1..Len(bs)
      BY <1>0, <2>3 DEF Matches
    <3>2. 1 \notin 1..Len(bs)
      BY <1>3, <3>1
    <3>3. QED
      BY <3>2, Elements
  <2>4. QED
    BY <2>1, <2>2, <2>3 DEF Met
<1>4. CASE Matches(call, r) # {}
  <2>1. k \in Matches(call, r)
    BY <1>4 DEF Meets
  <2>2. k \in 1..Len(bs) /\ k # 0
    BY <1>1, <1>2, <2>1
  <2>3. call \in {"addToGroup", "pullMember"} => GroupsWith(bs[k], "name", r.name) # {}
    BY <2>1 DEF Matches, Having, GroupsWith
  <2>4. call = "joinGroup" => GroupsWith(bs[k], "id", r.group) # {}
    BY <2>1 DEF Matches, Having, GroupsWith
  <2>5. QED
    BY <2>2, <2>3, <2>4 DEF Met, Asked
<1>5. QED
  BY <1>3, <1>4

\* What a call does to the documents of its seller; what it promises of one
\* document it promises of all when there is no second one.
Effect(call, bs, cs, r, g) ==
    /\ Grown(bs, cs)
    /\ \A n, u : (/\ ListsIn(bs, n, u)
                  /\ call \notin {"replaceGroups", "pullGroup"}
                  /\ call = "pullMember" => <<n, u>> # <<r.name, r.user>>) => ListsIn(cs, n, u)
    /\ (r.op = "userPost" /\ call \in Writes /\ Fits(call, bs)) => ListsIn(cs, r.name, r.user)
    /\ \A x \in GroupIds : HasIdIn(cs, x) => HasIdIn(bs, x) \/ (Creates(call, r) /\ x = g)
    /\ (call = "pullGroup" /\ Len(bs) <= 1) => ~HasIdIn(cs, r.group)

LEMMA InsertBookEffect ==
  ASSUME CustomersAssumption, NEW bs \in Seq(Book), NEW r, Proper(r), r.op \in {"userPost", "groupPost"},
         NEW g \in GroupIds \cup {None}, NEW cs, cs = InsertBook(bs, r, g)
  PROVE  Effect("insertBook", bs, cs, r, g)
<1>1. PICK b, gs : /\ gs = <<NewGroup(r, g)>>
                   /\ b = [users |-> IF r.op = "userPost" THEN {r.user} ELSE {}, groups |-> gs]
  OBVIOUS
<1>2. gs \in Seq(Group)
  BY <1>1, NewGroupFacts
<1>3. b \in Book /\ b.groups = gs
  <2>1. r.op = "userPost" => r.user \in Users
    BY DEF Proper
  <2>2. QED
    BY <1>1, <1>2, <2>1 DEF Book
<1>4. cs = Append(bs, b)
  BY <1>1 DEF InsertBook
<1>5. /\ cs \in Seq(Book) /\ Len(cs) = Len(bs) + 1 /\ cs[Len(bs) + 1] = b
      /\ \A k \in 1..Len(bs) : k \in 1..Len(cs) /\ cs[k] = bs[k]
      /\ \A k \in 1..Len(cs) : k \in 1..Len(bs) \/ k = Len(bs) + 1
  BY <1>3, <1>4, Appended
<1>6. Grown(bs, cs)
  BY <1>5 DEF Grown
<1>7. /\ r.op = "userPost" => Lists(gs, r.name, r.user)
      /\ \A x \in GroupIds : HasId(gs, x) => r.group # "given" /\ x = g
  BY <1>1, AloneIsListed
<1>8. Len(bs) + 1 \in 1..Len(cs)
  BY <1>5
<1>9. r.op = "userPost" => ListsIn(cs, r.name, r.user)
  BY <1>3, <1>5, <1>7, <1>8 DEF ListsIn
<1>10. \A n, u : ListsIn(bs, n, u) => ListsIn(cs, n, u)
  BY <1>5 DEF ListsIn
<1>11. \A x \in GroupIds : HasIdIn(cs, x) => HasIdIn(bs, x) \/ (r.group # "given" /\ x = g)
  BY <1>3, <1>5, <1>7 DEF HasIdIn
<1>12. QED
  BY <1>6, <1>9, <1>10, <1>11 DEF Effect, Creates

LEMMA NewBooksEffect ==
  ASSUME CustomersAssumption, NEW bs \in Seq(Book), NEW r, Proper(r), NEW call, Caller(r.op, call),
         NEW k, Met(call, bs, r, k), NEW g \in GroupIds \cup {None},
         NEW cs, cs = NewBooks(call, bs, r, k, g)
  PROVE  Effect(call, bs, cs, r, g)
<1>0. Len(bs) \in Nat
  OBVIOUS
<1>1. CASE call = "insertBook"
  <2>1. r.op \in {"userPost", "groupPost"} /\ cs = InsertBook(bs, r, g)
    BY <1>1 DEF Caller, NewBooks
  <2>2. QED
    BY <1>1, <2>1, InsertBookEffect
<1>2. CASE call # "insertBook" /\ k = 0
  <2>1. cs = bs
    BY <1>2 DEF NewBooks
  <2>2. Grown(bs, bs)
    BY <1>0 DEF Grown
  <2>3. (call \in {"replaceGroups", "pushGroup", "pullGroup"} => bs = <<>>) /\ call # "addToGroup"
    BY <1>2 DEF Met
  <2>4. (r.op = "userPost" /\ call \in Writes) => ~Fits(call, bs)
    <3>1. (r.op = "userPost" /\ call \in Writes) => call = "replaceGroups"
      BY <1>2, <2>3 DEF Caller, Writes, Messaging
    <3>2. QED
      BY <2>3, <3>1 DEF Fits
  <2>5. call = "pullGroup" => ~HasIdIn(bs, r.group)
    <3>1. Len(<<>>) = 0 /\ \A j \in 1..0 : FALSE
      OBVIOUS
    <3>2. QED
      BY <2>3, <3>1 DEF HasIdIn
  <2>6. QED
    BY <2>1, <2>2, <2>4, <2>5 DEF Effect
<1>3. CASE call # "insertBook" /\ k # 0
  <2>1. k \in 1..Len(bs) /\ Asked(call, bs[k], r)
    BY <1>3 DEF Met
  <2>2. PICK b, c : b = bs[k] /\ c = NewBook(call, b, r, g)
    OBVIOUS
  <2>3. b \in Book
    BY <2>1, <2>2
  <2>4. BookEffect(call, b, c, r, g)
    BY <1>3, <2>1, <2>2, <2>3, NewBookFacts
  <2>5. cs = [bs EXCEPT ![k] = c]
    BY <1>3, <2>2 DEF NewBooks
  <2>6. /\ cs \in Seq(Book) /\ Len(cs) = Len(bs) /\ cs[k] = c
        /\ \A j \in 1..Len(bs) : j # k => cs[j] = bs[j]
    <3>1. c \in Book
      BY <2>4 DEF BookEffect
    <3>2. QED
      BY <2>1, <2>5, <3>1, Replaced
  <2>7. Grown(bs, cs)
    <3>1. b.users \subseteq c.users
      BY <2>4 DEF BookEffect
    <3>2. \A j \in 1..Len(bs) : bs[j].users \subseteq cs[j].users
      BY <2>2, <2>6, <3>1
    <3>3. QED
      BY <1>0, <2>6, <3>2 DEF Grown
  <2>8. ASSUME NEW n, NEW u, ListsIn(bs, n, u), call \notin {"replaceGroups", "pullGroup"},
               call = "pullMember" => <<n, u>> # <<r.name, r.user>>
        PROVE  ListsIn(cs, n, u)
    <3>1. PICK j \in 1..Len(bs) : Lists(bs[j].groups, n, u)
      BY <2>8 DEF ListsIn
    <3>2. Lists(cs[j].groups, n, u)
      BY <2>2, <2>4, <2>6, <2>8, <3>1 DEF BookEffect
    <3>3. QED
      BY <2>6, <3>1, <3>2 DEF ListsIn
  <2>9. (r.op = "userPost" /\ call \in Writes) => ListsIn(cs, r.name, r.user)
    <3>1. (r.op = "userPost" /\ call \in Writes) => call \in {"replaceGroups", "addToGroup"}
      BY <1>3 DEF Caller, Writes, Messaging
    <3>2. call \in {"replaceGroups", "addToGroup"} => Lists(c.groups, r.name, r.user)
      BY <2>4 DEF BookEffect
    <3>3. QED
      BY <2>1, <2>6, <3>1, <3>2 DEF ListsIn
  <2>10. ASSUME NEW x \in GroupIds, HasIdIn(cs, x) PROVE HasIdIn(bs, x) \/ (Creates(call, r) /\ x = g)
    <3>1. PICK j \in 1..Len(bs) : HasId(cs[j].groups, x)
      BY <2>6, <2>10 DEF HasIdIn
    <3>2. HasId(bs[j].groups, x) \/ (Creates(call, r) /\ x = g)
      BY <2>2, <2>4, <2>6, <3>1 DEF BookEffect
    <3>3. QED
      BY <3>1, <3>2 DEF HasIdIn
  <2>11. ASSUME call = "pullGroup", Len(bs) <= 1 PROVE ~HasIdIn(cs, r.group)
    <3>1. \A j \in 1..Len(cs) : j = k
      BY <1>0, <2>1, <2>6, <2>11
    <3>2. ~HasId(c.groups, r.group)
      BY <2>4, <2>11 DEF BookEffect
    <3>3. QED
      BY <2>6, <3>1, <3>2 DEF HasIdIn
  <2>12. QED
    BY <2>7, <2>8, <2>9, <2>10, <2>11 DEF Effect
<1>4. QED
  BY <1>1, <1>2, <1>3

-----------------------------------------------------------------------------
(***************************************************************************)
(* Every step keeps the invariant for any number of processes              *)
(***************************************************************************)

\* A step stores at most one message: that of the request r, which has none.
MsgsStep(r) ==
    \A m \in MsgIds : msgs'[m] # msgs[m] => r.op \in Messaging /\ m = r.msg /\ msgs[m] = None

BooksGrow == \A i \in Sellers : Grown(books[i], books'[i])

\* What the steps of a busy server have in common.
StepOf(s) ==
    /\ deployed' = deployed /\ used \subseteq used'
    /\ Typed' /\ MsgsStep(req[s])
    /\ \A t \in Servers : t # s => todo'[t] = todo[t] /\ req'[t] = req[t]
    /\ todo'[s] # <<>> => req'[s] = req[s] /\ InOrder(todo[s], req[s])'

\* The first call that server s has before it.
LEMMA BusyFacts ==
  ASSUME FleetInv, NEW s \in Servers, Busy(s)
  PROVE  /\ s \in deployed /\ Proper(req[s]) /\ req[s].op \in Ops /\ req[s].seller \in Sellers
         /\ InOrder(todo[s], req[s]) /\ At(todo[s], req[s])
         /\ Caller(req[s].op, Head(todo[s]))
         /\ Tail(todo[s]) # <<>> =>
               At(Tail(todo[s]), req[s]) /\ Follows(req[s].op, Head(todo[s]), Head(Tail(todo[s])))
<1>1. PICK q, r : q = todo[s] /\ r = req[s]
  OBVIOUS
<1>2. s \in deployed /\ InOrder(q, r)
  BY <1>1 DEF FleetInv, Handling
<1>3. Proper(r) /\ At(q, r) /\ r.op \in Ops /\ r.seller \in Sellers
  BY <1>2 DEF InOrder, Proper, Request
<1>4. Caller(r.op, Head(q)) /\ (Tail(q) # <<>> => At(Tail(q), r) /\ Follows(r.op, Head(q), Head(Tail(q))))
  BY <1>3, StageFacts
<1>5. QED
  BY <1>1, <1>2, <1>3, <1>4

\* A handler stays in order while its message stays what it is.
LEMMA InOrderStays ==
  ASSUME NEW q, NEW r, InOrder(q, r), used \subseteq used',
         r.op \in Messaging => msgs'[r.msg] = msgs[r.msg]
  PROVE  InOrder(q, r)'
<1>1. Proper(r) /\ At(q, r) /\ r.op \in Ops
  BY DEF InOrder, Proper, Request
<1>2. Caller(r.op, Head(q))
  BY <1>1, StageFacts
<1>3. Head(q) = "push" => r.op \in Messaging
  BY <1>2 DEF Caller
<1>4. Proper(r)'
  BY <1>1 DEF Proper
<1>5. At(q, r)'
  BY <1>1 DEF At, Programs, Stages, Handler
<1>6. /\ (r.op \in Messaging /\ Head(q) # "push") => msgs'[r.msg] = None
      /\ Head(q) = "push" => msgs'[r.msg] # None /\ (r.op = "userMessage" => msgs'[r.msg].to = {r.user})
  BY <1>3 DEF InOrder
<1>7. QED
  BY <1>4, <1>5, <1>6 DEF InOrder

LEMMA StoredNoticesStay ==
  ASSUME FleetInv, NEW r, MsgsStep(r), NEW p \in pushed
  PROVE  msgs'[p.msg] # None /\ (p.op = "userMessage" => msgs'[p.msg].to = p.to)
<1>1. p.msg \in MsgIds /\ msgs[p.msg] # None /\ (p.op = "userMessage" => msgs[p.msg].to = p.to)
  BY DEF FleetInv, Typed, Notification, NotifiedIsStored
<1>2. msgs'[p.msg] = msgs[p.msg]
  BY <1>1 DEF MsgsStep
<1>3. QED
  BY <1>1, <1>2

LEMMA StepKeepsFleet ==
  ASSUME FleetInv, NEW s \in Servers, Busy(s), StepOf(s), NotifiedIsStored'
  PROVE  FleetInv'
<1>1. Proper(req[s]) /\ s \in deployed
  BY BusyFacts
<1>2. ASSUME NEW t \in Servers, Busy(t)' PROVE t \in deployed' /\ InOrder(todo[t], req[t])'
  <2>1. CASE t = s
    BY <1>1, <1>2, <2>1 DEF StepOf, Busy
  <2>2. CASE t # s
    <3>1. todo'[t] = todo[t] /\ req'[t] = req[t] /\ Busy(t)
      BY <1>2, <2>2 DEF StepOf, Busy
    <3>2. PICK q, r : q = todo[t] /\ r = req[t]
      OBVIOUS
    <3>3. t \in deployed /\ InOrder(q, r)
      BY <3>1, <3>2 DEF FleetInv, Handling
    <3>4. r.op \in Messaging => msgs'[r.msg] = msgs[r.msg]
      <4>1. r.op \in Messaging => r.msg \in MsgIds
        BY <3>3 DEF InOrder, Proper
      <4>2. (r.op \in Messaging /\ req[s].op \in Messaging) => r.msg # req[s].msg
        BY <2>2, <3>1, <3>2 DEF FleetInv, IdsApart
      <4>3. QED
        BY <4>1, <4>2 DEF StepOf, MsgsStep
    <3>5. InOrder(q, r)'
      BY <3>3, <3>4, InOrderStays DEF StepOf
    <3>6. todo'[t] = q /\ req'[t] = r
      BY <3>1, <3>2
    <3>7. InOrder(todo[t], req[t])'
      BY <3>5, <3>6 DEF InOrder, Proper, At, Programs, Stages, Handler
    <3>8. QED
      BY <3>3, <3>7 DEF StepOf
  <2>3. QED
    BY <2>1, <2>2
<1>3. Handling'
  BY <1>2 DEF Handling
<1>4. \A i \in MsgIds : i \notin used' => msgs'[i] = None
  BY <1>1 DEF FleetInv, IdsApart, StepOf, MsgsStep, Proper
<1>5. \A t \in Servers : Busy(t)' => Busy(t) /\ req'[t] = req[t]
  BY DEF StepOf, Busy
<1>6. IdsApart'
  BY <1>4, <1>5 DEF FleetInv, IdsApart
<1>7. QED
  BY <1>3, <1>6 DEF FleetInv, StepOf

LEMMA EndFacts ==
  ASSUME Typed, NEW s \in Servers, End(s)
  PROVE  /\ DOMAIN todo' = Servers /\ req' \in [Servers -> Request \cup {NoRequest}]
         /\ members' \in [Servers -> Collected]
         /\ \A t \in Servers : t # s => todo'[t] = todo[t] /\ req'[t] = req[t]
         /\ todo'[s] = <<>>
BY DEF Typed, End, Collected, NobodyCollected

LEMMA AdvanceFacts ==
  ASSUME Typed, NEW s \in Servers, NEW rest, NEW found \in Collected, Advance(s, rest, found)
  PROVE  /\ DOMAIN todo' = Servers /\ req' \in [Servers -> Request \cup {NoRequest}]
         /\ members' \in [Servers -> Collected]
         /\ \A t \in Servers : t # s => todo'[t] = todo[t] /\ req'[t] = req[t]
         /\ todo'[s] # <<>> => rest # <<>> /\ todo'[s] = rest /\ req'[s] = req[s] /\ members'[s] = found
<1>1. CASE rest = <<>>
  <2>1. End(s)
    BY <1>1 DEF Advance
  <2>2. QED
    BY <2>1, EndFacts
<1>2. CASE rest # <<>>
  BY <1>2 DEF Typed, Advance
<1>3. QED
  BY <1>1, <1>2

LEMMA MembersOfType ==
  ASSUME NEW b \in Book, NEW r
  PROVE  MembersOf(b, r) \in Collected
<1>1. PICK gs : gs = b.groups
  OBVIOUS
<1>2. gs \in Seq(Group)
  BY <1>1, BookFields
<1>3. PICK named : named = {g \in ToSet(gs) : g.id = r.group}
  OBVIOUS
<1>4. \A g \in named : g \in Group
  BY <1>2, <1>3 DEF ToSet
<1>5. ASSUME NEW g \in named, NEW from PROVE Every2nd(g.users, from) \subseteq Users
  <2>1. g.users \in Seq(Users)
    BY <1>4, GroupFields
  <2>2. QED
    BY <2>1 DEF Every2nd
<1>6. /\ UNION {Every2nd(g.users, 1) : g \in named} \subseteq Users
      /\ UNION {Every2nd(g.users, 0) : g \in named} \subseteq Users
  BY <1>5
<1>7. MembersOf(b, r) = [notified |-> UNION {Every2nd(g.users, 1) : g \in named},
                         recorded |-> UNION {Every2nd(g.users, 0) : g \in named}]
  BY <1>1, <1>3 DEF MembersOf
<1>8. QED
  BY <1>6, <1>7 DEF Collected

LEMMA RequestProper ==
  ASSUME NEW r \in Requests, used' = used \cup ({r.msg} \ {None}), CustomersAssumption
  PROVE  /\ r \in Request /\ Proper(r)'
         /\ r.op \in Messaging => r.msg \in MsgIds \ used
<1>1. r.seller \in Sellers /\ r.list \in Members
  <2>1. <<>> \in Members
    <3>1. 0 \in 0..MaxMembers
      BY DEF CustomersAssumption
    <3>2. <<>> \in [1..0 -> Users]
      OBVIOUS
    <3>3. QED
      BY <3>1, <3>2 DEF Members
  <2>2. QED
    BY <2>1 DEF Requests, RequestOf
<1>2. r \in Request
  BY <1>1 DEF Requests, RequestOf, Request, Ops
<1>3. /\ r.op \in {"userPost", "userPut", "userDelete", "groupPut", "userMessage"} => r.user \in Users
      /\ r.op \in {"userPost", "groupPost", "groupPut"} => r.name \in Names
      /\ r.op = "groupDelete" => r.group \in GroupIds \cap used
      /\ r.op \in Messaging => r.msg \in MsgIds \ used /\ r.group \in GroupIds \cup {None}
      /\ r.op = "userMessage" => r.group = None
  BY DEF Requests, RequestOf, Messaging
<1>4. r.op \in Messaging => r.msg \in used'
  BY <1>3 DEF CustomersAssumption
<1>5. QED
  BY <1>2, <1>3, <1>4 DEF Proper

LEMMA ReceiveFleet ==
  ASSUME FleetInv, CustomersAssumption, NEW s \in deployed, NEW r \in Requests, Receive(s, r)
  PROVE  FleetInv'
<1>1. s \in Servers /\ todo[s] = <<>>
  BY DEF FleetInv, Typed, Receive
<1>2. /\ todo' = [todo EXCEPT ![s] = Handler(r)] /\ req' = [req EXCEPT ![s] = r]
      /\ used' = used \cup ({r.msg} \ {None}) /\ filed' \subseteq filed
      /\ UNCHANGED <<deployed, accounts, books, msgs, pushed, removed, members>>
  BY DEF Receive
<1>3. r \in Request /\ Proper(r)' /\ (r.op \in Messaging => r.msg \in MsgIds \ used)
  BY <1>2, RequestProper
<1>4. r.op \in Ops /\ r.msg \in MsgIds \cup {None}
  BY <1>3 DEF Request
<1>5. Typed'
  BY <1>1, <1>2, <1>3, <1>4 DEF FleetInv, Typed
<1>6. todo'[s] = Handler(r) /\ req'[s] = r /\ \A t \in Servers : t # s => todo'[t] = todo[t] /\ req'[t] = req[t]
  BY <1>1, <1>2 DEF FleetInv, Typed
<1>7. InOrder(Handler(r), r)'
  <2>1. At(Handler(r), r) /\ Head(Handler(r)) \in Starts
    BY <1>4, FirstStage
  <2>2. PICK q : q = Handler(r)
    OBVIOUS
  <2>3. r.op \in Messaging => msgs'[r.msg] = None
    BY <1>2, <1>3 DEF FleetInv, IdsApart
  <2>4. Head(q) # "push"
    BY <2>1, <2>2 DEF Starts
  <2>5. At(q, r)'
    BY <2>1, <2>2 DEF At, Programs, Stages, Handler
  <2>6. InOrder(q, r)'
    BY <1>3, <2>3, <2>4, <2>5 DEF InOrder
  <2>7. QED
    BY <2>2, <2>6 DEF InOrder, Proper, At, Programs, Stages, Handler
<1>8. ASSUME NEW t \in Servers, Busy(t)' PROVE t \in deployed' /\ InOrder(todo[t], req[t])'
  <2>1. CASE t = s
    <3>1. PICK q : q = Handler(r)
      OBVIOUS
    <3>2. InOrder(q, r)'
      BY <1>7, <3>1 DEF InOrder, Proper, At, Programs, Stages, Handler
    <3>3. todo'[t] = q /\ req'[t] = r
      BY <1>6, <2>1, <3>1
    <3>4. InOrder(todo[t], req[t])'
      BY <3>2, <3>3 DEF InOrder, Proper, At, Programs, Stages, Handler
    <3>5. QED
      BY <1>2, <2>1, <3>4
  <2>2. CASE t # s
    <3>1. todo'[t] = todo[t] /\ req'[t] = req[t] /\ Busy(t)
      BY <1>6, <1>8, <2>2 DEF Busy
    <3>2. PICK q, p : q = todo[t] /\ p = req[t]
      OBVIOUS
    <3>3. t \in deployed /\ InOrder(q, p)
      BY <3>1, <3>2 DEF FleetInv, Handling
    <3>4. InOrder(q, p)'
      BY <1>2, <3>3, InOrderStays
    <3>5. todo'[t] = q /\ req'[t] = p
      BY <3>1, <3>2
    <3>6. InOrder(todo[t], req[t])'
      BY <3>4, <3>5 DEF InOrder, Proper, At, Programs, Stages, Handler
    <3>7. QED
      BY <1>2, <3>3, <3>6
  <2>3. QED
    BY <2>1, <2>2
<1>9. IdsApart'
  <2>1. \A i \in MsgIds : i \notin used' => msgs'[i] = None
    BY <1>2 DEF FleetInv, IdsApart
  <2>2. ASSUME NEW t \in Servers, t # s, Busy(t)', req'[t].op \in Messaging PROVE req'[t].msg \in used
    <3>1. todo'[t] = todo[t] /\ req'[t] = req[t] /\ Busy(t)
      BY <1>6, <2>2 DEF Busy
    <3>2. Proper(req[t])
      BY <3>1, BusyFacts
    <3>3. QED
      BY <2>2, <3>1, <3>2 DEF Proper
  <2>3. \A t \in Servers : t # s /\ Busy(t)' => Busy(t)
    BY <1>6 DEF Busy
  <2>4. QED
    BY <1>3, <1>6, <2>1, <2>2, <2>3 DEF FleetInv, IdsApart
<1>10. NotifiedIsStored'
  BY <1>2 DEF FleetInv, NotifiedIsStored
<1>11. QED
  BY <1>5, <1>8, <1>9, <1>10 DEF FleetInv, Handling

\* What is left of a handler after a call that stores no message.
LEMMA StageAfter ==
  ASSUME FleetInv, NEW s \in Servers, Busy(s), UNCHANGED msgs, used \subseteq used',
         NEW r, r = req[s], NEW q, At(q, r), Head(q) # "push", Head(todo[s]) # "push"
  PROVE  InOrder(q, r)'
<1>1. Proper(r) /\ InOrder(todo[s], r)
  BY BusyFacts
<1>2. r.op \in Messaging => msgs'[r.msg] = None
  BY <1>1 DEF InOrder
<1>3. Proper(r)'
  BY <1>1 DEF Proper
<1>4. At(q, r)'
  BY DEF At, Programs, Stages, Handler
<1>5. QED
  BY <1>2, <1>3, <1>4 DEF InOrder

\* The calls that a handler makes after a query.
LEMMA AfterQuery ==
  ASSUME FleetInv, NEW s \in Servers, Busy(s), Head(todo[s]) \in Queries,
         NEW rest, rest # <<>>,
         rest = IF Finds(Head(todo[s]), req[s]) THEN Tail(todo[s]) ELSE Otherwise(Head(todo[s]), req[s])
  PROVE  /\ At(rest, req[s]) /\ Head(rest) # "push"
         /\ Head(rest) \in {"findGroup", "pushGroup"} =>
               Head(todo[s]) = "findBook" /\ Finds(Head(todo[s]), req[s])
         /\ Head(rest) = "insertBook" => Head(todo[s]) = "findBook" /\ ~Finds(Head(todo[s]), req[s])
         /\ Head(rest) = "replaceGroups" => Head(todo[s]) = "findGroup"
         /\ (Head(rest) = "insertMsg" /\ req[s].op = "groupMessage") => Head(todo[s]) = "readGroup"
<1>1. PICK q, r : q = todo[s] /\ r = req[s]
  OBVIOUS
<1>2. /\ r.op \in Ops /\ Caller(r.op, Head(q))
      /\ Tail(q) # <<>> => At(Tail(q), r) /\ Follows(r.op, Head(q), Head(Tail(q)))
  BY <1>1, BusyFacts
<1>3. CASE Finds(Head(q), r)
  <2>1. rest = Tail(q)
    BY <1>1, <1>3
  <2>2. At(rest, r) /\ Follows(r.op, Head(q), Head(rest))
    BY <1>2, <2>1
  <2>3. Head(q) # "insertMsg"
    BY <1>1 DEF Queries
  <2>4. QED
    BY <1>1, <1>3, <2>2, <2>3 DEF Follows
<1>4. CASE ~Finds(Head(q), r)
  <2>1. rest = Otherwise(Head(q), r)
    BY <1>1, <1>4
  <2>2. /\ At(rest, r)
        /\ \/ Head(q) = "findBook" /\ Head(rest) = "insertBook" /\ r.op \in {"userPost", "groupPost"}
           \/ Head(q) = "findGroup" /\ Head(rest) = "replaceGroups" /\ r.op = "userPost"
    BY <1>2, <2>1, OtherwiseFacts
  <2>3. QED
    BY <1>1, <1>4, <2>2
<1>5. QED
  BY <1>3, <1>4

\* What a query leaves with the handler: readGroup has read a document of the
\* seller, or the handler ends.
Reads(s, call, r, found) ==
    IF call = "readGroup"
    THEN \E k \in 1..Len(books[r.seller]) : found = MembersOf(books[r.seller][k], r)
    ELSE found = members[s]

LEMMA QueryFacts ==
  ASSUME FleetInv, NEW s \in Servers, Query(s), NEW r, r = req[s], NEW call, call = Head(todo[s]),
         NEW rest, rest = IF Finds(call, r) THEN Tail(todo[s]) ELSE Otherwise(call, r)
  PROVE  /\ Busy(s) /\ call \in Queries
         /\ End(s) \/ \E found \in Collected : Reads(s, call, r, found) /\ Advance(s, rest, found)
         /\ UNCHANGED <<deployed, accounts, books, msgs, pushed, used, filed, removed>>
<1>1. /\ Busy(s) /\ call \in Queries
      /\ UNCHANGED <<deployed, accounts, books, msgs, pushed, used, filed, removed>>
  BY DEF Query, Busy
<1>2. PICK k \in Meets(call, r) :
         IF Finds(call, r) /\ Throws(call, r, k) THEN End(s)
         ELSE Advance(s, rest, IF call = "readGroup" THEN MembersOf(books[r.seller][k], r) ELSE members[s])
  BY DEF Query
<1>3. PICK bs : bs = books[r.seller]
  OBVIOUS
<1>4. bs \in Seq(Book) /\ members[s] \in Collected
  <2>1. r.seller \in Sellers
    BY <1>1, BusyFacts
  <2>2. QED
    BY <1>3, <2>1 DEF FleetInv, Typed
<1>5. CASE Finds(call, r) /\ Throws(call, r, k)
  BY <1>1, <1>2, <1>5
<1>6. CASE ~(Finds(call, r) /\ Throws(call, r, k)) /\ call # "readGroup"
  <2>1. Advance(s, rest, members[s]) /\ Reads(s, call, r, members[s])
    BY <1>2, <1>6 DEF Reads
  <2>2. QED
    BY <1>1, <1>4, <2>1
<1>7. CASE ~(Finds(call, r) /\ Throws(call, r, k)) /\ call = "readGroup"
  <2>1. Finds(call, r)
    BY <1>7 DEF Finds
  <2>2. k # 0
    BY <1>7, <2>1 DEF Throws
  <2>3. k \in 1..Len(bs)
    BY <1>3, <1>4, <1>7, <2>2 DEF Meets, Matches
  <2>4. PICK found : found = MembersOf(bs[k], r)
    OBVIOUS
  <2>5. found \in Collected
    BY <1>4, <2>3, <2>4, MembersOfType
  <2>6. Reads(s, call, r, found) /\ Advance(s, rest, found)
    BY <1>2, <1>3, <1>7, <2>3, <2>4 DEF Reads
  <2>7. QED
    BY <1>1, <2>5, <2>6
<1>8. QED
  BY <1>5, <1>6, <1>7

LEMMA QueryFleet ==
  ASSUME FleetInv, NEW s \in Servers, Query(s)
  PROVE  StepOf(s) /\ Busy(s) /\ NotifiedIsStored'
<1>1. PICK q, r : q = todo[s] /\ r = req[s]
  OBVIOUS
<1>2. PICK rest : rest = IF Finds(Head(q), r) THEN Tail(q) ELSE Otherwise(Head(q), r)
  OBVIOUS
<1>3. /\ Busy(s) /\ Head(q) \in Queries
      /\ End(s) \/ \E found \in Collected : Reads(s, Head(q), r, found) /\ Advance(s, rest, found)
      /\ UNCHANGED <<deployed, accounts, books, msgs, pushed, used, filed, removed>>
  BY <1>1, <1>2, QueryFacts
<1>4. /\ DOMAIN todo' = Servers /\ req' \in [Servers -> Request \cup {NoRequest}]
      /\ members' \in [Servers -> Collected]
      /\ \A t \in Servers : t # s => todo'[t] = todo[t] /\ req'[t] = req[t]
      /\ todo'[s] # <<>> => rest # <<>> /\ todo'[s] = rest /\ req'[s] = req[s]
  BY <1>3, EndFacts, AdvanceFacts DEF FleetInv
<1>5. Typed'
  BY <1>3, <1>4 DEF FleetInv, Typed
<1>6. ASSUME todo'[s] # <<>> PROVE InOrder(todo[s], req[s])'
  <2>1. rest # <<>> /\ todo'[s] = rest /\ req'[s] = r
    BY <1>1, <1>4, <1>6
  <2>2. At(rest, r) /\ Head(rest) # "push"
    BY <1>1, <1>2, <1>3, <2>1, AfterQuery
  <2>3. Head(todo[s]) # "push"
    BY <1>1, <1>3 DEF Queries
  <2>4. InOrder(rest, r)'
    BY <1>1, <1>3, <2>2, <2>3, StageAfter
  <2>5. QED
    BY <2>1, <2>4 DEF InOrder, Proper, At, Programs, Stages, Handler
<1>7. StepOf(s)
  BY <1>3, <1>4, <1>5, <1>6 DEF StepOf, MsgsStep
<1>8. QED
  BY <1>3, <1>7 DEF FleetInv, NotifiedIsStored

LEMMA PushFleet ==
  ASSUME FleetInv, NEW s \in Servers, Push(s)
  PROVE  StepOf(s) /\ Busy(s) /\ NotifiedIsStored' /\ todo'[s] = <<>>
<1>1. PICK q, r, to : q = todo[s] /\ r = req[s] /\ to = Notified(req[s], members[s])
  OBVIOUS
<1>2. PICK p : p = [msg |-> r.msg, op |-> r.op, seller |-> r.seller, group |-> r.group, to |-> to]
  OBVIOUS
<1>3. /\ Busy(s) /\ Head(q) = "push" /\ Advance(s, Tail(q), members[s])
      /\ pushed' \subseteq pushed \cup {p}
      /\ UNCHANGED <<deployed, accounts, books, msgs, used, filed, removed>>
  BY <1>1, <1>2 DEF Push, Busy
<1>4. /\ Proper(r) /\ r.op \in Ops /\ r.seller \in Sellers /\ InOrder(q, r) /\ Caller(r.op, Head(q))
      /\ Tail(q) # <<>> => Follows(r.op, Head(q), Head(Tail(q)))
  BY <1>1, <1>3, BusyFacts
<1>5. Tail(q) = <<>>
  BY <1>3, <1>4 DEF Follows
<1>6. r.op \in Messaging /\ r.msg \in MsgIds /\ r.group \in GroupIds \cup {None}
      /\ (r.op = "userMessage" => r.user \in Users)
  BY <1>3, <1>4 DEF Caller, Proper
<1>7. members[s] \in Collected
  BY DEF FleetInv, Typed
<1>8. to \in SUBSET Users /\ (r.op = "userMessage" => to = {r.user})
  BY <1>1, <1>6, <1>7 DEF Notified, Collected
<1>9. p \in Notification /\ p.msg = r.msg /\ p.op = r.op /\ p.to = to
  BY <1>2, <1>4, <1>6, <1>8 DEF Notification, Messaging
<1>10. msgs[r.msg] # None /\ (r.op = "userMessage" => msgs[r.msg].to = {r.user})
  BY <1>3, <1>4 DEF InOrder
<1>11. /\ DOMAIN todo' = Servers /\ req' \in [Servers -> Request \cup {NoRequest}]
       /\ members' \in [Servers -> Collected]
       /\ \A t \in Servers : t # s => todo'[t] = todo[t] /\ req'[t] = req[t]
       /\ todo'[s] = <<>>
  <2>1. End(s)
    BY <1>3, <1>5 DEF Advance
  <2>2. QED
    BY <2>1, EndFacts DEF FleetInv
<1>12. Typed'
  BY <1>3, <1>9, <1>11 DEF FleetInv, Typed
<1>13. StepOf(s)
  BY <1>3, <1>11, <1>12 DEF StepOf, MsgsStep
<1>14. NotifiedIsStored'
  BY <1>3, <1>8, <1>9, <1>10 DEF FleetInv, NotifiedIsStored
<1>15. QED
  BY <1>3, <1>11, <1>13, <1>14

\* A call of server s is made, on a document that it may meet.
Made(s, call, r) == \E k \in Meets(call, r) : ~Throws(call, r, k) /\ Stored(call, r, k, members[s])

\* What it leaves in the database.
StoredBy(call, r, k, g) ==
    /\ g \in GroupIds \cup {None}
    /\ Creates(call, r) => g \in GroupIds \ used
    /\ books' = [books EXCEPT ![r.seller] = NewBooks(call, books[r.seller], r, k, g)]
    /\ Met(call, books[r.seller], r, k)

LEMMA StoredFacts ==
  ASSUME FleetInv, CustomersAssumption, NEW s \in Servers, Busy(s), NEW r, r = req[s],
         NEW call, call = Head(todo[s]), call # "push",
         Made(s, call, r)
  PROVE  /\ \E k, g : StoredBy(call, r, k, g)
         /\ books' \in [Sellers -> Seq(Book)] /\ BooksGrow
         /\ msgs' \in [MsgIds -> {None} \cup Message] /\ MsgsStep(r)
         /\ used' \in SUBSET (GroupIds \cup MsgIds) /\ used \subseteq used'
         /\ call # "insertMsg" => msgs' = msgs
         /\ call = "insertMsg" => msgs'[r.msg] # None /\ (r.op = "userMessage" => msgs'[r.msg].to = {r.user})
<1>1. /\ Proper(r) /\ r.op \in Ops /\ r.seller \in Sellers /\ InOrder(todo[s], r) /\ Caller(r.op, call)
  BY BusyFacts
<1>2. PICK k \in Meets(call, r) : ~Throws(call, r, k) /\ Stored(call, r, k, members[s])
  BY DEF Made
<1>3. PICK g \in IF Creates(call, r) THEN GroupIds \ used ELSE {None} :
        /\ books' = [books EXCEPT ![r.seller] = NewBooks(call, books[r.seller], r, k, g)]
        /\ used' = used \cup ({g} \ {None})
        /\ msgs' = IF call = "insertMsg"
                   THEN [msgs EXCEPT ![r.msg] = [group |-> r.group, to |-> Recipients(r, members[s])]] ELSE msgs
  BY <1>2 DEF Stored
<1>4. g \in GroupIds \cup {None} /\ (Creates(call, r) => g \in GroupIds \ used)
  BY <1>3
<1>5. PICK bs, cs : bs = books[r.seller] /\ cs = NewBooks(call, bs, r, k, g)
  OBVIOUS
<1>6. bs \in Seq(Book)
  BY <1>1, <1>5 DEF FleetInv, Typed
<1>7. Met(call, books[r.seller], r, k)
  BY <1>2, <1>5, <1>6, MeetsFacts
<1>8. Grown(bs, cs)
  <2>1. Effect(call, bs, cs, r, g)
    BY <1>1, <1>4, <1>7, <1>5, <1>6, NewBooksEffect
  <2>2. QED
    BY <2>1 DEF Effect
<1>9. books' = [books EXCEPT ![r.seller] = cs]
  BY <1>3, <1>5
<1>10. \A b \in Seq(Book) : Grown(b, b)
  BY DEF Grown
<1>11. books' \in [Sellers -> Seq(Book)] /\ BooksGrow
  <2>1. cs \in Seq(Book)
    BY <1>8 DEF Grown
  <2>2. books' \in [Sellers -> Seq(Book)]
    BY <1>9, <2>1 DEF FleetInv, Typed
  <2>3. ASSUME NEW i \in Sellers PROVE Grown(books[i], books'[i])
    <3>1. CASE i = r.seller
      <4>1. books'[i] = cs /\ books[i] = bs
        BY <1>5, <1>9, <3>1 DEF FleetInv, Typed
      <4>2. QED
        BY <1>8, <4>1
    <3>2. CASE i # r.seller
      <4>1. books'[i] = books[i] /\ books[i] \in Seq(Book)
        BY <1>9, <3>2 DEF FleetInv, Typed
      <4>2. QED
        BY <1>10, <4>1
    <3>3. QED
      BY <3>1, <3>2
  <2>4. QED
    BY <2>2, <2>3 DEF BooksGrow
<1>12. CASE call = "insertMsg"
  <2>1. /\ r.op \in Messaging /\ r.msg \in MsgIds /\ r.group \in GroupIds \cup {None}
        /\ (r.op = "userMessage" => r.user \in Users) /\ msgs[r.msg] = None
    BY <1>1, <1>12 DEF Caller, Proper, InOrder
  <2>2. PICK m : m = [group |-> r.group, to |-> Recipients(r, members[s])]
    OBVIOUS
  <2>3. m \in Message /\ (r.op = "userMessage" => m.to = {r.user})
    <3>1. members[s] \in Collected
      BY DEF FleetInv, Typed
    <3>2. Recipients(r, members[s]) \in SUBSET Users
      BY <2>1, <3>1 DEF Recipients, Collected
    <3>3. QED
      BY <2>1, <2>2, <3>2 DEF Message, Recipients
  <2>4. m # None
    BY <2>3 DEF CustomersAssumption
  <2>5. msgs' = [msgs EXCEPT ![r.msg] = m]
    BY <1>3, <1>12, <2>2
  <2>6. msgs' \in [MsgIds -> {None} \cup Message] /\ MsgsStep(r) /\ msgs'[r.msg] = m
    BY <2>1, <2>3, <2>5 DEF FleetInv, Typed, MsgsStep
  <2>7. QED
    BY <1>3, <1>4, <1>7, <1>11, <1>12, <2>3, <2>4, <2>6 DEF FleetInv, Typed, StoredBy
<1>13. CASE call # "insertMsg"
  BY <1>3, <1>4, <1>7, <1>11, <1>13 DEF FleetInv, Typed, StoredBy, MsgsStep
<1>14. QED
  BY <1>12, <1>13

LEMMA WriteFleet ==
  ASSUME FleetInv, CustomersAssumption, NEW s \in Servers, Write(s)
  PROVE  StepOf(s) /\ Busy(s) /\ NotifiedIsStored'
<1>1. PICK q, r, call : q = todo[s] /\ r = req[s] /\ call = Head(todo[s])
  OBVIOUS
<1>2. /\ Busy(s) /\ call \notin Queries \cup {"push"} /\ Made(s, call, r) /\ Advance(s, Tail(q), members[s])
      /\ IF Tail(q) = <<>> THEN Acknowledge(r, call) ELSE UNCHANGED <<filed, removed>>
      /\ UNCHANGED <<deployed, accounts, pushed>>
  BY <1>1 DEF Write, Busy, Made
<1>3. /\ Proper(r) /\ r.op \in Ops /\ r.seller \in Sellers /\ InOrder(q, r) /\ Caller(r.op, call)
      /\ Tail(q) # <<>> => At(Tail(q), r) /\ Follows(r.op, call, Head(Tail(q)))
  BY <1>1, <1>2, BusyFacts
<1>4. /\ books' \in [Sellers -> Seq(Book)]
      /\ msgs' \in [MsgIds -> {None} \cup Message] /\ MsgsStep(r)
      /\ used' \in SUBSET (GroupIds \cup MsgIds) /\ used \subseteq used'
      /\ call # "insertMsg" => msgs' = msgs
      /\ call = "insertMsg" => msgs'[r.msg] # None /\ (r.op = "userMessage" => msgs'[r.msg].to = {r.user})
  BY <1>1, <1>2, StoredFacts
<1>5. members[s] \in Collected
  BY DEF FleetInv, Typed
<1>6. /\ DOMAIN todo' = Servers /\ req' \in [Servers -> Request \cup {NoRequest}]
      /\ members' \in [Servers -> Collected]
      /\ \A t \in Servers : t # s => todo'[t] = todo[t] /\ req'[t] = req[t]
      /\ todo'[s] # <<>> => Tail(q) # <<>> /\ todo'[s] = Tail(q) /\ req'[s] = req[s]
  BY <1>2, <1>5, AdvanceFacts DEF FleetInv
<1>7. filed' \in SUBSET (Sellers \X Names \X Users) /\ removed' \in SUBSET (Sellers \X GroupIds)
  <2>1. r.op = "userPost" => r.name \in Names /\ r.user \in Users
    BY <1>3 DEF Proper
  <2>2. r.op = "groupDelete" => r.group \in GroupIds
    BY <1>3 DEF Proper
  <2>3. QED
    BY <1>2, <1>3, <2>1, <2>2 DEF FleetInv, Typed, Acknowledge, StillFiled
<1>8. Typed'
  BY <1>2, <1>4, <1>6, <1>7 DEF FleetInv, Typed
<1>9. ASSUME todo'[s] # <<>> PROVE InOrder(todo[s], req[s])'
  <2>1. PICK rest : rest = Tail(q)
    OBVIOUS
  <2>2. rest # <<>> /\ todo'[s] = rest /\ req'[s] = r
    BY <1>1, <1>6, <1>9, <2>1
  <2>3. At(rest, r) /\ Follows(r.op, call, Head(rest))
    BY <1>3, <2>1, <2>2
  <2>4. InOrder(rest, r)'
    <3>1. CASE call # "insertMsg"
      <4>1. Head(rest) # "push" /\ UNCHANGED msgs /\ Head(todo[s]) # "push"
        BY <1>1, <1>2, <1>4, <2>3, <3>1 DEF Follows
      <4>2. QED
        BY <1>1, <1>2, <1>4, <2>3, <4>1, StageAfter
    <3>2. CASE call = "insertMsg"
      <4>1. Head(rest) = "push"
        BY <2>3, <3>2 DEF Follows
      <4>2. Proper(r)'
        BY <1>3, <1>4 DEF Proper
      <4>3. At(rest, r)'
        BY <2>3 DEF At, Programs, Stages, Handler
      <4>4. QED
        BY <1>4, <3>2, <4>1, <4>2, <4>3 DEF InOrder
    <3>3. QED
      BY <3>1, <3>2
  <2>5. QED
    BY <2>2, <2>4 DEF InOrder, Proper, At, Programs, Stages, Handler
<1>10. StepOf(s)
  BY <1>1, <1>2, <1>4, <1>6, <1>8, <1>9 DEF StepOf
<1>11. NotifiedIsStored'
  <2>1. \A p \in pushed : msgs'[p.msg] # None /\ (p.op = "userMessage" => msgs'[p.msg].to = p.to)
    BY <1>4, StoredNoticesStay
  <2>2. QED
    BY <1>2, <2>1 DEF NotifiedIsStored
<1>12. QED
  BY <1>2, <1>10, <1>11

LEMMA FailFleet ==
  ASSUME FleetInv, CustomersAssumption, NEW s \in Servers, Fail(s)
  PROVE  StepOf(s) /\ Busy(s) /\ NotifiedIsStored'
<1>1. PICK r, call : r = req[s] /\ call = Head(todo[s])
  OBVIOUS
<1>2. /\ Busy(s) /\ End(s) /\ UNCHANGED <<deployed, accounts, pushed, removed>>
      /\ \/ UNCHANGED <<books, used, msgs, filed>>
         \/ /\ call \notin Queries \cup {"push"} /\ Made(s, call, r) /\ filed' = StillFiled(call, r)
  BY <1>1 DEF Fail, Busy, Made
<1>3. /\ books' \in [Sellers -> Seq(Book)]
      /\ msgs' \in [MsgIds -> {None} \cup Message] /\ MsgsStep(r)
      /\ used' \in SUBSET (GroupIds \cup MsgIds) /\ used \subseteq used'
      /\ filed' \in SUBSET (Sellers \X Names \X Users)
  <2>1. CASE UNCHANGED <<books, used, msgs, filed>>
    BY <2>1 DEF FleetInv, Typed, MsgsStep
  <2>2. CASE /\ call \notin Queries \cup {"push"} /\ Made(s, call, r) /\ filed' = StillFiled(call, r)
    <3>1. /\ books' \in [Sellers -> Seq(Book)]
          /\ msgs' \in [MsgIds -> {None} \cup Message] /\ MsgsStep(r)
          /\ used' \in SUBSET (GroupIds \cup MsgIds) /\ used \subseteq used'
      BY <1>1, <1>2, <2>2, StoredFacts
    <3>2. filed' \in SUBSET (Sellers \X Names \X Users)
      BY <2>2 DEF FleetInv, Typed, StillFiled
    <3>3. QED
      BY <3>1, <3>2
  <2>3. QED
    BY <1>2, <2>1, <2>2
<1>4. /\ DOMAIN todo' = Servers /\ req' \in [Servers -> Request \cup {NoRequest}]
      /\ members' \in [Servers -> Collected]
      /\ \A t \in Servers : t # s => todo'[t] = todo[t] /\ req'[t] = req[t]
      /\ todo'[s] = <<>>
  BY <1>2, EndFacts DEF FleetInv
<1>5. Typed'
  BY <1>2, <1>3, <1>4 DEF FleetInv, Typed
<1>6. StepOf(s)
  BY <1>1, <1>2, <1>3, <1>4, <1>5 DEF StepOf
<1>7. NotifiedIsStored'
  <2>1. \A p \in pushed : msgs'[p.msg] # None /\ (p.op = "userMessage" => msgs'[p.msg].to = p.to)
    BY <1>3, StoredNoticesStay
  <2>2. QED
    BY <1>2, <2>1 DEF NotifiedIsStored
<1>8. QED
  BY <1>2, <1>6, <1>7

LEMMA FleetStep ==
  ASSUME FleetInv, CustomersAssumption, [Next]_vars
  PROVE  FleetInv'
<1>1. CASE UNCHANGED vars
  <2>1. Typed' /\ NotifiedIsStored' /\ IdsApart'
    BY <1>1 DEF vars, FleetInv, Typed, NotifiedIsStored, IdsApart, Busy
  <2>2. Handling'
    <3>1. ASSUME NEW t \in Servers, Busy(t)' PROVE t \in deployed' /\ InOrder(todo[t], req[t])'
      <4>1. PICK q, p : q = todo[t] /\ p = req[t]
        OBVIOUS
      <4>2. Busy(t) /\ used' = used /\ msgs' = msgs /\ deployed' = deployed /\ todo'[t] = q /\ req'[t] = p
        BY <1>1, <3>1, <4>1 DEF vars, Busy
      <4>3. t \in deployed /\ InOrder(q, p)
        BY <4>1, <4>2 DEF FleetInv, Handling
      <4>4. InOrder(q, p)'
        BY <4>2, <4>3, InOrderStays
      <4>5. InOrder(todo[t], req[t])'
        BY <4>2, <4>4 DEF InOrder, Proper, At, Programs, Stages, Handler
      <4>6. QED
        BY <4>2, <4>3, <4>5
    <3>2. QED
      BY <3>1 DEF Handling
  <2>3. QED
    BY <2>1, <2>2 DEF FleetInv
<1>2. ASSUME NEW s \in deployed, NEW r \in Requests, Receive(s, r) PROVE FleetInv'
  BY <1>2, ReceiveFleet
<1>3. ASSUME NEW s \in deployed, Query(s) \/ Write(s) \/ Push(s) \/ Fail(s) PROVE FleetInv'
  <2>1. s \in Servers
    BY DEF FleetInv, Typed
  <2>2. StepOf(s) /\ Busy(s) /\ NotifiedIsStored'
    BY <1>3, <2>1, QueryFleet, WriteFleet, PushFleet, FailFleet
  <2>3. QED
    BY <2>1, <2>2, StepKeepsFleet
<1>4. QED
  BY <1>1, <1>2, <1>3 DEF Next

-----------------------------------------------------------------------------
(***************************************************************************)
(* Every step of the only process keeps the rest of the invariant          *)
(***************************************************************************)

\* The only process.
Alone(s) == deployed = {s} /\ s \in Servers

LEMMA AloneIsBusy ==
  ASSUME FleetInv, NEW s \in Servers, Alone(s), NEW t \in Servers, Busy(t)
  PROVE  t = s
BY DEF FleetInv, Handling, Alone

\* The process invariant, of the handler of a process alone.
HandlerFits(s) ==
    Busy(s) =>
      /\ Fits(Head(todo[s]), books[req[s].seller])
      /\ \A i \in Sellers, n \in Names, u \in Users : <<i, n, u>> \in filed =>
            /\ req[s].op = "groupPut" => <<req[s].seller, req[s].name, req[s].user>> # <<i, n, u>>
            /\ req[s].op = "groupDelete" => req[s].seller # i
      /\ (Head(todo[s]) \in {"insertMsg", "push"} /\ req[s].op = "groupMessage" /\ members[s].notified # {})
            => <<req[s].seller, req[s].group>> \notin removed

FiledListed ==
    \A i \in Sellers, n \in Names, u \in Users :
        <<i, n, u>> \in filed => ListsIn(books[i], n, u)

LEMMA ProcessInvParts ==
  ASSUME FleetInv, NEW s \in Servers, Alone(s)
  PROVE  ProcessInv <=> FiledListed /\ RemovedIsGone /\ HandlerFits(s)
<1>1. \A t \in Servers : Busy(t) => t = s
  BY AloneIsBusy
<1>2. ProcessInv => FiledListed /\ RemovedIsGone /\ HandlerFits(s)
  BY DEF ProcessInv, FiledListed, HandlerFits, StillFound, FiledStays, CollectedIsThere
<1>3. ASSUME FiledListed, RemovedIsGone, HandlerFits(s) PROVE ProcessInv
  <2>1. StillFound /\ CollectedIsThere
    BY <1>1, <1>3 DEF HandlerFits, StillFound, CollectedIsThere
  <2>2. FiledStays
    BY <1>1, <1>3 DEF HandlerFits, FiledListed, FiledStays
  <2>3. QED
    BY <1>3, <2>1, <2>2 DEF ProcessInv
<1>4. QED
  BY <1>2, <1>3

\* What a step leaves as it is when it touches no document.
LEMMA BooksStay ==
  ASSUME FiledListed, RemovedIsGone, UNCHANGED <<books, removed>>,
         filed' \subseteq filed, used \subseteq used'
  PROVE  FiledListed' /\ RemovedIsGone'
BY DEF FiledListed, RemovedIsGone

LEMMA ReceiveProcess ==
  ASSUME FleetInv, NEW s \in Servers, Alone(s), FiledListed, RemovedIsGone,
         NEW r \in Requests, Receive(s, r)
  PROVE  FiledListed' /\ RemovedIsGone' /\ HandlerFits(s)'
<1>1. /\ todo' = [todo EXCEPT ![s] = Handler(r)] /\ req' = [req EXCEPT ![s] = r]
      /\ used' = used \cup ({r.msg} \ {None})
      /\ filed' = CASE r.op = "groupPut"    -> filed \ {<<r.seller, r.name, r.user>>}
                    [] r.op = "groupDelete" -> {f \in filed : f[1] # r.seller}
                    [] OTHER                -> filed
      /\ UNCHANGED <<deployed, accounts, books, msgs, pushed, removed, members>>
  BY DEF Receive
<1>2. filed' \subseteq filed
  BY <1>1
<1>3. FiledListed' /\ RemovedIsGone'
  BY <1>1, <1>2, BooksStay
<1>4. r.op \in Ops
  BY DEF Requests, RequestOf, Ops
<1>5. Head(Handler(r)) \in Starts
  BY <1>4, FirstStage
<1>6. todo'[s] = Handler(r) /\ req'[s] = r
  BY <1>1 DEF FleetInv, Typed
<1>7. Fits(Head(todo[s]), books[req[s].seller])'
  BY <1>5, <1>6 DEF Fits, Starts
<1>8. Head(todo'[s]) \notin {"insertMsg", "push"}
  BY <1>5, <1>6 DEF Starts
<1>9. ASSUME NEW i \in Sellers, NEW n \in Names, NEW u \in Users, <<i, n, u>> \in filed'
      PROVE  /\ r.op = "groupPut" => <<r.seller, r.name, r.user>> # <<i, n, u>>
             /\ r.op = "groupDelete" => r.seller # i
  <2>1. r.op = "groupPut" => <<r.seller, r.name, r.user>> # <<i, n, u>>
    BY <1>1, <1>9
  <2>2. r.op = "groupDelete" => r.seller # i
    BY <1>1, <1>9
  <2>3. QED
    BY <2>1, <2>2
<1>10. HandlerFits(s)'
  BY <1>6, <1>7, <1>8, <1>9 DEF HandlerFits
<1>11. QED
  BY <1>3, <1>10

\* Who is to be notified has been read from a group with the id.
LEMMA CollectedFrom ==
  ASSUME NEW b \in Book, NEW r, MembersOf(b, r).notified # {}
  PROVE  HasId(b.groups, r.group)
<1>1. PICK gs : gs = b.groups
  OBVIOUS
<1>2. gs \in Seq(Group)
  BY <1>1, BookFields
<1>3. PICK named : named = {g \in ToSet(gs) : g.id = r.group}
  OBVIOUS
<1>4. MembersOf(b, r).notified = UNION {Every2nd(g.users, 1) : g \in named}
  BY <1>1, <1>3 DEF MembersOf
<1>5. PICK g \in ToSet(gs) : g.id = r.group
  BY <1>3, <1>4
<1>6. PICK j \in 1..Len(gs) : gs[j] = g
  BY <1>2, <1>5 DEF ToSet
<1>7. QED
  BY <1>1, <1>5, <1>6 DEF HasId

LEMMA QueryProcess ==
  ASSUME FleetInv, NEW s \in Servers, Alone(s), FiledListed, RemovedIsGone, HandlerFits(s),
         CustomersAssumption, Query(s)
  PROVE  FiledListed' /\ RemovedIsGone' /\ HandlerFits(s)'
<1>1. PICK q, r : q = todo[s] /\ r = req[s]
  OBVIOUS
<1>2. PICK rest : rest = IF Finds(Head(q), r) THEN Tail(q) ELSE Otherwise(Head(q), r)
  OBVIOUS
<1>3. /\ Busy(s) /\ Head(q) \in Queries
      /\ End(s) \/ \E found \in Collected : Reads(s, Head(q), r, found) /\ Advance(s, rest, found)
      /\ UNCHANGED <<deployed, accounts, books, msgs, pushed, used, filed, removed>>
  BY <1>1, <1>2, QueryFacts
<1>4. CASE End(s)
  <2>1. todo'[s] = <<>>
    BY <1>4, EndFacts DEF FleetInv
  <2>2. QED
    BY <1>3, <2>1, BooksStay DEF HandlerFits, Busy
<1>5. ASSUME NEW found \in Collected, Reads(s, Head(q), r, found), Advance(s, rest, found)
      PROVE  FiledListed' /\ RemovedIsGone' /\ HandlerFits(s)'
  <2>1. FiledListed' /\ RemovedIsGone'
    BY <1>3, BooksStay
  <2>2. r.seller \in Sellers /\ Caller(r.op, Head(q)) /\ Proper(r)
    BY <1>1, <1>3, BusyFacts
  <2>3. todo'[s] # <<>> => rest # <<>> /\ todo'[s] = rest /\ req'[s] = r /\ members'[s] = found
    BY <1>1, <1>5, AdvanceFacts DEF FleetInv
  <2>4. ASSUME todo'[s] # <<>> PROVE HandlerFits(s)'
    <3>1. /\ Head(rest) \in {"findGroup", "pushGroup"} => Head(q) = "findBook" /\ Finds(Head(q), r)
          /\ Head(rest) = "insertBook" => Head(q) = "findBook" /\ ~Finds(Head(q), r)
          /\ Head(rest) = "replaceGroups" => Head(q) = "findGroup"
          /\ (Head(rest) = "insertMsg" /\ r.op = "groupMessage") => Head(q) = "readGroup"
          /\ Head(rest) # "push"
      BY <1>1, <1>2, <1>3, <2>3, <2>4, AfterQuery
    <3>2. Head(q) = "findBook" => (Finds(Head(q), r) <=> books[r.seller] # <<>>)
      <4>1. PICK bs : bs = books[r.seller]
        OBVIOUS
      <4>2. bs \in Seq(Book)
        BY <2>2, <4>1 DEF FleetInv, Typed
      <4>3. DOMAIN bs # {} <=> bs # <<>>
        <5>1. Len(bs) \in Nat /\ DOMAIN bs = 1..Len(bs) /\ (bs # <<>> <=> 1 \in 1..Len(bs))
          BY ONLY <4>2, Elements
        <5>2. 1 \in 1..Len(bs) <=> 1..Len(bs) # {}
          BY <5>1
        <5>3. QED
          BY <5>1, <5>2
      <4>4. Head(q) = "findBook" => (Finds(Head(q), r) <=> DOMAIN bs # {})
        BY <4>1 DEF Finds, Matches
      <4>5. QED
        BY <4>1, <4>3, <4>4
    <3>3. Head(q) = "findGroup" => books[r.seller] # <<>>
      BY <1>1, <1>3 DEF HandlerFits, Fits
    <3>4. Fits(Head(rest), books[r.seller])
      BY <3>1, <3>2, <3>3 DEF Fits
    <3>5. (Head(rest) \in {"insertMsg", "push"} /\ r.op = "groupMessage" /\ found.notified # {})
             => <<r.seller, r.group>> \notin removed
      <4>1. SUFFICES ASSUME Head(rest) \in {"insertMsg", "push"}, r.op = "groupMessage", found.notified # {},
                            <<r.seller, r.group>> \in removed
                     PROVE  FALSE
        OBVIOUS
      <4>2. PICK k \in 1..Len(books[r.seller]) : found = MembersOf(books[r.seller][k], r)
        BY <1>5, <3>1, <4>1 DEF Reads
      <4>3. books[r.seller][k] \in Book
        BY <2>2 DEF FleetInv, Typed
      <4>4. HasIdIn(books[r.seller], r.group)
        BY <4>1, <4>2, <4>3, CollectedFrom DEF HasIdIn
      <4>5. r.group \in GroupIds
        BY <4>1 DEF FleetInv, Typed
      <4>6. QED
        BY <2>2, <4>1, <4>5, <4>4 DEF RemovedIsGone
    <3>6. /\ todo'[s] = rest /\ req'[s] = r /\ members'[s] = found
          /\ books' = books /\ filed' = filed /\ removed' = removed
      BY <1>3, <2>3, <2>4
    <3>7. \A i \in Sellers, n \in Names, u \in Users : <<i, n, u>> \in filed =>
              /\ r.op = "groupPut" => <<r.seller, r.name, r.user>> # <<i, n, u>>
              /\ r.op = "groupDelete" => r.seller # i
      BY <1>1, <1>3 DEF HandlerFits
    <3>8. Fits(Head(todo[s]), books[req[s].seller])'
      BY <3>4, <3>6 DEF Fits
    <3>9. QED
      BY <3>5, <3>6, <3>7, <3>8 DEF HandlerFits
  <2>5. QED
    BY <2>1, <2>4 DEF HandlerFits, Busy
<1>6. QED
  BY <1>3, <1>4, <1>5

\* What a call that is made leaves of the groups and of what was promised.
LEMMA StoredProcess ==
  ASSUME FleetInv, NEW s \in Servers, FiledListed, RemovedIsGone, HandlerFits(s),
         CustomersAssumption, Busy(s), NEW r, r = req[s], NEW call, call = Head(todo[s]), call # "push",
         Made(s, call, r)
  PROVE  /\ \A i \in Sellers, n \in Names, u \in Users :
               <<i, n, u>> \in StillFiled(call, r) => ListsIn(books'[i], n, u)
         /\ (r.op = "userPost" /\ call \in Writes) => ListsIn(books'[r.seller], r.name, r.user)
         /\ \A i \in Sellers, x \in GroupIds : <<i, x>> \in removed =>
               x \in used' /\ ~HasIdIn(books'[i], x)
         /\ (call = "pullGroup" /\ Certain(r)) => ~HasIdIn(books'[r.seller], r.group)
<1>1. /\ Proper(r) /\ r.op \in Ops /\ r.seller \in Sellers /\ Caller(r.op, call)
  BY BusyFacts
<1>2. PICK k, g : StoredBy(call, r, k, g)
  BY StoredFacts
<1>3. used \subseteq used'
  BY StoredFacts
<1>4. PICK bs, cs : bs = books[r.seller] /\ cs = NewBooks(call, bs, r, k, g)
  OBVIOUS
<1>5. bs \in Seq(Book) /\ Fits(call, bs) /\ Met(call, bs, r, k) /\ g \in GroupIds \cup {None}
  BY <1>1, <1>2, <1>4 DEF FleetInv, Typed, HandlerFits, StoredBy
<1>6. Effect(call, bs, cs, r, g)
  BY <1>1, <1>4, <1>5, NewBooksEffect
<1>7. books' = [books EXCEPT ![r.seller] = cs]
  BY <1>2, <1>4 DEF StoredBy
<1>8. books'[r.seller] = cs /\ \A i \in Sellers : i # r.seller => books'[i] = books[i]
  BY <1>1, <1>7 DEF FleetInv, Typed
<1>9. ASSUME NEW i \in Sellers, NEW n \in Names, NEW u \in Users, <<i, n, u>> \in StillFiled(call, r)
       PROVE  ListsIn(books'[i], n, u)
  <2>1. <<i, n, u>> \in filed
    BY <1>9 DEF StillFiled
  <2>2. ListsIn(books[i], n, u)
    BY <2>1 DEF FiledListed
  <2>3. CASE i # r.seller
    BY <1>8, <2>2, <2>3
  <2>4. CASE i = r.seller
    <3>1. call # "replaceGroups"
      BY <1>9, <2>4 DEF StillFiled
    <3>2. call # "pullGroup"
      BY <1>1, <2>1, <2>4 DEF Caller, HandlerFits
    <3>3. call = "pullMember" => <<n, u>> # <<r.name, r.user>>
      BY <1>1, <2>1, <2>4 DEF Caller, HandlerFits
    <3>4. ListsIn(cs, n, u)
      BY <1>4, <1>6, <2>2, <2>4, <3>1, <3>2, <3>3 DEF Effect
    <3>5. QED
      BY <1>8, <2>4, <3>4
  <2>5. QED
    BY <2>3, <2>4
<1>10. ASSUME NEW i \in Sellers, NEW x \in GroupIds, <<i, x>> \in removed
       PROVE  x \in used' /\ ~HasIdIn(books'[i], x)
  <2>1. x \in used /\ ~HasIdIn(books[i], x)
    BY <1>10 DEF RemovedIsGone
  <2>2. CASE i # r.seller
    BY <1>3, <1>8, <2>1, <2>2
  <2>3. CASE i = r.seller
    <3>1. Creates(call, r) => g \notin used
      BY <1>2 DEF StoredBy
    <3>2. ~HasIdIn(cs, x)
      BY <1>4, <1>6, <2>1, <2>3, <3>1 DEF Effect
    <3>3. QED
      BY <1>3, <1>8, <2>1, <2>3, <3>2
  <2>4. QED
    BY <2>2, <2>3
<1>11. QED
  BY <1>4, <1>5, <1>6, <1>8, <1>9, <1>10 DEF Effect, Certain

LEMMA WriteProcess ==
  ASSUME FleetInv, NEW s \in Servers, Alone(s), FiledListed, RemovedIsGone, HandlerFits(s),
         CustomersAssumption, Write(s)
  PROVE  FiledListed' /\ RemovedIsGone' /\ HandlerFits(s)'
<1>1. PICK q, r, call : q = todo[s] /\ r = req[s] /\ call = Head(todo[s])
  OBVIOUS
<1>2. /\ Busy(s) /\ call \notin Queries \cup {"push"} /\ Made(s, call, r) /\ Advance(s, Tail(q), members[s])
      /\ IF Tail(q) = <<>> THEN Acknowledge(r, call) ELSE UNCHANGED <<filed, removed>>
      /\ UNCHANGED <<deployed, accounts, pushed>>
  BY <1>1 DEF Write, Busy, Made
<1>3. /\ Proper(r) /\ r.op \in Ops /\ r.seller \in Sellers /\ Caller(r.op, call)
      /\ Tail(q) # <<>> => At(Tail(q), r) /\ Follows(r.op, call, Head(Tail(q)))
  BY <1>1, <1>2, BusyFacts
<1>4. call \in Writes
  BY <1>2, <1>3 DEF Caller, AllCalls
<1>5. /\ \A i \in Sellers, n \in Names, u \in Users :
            <<i, n, u>> \in StillFiled(call, r) => ListsIn(books'[i], n, u)
      /\ r.op = "userPost" => ListsIn(books'[r.seller], r.name, r.user)
      /\ \A i \in Sellers, x \in GroupIds : <<i, x>> \in removed =>
            x \in used' /\ ~HasIdIn(books'[i], x)
      /\ (call = "pullGroup" /\ Certain(r)) => ~HasIdIn(books'[r.seller], r.group)
  BY <1>1, <1>2, <1>4, StoredProcess
<1>6. used \subseteq used'
  BY <1>1, <1>2, StoredFacts
<1>7. call = "replaceGroups" => Tail(q) = <<>>
  BY <1>3 DEF Follows
<1>8. FiledListed'
  <2>1. ASSUME NEW i \in Sellers, NEW n \in Names, NEW u \in Users, <<i, n, u>> \in filed'
        PROVE  ListsIn(books'[i], n, u)
    <3>1. CASE Tail(q) # <<>>
      <4>1. <<i, n, u>> \in StillFiled(call, r)
        BY <1>2, <1>7, <2>1, <3>1 DEF StillFiled
      <4>2. QED
        BY <1>5, <4>1
    <3>2. CASE Tail(q) = <<>>
      <4>1. \/ <<i, n, u>> \in StillFiled(call, r)
            \/ r.op = "userPost" /\ <<i, n, u>> = <<r.seller, r.name, r.user>>
        BY <1>2, <2>1, <3>2 DEF Acknowledge
      <4>2. QED
        BY <1>5, <4>1
    <3>3. QED
      BY <3>1, <3>2
  <2>2. QED
    BY <2>1 DEF FiledListed
<1>9. RemovedIsGone'
  <2>1. ASSUME NEW i \in Sellers, NEW x \in GroupIds, <<i, x>> \in removed'
        PROVE  x \in used' /\ ~HasIdIn(books'[i], x)
    <3>1. CASE <<i, x>> \in removed
      BY <1>5, <3>1
    <3>2. CASE <<i, x>> \notin removed
      <4>1. r.op = "groupDelete" /\ i = r.seller /\ x = r.group /\ Certain(r)
        BY <1>2, <2>1, <3>2 DEF Acknowledge
      <4>2. call = "pullGroup"
        BY <1>3, <1>4, <4>1 DEF Caller, Writes, Messaging
      <4>3. x \in used
        BY <1>3, <4>1 DEF Proper
      <4>4. QED
        BY <1>5, <1>6, <4>1, <4>2, <4>3
    <3>3. QED
      BY <3>1, <3>2
  <2>2. QED
    BY <2>1 DEF RemovedIsGone
<1>10. members[s] \in Collected
  BY DEF FleetInv, Typed
<1>11. todo'[s] # <<>> => Tail(q) # <<>> /\ todo'[s] = Tail(q) /\ req'[s] = r /\ members'[s] = members[s]
  BY <1>1, <1>2, <1>10, AdvanceFacts DEF FleetInv
<1>12. ASSUME todo'[s] # <<>> PROVE HandlerFits(s)'
  <2>1. PICK rest : rest = Tail(q)
    OBVIOUS
  <2>2. /\ rest # <<>> /\ todo'[s] = rest /\ req'[s] = r /\ members'[s] = members[s]
        /\ filed' = filed /\ removed' = removed
    BY <1>2, <1>11, <1>12, <2>1
  <2>3. Follows(r.op, call, Head(rest))
    BY <1>3, <2>1, <2>2
  <2>4. Head(rest) \notin {"insertBook", "findGroup", "pushGroup", "replaceGroups"}
    BY <1>4, <2>3 DEF Follows, Writes
  <2>5. Fits(Head(todo[s]), books[req[s].seller])'
    BY <2>2, <2>4 DEF Fits
  <2>6. (Head(rest) \in {"insertMsg", "push"} /\ r.op = "groupMessage") => call = "insertMsg"
    BY <1>4, <2>3 DEF Follows, Writes
  <2>7. QED
    BY <1>1, <1>2, <2>2, <2>5, <2>6 DEF HandlerFits
<1>13. QED
  BY <1>8, <1>9, <1>12 DEF HandlerFits, Busy

LEMMA FailProcess ==
  ASSUME FleetInv, NEW s \in Servers, Alone(s), FiledListed, RemovedIsGone, HandlerFits(s),
         CustomersAssumption, Fail(s)
  PROVE  FiledListed' /\ RemovedIsGone' /\ HandlerFits(s)'
<1>1. PICK r, call : r = req[s] /\ call = Head(todo[s])
  OBVIOUS
<1>2. /\ Busy(s) /\ End(s) /\ UNCHANGED <<deployed, accounts, pushed, removed>>
      /\ \/ UNCHANGED <<books, used, msgs, filed>>
         \/ /\ call \notin Queries \cup {"push"} /\ Made(s, call, r) /\ filed' = StillFiled(call, r)
  BY <1>1 DEF Fail, Busy, Made
<1>3. todo'[s] = <<>>
  BY <1>2, EndFacts DEF FleetInv
<1>4. HandlerFits(s)'
  BY <1>3 DEF HandlerFits, Busy
<1>5. CASE UNCHANGED <<books, used, msgs, filed>>
  BY <1>2, <1>4, <1>5, BooksStay
<1>6. CASE /\ call \notin Queries \cup {"push"} /\ Made(s, call, r) /\ filed' = StillFiled(call, r)
  <2>1. /\ \A i \in Sellers, n \in Names, u \in Users :
              <<i, n, u>> \in StillFiled(call, r) => ListsIn(books'[i], n, u)
        /\ \A i \in Sellers, x \in GroupIds : <<i, x>> \in removed =>
              x \in used' /\ ~HasIdIn(books'[i], x)
    BY <1>1, <1>2, <1>6, StoredProcess
  <2>2. FiledListed'
    BY <1>6, <2>1 DEF FiledListed
  <2>3. RemovedIsGone'
    BY <1>2, <2>1 DEF RemovedIsGone
  <2>4. QED
    BY <1>4, <2>2, <2>3
<1>7. QED
  BY <1>2, <1>5, <1>6

LEMMA PushProcess ==
  ASSUME FleetInv, NEW s \in Servers, FiledListed, RemovedIsGone, Push(s)
  PROVE  FiledListed' /\ RemovedIsGone' /\ HandlerFits(s)'
<1>1. todo'[s] = <<>>
  BY PushFleet
<1>2. UNCHANGED <<books, used, filed, removed>>
  BY DEF Push
<1>3. QED
  BY <1>1, <1>2, BooksStay DEF HandlerFits, Busy

LEMMA ProcessStep ==
  ASSUME CustomersInv, CustomersAssumption, [Next]_vars, OneServer
  PROVE  ProcessInv'
<1>1. PICK s \in Servers : deployed = {s}
  BY DEF OneServer
<1>2. FleetInv /\ ProcessInv /\ Alone(s)
  BY <1>1 DEF CustomersInv, Alone
<1>3. FiledListed /\ RemovedIsGone /\ HandlerFits(s)
  BY <1>2, ProcessInvParts
<1>4. FleetInv'
  BY <1>2, FleetStep
<1>5. FiledListed' /\ RemovedIsGone' /\ HandlerFits(s)'
  <2>1. CASE UNCHANGED vars
    BY <1>3, <2>1 DEF vars, FiledListed, RemovedIsGone, HandlerFits, Busy
  <2>2. ASSUME NEW r \in Requests, Receive(s, r) PROVE FiledListed' /\ RemovedIsGone' /\ HandlerFits(s)'
    BY <1>2, <1>3, <2>2, ReceiveProcess
  <2>3. CASE Query(s)
    BY <1>2, <1>3, <2>3, QueryProcess
  <2>4. CASE Write(s)
    BY <1>2, <1>3, <2>4, WriteProcess
  <2>5. CASE Push(s)
    BY <1>2, <1>3, <2>5, PushProcess
  <2>6. CASE Fail(s)
    BY <1>2, <1>3, <2>6, FailProcess
  <2>7. QED
    BY <1>1, <2>1, <2>2, <2>3, <2>4, <2>5, <2>6 DEF Next
<1>6. deployed' = deployed
  BY DEF Next, Receive, Query, Write, Push, Fail, vars
<1>7. \A t \in Servers : Busy(t)' => t = s
  BY <1>1, <1>4, <1>6 DEF FleetInv, Handling
<1>8. (StillFound /\ CollectedIsThere)'
  BY <1>5, <1>7 DEF HandlerFits, StillFound, CollectedIsThere
<1>9. FiledStays'
  BY <1>5, <1>7 DEF HandlerFits, FiledListed, FiledStays
<1>10. QED
  BY <1>5, <1>8, <1>9 DEF ProcessInv

-----------------------------------------------------------------------------
(***************************************************************************)
(* The theorems                                                            *)
(***************************************************************************)

LEMMA InitHolds ==
  ASSUME Init
  PROVE  CustomersInv
<1>1. \A s \in Servers : todo[s] = <<>>
  BY DEF Init
<1>2. EmptyBook \in Book
  <2>1. <<>> \in Seq(Group)
    OBVIOUS
  <2>2. QED
    BY <2>1 DEF EmptyBook, Book
<1>3. PICK e : e = EmptyBook
  OBVIOUS
<1>4. ASSUME NEW i \in Sellers
      PROVE  books[i] \in Seq(Book)
  <2>1. books[i] \in {<<>>, <<e>>, <<e, e>>}
    BY <1>3 DEF Init
  <2>2. e \in Book
    BY <1>2, <1>3
  <2>3. <<>> \in Seq(Book) /\ <<e>> \in Seq(Book) /\ <<e, e>> \in Seq(Book)
    BY <2>2
  <2>4. QED
    BY <2>1, <2>3
<1>5. Typed
  <2>1. books \in [Sellers -> Seq(Book)]
    <3>1. DOMAIN books = Sellers /\ books = [i \in DOMAIN books |-> books[i]]
      BY DEF Init
    <3>2. QED
      BY <1>4, <3>1
  <2>2. NobodyCollected \in Collected
    BY DEF NobodyCollected, Collected
  <2>3. QED
    BY <2>1, <2>2 DEF Init, Typed
<1>6. Handling /\ NotifiedIsStored /\ IdsApart
  BY <1>1 DEF Init, Handling, NotifiedIsStored, IdsApart, Busy
<1>7. ProcessInv
  BY <1>1 DEF Init, ProcessInv, StillFound, FiledStays, RemovedIsGone,
                    CollectedIsThere, Busy
<1>8. QED
  BY <1>5, <1>6, <1>7 DEF CustomersInv, FleetInv

LEMMA DeployedStays ==
  ASSUME [Next]_vars
  PROVE  deployed' = deployed
BY DEF Next, Receive, Query, Write, Push, Fail, vars

LEMMA CustomersStep ==
  ASSUME CustomersInv, CustomersAssumption, [Next]_vars
  PROVE  CustomersInv'
<1>1. FleetInv'
  BY FleetStep DEF CustomersInv
<1>2. OneServer' => OneServer
  BY DeployedStays DEF OneServer
<1>3. OneServer => ProcessInv'
  BY ProcessStep
<1>4. QED
  BY <1>1, <1>2, <1>3 DEF CustomersInv

\* The invariant is inductive: of every number of processes its first part, and
\* of one process all of it.
THEOREM CustomersInductive == Spec => []CustomersInv
<1>1. Init => CustomersInv
  BY InitHolds
<1>2. CustomersInv /\ [Next]_vars => CustomersInv'
  BY CustomersStep, CustomersAssumption
<1>3. QED
  BY <1>1, <1>2, PTL DEF Spec

\* A user is only notified of a message that is stored, whatever is cut short
\* and however many processes there are: the handlers insert before they push,
\* and no two of them have the same msg_id.
THEOREM CustomersMessagesStored == Spec => []NotifiedIsStored
<1>1. CustomersInv => NotifiedIsStored
  BY DEF CustomersInv, FleetInv
<1>2. QED
  BY <1>1, CustomersInductive, PTL

\* With one process, a customer whose addition to a group was answered with
\* APIE_OK is in a group of that name that UserList::Get shows of a document of
\* the seller, until somebody asks to take the customer out of the group or to
\* remove any group of the seller, or a new group takes the place of all others.
THEOREM CustomersFiledListed == Spec => []FiledIsListed
<1>1. CustomersInv => FiledIsListed
  <2>1. SUFFICES ASSUME CustomersInv, OneServer, NEW f \in filed
                 PROVE  \E b \in ToSet(books[f[1]]) : <<f[2], f[3]>> \in UserList(b)
    BY DEF FiledIsListed
  <2>2. PICK i \in Sellers, n \in Names, u \in Users : f = <<i, n, u>>
    BY <2>1 DEF CustomersInv, FleetInv, Typed
  <2>3. ListsIn(books[i], n, u) /\ books[i] \in Seq(Book)
    BY <2>1, <2>2 DEF CustomersInv, ProcessInv, FiledStays, FleetInv, Typed
  <2>4. PICK k \in 1..Len(books[i]) : Lists(books[i][k].groups, n, u)
    BY <2>3 DEF ListsIn
  <2>5. PICK b, gs : b = books[i][k] /\ gs = b.groups
    OBVIOUS
  <2>6. b \in Book /\ b \in ToSet(books[i]) /\ Lists(gs, n, u)
    BY <2>3, <2>4, <2>5 DEF ToSet
  <2>7. gs \in Seq(Group)
    BY <2>5, <2>6, BookFields
  <2>8. PICK j \in 1..Len(gs) : gs[j].name = n /\ \E m \in 1..Len(gs[j].users) : gs[j].users[m] = u
    BY <2>6 DEF Lists
  <2>9. PICK g : g = gs[j]
    OBVIOUS
  <2>10. g \in ToSet(gs) /\ g \in Group /\ g.name = n
    BY <2>7, <2>8, <2>9 DEF ToSet
  <2>11. u \in ToSet(g.users)
    <3>1. g.users \in Seq(Users)
      BY <2>10, GroupFields
    <3>2. QED
      BY <2>8, <2>9, <3>1 DEF ToSet
  <2>12. <<n, u>> \in UNION {{<<h.name, v>> : v \in ToSet(h.users)} : h \in ToSet(gs)}
    BY <2>10, <2>11
  <2>13. <<n, u>> \in UserList(b)
    BY <2>5, <2>12 DEF UserList
  <2>14. QED
    BY <2>2, <2>6, <2>13
<1>2. QED
  BY <1>1, CustomersInductive, PTL

LEMMA DocumentsGrow ==
  ASSUME FleetInv, CustomersAssumption, [Next]_vars
  PROVE  books' = books \/ BooksGrow
<1>1. ASSUME NEW s \in deployed, Write(s) PROVE BooksGrow
  <2>1. PICK r, call : r = req[s] /\ call = Head(todo[s])
    OBVIOUS
  <2>2. s \in Servers /\ Busy(s) /\ call # "push" /\ Made(s, call, r)
    BY <1>1, <2>1 DEF Write, Busy, Made, FleetInv, Typed
  <2>3. QED
    BY <2>1, <2>2, StoredFacts
<1>2. ASSUME NEW s \in deployed, Fail(s) PROVE books' = books \/ BooksGrow
  <2>1. PICK r, call : r = req[s] /\ call = Head(todo[s])
    OBVIOUS
  <2>2. /\ s \in Servers /\ Busy(s)
        /\ \/ books' = books
           \/ call # "push" /\ Made(s, call, r)
    BY <1>2, <2>1 DEF Fail, Busy, Made, FleetInv, Typed
  <2>3. QED
    BY <2>1, <2>2, StoredFacts
<1>3. ASSUME NEW s \in deployed, Query(s) \/ Push(s) \/ \E r \in Requests : Receive(s, r) PROVE books' = books
  BY <1>3 DEF Query, Push, Receive
<1>4. CASE UNCHANGED vars
  BY <1>4 DEF vars
<1>5. QED
  BY <1>1, <1>2, <1>3, <1>4 DEF Next

\* The record of a customer is lost in no step but one of a User::Delete for this
\* customer, however many processes there are.
THEOREM CustomersKept == Spec => CustomersAreKept
<1>1. CustomersInv /\ [Next]_vars =>
        [\A i \in Sellers : \A u \in Customers(i) \ Customers(i)' :
            \E s \in Servers : /\ todo'[s] # todo[s]
                               /\ req[s].op = "userDelete" /\ req[s].seller = i /\ req[s].user = u]_vars
  <2>1. SUFFICES ASSUME CustomersInv, [Next]_vars, NEW i \in Sellers
                 PROVE  Customers(i) \subseteq Customers(i)'
    OBVIOUS
  <2>2. books' = books \/ BooksGrow
    BY <2>1, DocumentsGrow, CustomersAssumption DEF CustomersInv
  <2>3. CASE books' = books
    BY <2>3 DEF Customers
  <2>4. CASE BooksGrow
    <3>1. PICK bs, cs : bs = books[i] /\ cs = books'[i]
      OBVIOUS
    <3>2. Grown(bs, cs) /\ bs \in Seq(Book)
      BY <2>1, <2>4, <3>1 DEF BooksGrow, CustomersInv, FleetInv, Typed
    <3>3. UNION {bs[k].users : k \in DOMAIN bs} \subseteq UNION {cs[k].users : k \in DOMAIN cs}
      <4>1. DOMAIN bs = 1..Len(bs) /\ DOMAIN cs = 1..Len(cs) /\ Len(bs) \in Nat /\ Len(cs) \in Nat
        BY <3>2 DEF Grown
      <4>2. \A k \in 1..Len(bs) : k \in 1..Len(cs) /\ bs[k].users \subseteq cs[k].users
        BY <3>2, <4>1 DEF Grown
      <4>3. QED
        BY <4>1, <4>2
    <3>4. Customers(i) = UNION {bs[k].users : k \in DOMAIN bs}
      BY <3>1 DEF Customers
    <3>5. Customers(i)' = UNION {cs[k].users : k \in DOMAIN cs}
      BY <3>1 DEF Customers
    <3>6. QED
      BY <3>3, <3>4, <3>5
  <2>5. QED
    BY <2>2, <2>3, <2>4
<1>2. QED
  BY <1>1, CustomersInductive, PTL DEF Spec, CustomersAreKept

\* With one process, nobody is notified of a message to a group after the request
\* to remove it, by a seller who has one document, was answered with APIE_OK.
THEOREM CustomersRemovedSilent == Spec => NoMessageToRemovedGroup
<1>1. CustomersInv /\ [Next]_vars
        => [OneServer => \A p \in pushed' \ pushed : <<p.seller, p.group>> \notin removed]_vars
  <2>1. SUFFICES ASSUME CustomersInv, [Next]_vars, OneServer, NEW p \in pushed' \ pushed
                 PROVE  <<p.seller, p.group>> \notin removed
    OBVIOUS
  <2>2. PICK s \in deployed : Push(s)
    BY <2>1 DEF Next, Receive, Query, Write, Fail, vars
  <2>3. FleetInv /\ CollectedIsThere /\ s \in Servers
    BY <2>1, <2>2 DEF CustomersInv, ProcessInv, FleetInv, Typed
  <2>4. PICK r, to : r = req[s] /\ to = Notified(req[s], members[s])
    OBVIOUS
  <2>5. PICK e : e = [msg |-> r.msg, op |-> r.op, seller |-> r.seller, group |-> r.group, to |-> to]
    OBVIOUS
  <2>6. Busy(s) /\ Head(todo[s]) = "push" /\ to # {} /\ p = e
    BY <2>1, <2>2, <2>4, <2>5 DEF Push, Busy
  <2>7. Proper(r) /\ Caller(r.op, "push")
    BY <2>3, <2>4, <2>6, BusyFacts
  <2>8. p.seller = r.seller /\ p.group = r.group
    BY <2>5, <2>6
  <2>9. CASE r.op = "groupMessage"
    <3>1. members[s].notified # {}
      BY <2>4, <2>6, <2>9 DEF Notified
    <3>2. QED
      BY <2>3, <2>4, <2>6, <2>8, <2>9, <3>1 DEF CollectedIsThere
  <2>10. CASE r.op = "userMessage"
    <3>1. r.group = None /\ None \notin GroupIds
      BY <2>7, <2>10, CustomersAssumption DEF Proper, CustomersAssumption
    <3>2. QED
      BY <2>3, <2>8, <3>1 DEF FleetInv, Typed
  <2>11. QED
    BY <2>7, <2>9, <2>10 DEF Caller, Messaging
<1>2. QED
  BY <1>1, CustomersInductive, PTL DEF Spec, NoMessageToRemovedGroup
=============================================================================
