--------------------------- MODULE AccountsProofs ---------------------------
(***************************************************************************)
(* Proofs about Accounts: one server process, any sets of identifiers,     *)
(* passwords and devices.                                                  *)
(***************************************************************************)
EXTENDS Accounts, FiniteSetTheorems, TLAPS

OneServer == \A s, t \in Servers : s = t

-----------------------------------------------------------------------------
(***************************************************************************)
(* The inductive invariant                                                 *)
(***************************************************************************)

\* The documents of an identifier: none, the registered one, or that and one
\* that seller::Accusation::Delete has made.
Proper(q) ==
    \/ Len(q) = 0
    \/ Len(q) = 1 /\ q[1].made = "registered"
    \/ Len(q) = 2 /\ q[1].made = "registered" /\ q[2].made = "withdraw"

CollectionsProper ==
    \A r \in Roles, i \in Ids : Proper(account[r][i]) /\ Len(session[r][i]) <= 1

PwdMatches(r) == \E k \in DOMAIN Accounts(r) : Accounts(r)[k].pwd = r.pwd

\* What a handler has found out when it comes to a call is still so.
FindingsHold ==
    \A s \in Servers :
        LET r == req[s]
        IN /\ pc[s] # "idle" => r \in Requests /\ answer[s] = "none"
           /\ pc[s] = "insert" => r.op = "register" /\ Accounts(r) = <<>>
           /\ pc[s] \in {"insertMsg", "insertUsrmng"} => r.op = "register" /\ r.role = "seller"
           /\ pc[s] = "insertUsrmng" => msg[r.id] > 0
           /\ pc[s] \in {"setPwd", "remove", "update"} => r.op # "login"
           /\ pc[s] = "update" => Accounts(r) # <<>>
           /\ pc[s] \in {"findSession", "insertSession", "updateSession"} =>
                 r.op = "login" /\ PwdMatches(r)
           /\ pc[s] = "insertSession" => Sessions(r) = <<>>

\* The bound on the documents of a seller leaves room for a registration.
RoomLeft ==
    \A s \in Servers : (pc[s] # "idle" /\ req[s].op = "register" /\ req[s].role = "seller") =>
        /\ pc[s] # "insertUsrmng" => msg[req[s].id] < MaxDocs
        /\ usrmng[req[s].id] < MaxDocs

AccountsInv ==
    /\ TypeOK
    /\ CollectionsProper
    /\ FindingsHold
    /\ RoomLeft
    /\ LoginIsEffective
    /\ SellersAreComplete

-----------------------------------------------------------------------------
(***************************************************************************)
(* What a call leaves stored                                               *)
(***************************************************************************)

LEMMA RequestFacts ==
  ASSUME NEW r \in Requests
  PROVE  /\ r.role \in Roles /\ r.id \in Ids /\ r.op \in Ops /\ r.pwd \in Pwds \cup {None}
         /\ r.op = "login" => r.device \in Devices
         /\ r # NoRequest
BY DEF Requests, Request, NoRequest, Ops, OpsOf, Both

\* A document of the sequence is replaced by another that came to be in the same way.
LEMMA ReplacedProper ==
  ASSUME NEW q \in Seq(Doc), Proper(q), NEW i \in 1..Len(q), NEW d \in Doc, d.made = q[i].made,
         NEW e, e = [q EXCEPT ![i] = d]
  PROVE  e \in Seq(Doc) /\ Len(e) = Len(q) /\ Proper(e)
<1>1. e \in Seq(Doc) /\ Len(e) = Len(q) /\ Len(q) \in Nat
  OBVIOUS
<1>2. \A k \in 1..Len(q) : e[k].made = q[k].made
  OBVIOUS
<1>3. QED
  BY <1>1, <1>2 DEF Proper

LEMMA SetsPwdProper ==
  ASSUME NEW q \in Seq(Doc), Proper(q), NEW pwd \in Pwds \cup {None}, NEW e \in SetsPwd(q, pwd)
  PROVE  e \in Seq(Doc) /\ Len(e) = Len(q) /\ Proper(e)
<1>1. e = q \/ \E i \in 1..Len(q) : e = [q EXCEPT ![i] = [q[i] EXCEPT !.pwd = pwd]]
  BY DEF SetsPwd, Updates
<1>2. \A i \in 1..Len(q) : /\ [q[i] EXCEPT !.pwd = pwd] \in Doc
                           /\ [q[i] EXCEPT !.pwd = pwd].made = q[i].made
  <2>1. \A d \in Doc : [d EXCEPT !.pwd = pwd] \in Doc /\ [d EXCEPT !.pwd = pwd].made = d.made
    BY DEF Doc
  <2>2. QED
    BY <2>1
<1>3. QED
  BY <1>1, <1>2, ReplacedProper

LEMMA EditsProper ==
  ASSUME NEW q \in Seq(Doc), Proper(q), NEW e \in Edits(q)
  PROVE  e \in Seq(Doc) /\ Len(e) = Len(q) /\ Proper(e)
<1>1. e = q \/ \E i \in 1..Len(q) : e = [q EXCEPT ![i] = [q[i] EXCEPT !.place = "strings"]]
  BY DEF Edits, Updates
<1>2. \A i \in 1..Len(q) : /\ [q[i] EXCEPT !.place = "strings"] \in Doc
                           /\ [q[i] EXCEPT !.place = "strings"].made = q[i].made
  <2>1. \A d \in Doc : [d EXCEPT !.place = "strings"] \in Doc /\ [d EXCEPT !.place = "strings"].made = d.made
    BY DEF Doc
  <2>2. QED
    BY <2>1
<1>3. QED
  BY <1>1, <1>2, ReplacedProper

\* seller::Accusation::Delete adds at most one document to a registered one.
LEMMA WithdrawsProper ==
  ASSUME NEW q \in Seq(Doc), Proper(q), q # <<>>, NEW e \in Withdraws(q)
  PROVE  e \in Seq(Doc) /\ Len(e) # 0 /\ Proper(e)
<1>1. Upserted("withdraw") \in Doc /\ Upserted("withdraw").made = "withdraw"
  BY DEF Upserted, Doc
<1>2. Len(q) \in Nat /\ Len(q) # 0
  OBVIOUS
<1>3. CASE Len(q) = 2
  <2>1. 2 \in DOMAIN q /\ q[2].made = "withdraw"
    BY <1>3 DEF Proper
  <2>2. e = q
    BY <2>1 DEF Withdraws
  <2>3. QED
    BY <1>2, <2>2
<1>4. CASE Len(q) = 1
  <2>1. q[1].made = "registered" /\ DOMAIN q = {1}
    BY <1>4 DEF Proper
  <2>2. e = Append(q, Upserted("withdraw"))
    BY <2>1 DEF Withdraws
  <2>3. e \in Seq(Doc) /\ Len(e) = 2 /\ e[1] = q[1] /\ e[2] = Upserted("withdraw")
    BY <1>1, <1>4, <2>2
  <2>4. QED
    BY <1>1, <2>1, <2>3 DEF Proper
<1>5. QED
  BY <1>2, <1>3, <1>4 DEF Proper

\* Every call leaves the documents of its identifier proper, and only the
\* insert of a registration brings a first one.
LEMMA NewProper ==
  ASSUME AccountsInv, NEW s \in Servers, pc[s] # "idle", NEW e \in NewAccounts(s)
  PROVE  /\ e \in Seq(Doc) /\ Proper(e)
         /\ Len(e) # 0 => Accounts(req[s]) # <<>> \/ pc[s] = "insert"
         /\ pc[s] \notin {"insert", "setPwd", "remove", "update"} => e = Accounts(req[s])
<1>1. PICK r \in Requests : r = req[s]
  BY DEF AccountsInv, FindingsHold
<1>2. PICK q \in Seq(Doc) : q = Accounts(r) /\ Proper(q)
  BY <1>1, RequestFacts DEF AccountsInv, TypeOK, CollectionsProper, Accounts
<1>3. CASE pc[s] = "insert"
  <2>1. Registered(r) \in Doc /\ Registered(r).made = "registered"
    BY <1>1, RequestFacts DEF Registered, Doc
  <2>2. q = <<>> /\ e = Append(q, Registered(r))
    BY <1>1, <1>2, <1>3 DEF NewAccounts, AccountsInv, FindingsHold
  <2>3. e \in Seq(Doc) /\ Len(e) = 1 /\ e[1] = Registered(r)
    BY <2>1, <2>2
  <2>4. QED
    BY <1>3, <2>1, <2>3 DEF Proper
<1>4. CASE pc[s] = "setPwd"
  <2>1. e \in SetsPwd(q, r.pwd)
    BY <1>1, <1>2, <1>4 DEF NewAccounts
  <2>2. e \in Seq(Doc) /\ Len(e) = Len(q) /\ Proper(e)
    BY <1>1, <1>2, <2>1, RequestFacts, SetsPwdProper
  <2>3. QED
    BY <1>1, <1>2, <1>4, <2>2
<1>5. CASE pc[s] = "remove"
  <2>1. e = <<>>
    BY <1>5 DEF NewAccounts, Removes
  <2>2. QED
    BY <1>5, <2>1 DEF Proper
<1>6. CASE pc[s] = "update"
  <2>1. q # <<>>
    BY <1>1, <1>2, <1>6 DEF AccountsInv, FindingsHold
  <2>2. e \in Edits(q) \/ e \in Suggests(q) \/ e \in Withdraws(q) \/ e = q
    BY <1>1, <1>2, <1>6 DEF NewAccounts
  <2>3. e \in Suggests(q) => e = q
    BY <2>1 DEF Suggests
  <2>4. e \in Seq(Doc) /\ Proper(e)
    BY <1>2, <2>1, <2>2, <2>3, EditsProper, WithdrawsProper
  <2>5. QED
    BY <1>1, <1>2, <1>6, <2>1, <2>4
<1>7. CASE pc[s] \notin {"insert", "setPwd", "remove", "update"}
  <2>1. e = q
    BY <1>1, <1>2, <1>7 DEF NewAccounts
  <2>2. QED
    BY <1>1, <1>2, <2>1
<1>8. QED
  BY <1>3, <1>4, <1>5, <1>6, <1>7

\* A call changes the documents of its request's identifier in its role.
LEMMA StoresAccount ==
  ASSUME AccountsInv, NEW s \in Servers, pc[s] # "idle", Stores(s)
  PROVE  /\ account' \in [Roles -> [Ids -> Seq(Doc)]]
         /\ \A r \in Roles, i \in Ids : Proper(account'[r][i])
         /\ \A r \in Roles, i \in Ids : account'[r][i] # <<>> =>
               account[r][i] # <<>> \/ (pc[s] = "insert" /\ r = req[s].role /\ i = req[s].id)
         /\ pc[s] \notin {"insert", "setPwd", "remove", "update"} => account' = account
<1>1. PICK r \in Requests : r = req[s]
  BY DEF AccountsInv, FindingsHold
<1>2. r.role \in Roles /\ r.id \in Ids /\ r # NoRequest
  BY RequestFacts
<1>3. PICK e \in NewAccounts(s) : account' = Put(account, r, e)
  BY <1>1, <1>2 DEF Stores
<1>4. /\ e \in Seq(Doc) /\ Proper(e)
      /\ Len(e) # 0 => Accounts(r) # <<>> \/ pc[s] = "insert"
      /\ pc[s] \notin {"insert", "setPwd", "remove", "update"} => e = Accounts(r)
  BY <1>1, NewProper
<1>5. /\ account \in [Roles -> [Ids -> Seq(Doc)]]
      /\ \A x \in Roles, i \in Ids : Proper(account[x][i])
  BY DEF AccountsInv, TypeOK, CollectionsProper
<1>6. /\ account' \in [Roles -> [Ids -> Seq(Doc)]] /\ account'[r.role][r.id] = e
      /\ \A x \in Roles, i \in Ids : (x # r.role \/ i # r.id) => account'[x][i] = account[x][i]
  BY <1>2, <1>3, <1>4, <1>5 DEF Put
<1>7. \A x \in Roles, i \in Ids : Proper(account'[x][i])
  BY <1>4, <1>5, <1>6
<1>8. e # <<>> => Len(e) # 0
  BY <1>4
<1>9. \A x \in Roles, i \in Ids : account'[x][i] # <<>> =>
         account[x][i] # <<>> \/ (pc[s] = "insert" /\ x = r.role /\ i = r.id)
  BY <1>4, <1>6, <1>8 DEF Accounts
<1>10. e = Accounts(r) => account' = account
  <2>1. e = Accounts(r) => \A x \in Roles, i \in Ids : account'[x][i] = account[x][i]
    BY <1>6 DEF Accounts
  <2>2. QED
    BY <1>5, <1>6, <2>1
<1>11. QED
  BY <1>1, <1>4, <1>6, <1>7, <1>9, <1>10

\* A call changes the session only as the last step of a login.
LEMMA StoresSession ==
  ASSUME AccountsInv, NEW s \in Servers, pc[s] # "idle", Stores(s)
  PROVE  /\ session' \in [Roles -> [Ids -> Seq(Devices)]]
         /\ \A r \in Roles, i \in Ids : Len(session'[r][i]) <= 1
         /\ pc[s] \in {"insertSession", "updateSession"} =>
               session'[req[s].role][req[s].id] = <<req[s].device>>
<1>1. PICK r \in Requests : r = req[s]
  BY DEF AccountsInv, FindingsHold
<1>2. r.role \in Roles /\ r.id \in Ids
  BY RequestFacts
<1>3. /\ session \in [Roles -> [Ids -> Seq(Devices)]]
      /\ \A x \in Roles, i \in Ids : Len(session[x][i]) <= 1
  BY DEF AccountsInv, TypeOK, CollectionsProper
<1>4. CASE pc[s] \in {"insertSession", "updateSession"}
  <2>1. r.device \in Devices
    BY <1>1, <1>4, RequestFacts DEF AccountsInv, FindingsHold
  <2>2. PICK q \in Seq(Devices) : q = Sessions(r) /\ Len(q) <= 1
    BY <1>2, <1>3 DEF Sessions
  <2>3. Upsert(q, r.device) = <<r.device>>
    <3>1. CASE q = <<>>
      BY <3>1 DEF Upsert
    <3>2. CASE q # <<>>
      <4>1. Tail(q) = <<>>
        BY <2>2, <3>2
      <4>2. <<r.device>> \o <<>> = <<r.device>>
        <5>1. <<r.device>> \in Seq(Devices)
          BY <2>1
        <5>2. QED
          BY <5>1
      <4>3. Upsert(q, r.device) = <<r.device>> \o Tail(q)
        BY <3>2 DEF Upsert, ReplaceFirst
      <4>4. QED
        BY <4>1, <4>2, <4>3
    <3>3. QED
      BY <3>1, <3>2
  <2>4. pc[s] = "insertSession" => q = <<>>
    BY <1>1, <2>2 DEF AccountsInv, FindingsHold
  <2>5. session' = Put(session, r, <<r.device>>)
    <3>1. CASE pc[s] = "insertSession"
      <4>1. session' = Put(session, r, Append(q, r.device))
        BY <1>1, <2>2, <3>1 DEF Stores
      <4>2. Append(<<>>, r.device) = <<r.device>>
        OBVIOUS
      <4>3. QED
        BY <2>4, <3>1, <4>1, <4>2
    <3>2. CASE pc[s] = "updateSession"
      BY <1>1, <2>2, <2>3, <3>2 DEF Stores
    <3>3. QED
      BY <1>4, <3>1, <3>2
  <2>6. <<r.device>> \in Seq(Devices) /\ Len(<<r.device>>) = 1
    BY <2>1
  <2>7. /\ session' \in [Roles -> [Ids -> Seq(Devices)]] /\ session'[r.role][r.id] = <<r.device>>
        /\ \A x \in Roles, i \in Ids : (x # r.role \/ i # r.id) => session'[x][i] = session[x][i]
    BY <1>2, <1>3, <2>5, <2>6 DEF Put
  <2>8. \A x \in Roles, i \in Ids : Len(session'[x][i]) <= 1
    <3>1. ASSUME NEW x \in Roles, NEW i \in Ids PROVE Len(session'[x][i]) <= 1
      <4>1. CASE x = r.role /\ i = r.id
        <5>1. session'[x][i] = <<r.device>>
          BY <2>7, <4>1
        <5>2. QED
          BY <2>6, <5>1
      <4>2. CASE x # r.role \/ i # r.id
        BY <1>3, <2>7, <4>2
      <4>3. QED
        BY <4>1, <4>2
    <3>2. QED
      BY <3>1
  <2>9. QED
    BY <1>1, <2>7, <2>8
<1>5. CASE pc[s] \notin {"insertSession", "updateSession"}
  <2>1. session' = session
    BY <1>5 DEF Stores
  <2>2. QED
    BY <1>3, <1>5, <2>1
<1>6. QED
  BY <1>4, <1>5

\* A registration leaves one document more in DB_MSG and one in DB_USRMNG.
LEMMA StoresSeller ==
  ASSUME AccountsInv, NEW s \in Servers, pc[s] # "idle", Stores(s)
  PROVE  /\ msg' \in [Ids -> 0..MaxDocs] /\ usrmng' \in [Ids -> 0..MaxDocs]
         /\ \A i \in Ids : msg'[i] >= msg[i] /\ usrmng'[i] >= usrmng[i]
         /\ pc[s] = "insertMsg" => msg'[req[s].id] > 0 /\ usrmng' = usrmng
         /\ pc[s] = "insertUsrmng" => msg' = msg /\ usrmng'[req[s].id] > 0
         /\ pc[s] \notin {"insertMsg", "insertUsrmng"} => UNCHANGED <<msg, usrmng>>
<1>1. PICK r \in Requests : r = req[s]
  BY DEF AccountsInv, FindingsHold
<1>2. /\ r.id \in Ids /\ MaxDocs \in Nat
      /\ msg \in [Ids -> 0..MaxDocs] /\ usrmng \in [Ids -> 0..MaxDocs]
  BY RequestFacts, AccountsAssumption DEF AccountsInv, TypeOK
<1>3. /\ msg' = IF pc[s] = "insertMsg" THEN [msg EXCEPT ![r.id] = @ + 1] ELSE msg
      /\ usrmng' = IF pc[s] = "insertUsrmng" THEN [usrmng EXCEPT ![r.id] = @ + 1] ELSE usrmng
  BY <1>1 DEF Stores
<1>4. /\ pc[s] = "insertMsg" => msg[r.id] < MaxDocs
      /\ pc[s] = "insertUsrmng" => usrmng[r.id] < MaxDocs
  BY <1>1 DEF AccountsInv, FindingsHold, RoomLeft
<1>5. QED
  BY <1>1, <1>2, <1>3, <1>4

-----------------------------------------------------------------------------
(***************************************************************************)
(* Every step keeps the invariant                                          *)
(***************************************************************************)

LEMMA InitAccounts == Init => AccountsInv
<1> SUFFICES ASSUME Init PROVE AccountsInv
  OBVIOUS
<1>1. TypeOK
  BY AccountsAssumption DEF Init, TypeOK, Steps
<1>2. CollectionsProper
  BY DEF Init, CollectionsProper, Proper
<1>3. \A s \in Servers : pc[s] = "idle" /\ answer[s] = "none"
  BY DEF Init
<1>4. FindingsHold /\ RoomLeft /\ LoginIsEffective
  BY <1>3 DEF FindingsHold, RoomLeft, LoginIsEffective
<1>5. SellersAreComplete
  BY DEF Init, SellersAreComplete, Roles
<1>6. QED
  BY <1>1, <1>2, <1>4, <1>5 DEF AccountsInv

\* Where the first query leads.
LEMMA FindLeads ==
  ASSUME NEW r \in Requests, NEW decision \in Decisions(r)
  PROVE  \/ decision = "insert" /\ r.op = "register" /\ Accounts(r) = <<>>
         \/ decision \in {"setPwd", "remove"} /\ r.op # "login"
         \/ decision = "update" /\ Accounts(r) # <<>> /\ r.op # "login"
         \/ decision = "findSession" /\ r.op = "login" /\ PwdMatches(r)
         \/ decision \in Codes /\ (r.op = "login" => decision # "APIE_OK")
<1>1. Refused(r) \in Codes /\ Refused(r) # "APIE_OK"
  BY DEF Refused, LogoutDecision, ProfileDecision, AccuseDecision, ReplyDecision, UserGetDecision, Codes
<1>2. \/ Unfound(r) = "insert" /\ r.op = "register"
      \/ Unfound(r) \in Codes /\ (r.op = "login" => Unfound(r) # "APIE_OK")
  BY DEF Unfound, Codes
<1>3. ASSUME NEW d
      PROVE  \/ Found(r, d) \in {"setPwd", "remove", "update"} /\ r.op # "login"
             \/ Found(r, d) = "findSession" /\ r.op = "login" /\ d.pwd = r.pwd
             \/ Found(r, d) \in Codes /\ (r.op = "login" => Found(r, d) # "APIE_OK")
  BY DEF Found, LoginDecision, SellerGetDecision, SellerInfoDecision, SellerDetailDecision, Codes
<1>4. CASE decision = Refused(r)
  BY <1>1, <1>4
<1>5. CASE decision = Unfound(r) /\ Accounts(r) = <<>>
  BY <1>2, <1>5
<1>6. CASE Accounts(r) # <<>> /\ \E i \in DOMAIN Accounts(r) : decision = Found(r, Accounts(r)[i])
  <2>1. PICK i \in DOMAIN Accounts(r) : decision = Found(r, Accounts(r)[i])
    BY <1>6
  <2>2. \/ decision \in {"setPwd", "remove", "update"} /\ r.op # "login"
        \/ decision = "findSession" /\ r.op = "login" /\ Accounts(r)[i].pwd = r.pwd
        \/ decision \in Codes /\ (r.op = "login" => decision # "APIE_OK")
    BY <1>3, <2>1
  <2>3. QED
    BY <1>6, <2>2 DEF PwdMatches
<1>7. QED
  BY <1>4, <1>5, <1>6 DEF Decisions

LEMMA IdleHolds ==
  ASSUME OneServer, NEW s \in Servers, pc'[s] = "idle"
  PROVE  FindingsHold' /\ RoomLeft'
<1>1. \A t \in Servers : pc'[t] = "idle"
  BY DEF OneServer
<1>2. FindingsHold'
  BY <1>1 DEF FindingsHold
<1>3. RoomLeft'
  BY <1>1 DEF RoomLeft
<1>4. QED
  BY <1>2, <1>3

\* A step that stores nothing and registers nobody keeps what is said of the collections.
LEMMA DocsKept ==
  ASSUME AccountsInv, UNCHANGED docs,
         \A s \in Servers : pc[s] \notin {"insertMsg", "insertUsrmng"}
  PROVE  CollectionsProper' /\ SellersAreComplete'
<1>1. UNCHANGED <<account, session, msg, usrmng, cut>>
  BY DEF docs
<1>2. \A i \in Ids : ~\E s \in Servers : Registering(s, i)
  BY DEF Registering
<1>3. QED
  BY <1>1, <1>2 DEF AccountsInv, CollectionsProper, SellersAreComplete

LEMMA ReceiveAccounts ==
  ASSUME OneServer, AccountsInv, NEW s \in Servers, NEW r \in Requests, Receive(s, r)
  PROVE  AccountsInv'
<1>1. /\ pc[s] = "idle" /\ pc'[s] = "find" /\ req'[s] = r /\ answer'[s] = "none" /\ UNCHANGED docs
      /\ \A t \in Servers : t = s
  BY DEF OneServer, AccountsInv, TypeOK, Receive
<1>2. TypeOK'
  <2>1. /\ pc' \in [Servers -> Steps] /\ req' \in [Servers -> Requests \cup {NoRequest}]
        /\ answer' \in [Servers -> Codes \cup {"none", "lost"}]
    BY DEF AccountsInv, TypeOK, Receive, Steps
  <2>2. QED
    BY <1>1, <2>1 DEF AccountsInv, TypeOK, docs
<1>3. CollectionsProper' /\ SellersAreComplete'
  BY <1>1, DocsKept
<1>4. FindingsHold' /\ LoginIsEffective'
  BY <1>1 DEF FindingsHold, LoginIsEffective
<1>5. RoomLeft'
  BY <1>1 DEF Receive, RoomLeft, docs
<1>6. QED
  BY <1>2, <1>3, <1>4, <1>5 DEF AccountsInv

LEMMA RejectAccounts ==
  ASSUME OneServer, AccountsInv, NEW s \in Servers, Reject(s)
  PROVE  AccountsInv'
<1>1. /\ pc[s] = "idle" /\ pc' = pc /\ answer'[s] = "APIE_INVALID_CLIENT_REQ" /\ UNCHANGED docs
      /\ \A t \in Servers : t = s
  BY DEF OneServer, AccountsInv, TypeOK, Reject
<1>2. TypeOK'
  <2>1. /\ req' \in [Servers -> Requests \cup {NoRequest}]
        /\ answer' \in [Servers -> Codes \cup {"none", "lost"}]
    BY DEF AccountsInv, TypeOK, Reject, Codes
  <2>2. QED
    BY <1>1, <2>1 DEF AccountsInv, TypeOK, docs
<1>3. CollectionsProper' /\ SellersAreComplete'
  BY <1>1, DocsKept
<1>4. FindingsHold' /\ RoomLeft'
  BY <1>1, IdleHolds
<1>5. LoginIsEffective'
  BY <1>1 DEF LoginIsEffective
<1>6. QED
  BY <1>2, <1>3, <1>4, <1>5 DEF AccountsInv

\* The parts of TypeOK that a step inside a handler touches.
LEMMA ControlType ==
  ASSUME TypeOK, NEW s \in Servers,
         (\E code \in Codes \cup {"lost"} : Finish(s, code)) \/ (\E step \in Steps : Goto(s, step))
  PROVE  /\ pc' \in [Servers -> Steps] /\ req' = req
         /\ answer' \in [Servers -> Codes \cup {"none", "lost"}]
BY DEF TypeOK, Finish, Goto, Steps

LEMMA FindAccounts ==
  ASSUME OneServer, AccountsInv, NEW s \in Servers, Find(s)
  PROVE  AccountsInv'
<1>1. /\ pc[s] = "find" /\ UNCHANGED docs /\ \A t \in Servers : t = s
  BY DEF OneServer, Find
<1>2. PICK r \in Requests : r = req[s] /\ answer[s] = "none"
  BY <1>1 DEF AccountsInv, FindingsHold
<1>3. PICK decision \in Decisions(r) : IF decision \in Steps THEN Goto(s, decision) ELSE Finish(s, decision)
  BY <1>2 DEF Find
<1>4. \/ decision = "insert" /\ r.op = "register" /\ Accounts(r) = <<>>
      \/ decision \in {"setPwd", "remove"} /\ r.op # "login"
      \/ decision = "update" /\ Accounts(r) # <<>> /\ r.op # "login"
      \/ decision = "findSession" /\ r.op = "login" /\ PwdMatches(r)
      \/ decision \in Codes /\ (r.op = "login" => decision # "APIE_OK")
  BY FindLeads
<1>5. CollectionsProper' /\ SellersAreComplete'
  BY <1>1, DocsKept
<1>6. TypeOK'
  <2>1. (\E code \in Codes \cup {"lost"} : Finish(s, code)) \/ (\E step \in Steps : Goto(s, step))
    BY <1>3, <1>4 DEF Steps
  <2>2. /\ pc' \in [Servers -> Steps] /\ req' = req
        /\ answer' \in [Servers -> Codes \cup {"none", "lost"}]
    BY <2>1, ControlType DEF AccountsInv
  <2>3. QED
    BY <1>1, <2>2 DEF AccountsInv, TypeOK, docs
<1>7. CASE decision \in Steps
  <2>1. pc'[s] = decision /\ UNCHANGED <<req, answer>>
    BY <1>3, <1>7 DEF Goto, AccountsInv, TypeOK
  <2>2. decision \in {"insert", "setPwd", "remove", "update", "findSession"}
    BY <1>4, <1>7 DEF Steps, Codes
  <2>3. UNCHANGED <<account, session, msg, usrmng>>
    BY <1>1 DEF docs
  <2>4. Accounts(r)' = Accounts(r) /\ PwdMatches(r)' = PwdMatches(r)
    BY <2>3 DEF Accounts, PwdMatches
  <2>5. FindingsHold'
    BY <1>1, <1>2, <1>4, <2>1, <2>2, <2>4 DEF FindingsHold, Codes
  <2>6. RoomLeft'
    BY <1>1, <1>2, <2>1, <2>2, <2>3 DEF AccountsInv, RoomLeft
  <2>7. LoginIsEffective'
    BY <1>1, <1>2, <2>1 DEF LoginIsEffective
  <2>8. QED
    BY <1>5, <1>6, <2>5, <2>6, <2>7 DEF AccountsInv
<1>8. CASE decision \notin Steps
  <2>1. pc'[s] = "idle" /\ answer'[s] = decision /\ req' = req
    BY <1>3, <1>8 DEF Finish, AccountsInv, TypeOK
  <2>2. FindingsHold' /\ RoomLeft'
    BY <2>1, IdleHolds
  <2>3. r.op = "login" => decision # "APIE_OK"
    BY <1>4, <1>8 DEF Steps
  <2>4. LoginIsEffective'
    BY <1>1, <1>2, <2>1, <2>3 DEF LoginIsEffective
  <2>5. QED
    BY <1>5, <1>6, <2>2, <2>4 DEF AccountsInv
<1>9. QED
  BY <1>7, <1>8

LEMMA FindSessionAccounts ==
  ASSUME OneServer, AccountsInv, NEW s \in Servers, FindSession(s)
  PROVE  AccountsInv'
<1>1. /\ pc[s] = "findSession" /\ UNCHANGED docs /\ \A t \in Servers : t = s
  BY DEF OneServer, FindSession
<1>2. PICK r \in Requests : r = req[s] /\ answer[s] = "none" /\ r.op = "login" /\ PwdMatches(r)
  BY <1>1 DEF AccountsInv, FindingsHold
<1>3. PICK step \in {"insertSession", "updateSession"} :
        Goto(s, step) /\ (step = "insertSession" => Sessions(r) = <<>>)
  BY <1>2 DEF FindSession
<1>4. pc'[s] = step /\ UNCHANGED <<req, answer>>
  BY <1>3 DEF Goto, AccountsInv, TypeOK
<1>5. CollectionsProper' /\ SellersAreComplete'
  BY <1>1, DocsKept
<1>6. TypeOK'
  <2>1. /\ pc' \in [Servers -> Steps] /\ req' = req
        /\ answer' \in [Servers -> Codes \cup {"none", "lost"}]
    BY <1>3, ControlType DEF AccountsInv, Steps
  <2>2. QED
    BY <1>1, <2>1 DEF AccountsInv, TypeOK, docs
<1>7. Sessions(r)' = Sessions(r) /\ PwdMatches(r)' = PwdMatches(r)
  BY <1>1 DEF docs, Sessions, Accounts, PwdMatches
<1>8. FindingsHold' /\ RoomLeft'
  BY <1>1, <1>2, <1>3, <1>4, <1>7 DEF FindingsHold, RoomLeft
<1>9. LoginIsEffective'
  BY <1>1, <1>2, <1>4 DEF LoginIsEffective
<1>10. QED
  BY <1>5, <1>6, <1>8, <1>9 DEF AccountsInv

\* What a call keeps of the invariant, when the handler goes on as it should
\* or the seller counts as cut short.
LEMMA StoresKept ==
  ASSUME OneServer, AccountsInv, NEW s \in Servers, pc[s] # "idle", Stores(s),
         cut \subseteq cut', cut' \in SUBSET Ids, req' = req,
         pc[s] = "insert" /\ req[s].role = "seller" => pc'[s] = "insertMsg" \/ req[s].id \in cut',
         pc[s] = "insertMsg" => pc'[s] = "insertUsrmng" \/ req[s].id \in cut',
         pc' \in [Servers -> Steps], answer' \in [Servers -> Codes \cup {"none", "lost"}]
  PROVE  TypeOK' /\ CollectionsProper' /\ SellersAreComplete'
<1>1. TypeOK' /\ CollectionsProper'
  <2>1. /\ account' \in [Roles -> [Ids -> Seq(Doc)]] /\ \A r \in Roles, i \in Ids : Proper(account'[r][i])
    BY StoresAccount
  <2>2. /\ session' \in [Roles -> [Ids -> Seq(Devices)]]
        /\ \A r \in Roles, i \in Ids : Len(session'[r][i]) <= 1
    BY StoresSession
  <2>3. msg' \in [Ids -> 0..MaxDocs] /\ usrmng' \in [Ids -> 0..MaxDocs]
    BY StoresSeller
  <2>4. TypeOK'
    BY <2>1, <2>2, <2>3 DEF AccountsInv, TypeOK
  <2>5. CollectionsProper'
    BY <2>1, <2>2 DEF CollectionsProper, Proper
  <2>6. QED
    BY <2>4, <2>5
<1>2. SellersAreComplete'
  <2> SUFFICES ASSUME NEW i \in Ids, account'["seller"][i] # <<>>
               PROVE  \/ msg'[i] > 0 /\ usrmng'[i] > 0
                      \/ i \in cut'
                      \/ \E t \in Servers : Registering(t, i)'
    BY DEF SellersAreComplete
  <2>1. CASE pc[s] = "insert" /\ req[s].role = "seller" /\ i = req[s].id
    BY <2>1 DEF Registering
  <2>2. CASE account["seller"][i] # <<>>
    <3>1. /\ msg[i] \in Nat /\ usrmng[i] \in Nat /\ msg'[i] \in Nat /\ usrmng'[i] \in Nat
          /\ msg'[i] >= msg[i] /\ usrmng'[i] >= usrmng[i]
      BY StoresSeller, AccountsAssumption DEF AccountsInv, TypeOK
    <3>2. CASE msg[i] > 0 /\ usrmng[i] > 0
      BY <3>1, <3>2
    <3>3. CASE i \in cut
      BY <3>3
    <3>4. CASE \E t \in Servers : Registering(t, i)
      <4>1. pc[s] \in {"insertMsg", "insertUsrmng"} /\ req[s].id = i
        BY <3>4 DEF Registering, OneServer
      <4>2. CASE pc[s] = "insertMsg"
        BY <4>1, <4>2 DEF Registering
      <4>3. CASE pc[s] = "insertUsrmng"
        <5>1. msg[i] > 0
          BY <4>1, <4>3 DEF AccountsInv, FindingsHold
        <5>2. msg' = msg /\ usrmng'[i] > 0
          BY <4>1, <4>3, StoresSeller
        <5>3. QED
          BY <5>1, <5>2
      <4>4. QED
        BY <4>1, <4>2, <4>3
    <3>5. QED
      BY <2>2, <3>2, <3>3, <3>4 DEF AccountsInv, SellersAreComplete
  <2>3. QED
    BY <2>1, <2>2, StoresAccount DEF Roles
<1>3. QED
  BY <1>1, <1>2

\* A seller's registration goes on to its next insert.
LEMMA OnAccounts ==
  ASSUME OneServer, AccountsInv, NEW s \in Servers, Stores(s), UNCHANGED cut,
         \/ pc[s] = "insert" /\ req[s].role = "seller" /\ Goto(s, "insertMsg")
         \/ pc[s] = "insertMsg" /\ Goto(s, "insertUsrmng")
  PROVE  AccountsInv'
<1>1. /\ UNCHANGED <<req, answer>> /\ \A t \in Servers : t = s
      /\ \/ pc[s] = "insert" /\ req[s].role = "seller" /\ pc'[s] = "insertMsg"
         \/ pc[s] = "insertMsg" /\ pc'[s] = "insertUsrmng"
  BY DEF OneServer, Goto, AccountsInv, TypeOK
<1>2. PICK r \in Requests : r = req[s] /\ answer[s] = "none" /\ r.op = "register" /\ r.role = "seller"
  BY <1>1 DEF AccountsInv, FindingsHold
<1>3. TypeOK' /\ CollectionsProper' /\ SellersAreComplete'
  <2>1. pc' \in [Servers -> Steps] /\ answer' \in [Servers -> Codes \cup {"none", "lost"}]
    BY ControlType DEF AccountsInv, Steps
  <2>2. cut' \in SUBSET Ids
    BY DEF AccountsInv, TypeOK
  <2>3. QED
    BY <1>1, <2>1, <2>2, StoresKept
<1>4. FindingsHold'
  <2>1. pc'[s] = "insertUsrmng" => msg'[r.id] > 0
    BY <1>1, <1>2, StoresSeller
  <2>2. QED
    BY <1>1, <1>2, <2>1 DEF FindingsHold
<1>5. RoomLeft'
  <2>1. usrmng[r.id] < MaxDocs /\ (pc[s] = "insert" => msg[r.id] < MaxDocs)
    BY <1>1, <1>2 DEF AccountsInv, RoomLeft
  <2>2. usrmng' = usrmng /\ (pc[s] = "insert" => msg' = msg)
    BY <1>1, StoresSeller
  <2>3. QED
    BY <1>1, <1>2, <2>1, <2>2 DEF RoomLeft
<1>6. LoginIsEffective'
  BY <1>1, <1>2 DEF LoginIsEffective
<1>7. QED
  BY <1>3, <1>4, <1>5, <1>6 DEF AccountsInv

\* The last call of a handler, and APIE_OK.
LEMMA OkAccounts ==
  ASSUME OneServer, AccountsInv, NEW s \in Servers, Stores(s), UNCHANGED cut, Finish(s, "APIE_OK"),
         \/ pc[s] = "insert" /\ req[s].role # "seller"
         \/ pc[s] \in {"insertUsrmng", "setPwd", "update", "remove", "insertSession", "updateSession"}
  PROVE  AccountsInv'
<1>1. /\ pc[s] # "idle" /\ pc'[s] = "idle" /\ req' = req /\ \A t \in Servers : t = s
  BY DEF OneServer, Finish, AccountsInv, TypeOK
<1>2. PICK r \in Requests : r = req[s]
  BY <1>1 DEF AccountsInv, FindingsHold
<1>3. TypeOK' /\ CollectionsProper' /\ SellersAreComplete'
  <2>1. pc' \in [Servers -> Steps] /\ answer' \in [Servers -> Codes \cup {"none", "lost"}]
    BY ControlType DEF AccountsInv, Codes
  <2>2. cut' \in SUBSET Ids
    BY DEF AccountsInv, TypeOK
  <2>3. QED
    BY <1>1, <2>1, <2>2, StoresKept
<1>4. FindingsHold' /\ RoomLeft'
  BY <1>1, IdleHolds
<1>5. LoginIsEffective'
  <2> SUFFICES ASSUME r.op = "login"
               PROVE  PwdMatches(r)' /\ Sessions(r)' = <<r.device>>
    BY <1>1, <1>2 DEF LoginIsEffective, PwdMatches
  <2>1. CASE pc[s] \in {"insertSession", "updateSession"}
    <3>1. account' = account /\ session'[r.role][r.id] = <<r.device>>
      BY <1>1, <1>2, <2>1, StoresAccount, StoresSession
    <3>2. PwdMatches(r)
      BY <1>2, <2>1 DEF AccountsInv, FindingsHold
    <3>3. QED
      BY <3>1, <3>2 DEF PwdMatches, Accounts, Sessions
  <2>2. CASE pc[s] \notin {"insertSession", "updateSession"}
    BY <1>2, <2>2 DEF AccountsInv, FindingsHold
  <2>3. QED
    BY <2>1, <2>2
<1>6. QED
  BY <1>3, <1>4, <1>5 DEF AccountsInv

\* A call fails, with or without its effect: a seller's registration is cut short.
LEMMA FailAccounts ==
  ASSUME OneServer, AccountsInv, NEW s \in Servers, Fail(s)
  PROVE  AccountsInv'
<1>1. /\ pc[s] # "idle" /\ pc'[s] = "idle" /\ req' = req /\ \A t \in Servers : t = s
      /\ answer'[s] # "APIE_OK"
  BY DEF OneServer, Fail, Finish, AccountsInv, TypeOK
<1>2. PICK r \in Requests : r = req[s]
  BY <1>1 DEF AccountsInv, FindingsHold
<1>3. /\ cut \subseteq cut' /\ cut' \in SUBSET Ids
      /\ pc[s] \in {"insert", "insertMsg", "insertUsrmng"} /\ r.role = "seller" => r.id \in cut'
  BY <1>2, RequestFacts DEF Fail, CutsShort, AccountsInv, TypeOK
<1>4. pc[s] \in {"insertMsg", "insertUsrmng"} => r.role = "seller"
  BY <1>2 DEF AccountsInv, FindingsHold
<1>5. pc' \in [Servers -> Steps] /\ answer' \in [Servers -> Codes \cup {"none", "lost"}]
  <2>1. \E code \in Codes \cup {"lost"} : Finish(s, code)
    BY DEF Fail, Codes
  <2>2. QED
    BY <2>1, ControlType DEF AccountsInv
<1>6. CASE Stores(s)
  <2>1. TypeOK' /\ CollectionsProper' /\ SellersAreComplete'
    BY <1>1, <1>2, <1>3, <1>4, <1>5, <1>6, StoresKept
  <2>2. QED
    BY <2>1, <1>1, IdleHolds DEF AccountsInv, LoginIsEffective
<1>7. CASE UNCHANGED <<account, session, msg, usrmng>>
  <2>1. TypeOK' /\ CollectionsProper'
    BY <1>1, <1>3, <1>5, <1>7 DEF AccountsInv, TypeOK, CollectionsProper
  <2>2. \A i \in Ids : (\E t \in Servers : Registering(t, i)) => i \in cut'
    BY <1>1, <1>2, <1>3, <1>4 DEF Registering
  <2>3. SellersAreComplete'
    BY <1>3, <1>7, <2>2 DEF AccountsInv, SellersAreComplete
  <2>4. QED
    BY <2>1, <2>3, <1>1, IdleHolds DEF AccountsInv, LoginIsEffective
<1>8. QED
  BY <1>6, <1>7 DEF Fail

LEMMA AccountsStep == OneServer /\ AccountsInv /\ [Next]_vars => AccountsInv'
<1> SUFFICES ASSUME OneServer, AccountsInv, [Next]_vars PROVE AccountsInv'
  OBVIOUS
<1>1. ASSUME NEW s \in Servers, Insert(s) \/ InsertMsg(s) PROVE AccountsInv'
  <2>1. Stores(s) /\ UNCHANGED cut
    BY <1>1 DEF Insert, InsertMsg
  <2>2. CASE pc[s] = "insert" /\ req[s].role # "seller" /\ Finish(s, "APIE_OK")
    BY <2>1, <2>2, OkAccounts
  <2>3. CASE \/ pc[s] = "insert" /\ req[s].role = "seller" /\ Goto(s, "insertMsg")
             \/ pc[s] = "insertMsg" /\ Goto(s, "insertUsrmng")
    BY <2>1, <2>3, OnAccounts
  <2>4. QED
    BY <1>1, <2>2, <2>3 DEF Insert, InsertMsg
<1>2. ASSUME NEW s \in Servers, InsertUsrmng(s) \/ SetPwd(s) \/ Update(s) \/ Remove(s)
                                \/ InsertSession(s) \/ UpdateSession(s)
      PROVE  AccountsInv'
  <2>1. /\ Stores(s) /\ UNCHANGED cut /\ Finish(s, "APIE_OK")
        /\ pc[s] \in {"insertUsrmng", "setPwd", "update", "remove", "insertSession", "updateSession"}
    BY <1>2 DEF InsertUsrmng, SetPwd, Update, Remove, InsertSession, UpdateSession
  <2>2. QED
    BY <2>1, OkAccounts
<1>3. CASE UNCHANGED vars
  <2>1. TypeOK' /\ CollectionsProper'
    BY <1>3 DEF vars, AccountsInv, TypeOK, CollectionsProper
  <2>2. FindingsHold' /\ RoomLeft'
    BY <1>3 DEF vars, AccountsInv, FindingsHold, RoomLeft, PwdMatches, Accounts, Sessions
  <2>3. LoginIsEffective' /\ SellersAreComplete'
    BY <1>3 DEF vars, AccountsInv, LoginIsEffective, SellersAreComplete, Registering, Accounts, Sessions
  <2>4. QED
    BY <2>1, <2>2, <2>3 DEF AccountsInv
<1>4. QED
  BY <1>1, <1>2, <1>3, ReceiveAccounts, RejectAccounts, FindAccounts, FindSessionAccounts, FailAccounts
     DEF Next, Handle

LEMMA AccountsInvariant ==
  ASSUME OneServer
  PROVE  Spec => []AccountsInv
<1>1. AccountsInv /\ [Next]_vars => AccountsInv'
  BY AccountsStep
<1>2. QED
  BY <1>1, InitAccounts, PTL DEF Spec

-----------------------------------------------------------------------------
(***************************************************************************)
(* The theorems                                                            *)
(***************************************************************************)

\* The numbers of documents, from their order.
LEMMA InvOneDocumentEach == AccountsInv => OneDocumentEach
<1> SUFFICES ASSUME AccountsInv, NEW r \in Roles, NEW i \in Ids
             PROVE  /\ Made(r, i, "registered") <= 1 /\ Len(session[r][i]) <= 1
                    /\ Made(r, i, "suggest") = 0
                    /\ Made(r, i, "withdraw") <= Made(r, i, "registered")
  BY DEF OneDocumentEach
<1>1. PICK q \in Seq(Doc) : q = account[r][i] /\ Proper(q) /\ Len(session[r][i]) <= 1
  BY DEF AccountsInv, TypeOK, CollectionsProper
<1> DEFINE M(by) == {k \in DOMAIN q : q[k].made = by}
<1>2. \A by : Made(r, i, by) = Cardinality(M(by))
  BY <1>1 DEF Made
<1>3. DOMAIN q = 1..Len(q) /\ Len(q) \in Nat
  OBVIOUS
<1>4. M("suggest") = {}
  BY <1>1, <1>3 DEF Proper
<1>c. Cardinality({}) = 0 /\ Cardinality({1}) = 1 /\ Cardinality({2}) = 1
  BY FS_EmptySet, FS_Singleton
<1>5. CASE Len(q) = 0
  <2>1. M("registered") = {} /\ M("withdraw") = {}
    BY <1>3, <1>5
  <2>2. QED
    BY <1>1, <1>2, <1>4, <1>c, <2>1
<1>6. CASE Len(q) = 1
  <2>1. M("registered") = {1} /\ M("withdraw") = {}
    BY <1>1, <1>3, <1>6 DEF Proper
  <2>2. QED
    BY <1>1, <1>2, <1>4, <1>c, <2>1
<1>7. CASE Len(q) = 2
  <2>1. M("registered") = {1} /\ M("withdraw") = {2}
    BY <1>1, <1>3, <1>7 DEF Proper
  <2>2. QED
    BY <1>1, <1>2, <1>4, <1>c, <2>1
<1>8. QED
  BY <1>1, <1>5, <1>6, <1>7 DEF Proper

\* With one server process, an identifier has one registered document and one
\* session in a role, however often registrations, removals and logins fail.
THEOREM AccountsOneDocument ==
  ASSUME OneServer
  PROVE  Spec => []OneDocumentEach
<1>1. Spec => []AccountsInv
  BY AccountsInvariant
<1>2. QED
  BY <1>1, InvOneDocumentEach, PTL

\* With one server process, a login answered with APIE_OK gave a password of
\* the account and is the session.
THEOREM AccountsLogin ==
  ASSUME OneServer
  PROVE  Spec => []LoginIsEffective
<1>1. Spec => []AccountsInv
  BY AccountsInvariant
<1>2. AccountsInv => LoginIsEffective
  BY DEF AccountsInv
<1>3. QED
  BY <1>1, <1>2, PTL

\* With one server process, a seller with an account has its other documents,
\* unless its registration is under way or was cut short.
THEOREM AccountsSellers ==
  ASSUME OneServer
  PROVE  Spec => []SellersAreComplete
<1>1. Spec => []AccountsInv
  BY AccountsInvariant
<1>2. AccountsInv => SellersAreComplete
  BY DEF AccountsInv
<1>3. QED
  BY <1>1, <1>2, PTL
=============================================================================
