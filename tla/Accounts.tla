------------------------------ MODULE Accounts ------------------------------
(***************************************************************************)
(* Registration, password, login, logout and profile of users and of       *)
(* sellers (uri/user and uri/seller: user.cpp, profile.cpp, seller.cpp,    *)
(* password.cpp, session.cpp, accusation.cpp, suggestion.cpp) over the     *)
(* collections DB_USR, DB_SELLER and DB_SESSION, and the documents of      *)
(* DB_MSG and DB_USRMNG that a seller's registration leaves behind.        *)
(*                                                                         *)
(* No collection has a unique index: a document is inserted after a query  *)
(* has found none or by an update with upsert, and a collection may hold   *)
(* several for one identifier.  Which of them a query or an update meets   *)
(* first is not determined: Mongo moves a document that grows.  Each call  *)
(* to Mongo is a step.                                                     *)
(***************************************************************************)
EXTENDS Naturals, Sequences, FiniteSets

CONSTANTS
    Servers,    \* apl-server processes
    Ids,        \* user_id and seller_id values, both mobile numbers
    Pwds,       \* pwd values
    Devices,    \* push_channel_id values
    None,       \* a parameter that the request does not have
    MaxDocs     \* bound: documents of one seller in DB_MSG or DB_USRMNG

ASSUME AccountsAssumption == None \notin Pwds \cup Devices /\ MaxDocs \in Nat

VARIABLES
    account,    \* DB_USR and DB_SELLER: the documents of each identifier
    session,    \* DB_SESSION: the device of each document of an identifier
    msg,        \* DB_MSG: how many documents each seller has
    usrmng,     \* DB_USRMNG: how many documents each seller has
    cut,        \* sellers whose registration was cut short
    pc,         \* the call to Mongo each server is about to make
    req,        \* the request each server handles, or handled last
    answer      \* its api_result

vars == <<account, session, msg, usrmng, cut, pc, req, answer>>
docs == <<account, session, msg, usrmng, cut>>

-----------------------------------------------------------------------------

Roles == {"user", "seller"}
Both == {"register", "password", "login", "logout", "remove"}
OpsOf(role) == Both \cup IF role = "user" THEN {"get", "profile", "accuse"}
                         ELSE {"check", "get", "info", "detail", "edit", "suggest",
                               "withdraw", "reply"}
Ops == OpsOf("user") \cup OpsOf("seller")

\* made: by what the document came to be.  place: the form of the location of
\* a seller, two numbers or two strings.
Doc == [pwd : Pwds \cup {None}, place : {"none", "numbers", "strings"},
        made : {"registered", "suggest", "withdraw"}]

Request == [op : Ops, role : Roles, id : Ids, pwd : Pwds \cup {None}, device : Devices \cup {None}]

Steps == {"idle", "find", "insert", "insertMsg", "insertUsrmng", "setPwd", "remove",
          "update", "findSession", "insertSession", "updateSession"}

Codes == {"APIE_OK", "APIE_INVALID_CLIENT_REQ", "APIE_SERVER_INTERNAL",
          "APIE_ALREADY_EXIST", "APIE_NO_EXIST", "APIE_PWD_ERROR"}

Accounts(r) == account[r.role][r.id]
Sessions(r) == session[r.role][r.id]

\* The requests whose parameters pass the checks.  Only Seller::Post knows
\* "check", and it takes a registration without a password.
Requests ==
    {r \in Request : /\ r.op \in OpsOf(r.role)
                     /\ r.op \in {"password", "login"} => r.pwd # None
                     /\ r.op = "register" /\ r.role = "user" => r.pwd # None
                     /\ r.op \notin {"register", "password", "login"} => r.pwd = None
                     /\ r.op = "login" <=> r.device # None}

-----------------------------------------------------------------------------

NoRequest == [op |-> "none", role |-> "none", id |-> None, pwd |-> None, device |-> None]

Finish(s, code) ==
    /\ pc' = [pc EXCEPT ![s] = "idle"]
    /\ answer' = [answer EXCEPT ![s] = code]
    /\ UNCHANGED req

Goto(s, step) ==
    /\ pc' = [pc EXCEPT ![s] = step]
    /\ UNCHANGED <<req, answer>>

Receive(s, r) ==
    /\ pc[s] = "idle"
    /\ r.op = "register" /\ r.role = "seller" => msg[r.id] < MaxDocs /\ usrmng[r.id] < MaxDocs
    /\ pc' = [pc EXCEPT ![s] = "find"]
    /\ req' = [req EXCEPT ![s] = r]
    /\ answer' = [answer EXCEPT ![s] = "none"]
    /\ UNCHANGED docs

\* A parameter is missing or the role is wrong: the handler returns before any query.
Reject(s) ==
    /\ pc[s] = "idle"
    /\ req' = [req EXCEPT ![s] = NoRequest]
    /\ answer' = [answer EXCEPT ![s] = "APIE_INVALID_CLIENT_REQ"]
    /\ UNCHANGED <<docs, pc>>

(***************************************************************************)
(* Where the first query leads: d is a document it has found, if any       *)
(***************************************************************************)

\* Session::Delete looks for a document with the field "user_id" or
\* "seller_id"; those Session::Post stores have the field "identifier" in its
\* place, so that none is ever found.
LogoutDecision == "APIE_INVALID_CLIENT_REQ"

\* So does user::User::Get,
UserGetDecision == "APIE_INVALID_CLIENT_REQ"

\* user::Profile::Get,
ProfileDecision == "APIE_INVALID_CLIENT_REQ"

\* and user::Accusation::Post.
AccuseDecision == "APIE_INVALID_CLIENT_REQ"

\* seller::Accusation::Post: as nobody can accuse, there is nothing to reply to.
ReplyDecision == "APIE_INVALID_CLIENT_REQ"

\* seller::Seller::Get: Double() throws for a location that holds strings.
SellerGetDecision(d) ==
    IF d.place = "numbers" THEN "APIE_OK" ELSE "APIE_SERVER_INTERNAL"

\* getSellerInfo of user::Seller::Get, which reads the location in the same way.
SellerInfoDecision(d) ==
    IF d.place = "numbers" THEN "APIE_OK" ELSE "APIE_SERVER_INTERNAL"

\* getSellerDetailInfo leaves the location out.
SellerDetailDecision(d) == "APIE_OK"

\* Variant: the password is not compared.
LoginAnyPassword(r, d) == "findSession"

LoginDecision(r, d) == IF d.pwd = r.pwd THEN "findSession" ELSE "APIE_PWD_ERROR"

Unfound(r) ==
    CASE r.op = "register" -> "insert"
      [] r.op = "check"    -> "APIE_OK"
      [] r.op = "edit"     -> "APIE_INVALID_CLIENT_REQ"
      [] OTHER             -> "APIE_NO_EXIST"

Found(r, d) ==
    CASE r.op \in {"register", "check"} -> "APIE_ALREADY_EXIST"
      [] r.op = "password" -> "setPwd"
      [] r.op = "remove"   -> "remove"
      [] r.op = "login"    -> LoginDecision(r, d)
      [] r.op = "get"      -> SellerGetDecision(d)
      [] r.op = "info"     -> SellerInfoDecision(d)
      [] r.op = "detail"   -> SellerDetailDecision(d)
      [] OTHER             -> "update"

Refused(r) ==
    CASE r.op = "logout"  -> LogoutDecision
      [] r.op = "profile" -> ProfileDecision
      [] r.op = "accuse"  -> AccuseDecision
      [] r.op = "reply"   -> ReplyDecision
      [] OTHER            -> UserGetDecision

Decisions(r) ==
    IF r.op \in {"logout", "profile", "accuse", "reply"} \/ (r.op = "get" /\ r.role = "user")
    THEN {Refused(r)}
    ELSE IF Accounts(r) = <<>> THEN {Unfound(r)}
    ELSE {Found(r, Accounts(r)[i]) : i \in DOMAIN Accounts(r)}

Find(s) ==
    /\ pc[s] = "find"
    /\ \E decision \in Decisions(req[s]) :
          IF decision \in Steps THEN Goto(s, decision) ELSE Finish(s, decision)
    /\ UNCHANGED docs

-----------------------------------------------------------------------------
(***************************************************************************)
(* What a call leaves stored                                               *)
(***************************************************************************)

Put(coll, r, v) == [coll EXCEPT ![r.role][r.id] = v]
ReplaceFirst(q, v) == IF q = <<>> THEN q ELSE <<v>> \o Tail(q)

\* An update with upsert inserts the document it does not find.
Upsert(q, v) == IF q = <<>> THEN <<v>> ELSE ReplaceFirst(q, v)

Registered(r) ==
    [pwd |-> r.pwd, made |-> "registered",
     place |-> IF r.role = "seller" THEN "numbers" ELSE "none"]

Upserted(op) == [pwd |-> None, made |-> op, place |-> "none"]

\* An update changes one of the documents it matches, if there is one.
Updates(q, v(_)) == IF q = <<>> THEN {q} ELSE {[q EXCEPT ![i] = v(q[i])] : i \in DOMAIN q}

\* seller::Seller::Put stores the location as two strings.
Edits(q) == LET edited(d) == [d EXCEPT !.place = "strings"] IN Updates(q, edited)

\* seller::Suggestion::Post pushes the suggestion with upsert.
Suggests(q) == IF q = <<>> THEN {<<Upserted("suggest")>>} ELSE {q}

\* seller::Accusation::Delete updates, with upsert, a document that has the
\* field "role"; no registered one has.
Withdraws(q) ==
    {IF \E i \in DOMAIN q : q[i].made = "withdraw" THEN q ELSE Append(q, Upserted("withdraw"))}

SetsPwd(q, pwd) == LET set(d) == [d EXCEPT !.pwd = pwd] IN Updates(q, set)

\* Variant: a remove takes one document.
RemovesOne(q) == IF q = <<>> THEN {q} ELSE {Tail(q)}

\* A remove takes every document.
Removes(q) == {<<>>}

NewAccounts(s) ==
    LET r == req[s]
        q == Accounts(r)
    IN CASE pc[s] = "insert" -> {Append(q, Registered(r))}
         [] pc[s] = "setPwd" -> SetsPwd(q, r.pwd)
         [] pc[s] = "remove" -> Removes(q)
         [] pc[s] = "update" /\ r.op = "edit"    -> Edits(q)
         [] pc[s] = "update" /\ r.op = "suggest" -> Suggests(q)
         [] pc[s] = "update" /\ r.op = "withdraw" -> Withdraws(q)
         [] OTHER -> {q}

\* The other collections are left alone by a remove.
Stores(s) ==
    LET r == req[s]
    IN /\ IF r = NoRequest THEN UNCHANGED account
          ELSE \E q \in NewAccounts(s) : account' = Put(account, r, q)
       /\ session' = CASE pc[s] = "insertSession" -> Put(session, r, Append(Sessions(r), r.device))
                       [] pc[s] = "updateSession" -> Put(session, r, Upsert(Sessions(r), r.device))
                       [] OTHER                   -> session
       /\ msg' = IF pc[s] = "insertMsg" THEN [msg EXCEPT ![r.id] = @ + 1] ELSE msg
       /\ usrmng' = IF pc[s] = "insertUsrmng" THEN [usrmng EXCEPT ![r.id] = @ + 1] ELSE usrmng

Insert(s) ==
    /\ pc[s] = "insert"
    /\ Stores(s)
    /\ IF req[s].role = "seller" THEN Goto(s, "insertMsg") ELSE Finish(s, "APIE_OK")
    /\ UNCHANGED cut

\* Variant: the documents of DB_USRMNG are made later.
InsertMsgLast(s) ==
    /\ pc[s] = "insertMsg"
    /\ Stores(s)
    /\ Finish(s, "APIE_OK")
    /\ UNCHANGED cut

InsertMsg(s) ==
    /\ pc[s] = "insertMsg"
    /\ Stores(s)
    /\ Goto(s, "insertUsrmng")
    /\ UNCHANGED cut

InsertUsrmng(s) ==
    /\ pc[s] = "insertUsrmng"
    /\ Stores(s)
    /\ Finish(s, "APIE_OK")
    /\ UNCHANGED cut

SetPwd(s) ==
    /\ pc[s] = "setPwd"
    /\ Stores(s)
    /\ Finish(s, "APIE_OK")
    /\ UNCHANGED cut

Update(s) ==
    /\ pc[s] = "update"
    /\ Stores(s)
    /\ Finish(s, "APIE_OK")
    /\ UNCHANGED cut

Remove(s) ==
    /\ pc[s] = "remove"
    /\ Stores(s)
    /\ Finish(s, "APIE_OK")
    /\ UNCHANGED cut

\* Variant: every login inserts a document.
FindSessionNever(s) ==
    /\ pc[s] = "findSession"
    /\ Len(Sessions(req[s])) < 2
    /\ Goto(s, "insertSession")
    /\ UNCHANGED docs

FindSession(s) ==
    /\ pc[s] = "findSession"
    /\ Goto(s, IF Sessions(req[s]) = <<>> THEN "insertSession" ELSE "updateSession")
    /\ UNCHANGED docs

InsertSession(s) ==
    /\ pc[s] = "insertSession"
    /\ Stores(s)
    /\ Finish(s, "APIE_OK")
    /\ UNCHANGED cut

UpdateSession(s) ==
    /\ pc[s] = "updateSession"
    /\ Stores(s)
    /\ Finish(s, "APIE_OK")
    /\ UNCHANGED cut

\* A registration that ends after its first insert has been tried and before
\* its last one has been made.
CutsShort(s) ==
    cut' = IF pc[s] \in {"insert", "insertMsg", "insertUsrmng"} /\ req[s].role = "seller"
           THEN cut \cup {req[s].id} ELSE cut

\* The call fails, before or after it has had its effect: a DBException, which
\* the handler catches, or the end of the process.
Fail(s) ==
    /\ pc[s] # "idle"
    /\ CutsShort(s)
    /\ Stores(s) \/ UNCHANGED <<account, session, msg, usrmng>>
    /\ \E code \in {"APIE_SERVER_INTERNAL", "lost"} : Finish(s, code)

-----------------------------------------------------------------------------

Init ==
    /\ account = [r \in Roles |-> [i \in Ids |-> <<>>]]
    /\ session = [r \in Roles |-> [i \in Ids |-> <<>>]]
    /\ msg = [i \in Ids |-> 0]
    /\ usrmng = [i \in Ids |-> 0]
    /\ cut = {}
    /\ pc = [s \in Servers |-> "idle"]
    /\ req = [s \in Servers |-> NoRequest]
    /\ answer = [s \in Servers |-> "none"]

Handle(s) ==
    \/ Find(s) \/ Insert(s) \/ InsertMsg(s) \/ InsertUsrmng(s) \/ SetPwd(s) \/ Update(s)
    \/ Remove(s)
    \/ FindSession(s) \/ InsertSession(s) \/ UpdateSession(s)

Next == \E s \in Servers :
    \/ \E r \in Requests : Receive(s, r)
    \/ Reject(s)
    \/ Handle(s)
    \/ Fail(s)

Spec == Init /\ [][Next]_vars

-----------------------------------------------------------------------------
(***************************************************************************)
(* Properties                                                              *)
(***************************************************************************)

\* The type of every variable.
TypeOK ==
    /\ account \in [Roles -> [Ids -> Seq(Doc)]]
    /\ session \in [Roles -> [Ids -> Seq(Devices)]]
    /\ msg \in [Ids -> 0..MaxDocs] /\ usrmng \in [Ids -> 0..MaxDocs]
    /\ cut \in SUBSET Ids
    /\ pc \in [Servers -> Steps]
    /\ req \in [Servers -> Requests \cup {NoRequest}]
    /\ answer \in [Servers -> Codes \cup {"none", "lost"}]

Made(r, i, by) == Cardinality({k \in DOMAIN account[r][i] : account[r][i][k].made = by})

\* An identifier has at most one registered document and one session in each
\* role, and the documents that updates with upsert make never outnumber it:
\* the one that seller::Accusation::Delete leaves beside the registered one
\* goes when the account is removed, and keeps nobody from registering again.
OneDocumentEach ==
    \A r \in Roles, i \in Ids :
        /\ Made(r, i, "registered") <= 1 /\ Len(session[r][i]) <= 1
        /\ Made(r, i, "suggest") = 0
        /\ Made(r, i, "withdraw") <= Made(r, i, "registered")

\* A login that was answered with APIE_OK gave the password of a document of
\* the account, the registered one unless the password was changed on the
\* other, and its device is the one the session holds, until the server takes
\* its next request.
LoginIsEffective ==
    \A s \in Servers : (answer[s] = "APIE_OK" /\ req[s].op = "login") =>
        /\ \E k \in DOMAIN Accounts(req[s]) : Accounts(req[s])[k].pwd = req[s].pwd
        /\ Sessions(req[s]) = <<req[s].device>>

\* Server s is registering seller i.
Registering(s, i) == pc[s] \in {"insertMsg", "insertUsrmng"} /\ req[s].id = i

\* A seller with an account has its documents in DB_MSG and DB_USRMNG, which
\* the other handlers update without creating them, unless its registration
\* is under way or was cut short.
SellersAreComplete ==
    \A i \in Ids : account["seller"][i] # <<>> =>
        \/ msg[i] > 0 /\ usrmng[i] > 0
        \/ i \in cut
        \/ \E s \in Servers : Registering(s, i)

(***************************************************************************)
(* What a comment of the code says and the code does not do                *)
(***************************************************************************)

\* user/session.cpp:118, seller/session.cpp:118: "update user login status in
\* session DB".  A logout of somebody who has a session is not turned down.
LogoutIsServed ==
    \A s \in Servers : (pc[s] = "find" /\ req[s].op = "logout" /\ Sessions(req[s]) # <<>>) =>
        "APIE_INVALID_CLIENT_REQ" \notin Decisions(req[s])
=============================================================================
