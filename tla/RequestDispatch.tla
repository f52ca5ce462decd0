--------------------------- MODULE RequestDispatch ---------------------------
(***************************************************************************)
(* How apl-server takes a request from a connection and answers it:        *)
(* resource-mgr.cpp and request.cpp on top of evhttp.                      *)
(*                                                                         *)
(* The event loop runs one callback at a time, to its end, so that a       *)
(* callback is one step.  evhttp reads the next request of a connection    *)
(* only when the last one was answered: a connection whose request is left *)
(* unanswered is of no use until the client closes it.                     *)
(***************************************************************************)
EXTENDS Naturals

CONSTANTS
    Conns,      \* connections
    Requests    \* the requests that clients send

VARIABLES
    conn,       \* the state of each connection
    request,    \* the request of each connection
    reply       \* the answer to that request

vars == <<conn, request, reply>>

-----------------------------------------------------------------------------

Methods == {"GET", "POST", "PUT", "DELETE", "PATCH", "HEAD"}

\* registered: a resource is registered for the path.  content: the parameter
\* q of a GET or DELETE, the body of the others.  typed: every parameter has
\* the JSON type the handler converts it to.
Request == [registered : BOOLEAN, method : Methods,
            content : {"json", "none", "malformed"}, typed : BOOLEAN]

NoRequest == [registered |-> FALSE, method |-> "GET", content |-> "none", typed |-> TRUE]

\* "501": HTTP_NOTIMPLEMENTED.  "result": 200 with what the handler returned
\* as api_result.  "400": 200 with the api_result 400.
Replies == {"none", "501", "result", "400"}

-----------------------------------------------------------------------------
(***************************************************************************)
(* Clients                                                                 *)
(***************************************************************************)

Connect(c) ==
    /\ conn[c] = "closed"
    /\ conn' = [conn EXCEPT ![c] = "open"]
    /\ UNCHANGED <<request, reply>>

Send(c, r) ==
    /\ conn[c] \in {"open", "answered"}
    /\ conn' = [conn EXCEPT ![c] = "waiting"]
    /\ request' = [request EXCEPT ![c] = r]
    /\ reply' = [reply EXCEPT ![c] = "none"]

\* The client, or nginx in its place, gives up or is done.
Close(c) ==
    /\ conn[c] # "closed"
    /\ conn' = [conn EXCEPT ![c] = "closed"]
    /\ request' = [request EXCEPT ![c] = NoRequest]
    /\ reply' = [reply EXCEPT ![c] = "none"]

-----------------------------------------------------------------------------
(***************************************************************************)
(* The server                                                              *)
(***************************************************************************)

\* The constructor of Request throws: what it parses is no JSON text.  A GET or
\* DELETE may come without the parameter q.
ParseFails(r) ==
    \/ r.content = "malformed"
    \/ r.content = "none" /\ r.method \notin {"GET", "HEAD", "DELETE"}

\* Request::get_method() does not know PATCH.
Known(r) == r.method \in {"GET", "POST", "PUT", "DELETE"}

\* The handler is left by an exception of the JSON library.
HandlerThrows(r) == Known(r) /\ r.content = "json" /\ ~r.typed

Answer(c, code) ==
    /\ conn' = [conn EXCEPT ![c] = "answered"]
    /\ reply' = [reply EXCEPT ![c] = code]
    /\ UNCHANGED request

\* evhttp_set_allowed_methods: HEAD never reaches a callback.
Disallowed(c) ==
    /\ conn[c] = "waiting"
    /\ request[c].method = "HEAD"
    /\ Answer(c, "501")

default_api_cb(c) ==
    /\ conn[c] = "waiting"
    /\ request[c].method # "HEAD"
    /\ ~request[c].registered
    /\ Answer(c, "501")

\* Variant: the default branch of the switch returns.
handleRequestReturns(c) ==
    IF Known(request[c])
    THEN Answer(c, "result")
    ELSE /\ conn' = [conn EXCEPT ![c] = "stuck"]
         /\ UNCHANGED <<request, reply>>

\* The switch over the methods, and finish().
handleRequest(c) == Answer(c, IF Known(request[c]) THEN "result" ELSE "400")

\* Every exception is swallowed, and with it the answer.
httpCallback(c) ==
    /\ conn[c] = "waiting"
    /\ request[c].method # "HEAD"
    /\ request[c].registered
    /\ IF ParseFails(request[c]) \/ HandlerThrows(request[c])
       THEN /\ conn' = [conn EXCEPT ![c] = "stuck"]
            /\ UNCHANGED <<request, reply>>
       ELSE handleRequest(c)

-----------------------------------------------------------------------------

Init ==
    /\ conn = [c \in Conns |-> "closed"]
    /\ request = [c \in Conns |-> NoRequest]
    /\ reply = [c \in Conns |-> "none"]

Serve(c) == Disallowed(c) \/ default_api_cb(c) \/ httpCallback(c)

Next ==
    \E c \in Conns :
        \/ Connect(c)
        \/ \E r \in Requests : Send(c, r)
        \/ Close(c)
        \/ Serve(c)

\* The event loop comes round to every connection; clients owe nothing.
Spec == Init /\ [][Next]_vars /\ \A c \in Conns : WF_vars(Serve(c))

-----------------------------------------------------------------------------
(***************************************************************************)
(* Properties                                                              *)
(***************************************************************************)

\* A request that parses and whose handler returns is answered, or its
\* connection closed, whatever requests the other connections send: one that
\* was dropped by the catch (...) of httpCallback holds up nobody else.
ServableIsAnswered ==
    \A c \in Conns :
        (/\ conn[c] = "waiting"
         /\ ~ParseFails(request[c])
         /\ ~HandlerThrows(request[c])) ~> \/ conn[c] = "closed"
                                            \/ reply[c] \in Replies \ {"none"}
=============================================================================
