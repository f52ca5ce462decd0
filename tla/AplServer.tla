------------------------------ MODULE AplServer ------------------------------
(***************************************************************************)
(* The application server as a process: Configuration, which says how it   *)
(* starts and which database it works with, and RequestDispatch, which     *)
(* says how it answers requests once it listens.  When the process ends    *)
(* its connections are closed.                                             *)
(***************************************************************************)
EXTENDS Configuration

CONSTANTS
    Conns,      \* connections
    Requests    \* the requests that clients send

VARIABLES
    conn, request, reply,   \* of RequestDispatch
    used        \* the databases that handlers have worked on since the start

D == INSTANCE RequestDispatch

dispatch == <<conn, request, reply>>
aplVars == <<vars, dispatch, used>>

ASSUME RequestsAssumption == Requests \subseteq D!Request

-----------------------------------------------------------------------------

Publication ==
    /\ \E n \in Runs :
          \/ \E f \in Files : Publish(n, f)
          \/ TestRoot(n) \/ MakeRoot(n) \/ TestNode(n) \/ WriteNode(n)
          \/ Interrupt(n)
    /\ UNCHANGED <<dispatch, used>>

StartUp ==
    /\ \/ Start /\ used' = {}
       \/ Load /\ UNCHANGED used
    /\ UNCHANGED dispatch

\* The process ends: its sockets are closed with it.
Exit ==
    /\ Stop
    /\ conn' = [c \in Conns |-> "closed"]
    /\ request' = [c \in Conns |-> D!NoRequest]
    /\ reply' = [c \in Conns |-> "none"]
    /\ UNCHANGED used

Client(c) ==
    /\ proc = "running"
    /\ \/ D!Connect(c)
       \/ \E r \in Requests : D!Send(c, r)
       \/ D!Close(c)
    /\ UNCHANGED <<vars, used>>

\* Variant: the node is asked again for every request.
DBServerNow == node["mongo-server"]

\* getDBServer() yields the copy that loadConfigs() made.
getDBServer == Option("mongo-server")

\* handleRequest() hands it to every handler it calls.
Serve(c) ==
    /\ proc = "running"
    /\ D!Serve(c)
    /\ used' = used \cup (IF reply'[c] = "result" THEN {getDBServer} ELSE {})
    /\ UNCHANGED vars

-----------------------------------------------------------------------------

AplInit ==
    /\ Init
    /\ D!Init
    /\ used = {}

AplNext ==
    \/ Publication
    \/ StartUp
    \/ Exit
    \/ \E c \in Conns : Client(c) \/ Serve(c)

\* The event loop comes round to every connection while the process lives;
\* clients, operators and the process itself owe nothing.
AplSpec == AplInit /\ [][AplNext]_aplVars /\ \A c \in Conns : WF_aplVars(Serve(c))

-----------------------------------------------------------------------------
(***************************************************************************)
(* Properties                                                              *)
(***************************************************************************)

\* All requests that one process answers work on one database, even when
\* mongo-server is published anew while it starts or runs; and that database
\* is the published one if the process was started on a settled configuration.
AnsweredFromOneDatabase ==
    /\ \A d, e \in used : d = e
    /\ basis # 0 =>
          LET f == tool[basis].file
          IN (Short(f) /\ ItemsFor(f, "mongo-server") # {}) =>
                used \subseteq {ValueOf(basis, Says(f, "mongo-server"))}

\* A request that parses and whose handler returns is answered or its connection
\* closed, also when the process ends and is started again.
ServableIsAnswered == D!ServableIsAnswered
=============================================================================
