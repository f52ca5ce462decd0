---------------------------- MODULE MCAplServer ----------------------------
(* TLC instance of AplServer: the files published and the requests sent.  Two
   connections are open at a time only while the last publication has not
   begun: requests and publications touch no common state. *)
EXTENDS AplServer

Sec == [kind |-> "section"]
Item(k) == [kind |-> "item", key |-> k]

Complete == <<Sec, Item("mongo-server"), Item("port"), Item("log-level"), Item("log-file")>>

MCFiles ==
    { Complete,
      <<Sec, Item("port"), Item("port"), [kind |-> "blank"], Item("mongo-server")>>,
      <<Sec, Item("port"), [kind |-> "overlong"], Item("log-level")>>,
      <<Item("port"), Sec, Item("mongo-server")>> }

Req(m, r, c, t) == [registered |-> r, method |-> m, content |-> c, typed |-> t]

MCRequests ==
    { Req("GET", TRUE, "none", TRUE), Req("PATCH", TRUE, "json", TRUE),
      Req("HEAD", TRUE, "none", TRUE), Req("POST", FALSE, "json", TRUE),
      Req("POST", TRUE, "json", FALSE), Req("PUT", TRUE, "malformed", TRUE) }

MCBound == (\E c \in Conns : conn[c] = "closed") \/ tool[MaxRuns].pc = "idle"

MCSpec ==
    AplInit /\ [][AplNext /\ MCBound']_aplVars /\ \A c \in Conns : WF_aplVars(Serve(c))
=============================================================================
