--------------------------- MODULE OrderLifecycle ---------------------------
(***************************************************************************)
(* What DB_ORDER promises about one service order, whatever requests the   *)
(* clients send: the life an order leads from the moment its identifier is *)
(* generated to the moment its document is removed.  Module Orders, the    *)
(* handlers of apl-server, implements this specification when one          *)
(* apl-server process writes the collection.                               *)
(***************************************************************************)
EXTENDS Naturals, Sequences

CONSTANTS
    Users,      \* user_id values
    Sellers,    \* seller_id values
    OrderIds,   \* order_id values, results of OID::gen()
    NoId        \* the empty string, which getStringField() gives for a missing field

VARIABLE
    life        \* life[o]: the document of order o, with its stage in the field status

(***************************************************************************)
(* "unborn": no document was ever stored under the identifier.             *)
(* "gone":   no document is stored under it and none ever will be.         *)
(***************************************************************************)
Blank(stage) == [user |-> NoId, status |-> stage, target |-> {},
                 replies |-> <<>>, selected |-> NoId]

Stored(o) == life[o].status \notin {"unborn", "gone"}

Become(o, doc) == life' = [life EXCEPT ![o] = doc]

-----------------------------------------------------------------------------

Place(o) ==
    /\ life[o].status = "unborn"
    /\ \E u \in Users, T \in SUBSET Sellers :
         /\ T # {}
         /\ Become(o, [user |-> u, status |-> "new", target |-> T,
                       replies |-> <<>>, selected |-> NoId])

Abandon(o) ==
    /\ life[o].status = "unborn"
    /\ Become(o, Blank("gone"))

\* A seller offers its service: only on an order that is still open.
Offer(o) ==
    /\ life[o].status = "new"
    /\ \E s \in Sellers :
         Become(o, [life[o] EXCEPT !.replies = Append(life[o].replies, s)])

Decline(o) ==
    /\ Stored(o)
    /\ \E s \in Sellers :
         Become(o, [life[o] EXCEPT !.target = life[o].target \ {s}])

Select(o) ==
    /\ life[o].status = "new"
    /\ \E s \in Sellers \cup {NoId} :
         Become(o, [life[o] EXCEPT !.status = "confirmed", !.selected = s])

Cancel(o) ==
    /\ life[o].status = "new"
    /\ Become(o, [life[o] EXCEPT !.status = "canceled"])

Complete(o) ==
    /\ Stored(o)
    /\ Become(o, [life[o] EXCEPT !.status = "completed"])

Remove(o) ==
    /\ Stored(o)
    /\ Become(o, Blank("gone"))

Init == life = [o \in OrderIds |-> Blank("unborn")]

Next == \E o \in OrderIds :
    Place(o) \/ Abandon(o) \/ Offer(o) \/ Decline(o)
    \/ Select(o) \/ Cancel(o) \/ Complete(o) \/ Remove(o)

Spec == Init /\ [][Next]_life
=============================================================================
