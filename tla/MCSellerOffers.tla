--------------------------- MODULE MCSellerOffers ---------------------------
(* TLC instance of SellerOffers: several processes, identifiers and one busy *)
(* seller, or one process, one identifier and all sellers.                   *)
EXTENDS SellerOffers, TLC

Busy == CHOOSE i \in Sellers : TRUE

OnlyBusy ==
    /\ \A i \in Sellers \ {Busy} : sellers[i] \in {<<Registered>>, <<Registered, Withdrawn>>}
    /\ \A i \in Ids : made[i] # Absent => made[i].seller = Busy
    /\ \A s \in Servers : req[s].seller \in {Busy, Absent}

MCBound == OnlyBusy \/ (OneServer /\ \E i \in Ids : \A j \in Ids \ {i} : made[j] = Absent)

MCSpec == Init /\ [][Next /\ MCBound']_vars

Symmetry == Permutations(Servers) \cup Permutations(Ids)
=============================================================================
