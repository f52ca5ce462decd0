--------------------------- MODULE MCUserRecords ----------------------------
(* TLC instance of UserRecords: one process, or several that handle requests *)
(* for one seller, either about one car and a favourite or about the rest.   *)
EXTENDS UserRecords

One(S) == Cardinality(S \ {None}) <= 1

Docs == UNION {ToSet(users[u]) : u \in Users}
PlatesOf(d) == {p \in Plates : d.cars[p] > 0}
PlatesAbout == ({req[s].what : s \in Servers} \cap Plates) \cup UNION {PlatesOf(d) : d \in Docs}

AboutTheRest ==
    /\ \A d \in Docs : d.cars = NoCars /\ d.favorites = {}
    /\ \A s \in Servers : req[s].op \notin {"carPost", "carDelete", "favorite"}

FleetBound ==
    /\ One(sellers) /\ \A s \in Servers : req[s].seller \in sellers \cup {None}
    /\ One(PlatesAbout) /\ \A d \in Docs : \A p \in Plates : d.cars[p] <= 1
    /\ used = {} \/ (AboutTheRest /\ dropped = {})

MCInit == Init /\ (OneServer \/ One(sellers))

MCSpec == MCInit /\ [][Next /\ (OneServer \/ FleetBound')]_vars

Symmetry ==
    Permutations(Servers) \cup Permutations(Sellers) \cup Permutations(Plates) \cup Permutations(Ids)
=============================================================================
