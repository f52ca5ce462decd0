------------------------- MODULE MCSellerCustomers --------------------------
(* TLC instance of SellerCustomers.  With one process: two customers and one *)
(* group name, or one customer and two names; for a seller with two          *)
(* documents, one customer and one name.  With several processes: one name,  *)
(* two identifiers and two customers, or one and a message.                  *)
EXTENDS SellerCustomers

One(S) == Cardinality(S \ {None}) <= 1

Books     == UNION {ToSet(books[i]) : i \in Sellers}
GroupsOf(b) == ToSet(b.groups)
Groups    == UNION {GroupsOf(b) : b \in Books}

UsersAbout == {req[s].user : s \in Servers} \cup UNION {ToSet(req[s].list) : s \in Servers}
                  \cup UNION {b.users : b \in Books} \cup UNION {ToSet(g.users) : g \in Groups}
NamesAbout == {req[s].name : s \in Servers} \cup {g.name : g \in Groups}

\* A list in a request has one user.  With one customer a document may have a
\* group without an id.
SmallRequests == \A s \in Servers : Len(req[s].list) <= 1
Unnamed(b) == SelectSeq(b.groups, LAMBDA g : g.id = None)
NoneGiven == \A s \in Servers : req[s].group # "given"

\* The seller has two documents.
Twice == \E i \in Sellers : Len(books[i]) = 2

SingleBound ==
    /\ OneServer
    /\ Twice => /\ One(UsersAbout) /\ One(NamesAbout) /\ NoneGiven
                /\ accounts = Sellers \cup Users
                /\ \A b \in Books : Len(b.groups) <= 1
    /\ accounts # Sellers \cup Users => One(NamesAbout) /\ NoneGiven
    /\ \/ One(UsersAbout) /\ \A b \in Books : Len(Unnamed(b)) <= 1
       \/ One(NamesAbout) /\ NoneGiven /\ \A b \in Books : Unnamed(b) = <<>>

FleetBound ==
    /\ One(NamesAbout) /\ NoneGiven
    /\ Cardinality(used) <= 2
    /\ MsgIds \cap used # {} => One(UsersAbout)
    /\ \A b \in Books : Len(b.groups) <= 1
    /\ \A g \in Groups : Len(g.users) <= 1

MCBound == SmallRequests /\ (SingleBound \/ FleetBound)

\* At most one account is missing, none with several processes; several
\* processes find no seller who has registered twice.
MCInit ==
    /\ Init
    /\ OneServer \/ \A i \in Sellers : Len(books[i]) <= 1
    /\ LET missing == (Sellers \cup Users) \ accounts
       IN missing = {} \/ (OneServer /\ One(missing))

MCSpec == MCInit /\ [][Next /\ MCBound']_vars

Symmetry ==
    Permutations(Servers) \cup Permutations(GroupIds) \cup Permutations(Users) \cup Permutations(Names)
=============================================================================
