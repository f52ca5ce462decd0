------------------------------ MODULE MCOrders ------------------------------
(* TLC instance of Orders: users, sellers and servers are interchangeable. *)
EXTENDS Orders, TLC

Symmetry == Permutations(Users) \cup Permutations(Sellers) \cup Permutations(Servers)

\* No step and no property of OrdersFleet looks at what an idle server has
\* answered last, and to whom.
WithoutAnswers ==
    <<db, usr, used, pushed, pc, seen,
      [s \in Servers |-> IF pc[s] = "idle" THEN NoRequest ELSE req[s]]>>
=============================================================================
