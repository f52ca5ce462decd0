---------------------------- MODULE Identifiers ----------------------------
(* The identifiers that requests and messages name users and sellers by. *)
(* Both are mobile numbers, so that one may be in either set.            *)

CONSTANTS
    Users,      \* user_id values
    Sellers     \* seller_id values
=============================================================================
