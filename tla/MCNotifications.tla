-------------------------- MODULE MCNotifications --------------------------
(* TLC instance of Notifications.  Of the statuses that clients may ask for,
   only those that end an order or answer it are enumerated here, an order is put
   by its owner, everybody is registered before the first order and stays, and every
   device has a channel: modules Orders and MessageServer are checked with the rest. *)
EXTENDS Notifications, TLC

Asks == {"agree", "canceled", "delete", NoId}
MCNext ==
    /\ NotificationsNext
    /\ \A s \in Servers : req'[s].ask \in Asks
    /\ \A s \in Servers : (pc[s] = "idle" /\ pc'[s] = "query" /\ req'[s].op = "user.Put") =>
          req'[s].user = db[req'[s].order].user
    /\ usr \subseteq usr'
    /\ used' # {} => usr' = Users
    /\ \A r \in Roles, i \in Ids : session'[r][i] # NoChannel
MCSpec == NotificationsInit /\ [][MCNext]_notificationVars

Devices == Permutations(Channels)

\* No step and no property looks at what an idle server has answered last, and
\* to whom.
WithoutAnswers ==
    <<db, usr, used, pushed, pc, seen, deliveryVars, about,
      [s \in Servers |-> IF pc[s] = "idle" THEN NoRequest ELSE req[s]]>>
=============================================================================
