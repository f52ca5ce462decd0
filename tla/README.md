# A TLA+ model of rcar

rcar is the server side of a car-service market: users place orders, sellers
answer them, both are notified on their phones. This directory holds TLA+
specifications of its servers, TLC configurations that check them on small
instances, and TLAPS proofs for every instance.

## The system

| part | code | state | operations |
|------|------|-------|------------|
| apl-server, dispatch | `apl-server/resource-mgr.cpp`, `request.cpp` | one request per connection | parse, find the resource, call its handler, reply |
| orders | `uri/user/order.cpp`, `uri/seller/order.cpp`, `*/order-list.cpp` | `DB_ORDER` | post, put, delete, seller's put, lists |
| accounts, sessions | `uri/*/user.cpp`, `seller.cpp`, `password.cpp`, `session.cpp`, `profile.cpp`, `accusation.cpp`, `suggestion.cpp` | `DB_USR`, `DB_SELLER`, `DB_SESSION`, `DB_MSG`, `DB_USRMNG` | register, check, read, edit, change password, log in, log out, suggest, accuse, remove |
| sellers' customers and groups | `uri/seller/user.cpp`, `user-group.cpp`, `group-message.cpp` | `DB_USRMNG`, `DB_MSG` | add, move, remove, write to a group |
| sellers' offers | `uri/seller/activity.cpp`, `service.cpp`, `commodity.cpp`, `advertisement.cpp` | arrays in `DB_SELLER`, `DB_ACTIVITY`, `DB_STORE`, `DB_ADS` | add, change, remove |
| users' records | `uri/user/car-list.cpp`, `favorite.cpp`, `seller-comment*.cpp`, `message.cpp`, `sos.cpp` | arrays in `DB_USR` and `DB_COMMENT`, `DB_MSG`, `DB_SOS` | add, remove, comment, write and reply, call for help |
| notification | `uri/message.cpp`, `msg-server/` | the RabbitMQ queue, the session looked up | publish, consume, push |
| image-server | `image-server/` | GridFS stores | upload, download, make thumbnails |
| thread pool | `lib/thread-pool.cpp` | a queue, two counters, a condition variable | dispatch, work, destroy |
| configuration | `tool/config/config.cpp` (rcar-config), `lib/config-file.cpp`, `zkeeper.cpp`, `config-zookeeper.cpp`, `sys-config.cpp` | ZooKeeper nodes, the options of each process | publish a file; read every option once at the start |

nginx (`docs/nginx.conf`) forwards `/rcar/api/` to one apl-server process and
`/rcar/images/` to one image-server. Each is a single libevent loop: callbacks
do not interleave within a process. apl-server keeps nothing in memory between
requests. A handler is a sequence of separate MongoDB calls, without
transactions, any of which may throw a `DBException` after or before it had its
effect; the handler catches it and returns `APIE_SERVER_INTERNAL`. (The driver is
the one with `mongo::client::initialize`, whose writes are acknowledged: an
update that the database refuses throws too.) The process
may die between two calls. Orders and several other handlers publish a message
to RabbitMQ as their last step; `msg-server` takes it from a queue that is
deleted with its consumer, reads the addressees' sessions and calls the push
service. The servers get the addresses of MongoDB and RabbitMQ from ZooKeeper,
where an operator's run of rcar-config has put them.

What is hard here: a document read by the first call of a handler and used by
its last; a handler cut short between two writes; messages lost with a queue;
requests that are never answered; a server that starts while options are being
published; and the thread pool's condition variable.
`PROJECT.json` lists these under `hazards`, each at its line.

## Modules

| module | models | composed with |
|--------|--------|---------------|
| `Identifiers` | the identifiers of users and sellers | extended by `Orders` and `MessageServer` |
| `OrderLifecycle` | what the order service promises for one order | refined by `Orders` |
| `Orders` | the four handlers that change orders, call by call, for a set `Servers` of processes | `INSTANCE OrderLifecycle` |
| `Notifications` | from a handler of orders to the push service | extends `Orders` and `MessageServer` |
| `Accounts` | registration, passwords, profiles and sessions of both roles | |
| `SellerOffers` | activities, services, commodities and advertisements, and what users find of them | |
| `SellerCustomers` | customers, groups and messages to them | |
| `UserRecords` | cars, favourites, comments, messages, calls for help | |
| `MessageServer` | publisher, broker queue, msg-server, push requests | |
| `Configuration` | publication of options and the start of a server | extended by `AplServer` |
| `RequestDispatch` | a request from arrival to reply | |
| `AplServer` | the application server as a process: start, requests, end, start again | extends `Configuration`, `INSTANCE RequestDispatch` |
| `ImageServer` | upload and download over GridFS | |
| `ThreadPool` | the thread pool | |
| `NotificationsProofs`, `ThreadPoolProofs`, `AccountsProofs`, `ImageServerProofs`, `SellerOffersProofs`, `SellerCustomersProofs`, `UserRecordsProofs`, `AplServerProofs` | theorems | each extends the module it is named after; the first has those of `Orders` and `MessageServer` too |
| `MC*` | input sets, symmetry sets and bounds for TLC | extend the module they are named after |

A definition called *Variant* in its comment is not part of a specification. It
is a faulty form of the definition after it, and shows that a property notices
the fault.

### Orders

`db` is `DB_ORDER` (a document or `NoOrder` per identifier), `usr` is `DB_USR`,
`used` the identifiers `OID::gen` has handed out, `pushed` the published
messages. Each process `s` has a `pc[s]`, its request, the document `seen[s]`
that its query returned, and the `answer[s]` it sent last. A handler is
`Accept` (parameters checked) or `Reject`, then `Query` (query and decision),
`Write` (one insert, update or remove) and, for the two handlers that notify,
`Push`. The write is computed from the request, the document *seen*, and the
document *found* when it is carried out, since `seller::Order::Put` chooses
between `$set` and `$push` by the former. `DBException` and `Crash` may strike
at every step; a write that threw may have been stored. Only the fields of an
order that decide anything are kept. `getSellersId` is not modelled: `Post`
returns before it when no seller is given. Price, time, and items of a reply
are data the service never looks at.

What the lists select is operators over `db`: `OpenOrders` and `RepliedOrders`
(`seller/order-list.cpp`), `UserOrders` (`user/order-list.cpp`) and
`OrderReplies` (`user/order-replies.cpp`, with its paging). The properties speak
of these lists where that is what a client sees.

`OrderLifecycle` says what a client may rely on: an order is offered for,
cancelled or confirmed only while it is new, its owner never changes, the
sellers it addresses only become fewer, and a removed order stays removed.

### Notifications

`Orders` and `MessageServer` side by side, with the same users and sellers
(`Identifiers`); the definitions of `MessageServer` that would have the name of one
in `Orders` have another (`DeliverySpec`, `QuerySessions`, `HandlingException`,
`MsgServerCrash`). The only joint
step is `PushArrives`: the `Push` of a handler is a `Publish` at the broker.
`PushFails` is a `Push` that does not reach it. `about` remembers which message
of `Orders` is behind each published one. Logins change the session that
msg-server looks up; msg-server dies, restarts and loses the broker on its own.

### Accounts

Documents are kept as sequences, because nothing in MongoDB prevents two
documents for one identifier: the handlers look and then insert, and
`seller::Accusation::Delete` upserts a document beside the registered one. A
document is the password, the form of the location (`place`: two numbers after
the registration, two strings after `Seller::Put`) and by what it was `made`.
Which of several documents a query or an update meets is not determined, since
Mongo moves a document that grows, so `Decisions` and `NewAccounts` are sets; the
other modules over Mongo do the same.
`Stores(s)` is the effect of the call at `pc[s]`; `Fail` is a `DBException` or
the end of the process, with or without that effect. `cut` remembers the sellers
whose registration was cut short. Logout, a user's profile and a user's
accusation look for a field that no session has and are always refused
(`Refused`), see *Findings*.

### SellerOffers, SellerCustomers and UserRecords

The three have one form. A handler is the sequence of its calls, `Receive` puts
it into `todo[s]`, and `Query`, `Write` and `Push` carry out the first call. A
query that does not let the handler go on ends it (or, in `SellerCustomers`,
replaces the rest: `Otherwise`); what a later call needs of a query's result is
kept (`had`, `members`, `near`). `Fail` is a `DBException` or the end of the
process, and the call may have had its effect. Documents with the same key are
a sequence, of which a query or an update meets any that matches, and each call
of a handler may meet another; an upsert without a match appends one. (Of a user
there is at most one document as long as there is one process.) The ghost variables (`promised`, `deleted`,
`filed`, `removed`, `kept`, `dropped`, `gone`) hold what clients were told with
`APIE_OK`.

`SellerOffers`: an array in `DB_SELLER` is the set of its items' identifiers, or
`Absent`, since `Post` chooses between `$set` and `$push` by its presence. A
document with `role` is one that an upsert made, of `Service::Put` or of
`Accusation::Delete`; `Init` allows the latter (`Withdrawn`). `HasField` is the set
of what a `Post` may find, `Updated` the set of what an update may leave. With
two documents a `Post` may find one without the array and `$set` that of the
other (`Covered`), and a `$pull` may miss the item (`Certain` is the case in which
it cannot): there is nothing to promise then, and the ghost variables say so. The
lists that
users see (`SellerActivityList`, `SellerServiceList`, `SellerListForService`,
`SellerListForActivity`, `SellerCommodityList`, `AdvertisementGet`) and the
seller's own `ActivityList` are operators; the two of `user/seller-list.cpp` ask
for the city and so miss the documents that an upsert made.

`SellerCustomers`: a document of `DB_USRMNG` has the customers and the groups,
these in their order because an update with `$` changes the first that matches.
A seller who has registered twice has two documents, since `Seller::Delete` leaves
that of `DB_USRMNG`; `Matches` are the documents a call asks for, `Meets` those it
may meet. A removal of a group is `Certain` for a seller with one document.
`Throws` lists the calls that fail by themselves. A group message goes through
the members of each group with its identifier, records every second and notifies
the others (`MembersOf`, `Every2nd`). Groups are named by their identifier and
their seller (`removed`, and `seller` in a `Notification`), since sellers do not
share documents.

`UserRecords`: `DB_USR` documents with the number of times that each plate is in
the array of cars, since `CarList::Post` pushes without looking and `$pull` takes
every copy, and `account` for those that `User::Post` inserted. Registration and removal of the
user interleave with the rest. A reply may name any message. The sellers that a
call for help finds are any that there are.

### MessageServer

`published` numbers the messages, `queue` holds the numbers. `Publish` drops a
message when no queue is bound. `Consume` takes it for good (`no_ack`), `Query`
reads the sessions, `Send` makes one request whose failure is ignored,
`EndOfCursor` or `HandlingException` end the handling. `MsgServerCrash` and
`ConnectionLost` delete the queue; after the latter `run()` only spins. `doc` in a request is
the session it was made for, which is not sent. `held` is a history variable: the
session documents that the addressees of the current message have had since
msg-server took it, against which `PushedToTheAddressee` compares every request. Device type, signature and text
are left out. The broker and the push service are external; they are modelled
as the code uses them.

### Configuration, RequestDispatch and AplServer

A file is a sequence of lines, each a section header, an item, a blank or broken
line, or one that does not fit the buffer; `ReadLines`, `Refuses` and `Section`
(the first line for each key that was read) are what `ConfigFile::analyze` makes
of it. A value is the run and the line that
wrote it. A run of rcar-config is `Publish` (the file is analysed), then one step
per ZooKeeper call: `TestRoot`, `MakeRoot`, and for each key `TestNode` and
`WriteNode`. Every call may fail (`Lost`), and a run may be interrupted; two runs
may overlap each other and the start of a server. The tool ignores what the calls
return. `Start` and `Load` are `SystemConfig::create` and the reads of
`loadConfigs` in `main`, in their order; a missing option ends the process.
`basis` is a ghost: the publication a process was started on, if that one had
ended undisturbed. The observers of `config-zookeeper.cpp` are not part of the
model, since `getNode` sets no watch and they are never called.

`RequestDispatch`: a callback runs to its end, so it is one step. `stuck` is a
connection whose request was dropped by the `catch (...)` of `httpCallback`.

`AplServer` puts both together: requests arrive only at a process that runs, the
end of the process closes its connections, and every handler gets the database
that `getDBServer()` names.

### ImageServer

One process, one request at a time, one step per GridFS call. A `Broken` image
is one from which no thumbnail can be made. An upload of *k* images is answered
*k* times, since the reply is inside the loop (`upload.cpp:70`), and one of no
images is not answered.

### ThreadPool

Everything between a lock and the next wait or unlock is one step. The queue is
two positions, because a worker that timed out, or that leaves, calls `front()`
and `pop()` on an empty queue: `front()` then yields any element of `Unwritten`
and the first position passes the second. `wait`, `woken` and `expired` are the
phases of `pthread_cond_timedwait`, which may also return spuriously. No server
of this commit uses the pool.

## Runs

| run | question | bounds |
|-----|----------|--------|
| `OrdersSingle` | do the handlers of one process implement the life cycle, keep replies, list an order with a seller until it is answered, announce only what is recorded, and mean `APIE_OK`? | 2 users, 2 sellers, 1 order, 2 replies |
| `OrdersFleet` | what survives two processes on one database? | 2 users, 1 seller, 1 order, 1 reply |
| `NotificationsRun` | from the handler to the push service: is only the owner told of an offer, only of one that is recorded, on a device of that session, and after the order was announced; does no message reach a device of anybody else or of the other role? | 1 process, 2 users of whom one is the seller too, 2 devices, 1 order, 2 messages; the statuses asked for are `agree`, `canceled` and `delete`, an order is put by its owner, users are registered before the first order and stay, and every device has a channel |
| `AccountsSingle` | one document each, effective logins, complete sellers | 1 identifier in both roles, 2 passwords, 2 devices, `MaxDocs = 2` |
| `AccountsLogout` | finding | same |
| `SellerOffersRun` | are offers that were acknowledged shown, removed ones not, and titles unique, whichever document is met? | 2 processes, 2 identifiers and one busy seller, or 1 process, 1 identifier and 2 sellers |
| `SellerCustomersRun` | are customers kept, listed, and notified of stored messages only? | 1 process with 2 customers or 2 group names; 1 process and a seller with two documents, 1 customer and 1 name; 2 processes with 1 name, 2 identifiers and 2 customers, or 1 and a message |
| `UserRecordsRun` | are records kept until removed, and notified only when stored? | 1 process with 2 sellers, 2 plates, 2 identifiers; 2 processes with 1 seller and 1 plate |
| `MessageServerRun` | where is each message, how often and in which order is it pushed; is a queued message handled or lost? | a user who is a seller too, another seller, 1 channel, 2 messages |
| `AplServerRun` | which options does a server run with when publications fail, overlap or coincide with its start; is one database used; are servable requests answered, whatever the others are? | 4 files (complete, doubled key, overlong line, refused), 2 publications, 2 failing calls, 2 starts, 2 connections and 6 kinds of requests |
| `ImageServerSafe` | what is stored when an upload is cut short | 3 images, 1 broken, uploads of up to 2 |
| `ThreadPoolRun` | counters, overruns, items, the end of the pool; is every accepted item handled, and does `destroy_threadpool` return? | 3 thread identities, at most 2 at once, 3 items; timeouts, failing `pthread_create`, unwritten memory zero or not |

Why the bounds suffice: orders do not refer to one another, so one order with
two users and two sellers meets every pair of handlers; two replies are the
first, which is `$set`, and a later one, which is `$push`. Two processes are
enough for a write between another's query and write, and two users for an
offer that is announced to the wrong one. Two devices and one identifier in two
roles are what a push to a wrong device needs: that of the other user, of the
other role, or an earlier one. Two messages show
overtaking and repetition. Two connections show that one does not hold up another. Two publications
are one to disturb and one to repair or to mix with; two starts are one on each.
In `Notifications` the second message is the news of the offer that follows the
news of the order. Two threads and
a third identity show a thread that leaves and one that replaces it.
Two identifiers show an item that is added beside or in place of another; two
members of a group show both halves of `Every2nd`; two copies of a car show
whether a removal takes both. `MaxReplies`, `MaxDocs`, `MaxMessages`,
`MaxUpload`, `MaxUnderflow`, `MaxGroups`, `MaxMembers`, `MaxCars`, `MaxRuns`,
`MaxFaults`, `MaxStarts` and the sets of identifiers are the bounds; they stand
in guards. `MCSellerOffers`, `MCSellerCustomers` and `MCUserRecords` bound the
next-state relation further (`MCBound`, `FleetBound`), so that the case of one
process may have more data than that of two; `MCAplServer` has two open
connections only while the last publication has not begun, since requests and
publications do not touch the same state. `OrdersFleet` and `NotificationsRun`
take states for equal that differ in what an idle server answered last
(`WithoutAnswers`, a VIEW): no action reads it, and none of their properties
speaks of it.

`OrdersSingle` relies on one process, which is what `docs/nginx.conf` deploys.
With two, `RepliesKept`, `AnnouncedOffersAreRecorded`, `OkMeansDone` and the
life cycle do not hold, because the writes do not repeat the condition that was
read. `NotificationsRun` makes the same assumption. The same is true of `OneDocumentEach`. What holds for any number is in
`OrdersFleet`. Properties that begin with `OneServer` make the same assumption;
`ListedActivitiesAreRecorded`, `CustomersAreKept`, `NotifiedIsStored` and
`NotifiedIsRecorded` do not.

The type invariants of `Orders` and `ThreadPool` (`TypeOK`) and of `MessageServer`
(`DeliveryTypeOK`) are theorems, `OrdersSingle` checks the first, and the inductive invariants of the
other proofs contain the types they need.

Deadlock is not checked for the thread pool: a destroyed pool stops. A pool
whose positions reached `MaxUnderflow` stops too, which only happens after the
queue was overrun. It is not checked for `AplServer` and `Notifications` either:
a process that is down after its last start (`MaxStarts`), or a `msg-server`
without messages left (`MaxMessages`), has nothing to do.

### Fairness

* `ThreadPool`: weak fairness for each worker's own steps and for the destroyer
  once it is woken; a thread that can run runs. Calls of the client, timeouts
  and spurious wake-ups are owed to nobody. `AcceptedIsHandled` and
  `DestroyReturns` name the one excuse they need with timeouts: the empty queue
  was taken from, and then any memory may be read.
* `MessageServer`: weak fairness for the steps of a running msg-server. Nobody
  is obliged to start it again.
* `AplServer`: weak fairness of serving each connection; the event loop comes
  round to every one while the process runs. Clients, operators and the process
  itself owe nothing.

## Findings

`AccountsLogout` states what a comment of the code says and is violated:
`Session::Delete` queries `user_id` or `seller_id`, `Session::Post` stores
`identifier`; every logout is turned down.

The rest was seen while modelling and is part of the models, without a run of
its own.

* Notification: `PushToBatchMessage::serialize` is empty
  (`msg-server/message-impl.h:19`), so that the requests for a message to several
  sellers name no channel.
* Configuration: `-c` has no effect, since the table of options is a pointer
  and its `sizeof` leaves no entry (`config-cmdline.cpp:15`); a line that does not
  fit the buffer ends the file silently (`config-file.cpp:52`); a value of 64
  characters has no terminating 0 (`zkeeper.cpp:66`); rcar-config does not look at
  what its writes return (`tool/config/config.cpp:178`, `190`); observers are
  registered under names that no event carries and `getNode` passes 0 for the
  watch, so that a running server never learns of a change (`zkeeper.cpp:69`);
  `initialize_log` tests the wrong way round and the log goes to `./rcar.log`
  (`apl-server/main.cpp:44`); `msg-server` goes on after a failed `create`
  (`msg-server/main.cpp:67`).
* Dispatch: `httpCallback` swallows exceptions and the reply with them
  (`resource-mgr.cpp:25`).
* Images: the chunk loop runs one too far (`download.cpp:92`), so that a missing
  thumbnail is never made.
* Orders: a user's `Put` answers `APIE_OK` without any effect when there is no such
  order, when a cancelled order is agreed to, and when a new one is to be deleted
  or cancelled by the word `cancel` (`user/order.cpp:348` to `404`; `Ignored`);
  choosing a seller stores `confirmed`, while the branch for a chosen
  order tests for `selected` (`user/order.cpp:367`, `389`), so that such an order
  can be neither cancelled nor deleted by `Put`; an order can be confirmed
  without a seller (`user/order.cpp:366`); `order-replies` takes `num` for the end
  of the page, so that the second page is empty (`user/order-replies.cpp:54`).
* Thread pool: a worker that timed out takes an item from an empty queue
  (`thread-pool.cpp:107`).
* Accounts: the seller of a registration that was cut short cannot register
  again (`seller/seller.cpp:200`); a user's `Get`, profile and accusation look for
  the session by `user_id` as logout does, and are always refused;
  `Seller::Put` stores the location as two strings (`seller/seller.cpp:336`), after
  which the handlers that read it as numbers fail for that seller;
  `Accusation::Delete` makes a second document of the seller
  (`seller/accusation.cpp:101`).
* Offers: `Activity::Put` pushes the new version to `activites`
  (`seller/activity.cpp:166`) and the activity is no longer listed; the check for
  the same title in `Activity::Post` (`seller/activity.cpp:82`) compares with a
  text that contains the field's name and never matches; `Service::Put` makes a
  second document of the seller, after which the service is listed twice and
  `Service::Delete` removes one of the two (`seller/service.cpp:152`, `201`); with
  two documents, whichever was their origin, a removal of an activity or service
  may pull from the one without it and answer `APIE_OK`, and a creation may set
  the array anew and lose what it had (`seller/activity.cpp:64`, `74`);
  `Advertisement::Put` cancels in `DB_SELLER` and has no effect
  (`seller/advertisement.cpp:172`); `Commodity::Get` queries `commod_id`, which
  nothing stores; a `Commodity::Put` that stops after its remove has lost the
  commodity.
* Customers: `User::Post` with a new group name sets `groups` to that group alone
  (`seller/user.cpp:137`); `User::Put` fails for every seller with a group, and
  `User::Delete` for every seller with a document, so that no customer is ever
  removed, while its comments say "delete user from record.users list"
  (`seller/user.cpp:197`, `266` to `270`); for a seller who has registered twice a
  removal of a group may miss it, and messages to it go on (`seller/user-group.cpp:151`);
  `UserGroup::Post` drops a `group_id` that it is given; a message to a group
  notifies its first, third... member and records the others
  (`seller/group-message.cpp:54`).
* Records: `SellerCommentList::Post` stores under `SellerCommentList`, which
  nothing reads (`user/seller-comment-list.cpp:114`); `CarList::Get` answers for
  one fixed user and `Car::Get` always with the first car (`user/car.cpp:46`);
  `SOS::Post` answers with an `order_id` that is not the stored one
  (`user/sos.cpp:98`, `125`); `Favorite::Get` looks for the identifier among the
  names (`user/favorite.cpp:31`); `getMessageDetail` initializes an object from
  itself (`user/message.cpp:100`); the message lists of users and groups query
  `DB_USR`, or the fields `from` and `to`, which `UserMessage::Post` never stores.

## Proofs

Every theorem is about the specification as it stands, for all values of the
constants that satisfy the assumptions below: any number of users, sellers,
orders, messages, files, threads and so on, and any bounds. A theorem that is
about one application server says so: in `NotificationsProofs` and `AccountsProofs` as a
hypothesis (`OneServer`, any two elements of `Servers` are equal), elsewhere as
part of the property. `docs/nginx.conf` deploys one.

| module | theorem | states | processes |
|--------|---------|--------|-----------|
| `NotificationsProofs` | `OrdersTypeOK` | `[]TypeOK` | any |
| | `OrdersNeverResurrected` | `NeverResurrected` | any |
| | `OrdersOwnerIsNotified` | `[]OwnerIsNotified` | any |
| | `OrdersRepliesKept` | `RepliesKept` | one |
| | `OrdersAnnouncedRecorded` | `[]AnnouncedOffersAreRecorded` | one |
| | `OrdersListedUntilAnswered` | `ListedUntilAnswered` | one |
| | `OrdersOkMeansDone` | `OkMeansDone` | one |
| | `OrdersLifecycle` | `LifecycleImplemented` | one |
| | `MessagesTypeOK` | `[]DeliveryTypeOK` | |
| | `MessagesAccounted` | `[]Accounted` | |
| | `MessagesToTheAddressee` | `PushedToTheAddressee` | |
| | `MessagesOnceAndInOrder` | `[]OnceAndInOrder` | |
| | `NotificationsRunOrders` | `NotificationsSpec => Spec` (of `Orders`) | any |
| | `NotificationsRunDelivery` | `NotificationsSpec => DeliverySpec` | any |
| | `NotificationsOffersRecorded` | `[]PushedOffersAreRecorded` | one |
| | `NotificationsNewsFirst` | `[]OrdersAreAnnouncedFirst` | one |
| `AccountsProofs` | `AccountsOneDocument` | `[]OneDocumentEach` | one |
| | `AccountsLogin` | `[]LoginIsEffective` | one |
| | `AccountsSellers` | `[]SellersAreComplete` | one |
| `SellerOffersProofs` | `OffersListed` | `[]ListedActivitiesAreRecorded` | any |
| | `OffersTitles` | `[]TitlesAreUnique` | one |
| | `OffersAcknowledged` | `[]AcknowledgedIsShown` | one |
| | `OffersDeleted` | `[]DeletedStaysDeleted` | one |
| `SellerCustomersProofs` | `CustomersMessagesStored` | `[]NotifiedIsStored` | any |
| | `CustomersKept` | `CustomersAreKept` | any |
| | `CustomersFiledListed` | `[]FiledIsListed` | one |
| | `CustomersRemovedSilent` | `NoMessageToRemovedGroup` | one |
| `UserRecordsProofs` | `RecordsNotified` | `[]NotifiedIsRecorded` | any |
| | `RecordsKept` | `[]AcknowledgedIsKept` | one |
| | `RecordsRemoved` | `[]RemovedIsGone` | one |
| `AplServerProofs` | `AplFreshStart` | `[]FreshStartUsesPublished` | |
| | `AplNewPort` | `[]NewPortMeansNewOptions` | |
| | `AplOneDatabase` | `[]AnsweredFromOneDatabase` | |
| `ImageServerProofs` | `ThumbnailsFollowImages` | `[]ThumbnailsHaveImages` | |
| | `UploadedIsStored` | `[]RepliedIsStored` | |
| `ThreadPoolProofs` | `PoolTypeOK` | `[]TypeOK` | |
| | `PoolCounters` | `[]CountersExact` | |
| | `PoolFreedWhenAllLeft` | `[]FreedWhenAllLeft` | |
| | `PoolNoOverrun` | `[]NoOverrunWithoutTimeout` | |
| | `PoolEachItemOnce` | `[]EachItemOnce` | |

None of these properties is inductive. A handler in the middle of its work has
looked at the database and will write; the inductive invariants say what it
found, that this is still so, and what it may therefore write.

* `Orders`. With one process, `HandlerInv`: only used identifiers are stored
  (`StoredIsUsed`); the identifier of a `Post` under way has no document
  (`PostIsFresh`); the document seen is the one stored until the write
  (`SeenIsStored`); a handler about to push has its reply stored
  (`PushFollowsReply`); an order that was announced was used and is not being
  posted (`AnnouncedIsUsed`). With any number, `FleetInv`: two `Post`s have
  different identifiers (`PostsApart`), and the owner in the document that a
  handler saw is the owner of the order for ever (`SeenOwner`,
  `AnnouncedToOwner`); this is less than that the document is unchanged, and
  enough for whom to notify. `ListedUntilAnswered` needs `NeverSelected`: no
  order is ever stored with `selected`, the status for which `Put` tests.
  `OkMeansDone` needs `DoneBeforePush`: what is asked for is done before the push;
  an answer that comes from the query is `Done` or `Ignored` by the status seen,
  which is the stored one.
* The refinement: `LifecycleImplemented` is, for each order, the specification
  `OrderLifecycle` with the document as its state (`LifeOf`; `unborn` before the
  identifier is used or while its `Post` is under way, `gone` after the removal).
  `LifeStep` lists what a step of `OrderLifecycle` may do; `LifeMoves` says that
  every step of the handlers is one of those for each order, or none. The
  initial condition and the temporal step follow from `HandlerInv` and
  `PostHasTargets`.
* `MessageServer`: `DeliveryInv` puts every message number into one place (the
  queue, in order; the current message; `done`; `lost`) and every request behind
  the queue: those for the current message are for sessions that have left the
  cursor (`RequestsBehind`), and each is for an addressee of its message, with that
  session's channel (`RequestsAddressed`). `PushedToTheAddressee` needs
  `SessionsHeld` too: what the query will return, and what is left of the cursor,
  are documents that the addressees have had since the message was taken.
* `Notifications`: every step of the composition is a step of the order handlers,
  and one of the delivery, or leaves the part alone (`OrdersPart`,
  `DeliveryPart`), so that all theorems about the parts hold of the whole.
  `NewsInv` is the link between them: message *i* is published as what a handler
  pushed (`AboutPublished`), and once somebody was told of an offer, the `Post` of
  that order has ended and nothing it published is newer (`OffersFollowPosts`).
  A request is for an addressee of its message (delivery); the message is one
  that a handler pushed (the link); its addressee owns the order and the offer is
  recorded (`OwnerIsNotified`, `AnnouncedOffersAreRecorded`, about orders).
* `Accounts`: `AccountsInv`. An identifier has no document, the registered one,
  or that and one of `Accusation::Delete`; what a handler has found out still
  holds at its next call (`FindingsHold`). `RoomLeft` is about the bound
  `MaxDocs`: it never stops a registration half-way.
* `SellerOffers`: `OffersInv` is `FleetInv`, for any number of processes
  (identifiers are of one kind and seller; an activity is inserted before it is
  listed), and `ProcessInv`, for one: a seller with documents has the registered one
  among them (`HasAccount`); what the queries found is still so (`StillFound`); a
  promised offer is where its kind is looked for, and no handler at work changes
  it or may cover its array, which it cannot if every document of the seller has
  one (`PromisedShown`, `Spares`, `AllHave`); a deleted offer is not there and
  nobody is about to add it (`DeletedHidden`); titles are unique (`UniqueTitles`,
  with the part of `StillFound` that the title looked for is still free). Nothing is
  assumed about the order of documents.
* `SellerCustomers`: `CustomersInv` is `FleetInv`, for any number of processes
  (`Handling`: a handler is at one of the calls of its program and has inserted
  the message it is about to push; `IdsApart`: no two have the same `msg_id`),
  and `ProcessInv`, for one: what `findBook` found is still so (`StillFound`), a filed
  customer is listed in some document of the seller and nobody is at work to
  change that (`FiledStays`), a removed group is in no document of the seller
  (`RemovedIsGone`), and members were read from a group that is
  (`CollectedIsThere`). Every write makes a seller's documents grow: none goes
  away or loses a customer (`Grown`). The proofs rest on lemmas about the
  operators that update an array: where an element that is not pulled ends up
  (`Keep`), which document and group a positional `$` is (`Selected`), and what
  the rest keeps.
* `UserRecords`: `RecordsInv` has the same two parts. `InOrder` says of a handler
  that nothing is stored under its identifier before it writes, and that it has
  recorded what it is about to tell.
* `AplServer`: `AplInv`. `ToolInv` is about the runs of rcar-config: while an
  undisturbed one goes on no other does, and none that began earlier does
  afterwards (`Alone`), so the nodes behind it hold nothing older
  (`NodesNotOlder`); the port of a run is there only when the run is done
  (`PortIsLast`). `OptionsInv` carries this over to what a process has read so
  far: nothing older than its port (`ReadNotOlder`), and exactly what its basis
  wrote (`ReadsBasis`). `UsesOwnOption` adds the database of the handlers.
* `ImageServer`: `ImageInv` counts the replies of an upload and says what of the
  current image is stored at each call.
* `ThreadPool`: `CountersExact` is inductive with the types and uses the
  cardinality of finite sets; `FreedWhenAllLeft` follows, since the destroyer
  frees the pool only at `m_thread_alive = 0`; `NoOverrunWithoutTimeout` needs that
  a worker resumes after a timeout only when one has been recorded;
  `EachItemOnce` needs `ItemsInv`: an item is pushed once, and as long as the
  queue was not overrun what was taken is with one worker or handled.

The assumptions on the constants: absent values (`NoId`, `None`, `Absent`, `Null`,
`NoChannel`, `NoSession`) are none of the values they are told apart from, bounds
are natural numbers, the set of threads is finite, and files are sequences of
lines. They are `IdsAssumption`, `BoundAssumption`, `MessageAssumption`,
`AccountsAssumption`, `OffersAssumption`, `CustomersAssumption`, `RecordsAssumption`,
`ConfigurationAssumption`, `ImageAssumption` and `PoolAssumption`, each in the
module that declares the constants.

Only model-checked:

* liveness (`AcceptedIsHandled`, `DestroyReturns`, `HandledOrLost`,
  `ServableIsAnswered`): the prover has no fairness reasoning.

What the proofs changed in the models: `NoMessageToRemovedGroup` used to speak of
a group's identifier alone and did not hold with two sellers, one of whom may
name the other's group in a request; a removal is now remembered with its seller.
`GroupMessage::Post` goes through each group by itself, so that every second
member is counted within a group and not over all of them. `AccountComesFirst`, an
earlier property of `SellerOffers` that a seller's first document is the registered
one, is gone, since nothing in Mongo keeps that order. `None` is assumed to
be no message, since a stored message is told from a missing one by it.

## Not modelled

* The handlers that only read and format and that no property speaks of:
  recommendations, commodity and coupon lists, message lists, advertisements,
  car maintenance, user-group-list (which has no body).
* `uri/sys`, which the CMake files do not compile.
* The environment (`EnvironmentConfig`) and values split into several, which no
  server uses; the log, MD5 and Base64: sequential text processing without shared
  state.
* Participation in activities: `SellerActivity::Put` sends an update that Mongo
  refuses, so that it changes nothing.
* The start of image-server and msg-server: image-server reads its options as
  apl-server does, and msg-server is started as an atomic step of `MessageServer`.

## Plan

Everything planned is modelled: orders, thread pool, accounts, offers, customers,
records, notification, configuration, dispatch, images, and the compositions
`AplServer` and `Notifications`. Every safety property that a run checks is a
theorem. What is left, should the code change:

1. Several application servers. What a fleet keeps is proved; what it loses
   (`RepliesKept`, `OneDocumentEach` and the others that need one process) would
   hold again if each write repeated the condition its handler read.
2. A composition of the handlers of offers and customers with `MessageServer`, like
   `Notifications`, of which the second half could be used as it is.
3. Liveness, which stays with TLC.
