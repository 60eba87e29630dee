# Formal models of the cluster chat server

TLA+ modules, TLC configurations and TLAPS proofs about the C++ chat server in
this repository (`src/` and `include/` below the repository root; the paths in
`PROJECT.json` have a `src/` prefix more).  The models are translated from the
code; comments in them name functions and line numbers.

    tlc -workers 4 -config session_login.cfg MCChatService     # one run
    tlapm ChatServiceProofs.tla                                 # one proof module

`PROJECT.json` lists the components, the runs, for every property a mutation of
the model that breaks it, the lines each definition models, the disagreements
found, the hazards of the code, and the theorems.

## 1. The system

A cluster of chat server processes ("nodes").  Clients connect by TCP to one of
them and send JSON texts.  Nodes find each other and the users' whereabouts in
Redis (the control plane) and send each other messages over TCP (the data
plane).  Users, friends, groups and offline messages are in MySQL.

| component | state | operations | talks to |
|---|---|---|---|
| ChatService (`chatservice.cpp`) | `userConnMap_`: which connection is a user's on this node (sharded, a lock per shard); the loops' dispatchers | `login`, `logout`, `clientCloseException`, `oneChat`, `groupChat`, `handleClusterOneChatFrame`, `handleClusterGroupChat`, `reset`, administration | all below |
| local dispatchers (`chatservice.cpp` 640-780) | per I/O loop: `pending`, `flushScheduled` | `enqueueLocalDelivery`, `drainLocalDeliveriesInLoop` | muduo's `queueInLoop` |
| NodeRegistry (`noderegistry.cpp`) | `userRouteCache_`, `nodeMetaCache_` (TTL up to 1 s), heartbeat thread, `selfNode_` | `init`, `stop`, `bindUser`, `unbindUser`, `queryUserNode`, `resolveUserNode`, `queryNode`, `cleanupSelf` | Redis |
| Redis (`redis/redis.cpp`) | `chat:node:<id>` with expiry, `chat:nodes`, `chat:session:<user>`, `chat:node-users:<id>` | one function = one to three commands under `command_mtx_` of the calling process | |
| ClusterRouter (`clusterrouter.cpp`) | `connMap_`, `warmedNodeInstances_`; a `ShardChannel` per (node, shard): `pending`, `connecting`, `overloaded`, `closing`, `connection`, `client` | `sendOneChat`, `sendGroupChat`, `prewarmNode`, `getOrCreateChannel`, connection callbacks, `closeAll` | I/O loops of its own |
| ClusterServer, ChatServer | per connection: the bytes without a complete message | `onConnection`, `onMessage` | ChatService |
| ConnectionPool (`db/connectionpool.cpp`) | `queue_` of MySQL connections | `getConnection` and the deleter that gives back | |
| models, MySQL | rows of `user`, `friend`, `allgroup`, `groupuser`, `offlinemessage` | one or two statements each | ConnectionPool |
| process (`main.cpp`) | whether it serves, shuts down or hangs | start-up, `resetHandler` on SIGINT | ChatService, NodeRegistry |
| client (`client/main.cpp`) | read buffer, `rwSem`, `g_isLoginSuccess`, current user, friend and group lists | menu thread, `readTaskHandler` | ChatServer |
| configuration (`config.cpp`) | the environment | `loadEnvFile` | the file `.env` |

### What is hard in it

* **Many threads, no lock across a handler.**  A login is: two MySQL reads, a
  check in Redis, an entry in the connection table, `SET NX` and `SADD` in
  Redis, a MySQL update, a read and a delete of offline messages.  Other
  threads of this node, and other nodes, run between any two of these.
* **Three views of "where is the user".**  The connection table of the node, the
  session in Redis, a cache of the session on every node.  Handlers clean up
  what *looks* stale in one view given another.
* **Crash and restart.**  A process leaves its sessions in Redis.  Its metadata
  lapses after some seconds, or is replaced by a new instance of the node.  It
  may die, or its hiredis context may fail for good, between any two commands.
* **A signal handler that takes locks.**  `resetHandler` runs the whole shutdown
  on top of whatever its thread was doing, with the mutexes that holds.
* **Text through four readers.**  A message that waits in MySQL is escaped,
  cut at 1024 bytes, read as an SQL literal and parsed; two threads of the
  client wait for each other over the answer.
* **Queues with limits and flags.**  A message can wait in a dispatcher, in a
  router channel, in muduo's functor queue or in an output buffer; flags decide
  who has to wake whom.
* **Streams cut anywhere**, in three formats, one of them mixed.

### What makes each component correct

* connection table: an entry names an open connection of that node whose client
  is that user (`TableTruthful`);
* sessions: one owner, kept while logged in (`SessionHeldWhileLoggedIn`), who is
  on one node (`OneNodePerUser`, violated) and in its connection table
  (`LoggedInIsFound`, violated); listed for clean-up (`NodeUsersCoverSessions`); not revived by a dying node (`GoneStaysGone`);
  reclaimed after a crash (`StaleReclaimed`);
* messages: one live copy, none lost by the handlers (`LiveCopyUnique`,
  `HotPathConserves`), for group messages per member (`GroupCopyUnique`,
  `GroupConserves`);
* dispatcher: one drain, bounded backlog, order (`OneDrain`, `BacklogBounded`,
  `TakenSettles`, `KeepsPromise`);
* channel: at most once, no lost wake-up, a stop is final (`AtMostOnce`,
  `PendingServed`, `StoppedStaysStopped`); one channel per shard, and a node
  marked as warmed has them all (`ChannelKnown`, `PrewarmCovers`);
* the node's entry: there while the process is well, gone when it is not
  (`LeaseKept`, `RegistrationEnds`, `NoImmortalSession`, `LateSessionsInvalid`);
* pool: exclusive use, no lost wake-up (`Exclusive`, `NoLostWakeup`);
* administration: ids are the asker's own, a group has its founder, a row that
  says "online" of nobody comes from two logins at once and from nothing else
  (`AckedIdIsOwn`, `GroupFounded`, `GhostsOfDoubleLogins`);
* client: its menu agrees with the server, a login ends, lists are not mixed, a
  plain message arrives (`ClientAgrees`, `LoginSettles`, `ListsOfOneUser`,
  `PlainKept`);
* streams: whole, in order, at once (`Faithful`, `Prompt`).

## 2. The modules

    Redis <- NodeRegistry <- ChatService <- GroupChat          (EXTENDS, one state)
                                 ^-- MCChatService, MCGroupChat
                                 ^-- ChatServiceProofs <- RegistryProofs
                                                               ^-- GroupProofs (with GroupChat)
    OrderedDelivery  (abstract)  <= LocalDispatch <- MCLocalDispatch, LocalDispatchProofs
    ClusterRouter <- ClusterRouterProofs
    ConnectionPool, OfflineText <- Accounts <- ChatClient <- MCChatClient
                                                   ^-- ChatClientProofs
    NodeLease, RouterMap <- ServerProcess <- MCServerProcess
                                 ^-- ServerProcessProofs
    ByteStream  uses  ChatStream, ClientStream, ClusterStream, EnvStream
         ^-- ByteStreamProofs

### Redis, NodeRegistry, ChatService

One specification of the whole control path, in three modules.  `Redis` has the
data and one operator per command.  `NodeRegistry` has the caches (`routeCache`,
`metaCache`), the process of each node (`proc`: its instance, its phase, its
heartbeat thread) and the functions any thread calls, as sequences of steps:
`call[a]` is the program counter and the registers of the call that thread `a`
is in, and a function returns by going to a label where its caller's next step
begins.  `ChatService` has the connection table (`userConnMap`), the MySQL data
that matter (`userState`, `offline`), the messages under way between nodes
(`frames`) and one action per step of each handler.

| code | actions |
|---|---|
| `queryUserNode` | `QueryCache`, `GetSession`, `FillRoute`, `CheckNode`, `DropDel`, `DropSrem` |
| `resolveUserNode` | `ResolveFast`, then the above, then `ResolveNode` |
| `bindUser`, `unbindUser` | `BindSet`, `BindSadd`, `BindFill`; `UnbindErase`, `UnbindDel`, `UnbindSrem` |
| `init`, heartbeat | `Boot`, `BootWarm`; `HeartbeatWake`, `HeartbeatRenew` |
| TTLs | `ExpireRoute`, `ExpireMeta`, `ExpireDeadNode` |
| `login` | `Login`, `LoginReject`, `LoginReset`, `LoginAdd`, (bind), `LoginUndo` or `LoginOnline`, `LoginOfflineQuery`, `LoginOfflineRemove`, `LoginAck` |
| `logout`, `clientCloseException` | `Logout` or `Close`, (unbind), `LeaveState` |
| `oneChat` | `Chat`, (resolve), `ChatStale`, `ChatSend` or `ChatSendFail`, `OfflineStore` |
| `handleClusterOneChatFrame` | `Frame`, (query), `FrameStale`, `OfflineStore` |
| `reset`, `stop`, `cleanupSelf` | `ResetBegin` ... `ResetExit` |
| the end of a process | `Gone` (in `ResetExit` and `Crash`) |

Threads are called `Conn` where they serve a client's requests (muduo handles
one event of a connection at a time, so a connection is its own thread here) and
`Worker` where they send or take in messages.  `HomeOf` says on which node each is.

What is merged into one step, and why that hides nothing that is claimed:

* `registerNode`, `unregisterNode` and `listNodes` are one step each; the states
  between their commands concern only node metadata; NodeLease takes them apart.
* `SREM` and the erasing of the cache entry after it; `HGETALL` and `cacheNode`.
* The lookup in the connection table and queueing for the connection's loop.
  `LocalDispatch` takes this apart.
* A full queue (`QueueMayFill`) and a router that refuses are choices.
* Redis and MySQL answer; a command does not fail.  (NodeLease has a context
  that fails, OfflineText statements that do.)
* A client sends `login` only when it is not logged in and `logout` only for
  itself, as `client/main.cpp` does.
* The frames of a node that ends may be lost or still arrive.

### GroupChat

`groupChat` and `handleClusterGroupChat` beside all of ChatService.  `task[w]`
holds a handler's local variables: members not looked at (`scan`), connections
found (`local`), members to resolve (`ask`), buckets by node (`route`), offline
ones (`off`).  The registry's functions are those of NodeRegistry.  Lists are
sets, walked in any order, which covers the order of the code.

### LocalDispatch and OrderedDelivery

The queue of one I/O loop: critical sections of `pendingMutex` are steps, and
so is each message written.  The loop's own thread may be a producer and then
drains inside its handler.  `OrderedDelivery` is the promise: taken messages are
written in order, each once, or dropped because their connection is down.  The
refinement mapping takes `tasks \o pending` for the abstract queue.

### ClusterRouter

One `ShardChannel` with its `TcpClient`, its I/O loop and several sender
threads.  The loop is muduo's: it polls, then runs the batch of functors posted
up to then.  The library is modelled from how it is used (external in the map):
connector with retry, connection up and down, output buffer with high-water mark
and write-complete callbacks, `disconnect` that lets a connection linger.
Router threads are never sender threads (`clusterrouter.cpp` 61-80), so
`runInLoop` from a sender always posts.  The endpoint of a nodeId does not
change within a process's life, so `stopChannel` comes from `closeAll` only.
Messages are numbered in the order in which they are given to the channel.

### ConnectionPool, OfflineText, Accounts, ChatClient

The other view of the system: every request of `client/main.cpp` on its way
through the server to MySQL and back.

`ConnectionPool` is `getConnection` and the deleter with the semantics of
`std::condition_variable`: a thread that is woken competes for the mutex,
wake-ups may be spurious, `notify_one` wakes any one sleeper.  `made` says which
connections the constructor could open, possibly none.

`Accounts` is the pool's users: one handler per client at a time, `job[t].todo`
the functions of `server/model` it still has to call.  A function is `Borrow`
(or a wait in the pool), its statement, and the return; the two inserts that ask
for `mysql_insert_id` return in a step of their own (`InsertReturns`), so that
others insert in between.

| code | actions |
|---|---|
| `reg` | `Begin`, `UserInsert`, `InsertReturns` |
| `login` | `Begin`, `UserQuery`, `Check`, `UpdateState` (a stale "online"), `AddConn`, then `BindRefused` and `LoginUndo`, or `BindUser`, `UpdateState`, `OfflineQuery`, `OfflineRemove`, `FriendQuery`, `GroupQuery`; `Reply` |
| `logout`, `clientCloseException` | `BeginLeave`, `UnbindUser`, `UpdateState`; `BeginLeaveUnknown` where the table has no entry of the lost connection |
| `addFriend`, `createGroup`, `addGroup` | `Begin`, one insert each, and the founder's `addGroup` |
| `oneChat`, `groupChat` | `BeginChat` / `Begin` and `GroupUsersQuery`; `Resolve` and `UnbindUser` for each receiver the table does not know, `OfflineInsert` for each |

`OfflineText` says what becomes of a text on that way: `Dump` (nlohmann's
escapes), `Literal` (`snprintf` into `sql[1024]`, `Room` bytes of it), `RowOf`
(MySQL reads the literal: a backslash takes the next byte, an apostrophe ends it,
an invalid statement inserts nothing) and `Parse` (the client's `json::parse`).

`ChatClient` adds the client: `main` and `reader` are its two threads, `sem` is
`rwSem`, and every menu command is an action.  Connections deliver whole messages
in order here; `ByteStream` shows that they do.

Where this view is coarser than ChatService: there is one node, and each call of
the registry is one step.  The connection table (`userConnMap`), the session and
what the client was told (`loggedIn`) are three variables, and nothing keeps two
clients from logging in as one user at once: both can pass `Check`, the second
overwrites the first one's entry, is refused, and its `LoginUndo` erases whatever
entry is there.  MySQL connections do not break.

### NodeLease, RouterMap, ServerProcess

`NodeLease` is one node's entry in Redis: `registerNode` command by command
(`Hmset`, `Expire`, `AddNode`), `bindUserNode` (`Bind`, `BindSadd`), `init` and
the heartbeat, and a clock that counts `ttl` down.  `Command` lets each command
fail: the context is then broken for the rest of the process (`ctx`), and the
command may have been executed or not.

`RouterMap` is `prewarmNode`, `getOrCreateChannel` and `closeAll` on one remote
node's shards: looking a channel up and inserting one are two critical sections,
and the loser of the race uses the winner's.  The branch that replaces a channel
whose endpoint is stale is not taken: the key of a channel holds `interIp` and
`interPort`, of which the node id is made.

`ServerProcess` composes both with `main.cpp`: start-up, I/O threads that bind
users and send, `Interrupt` (SIGINT meets a thread; `sig.held` is what that
thread holds then: `command_mtx_`, a cache's lock, the allocator's) and the
handler's steps `Users`, `Stop`, `Join`, `Cleanup`, `Unregister`, `CloseAll`,
`Exit`.  A handler that needs the mutex its own thread holds waits for ever; one
that runs on the heartbeat thread joins itself, and the exception ends the
process (`Abort`).  `Crash` may happen at any time; the process starts again as a
new instance with a new context.

One SIGINT is modelled.  A second one during the first finds `running_` false,
so `stop` returns without waiting and `cleanupSelf` would unregister the node
beside a renewal that is under way.

### ByteStream, ChatStream, ClientStream, ClusterStream, EnvStream

`ByteStream` is a stream of bytes with its reader: messages are written whole and
arrive in pieces of any length; `link` says which of the four formats it
carries.  The other modules hold the formats, as pure operators: what the sender
writes, and `Extract`, one turn of the reader's loop (`ChatServer::onMessage`,
`readTaskHandler` with `findJsonEnd`, `ClusterServer::onMessage`, `loadEnvFile`).
Bytes are small numbers; a 32-bit number is one byte and the magic two, so that
sizes keep their proportion, and a receiver's number may look like a NUL or like
a magic.  A line of `.env` has several encodings of one setting (blanks,
`export`, quotes, a comment before it), and `Faithful` says that all read alike.

## 3. The runs

`CHECK_DEADLOCK FALSE` everywhere: messages, connections and process starts are
bounded, and a chat server with nothing to do stands still.

| run | shows | bounds, and why they are enough |
|---|---|---|
| `session_login` | `TableTruthful`, `SessionHeldWhileLoggedIn` under all orders of login, logout and loss | one user, three clients, two on one node: a double login on one node and across nodes, at once; one client mistypes its password |
| `chat` | one-to-one messages (`LiveCopyUnique`, `HotPathConserves`), group messages per member (`GroupCopyUnique`, `GroupConserves`), and the sessions under them (`NodeUsersCoverSessions`) | one message, to one user or to a group of two; a client of either user comes and goes on one node; on each node a thread with one-to-one and one with group handlers; local queues may be full, the router may refuse.  That a route moves from one node to another meanwhile is left to the theorems, which have any number of clients.  1.4 million states |
| `session_shutdown` | `GoneStaysGone`, `LateSessionsInvalid` | one node shuts down with its heartbeat running; a client on it, a handler thread on each node, one message.  791,000 states |
| `session_reclaim` | `StaleReclaimed` | a node that may crash and restart (two instances) and one that does not; a client on each |
| `local_dispatch` | the dispatcher, and that it implements OrderedDelivery | limit 2, five messages (one more than the backlog's bound), three threads: overflow, a drain that finds messages come late, the loop as producer |
| `router_channel` | the channel | limit 2, high-water mark 1, three messages, two senders, two connections: overflow, back-pressure, a lost connection, stop at any point |
| `client_accounts` | the pool, the handlers on it and the client's two threads | two clients on at most two MySQL connections, both of which may be missing; one client asks for two things beside logging out, the other for one; users 1 and 2, friends of each other, and a group exist; one message out of a plain text, one with an apostrophe, one with a quote; room for two more users and one more group.  Both may log in as user 1 at once.  228,000 states |
| `server_process` | the lease, the map of channels and the end of a process | two I/O threads, two shards, two instances of the process; two tasks for the first, one for the second; `Ttl` 2, `Gap` 1; SIGINT on the main, the heartbeat or an I/O thread; crashes and a failing context at any command.  326,000 states |
| `byte_stream` | the four formats | three messages of up to seven bytes, each cut anywhere |
| `one_node_per_user` | violation, see below | a client and a handler thread on one node, a client on the other, one message |
| `double_login` | violation, see below | two clients of one user on one node, no messages |
| `router_order` | violation, see below | |

`SYMMETRY` (`session_login` only) exchanges the two clients of one node.  `Earlier`
in `local_dispatch` does the like by hand, because the run checks liveness: messages
for one connection begin in the order of their numbers.

The caches' TTLs have no clock: an entry may lapse at any time while it exists.
`MaxEpoch` bounds process starts, `MaxConn` connections of a channel, `MaxSent`
messages of a stream, `MaxAsk` and `MaxChat` the commands of a client's user,
`MaxInst` the starts of `ServerProcess` and `MaxTask` its threads' tasks;
`BeatNodes`, `CrashNodes` and `ResetNodes` say which nodes' heartbeats, crashes
and shutdowns a run includes.  `Target` names one of the two I/O threads, which
do the same things: the signal meets one of them, and it is as good as the other.

Two bounds of `NodeLease` are assumptions about the deployment.  `Gap < Ttl`: a
healthy heartbeat thread renews before the entry lapses.  Nothing in the code
compares `CHAT_HEARTBEAT_INTERVAL_MS` with `CHAT_HEARTBEAT_TIMEOUT_MS`.
`LapseBetween = FALSE`: an old entry does not lapse between `HMSET` and `EXPIRE`
of one `registerNode`.  With `TRUE`, `LeaseKept` fails: after a restart `HMSET`
writes into the entry of the old instance, which keeps its time to live; if that
ends just then, `EXPIRE` finds no key, `registerNode` does not look at its answer, and
the node serves unregistered until the next heartbeat.  The safety properties of
`server_process` were also checked once with `Ttl` 3 and `Gap` 2 (1.8 million
states).

### Fairness

* `StaleReclaimed`: a thread inside a handler goes on; caches lapse; metadata of
  a dead node expires (all the code's or Redis's doing: `CodeFairness`).  That
  the other node runs and that clients keep trying to log in is an assumption
  about the environment (`ClientsRetry`): the code has no job that looks for
  stale sessions, it removes one only when somebody asks for the user.
* `local_dispatch`: the loop runs its functors, a thread inside
  `deliverToLocalUser` goes on.
* `router_channel`: the loop runs, senders inside a call go on, the peer listens
  again and reads (`enableRetry`); the last connection stays up.
* `LoginSettles`: the handler's thread and the client's two threads go on; users
  need not do anything.  It is stated for a server with at least one MySQL
  connection (without one `getConnection` waits for ever).
* `RegistrationEnds`: time passes and each thread that can run does.  The signal
  handler's steps up to `Unregister` have strong fairness, since they compete for
  `command_mtx_` with a heartbeat thread that gives it back and sleeps in
  between.  Nothing is assumed of the handler after that.

### What the code does and does not hold

* `one_node_per_user`: chatservice.cpp:158 wants one node per online user.  A
  thread that found no connection for a user unbinds the user's session
  (`oneChat` 369, `handleClusterOneChatFrame` 819) although a login on the same
  node has bound it in between; a second login elsewhere then succeeds.
  The same unbinding follows from a full local queue (731), which
  `deliverToLocalUser` reports like a missing connection: with `QueueMayFill = TRUE`
  TLC's shortest trace is that one, and the user is in the connection table all along.
* Without any message, but with a process that crashes and comes back (`Worker = {}`,
  `CrashNodes = {n1}`, `MaxEpoch = 2`, as in `session_reclaim`, which checks neither
  property below; the runs that do have no crashes), `queryUserNode`
  breaks the same promise in two ways, because it deletes a session (97, 113) without
  looking whether it is still the one it judged.  With a client on each node
  `OneNodePerUser` fails: the other node still has the metadata of the old instance in
  `metaCache`, judges the session that the new instance bound stale, deletes it and
  lets the user in too.  With two clients on `n1` `SessionHeldWhileLoggedIn` fails: two
  logins judge the session of the crashed instance stale; one deletes it and binds
  the user; then the other one's `DEL` deletes the new session.
* `double_login`: two logins of one user on one node.  The undo of the one that is
  refused (`chatservice.cpp` 187) erases the entry of the other, who is told errno
  0 and is in no connection table: `LoggedInIsFound` fails.  He gets no message,
  and the first one for him deletes his session.  When his connection is lost,
  `removeLocalConnectionByConn` gives -1 and `clientCloseException` does nothing:
  his row says "online" and his session stays until somebody writes to him or
  the process ends.
* `router_order`: a message given to the channel's loop as a functor can be
  overtaken by one of the same sender that went to `pending` and is written by
  the drain, on the loop's own thread, before that functor runs.  Between
  `groupChat`, which writes to a connection at once, and one-to-one messages in
  the loop's queue no order is promised at all.
* A message stored between login's query and its delete of offline messages is
  lost (`chatservice.cpp` 207-211).  `HotPathConserves` says that handlers lose
  no other; `PlainKept`, across MySQL, that a plain message vanishes only by that
  delete of its receiver's rows, or in a login's answer with a row at which the
  client's parser throws (next point).  An answer to a client that is gone counts
  as carried.
* A message with an apostrophe is lost when its user is offline: the statement is
  invalid, and nobody looks at the result.  One with a quote, or cut at 1024
  bytes, becomes a row that the client's parser throws at: the rows after it,
  already deleted, are lost, and the login hangs, because `doLoginResponse` does
  not reach `sem_post`.  `PlainKept` and `LoginSettles` are about `Plain` texts.
* A user without friends keeps the list of the user before him on this client,
  since the answer lacks the field; `ListsOfOneUser` says that lists are not mixed.
* A row can say "offline" of a user who is logged in, when a late `setOffline` of
  the last session comes after the next login's `setOnline`.  The other direction is
  `GhostsOfDoubleLogins`: a row that says "online" of a user whom the table does
  not know, with no handler about to correct it, comes from a refused login's undo,
  or from the `setOnline` of a login whose entry that undo has erased.  Every
  other step that takes a user from the table has a handler that sees to his row.
* The entry of a node that dies between its first `HMSET` and `EXPIRE` stays for
  ever.  `NoImmortalSession`: no session names its instance, so nobody is locked out.
* Where SIGINT meets a thread inside the allocator, the handler hangs at its first
  allocation while the heartbeat goes on: the node stays registered.
  `RegistrationEnds` leaves this case out and holds in all others, the
  self-deadlocks on `command_mtx_` and the cache locks included.
* A server whose registration failed goes on serving, unregistered.

Because of the first two of these, `SessionHeldWhileLoggedIn` holds only without
messages and without crashes (the run `session_login` has neither, and the theorem
`SessionsAreHeld` assumes so), and `NodeUsersCoverSessions` only while no node takes another one
for dead: between processes `command_mtx_` excludes nothing.

## 4. What is proved

| theorem | says, for all values of the constants |
|---|---|
| `ChatServiceProofs!TypeCorrect` | `Spec => []TypeOK` |
| `ChatServiceProofs!TableCorrect` | `Spec => []TableTruthful` |
| `RegistryProofs!GoneForGood` | `Spec => []GoneStaysGone` |
| `RegistryProofs!LateSessionsAreInvalid` | `Spec => []LateSessionsInvalid` |
| `RegistryProofs!SessionsAreHeld` | no process ends and there are no message handlers: `Spec => []SessionHeldWhileLoggedIn` |
| `RegistryProofs!OneNodeWithoutHandlers` | under the same hypotheses, `Spec => []OneNodePerUser`, which the run `one_node_per_user` refutes with handlers |
| `RegistryProofs!SessionsAreListed` | no process ends: `Spec => []NodeUsersCoverSessions` |
| `RegistryProofs!OneLiveCopy` | `Spec => []LiveCopyUnique` |
| `RegistryProofs!HotPathLosesNothing` | no process ends: `Spec => HotPathConserves` |
| `GroupProofs!GroupTypeCorrect` | `GroupSpec => []GroupTypeOK` |
| `GroupProofs!OneCopyPerMember` | `GroupSpec => []GroupCopyUnique` |
| `GroupProofs!GroupLosesNoCopy` | no process ends: `GroupSpec => GroupConserves` |
| `ClusterRouterProofs!ChannelTypeCorrect` | `Spec => []TypeOK`, the bound of the queue included |
| `ClusterRouterProofs!ClosedForGood` | `Spec => []StoppedStaysStopped` |
| `ClusterRouterProofs!NoDuplicate` | `Spec => []AtMostOnce` |
| `ClusterRouterProofs!NoMessageForgotten` | `Spec => []QueueNotForgotten`: what waits in a channel's queue has somebody on his way to it, the state half of `PendingServed` |
| `LocalDispatchProofs!DispatchTypeCorrect` | `Spec => []TypeOK` |
| `LocalDispatchProofs!DrainCorrect` | `Spec => []OneDrain` |
| `LocalDispatchProofs!BacklogCorrect` | `Spec => []BacklogBounded` |
| `LocalDispatchProofs!DispatchKeepsPromise` | `Spec => KeepsPromise` |
| `ChatClientProofs!PoolExclusive` | `Spec => []Exclusive`, for the pool under all of ChatClient |
| `ChatClientProofs!PoolWakesSleepers` | `Spec => []NoLostWakeup` |
| `ChatClientProofs!IdIsOwn` | `Spec => []AckedIdIsOwn` |
| `ChatClientProofs!ListsUnmixed` | `Spec => []ListsOfOneUser` |
| `ChatClientProofs!EveryGroupFounded` | `Spec => []GroupFounded` |
| `ChatClientProofs!MenusAgree` | `Spec => []ClientAgrees` |
| `ChatClientProofs!GhostsAreDoubleLogins` | `Spec => GhostsOfDoubleLogins` |
| `ChatClientProofs!ClientTypeCorrect` | `Spec => []TypeOK` of ChatClient |
| `ChatClientProofs!PlainRoundTrip` | a plain text comes back from `Dump`, the `INSERT`, MySQL's literal and `Parse` as it was, whatever its length and `Room` |
| `ChatClientProofs!PlainMessagesKept` | `Spec => PlainKept` |
| `ServerProcessProofs!ChannelsKnown` | `Spec => []ChannelKnown` |
| `ServerProcessProofs!WarmedIsCovered` | `Spec => []PrewarmCovers` |
| `ServerProcessProofs!ProcessTypeCorrect` | `Spec => []TypeOK` of ServerProcess |
| `ServerProcessProofs!LeaseIsKept` | `LapseBetween = FALSE` implies `Spec => []LeaseKept` |
| `ServerProcessProofs!NoSessionForEver` | `LapseBetween = FALSE` implies `Spec => []NoImmortalSession` |
| `ByteStreamProofs!StreamsFaithful` | `Spec => []Faithful`, for any number of messages on each of the four streams |
| `ByteStreamProofs!StreamsPrompt` | `Spec => []Prompt` |

Assumptions: those named in the modules (`ActorAssumption`, `ServiceAssumption`,
`DispatchAssumption` and so on), which TLC evaluates in every run.  Constants
are otherwise arbitrary sets; only the pool's threads are assumed finite, since
its invariant counts them.  `StoredAssumption` says what an earlier run can have
left in MySQL: rows that name only users and groups that exist, as the keys of
the schema have it.  It does not say that such a group has a founder, because a
server that ended between the two inserts of `createGroup` leaves one without;
`GroupFounded` is about the groups of this run.  `TextAssumption` says that a text is
a sequence over the classes of bytes that the two readers tell apart, without a line
break (`cin.getline`, client/main.cpp 454, takes one line), and that `Room` is a
natural number; `Text` may hold texts of any length, and all of them.

Three hypotheses on constants appear in theorems, and each is needed.

* *No process ends* is `CrashNodes = {}` and `ResetNodes = {}`.  A process that
  ends takes the messages in its handlers and on the way to it along, and takes
  its sessions out of Redis from another thread than the one that holds
  `command_mtx_`, so neither the conservation of messages nor the list of a
  node's users can hold through it.  The other theorems about ChatService and
  GroupChat need no such hypothesis: crashes, restarts and shutdowns are in them.
* *No message handlers* is `Worker = {}`: a handler that finds no connection
  unbinds the session of a user who is logging in (section 3).
  `OneNodeWithoutHandlers` says that, while no process ends, nothing else in the
  code does: log in, out and break off in any order on any number of nodes, and the
  check and `SET NX` keep a user on one node.  A restart can (section 3).
* `LapseBetween = FALSE` is the deployment bound of section 3.

### Sessions and messages

* **TypeOK is not inductive alone**: a thread in the middle of a call uses the
  user and the route in its registers, and the phase of its process.  The proof
  carries `CallOK` (which labels imply which registers) and `ProcOK` (a process
  that is not down has an instance).
* **TableTruthful** is not inductive alone either: that a connection cannot be
  lost, nor log in as somebody else, between the steps of its own login follows
  from handlers of one connection running one at a time (`HandlerInv`: a thread
  that is idle has no handler, and a login's connection is open and not logged in).
* **GoneStaysGone** rests on the join in `NodeRegistry::stop`: from the phase
  `unbind` on, the heartbeat thread is off, and nothing but it and `Boot`
  registers a node.  **LateSessionsInvalid** follows from the same invariant: a
  session that names an instance that is being shut down, or is gone, does not
  match what is registered of its node.
* **SessionHeldWhileLoggedIn**: `Steady` says that, while no process ends, what
  any thread or cache believes of a node is true, so nobody judges a session
  stale (`CallsLive`: no call is at the steps that delete one).  On it rests
  `HeldInv`: from the end of `bindUser` to the `DEL` of its own `unbindUser` a
  thread owns its user's session, which has no other owner.
* **NodeUsersCoverSessions**: `CoverInv` adds that of the functions with two
  commands one at a time runs per node (`command_mtx_`), and that while a thread
  is between the `DEL` and the `SREM` of `unbindUser` its user has no session on
  that node, so the entry it removes covers nothing.
* **LiveCopyUnique, HotPathConserves**: `HandInv` says which handler has a
  message at which label, `CopyOK` that a live message is in one place, one not
  sent yet is nowhere, and a settled one (stored or handed to a connection) not
  live.  Every handler's step then moves its copy; only a login's delete of
  offline rows that it has not read removes one.
* **Group messages**: `TaskOK` types the handler's walks.  For `GroupCopyUnique`,
  `Spot` names every place a member's copy can be in (a handler's `scan`, `local`,
  `ask`, `route` or `off`, a frame, a connection's queue, the offline table), and
  `Apart` says that it is in one at most, in none before the message is sent, and
  that a message in a one-to-one handler's hand is in no group handler's, since
  both use the same offline table.  Each step moves at most one copy of a member.
  `Undying` (no shutdown begins, and a handler that returned left nothing in its
  lists) is what conservation needs.

### Queues

* **OneDrain** carries which threads hold a message (`HandInv`).
  **BacklogBounded** is strengthened by bounding queue and batch apart.
* **KeepsPromise** is the step simulation: `Enqueue` is `Take`, a `DrainSend` is
  `Write` or `Drop`, everything else stutters; two lemmas about sequences say
  that appending to `pending` appends to `tasks \o pending`, and that taking
  from `tasks` takes from its front.
* **The router channel**: `CarryInv` says what a sender and the loop carry
  between two critical sections.  `ClosedInv` makes `StoppedStaysStopped`
  inductive: from the moment `closing` is set until its functor has run, that
  functor is posted or about to be, and afterwards a connect functor that comes
  late finds `closing`.  For `AtMostOnce`, `OnceEach` (no place holds a message
  twice) and `OneKind` (no two places hold the same) are carried over all places
  a message can be: a sender's hand, `pending`, the functors queued and in the
  batch, the drain's message, the bytes written.
* **QueueNotForgotten** (defined beside its proof) is the safety part of
  `PendingServed`.  `SocketInv` says what each label of the loop implies about
  the connection.  `FlagInv` says what the flags promise: without a connection,
  messages in the queue imply `connecting`, and `connecting` that a connect is
  posted, asked for or at work; with one and below the mark, that a drain is.
  `WaterInv` is the part that is easy to get wrong: a high-water callback never
  runs after the write-complete callback that ends what it tells of, and none is
  left in the queue when the next connection comes up, so `overloaded` is never
  set late and for good.

### MySQL, the handlers on it, the client

* **Exclusive**: `PoolInv` says where each connection is (once in the queue, or
  with the one thread that borrowed it); every step of Accounts is shown to be a
  step of the pool or to leave it alone.  **NoLostWakeup** counts: `Notify` wakes
  one of finitely many sleepers for each connection that comes back, and a
  thread leaves the set of those awake only with a connection out of the queue.
* **AckedIdIsOwn, ListsOfOneUser**: `DataInv` says of every request, handler,
  answer and list what it can be: which functions a handler of which request can
  still have to call (`PlanFits`), and, between an insert and the question for
  its id, that the connection is borrowed and its `insertId` is a row this thread
  inserted (`JobFits`).  That another thread's insert does not overwrite it is
  `PoolInv`: nobody else holds the connection.  **GroupFounded** is inductive on
  top of `DataInv`: each step either leaves a founding handler alone, or is its
  own and brings it one function further.
* **ClientAgrees**: `ClientInv` follows one exchange between a client and the
  server.  `TurnInv`: of the request, the handler, the answer and the post of a
  login or a registration there is one, and while there is, the main thread waits
  for it; hence `sem` is never above 1, and a `sem_wait` never takes the post of
  an earlier answer.  `OrderInv`: a login, a registration or a close is the last
  thing sent, and no command follows a logout.  `HereInv`: whom a connection has
  let in is whose login it answered, and who is let in is in the menu, on the way
  into it or out of it, or stuck in a login that `doLoginResponse` left by an
  exception.  `TableInv`: an entry of the connection table names a connection that
  has let that user in or is logging him in; entries may be missing, none is wrong.
  Nothing is assumed about who logs in as whom when.
* **GhostsOfDoubleLogins** is an action property on top of these.  `CorrectorIs` and
  `CorrectsWhen` say which handlers have a `setOffline` to do and for whom.  Then the
  steps that can make a ghost are looked at one by one: a removal from the table
  leaves such a handler behind unless it is a login's undo, a `setOffline` that was
  to correct has corrected, and a row is set "online" by its login only.
* **PlainKept** needs the text first.  `PlainRoundTrip`: the folds of OfflineText
  (`FoldLeft`, `FlattenSeq`) are expanded to the recursion they stand for, over the
  bytes read so far, and its values fixed by `Least` (see *The streams*):
  `FoldExists` and `FoldIs` say that there is one such run of a reader, `ReadsOn`
  that it goes as foretold when its start does and each byte keeps to it; a plain
  text never leaves either reader's state `in` before the closing sign.  Then
  `KeepInv`, which `DataInv` does not give: a handler of `oneChat` ends only when
  nobody is left to be told (`ToInv`), and a login's answer has rows only once
  `OfflineMsgModel::query` has run, and never when it is a refusal (`RowsInv`,
  `RefusedInv`).  Without the first a message could vanish with its handler,
  without the others with an answer that is replaced or that the client does not
  show.  `KeepStep` takes the actions one by one and, for each place a message can
  be in, says where it is afterwards (`Staying`, `CarriedOn`).
* **TypeOK** of ChatClient is a corollary, with one more argument: no connection
  is in the pool's queue twice, so the queue is not longer than there are
  connections (the pigeonhole principle).

### The process

* **ChannelKnown, PrewarmCovers**: `MapInv` is what makes them inductive.  Until
  `closeAll`, the channel a thread is about to touch is the map's, no channel in
  the map is closing, and a shard without a connecting channel has a thread in
  `prewarmNode` that has not passed it yet.  `CloseInv` ties `closeAll` to the
  handler's last steps.
* **LeaseKept**: `LeaseInv` carries, for a healthy process, which entry each label
  of start-up implies, and the sum that makes the clock work:
  `Ttl <= db.ttl + since` from `EXPIRE` on.  With `since <= Gap < Ttl` the entry
  never reaches zero.
* **NoImmortalSession**: `ControlInv` says which threads can run when: until
  `init` is through the main thread is alone, and from `cleanupSelf` on the
  heartbeat is joined.  `EntryInv` says that who can renew keeps an entry with a
  time to live, that in a live process only a main thread on its way to `EXPIRE`
  has one without, and that until `init` is through no session names the instance.

### The streams

What a reader's loop does to a buffer of any length is a statement about data, and
the library's induction theorems cannot be used (they take an operator as a
parameter).  `Least` takes their place: every non-empty set of naturals has a least
element, from the library's theorem on well-founded relations.  An induction over
`1..n`, here and in `ChatClientProofs`, is then an argument about the least counterexample, and a recursive function
has the values its equation gives (`ScanExists`, for `findJsonEnd`'s scan).

* **One format at a time.**  `ChatReads`, `ClusterReads`, `EnvReads`,
  `ClientReads`: a buffer that begins with a message gives that message and leaves the rest,
  whatever the rest is.  `..Waits`: a buffer that holds only a part of a message
  gives nothing and is kept.  `..Empty`: an empty one too.  For the client,
  `StParts` follows depth, string and escape flags byte by byte through each
  message, `FoundStays` says that the scan does not look past the end it has found,
  and `ScanMessage` puts them together.
* **All four at once.**  A *piece* of an encoding is what one turn of the loop takes
  in (a line of `.env` is several: a comment, then the setting).  `Piece(link, m, u, v)` says
  that `u` is the piece that comes next, `v` the pieces after it, and `m` what they
  amount to; `PieceReads` and `PieceWaits` are all the argument needs of a format.
* **StreamInv** is what makes `Faithful` and `Prompt` inductive, neither of which is
  alone: neither says what the bytes in the buffer and on the wire are.  `Rest(T)`
  names the bytes from each message on; `Unread(T)` says that `pending \o wire` is
  what is left of the next message, from a piece's beginning, and then all after it; and that
  between callbacks the buffer is shorter than that piece.
* The messages are those of the format modules: small sets that have in them what
  could mislead a reader (a brace or an escaped quote in a string, a number that
  looks like a NUL or like the magic).  Number, order and cutting are arbitrary.

### Only model-checked

* All liveness (`StaleReclaimed`, `TakenSettles`, `PendingServed`,
  `LoginSettles`, `RegistrationEnds`): fairness and ENABLED are out of the
  prover's reach.
  Of `PendingServed` the state half is proved (`NoMessageForgotten`): somebody is
  on his way; that he arrives is left to TLC.

## 5. Not modelled

* The publish/subscribe half of `redis.cpp`: nothing calls it.
* MySQL connections that break.
* Exceptions in the server's handlers (`dump` on invalid UTF-8).
* A second SIGINT, and signals other than it.
* An endless supply of messages (a drain that never ends needs one).
* The display of the client, the SQL schema, the benchmark and scripts.
* `thirdparty/json.hpp` is a library; what the program needs of `dump` and `parse`
  is in OfflineText and ClientStream.

`PROJECT.json` has a reason for each component and for each hazard without a
property.

## 6. Plan

What is left to model: the second SIGINT, crashes in `GroupChat`, MySQL
connections that break (with `mysql_ping` absent, the pool hands them out again),
a bounded drain under an endless supply.

What is left to prove: conservation of messages with processes that end (the
statement has to name what a process takes along).
