------------------------------- MODULE Accounts -------------------------------
(***************************************************************************)
(* The handlers that work on MySQL: reg, login, logout, addFriend, createGroup, *)
(* addGroup, and the offline half of oneChat and groupChat (chatservice.cpp),   *)
(* with the functions of server/model/*.cpp they call.  A handler is the        *)
(* sequence of the functions it calls, todo.  A function borrows a connection   *)
(* of the pool, runs a statement on it and gives it back, the last two in one   *)
(* step; the two inserts that ask for the new row's id give it back later.      *)
(*                                                                          *)
(* One node, with its connection table (userConnMap) and the sessions in Redis,   *)
(* each call of NodeRegistry one step; several nodes, the caches and the commands   *)
(* of a call are ChatService's subject.                                         *)
(***************************************************************************)
EXTENDS ConnectionPool, OfflineText

CONSTANTS
    Client,     \* the thread that serves a client's connection bears its name
    Text,       \* the texts that are written
    Stored,     \* the users registered and the groups founded in earlier runs
    MaxUser,    \* bound: ids of table user
    MaxGroup    \* bound: ids of table allgroup

ASSUME AccountsAssumption ==
    /\ Client \subseteq Thread /\ None \notin Client
    /\ {MaxUser, MaxGroup} \subseteq Nat

(* What an earlier run can have left: the keys of the schema let rows name only users *)
(* and groups that there are                                                      *)
ASSUME StoredAssumption ==
    /\ Stored.users \in 0..MaxUser
    /\ Stored.friend \subseteq (1..Stored.users) \X (1..Stored.users)
    /\ Stored.group \in Seq(1..Stored.users) /\ Len(Stored.group) <= MaxGroup
    /\ Stored.member \subseteq (DOMAIN Stored.group) \X (1..Stored.users)

(* A message is what cin.getline took (client/main.cpp 454): it has no line break in it *)
ASSUME TextAssumption ==
    /\ Text \subseteq Seq({Letter, EnN, Quote, Apos, Esc})
    /\ Room \in Nat

VARIABLES
    user,      \* table user: the client that registered the id, and the state
    friend,    \* table friend: userid, friendid
    group,     \* table allgroup: the user who founded it
    member,    \* table groupuser: groupid, userid
    offline,   \* table offlinemessage: the rows of each user
    insertId,  \* mysql_insert_id of each connection
    userConnMap, \* the connection table: the connection of a user
    session,   \* the users whose session in Redis names this node
    loggedIn,  \* whom a connection's login has let in; 0: nobody, or he has left again
    requests,  \* what a client has sent and its thread has not begun
    answers,   \* what a client has been sent and has not read
    job        \* the handler each thread is in

tables  == <<user, friend, group, member, offline, insertId>>
wire    == <<requests, answers>>
accVars == <<poolVars, tables, userConnMap, session, loggedIn, wire, job>>

UserId  == 1..MaxUser
GroupId == 1..MaxGroup

(* id 0 is a login with an id nobody has, or with the wrong password *)
Request == [op: {"reg", "login", "logout", "close", "chat", "groupChat", "addFriend",
                 "createGroup", "addGroup"},
            id: 0..MaxUser, arg: 0..MaxUser \union GroupId, text: Text \union {<<>>}]
NoRequest == [op |-> "none", id |-> 0, arg |-> 0, text |-> <<>>]

(* An answer to a login or a registration, or a message of another user's; what  *)
(* a friend's or a group's entry says beside its id is left out                  *)
NoAnswer == [kind |-> "none", errno |-> 0, id |-> 0, rows |-> <<>>, friends |-> {}, groups |-> {}]

(* got: whether the statement of the function that is running went through; to: whose  *)
(* rows are left to write; ask: whose sessions are left to resolve or to unbind        *)
NoJob == [req |-> NoRequest, todo |-> <<>>, got |-> "no", to |-> {}, ask |-> {},
          state |-> "offline", ans |-> NoAnswer]

AccountsInit ==
    /\ PoolInit
    /\ user = [u \in 1..Stored.users |-> [by |-> None, state |-> "offline"]]
    /\ friend = Stored.friend /\ group = Stored.group /\ member = Stored.member
    /\ offline  = [u \in UserId |-> <<>>]
    /\ insertId = [h \in Handle |-> 0]
    /\ userConnMap = [u \in UserId |-> None] /\ session = {}
    /\ loggedIn = [c \in Client |-> 0]
    /\ requests = [c \in Client |-> <<>>] /\ answers = [c \in Client |-> <<>>]
    /\ job = [t \in Thread |-> NoJob]

AccountsTypeOK ==
    /\ PoolTypeOK
    /\ Len(user) <= MaxUser /\ Len(group) <= MaxGroup
    /\ user \in Seq([by: Client \union {None}, state: {"online", "offline"}])
    /\ group \in Seq(UserId)
    /\ friend \subseteq UserId \X UserId /\ member \subseteq GroupId \X UserId
    /\ userConnMap \in [UserId -> Client \union {None}] /\ session \subseteq UserId
    /\ loggedIn \in [Client -> 0..MaxUser]
    /\ \A c \in Client : requests[c] \in Seq(Request)

-----------------------------------------------------------------------------
(* A handler begins, and does what it does before its first statement *)

Todo(t)     == job[t].todo
Next1(t, s) == Todo(t) # <<>> /\ Head(Todo(t)) = s
Asker(t)    == job[t].req.id
Busy(c)     == job[c].req # NoRequest

Serve(c, todo, to) ==
    job' = [job EXCEPT ![c] = [NoJob EXCEPT !.req = Head(requests[c]), !.todo = todo,
                                            !.to = to, !.ask = to]]

Plan(r) ==
    CASE r.op = "reg"         -> <<"insertUser">>
      [] r.op = "login"       -> <<"queryUser", "check">>
      [] r.op = "addFriend"   -> <<"insertFriend">>
      [] r.op = "createGroup" -> <<"createGroup">>
      [] r.op = "addGroup"    -> <<"addGroup">>
      [] r.op = "groupChat"   -> <<"queryGroupUsers">>

Receive(c, ops) ==
    /\ requests[c] # <<>> /\ ~Busy(c) /\ Head(requests[c]).op \in ops
    /\ requests' = [requests EXCEPT ![c] = Tail(@)]
    /\ UNCHANGED <<poolVars, tables>>

Begin(c) ==
    /\ Receive(c, {"reg", "login", "addFriend", "createGroup", "addGroup", "groupChat"})
    /\ Serve(c, Plan(Head(requests[c])), {})
    /\ UNCHANGED <<userConnMap, session, loggedIn, answers>>

(* Whom a logout or a lost connection takes from the connection table: the user of  *)
(* the request, whosever his entry; the one whose entry is this connection, if any    *)
Leaving(c) ==
    IF Head(requests[c]).op = "logout" THEN {Head(requests[c]).id}
    ELSE {u \in UserId : userConnMap[u] = c}

Leave(c, u, todo) ==
    /\ userConnMap' = [userConnMap EXCEPT ![u] = None]
    /\ loggedIn' = [loggedIn EXCEPT ![c] = 0]
    /\ Serve(c, todo, {u})
    /\ UNCHANGED <<session, answers>>

(* Slip: clientCloseException leaves the user's row alone *)
BeginLeaveRow(c) ==
    /\ Receive(c, {"logout", "close"})
    /\ \E u \in Leaving(c) :
          Leave(c, u, IF Head(requests[c]).op = "close" THEN <<"unbindUser">>
                      ELSE <<"unbindUser", "setOffline">>)

(* logout, clientCloseException *)
BeginLeave(c) ==
    /\ Receive(c, {"logout", "close"})
    /\ \E u \in Leaving(c) : Leave(c, u, <<"unbindUser", "setOffline">>)

(* removeLocalConnectionByConn returns -1 *)
BeginLeaveUnknown(c) ==
    /\ Receive(c, {"close"}) /\ Leaving(c) = {}
    /\ loggedIn' = [loggedIn EXCEPT ![c] = 0]
    /\ Serve(c, <<>>, {})
    /\ UNCHANGED <<userConnMap, session, answers>>

Live(text) == [NoAnswer EXCEPT !.kind = "live", !.rows = <<text>>]

(* oneChat: to the connection that the table has, else his session is looked for *)
BeginChat(c) ==
    /\ Receive(c, {"chat"})
    /\ LET r == Head(requests[c])
       IN  \/ /\ userConnMap[r.arg] # None
              /\ answers' = [answers EXCEPT ![userConnMap[r.arg]] = Append(@, Live(r.text))]
              /\ UNCHANGED job
           \/ /\ userConnMap[r.arg] = None
              /\ Serve(c, <<"resolve", "insertOffline">>, {r.arg})
              /\ UNCHANGED answers
    /\ UNCHANGED <<userConnMap, session, loggedIn>>

-----------------------------------------------------------------------------
(* The functions of the model classes *)

(* What a handler does without MySQL *)
Unpooled == {"check", "addConn", "bindUser", "removeConn", "resolve", "unbindUser"}

Borrow(t) ==
    /\ Todo(t) # <<>> /\ Head(Todo(t)) \notin Unpooled
    /\ GetConnection(t)
    /\ UNCHANGED <<tables, userConnMap, session, loggedIn, wire, job>>

Rewoken(t) ==
    /\ Recheck(t) \/ Spurious(t)
    /\ UNCHANGED <<tables, userConnMap, session, loggedIn, wire, job>>

Running(t, f) == pc[t] = "borrowed" /\ job[t].got = "no" /\ Next1(t, f)

(* The function returns, and its connection goes back to the pool *)
Done(t) == [job[t] EXCEPT !.todo = Tail(@), !.got = "no"]
Returns(t, j) ==
    /\ job' = [job EXCEPT ![t] = j]
    /\ PutBack(t)
    /\ UNCHANGED <<userConnMap, session, loggedIn, wire>>

(* UserModel::insert; Then below has the rest *)
UserInsert(t) ==
    /\ Running(t, "insertUser") /\ Len(user) < MaxUser
    /\ user' = Append(user, [by |-> t, state |-> "offline"])
    /\ insertId' = [insertId EXCEPT ![held[t]] = Len(user) + 1]
    /\ job' = [job EXCEPT ![t].got = "yes"]
    /\ UNCHANGED <<poolVars, friend, group, member, offline, userConnMap, session, loggedIn, wire>>

(* GroupModel::createGroup *)
GroupInsert(t) ==
    /\ Running(t, "createGroup") /\ Len(group) < MaxGroup
    /\ group' = Append(group, Asker(t))
    /\ insertId' = [insertId EXCEPT ![held[t]] = Len(group) + 1]
    /\ job' = [job EXCEPT ![t].got = "yes"]
    /\ UNCHANGED <<poolVars, user, friend, member, offline, userConnMap, session, loggedIn, wire>>

(* Slip: the id is asked for when others may have used the table *)
ThenMaxId(t) ==
    IF Next1(t, "insertUser")
    THEN [Done(t) EXCEPT !.ans = [NoAnswer EXCEPT !.kind = "reg", !.id = Len(user)]]
    ELSE [Done(t) EXCEPT !.req.arg = insertId[held[t]], !.todo = <<"addCreator">>]

(* Slip: the creator does not become a member *)
ThenNoCreator(t) ==
    IF Next1(t, "insertUser")
    THEN [Done(t) EXCEPT !.ans = [NoAnswer EXCEPT !.kind = "reg", !.id = insertId[held[t]]]]
    ELSE Done(t)

(* mysql_insert_id, and what reg and createGroup make of it *)
Then(t) ==
    IF Next1(t, "insertUser")
    THEN [Done(t) EXCEPT !.ans = [NoAnswer EXCEPT !.kind = "reg", !.id = insertId[held[t]]]]
    ELSE [Done(t) EXCEPT !.req.arg = insertId[held[t]], !.todo = <<"addCreator">>]

InsertReturns(t) ==
    /\ pc[t] = "borrowed" /\ job[t].got = "yes"
    /\ Returns(t, Then(t))
    /\ UNCHANGED tables

(* UserModel::query *)
UserQuery(t) ==
    /\ Running(t, "queryUser")
    /\ Returns(t, [Done(t) EXCEPT !.state = IF Asker(t) = 0 THEN @ ELSE user[Asker(t)].state])
    /\ UNCHANGED tables

(* UserModel::updateState *)
UpdateState(t) ==
    /\ \E s \in {"online", "offline"} :
          /\ Running(t, IF s = "online" THEN "setOnline" ELSE "setOffline")
          /\ LET whom == IF job[t].to = {} THEN {Asker(t)} ELSE job[t].to
             IN  user' = [u \in DOMAIN user |-> IF u \in whom THEN [user[u] EXCEPT !.state = s]
                                                ELSE user[u]]
    /\ Returns(t, [Done(t) EXCEPT !.to = {}])
    /\ UNCHANGED <<friend, group, member, offline, insertId>>

(* OfflineMsgModel::query *)
OfflineQuery(t) ==
    /\ Running(t, "queryOffline")
    /\ LET rows == offline[Asker(t)]
       IN  Returns(t, [Done(t) EXCEPT !.ans.rows = rows,
                                      !.todo = IF rows = <<>> THEN @ ELSE <<"removeOffline">> \o @])
    /\ UNCHANGED tables

(* OfflineMsgModel::remove *)
OfflineRemove(t) ==
    /\ Running(t, "removeOffline")
    /\ offline' = [offline EXCEPT ![Asker(t)] = <<>>]
    /\ Returns(t, Done(t))
    /\ UNCHANGED <<user, friend, group, member, insertId>>

(* OfflineMsgModel::insert, once for each of the users in to; a row that breaks    *)
(* the statement or names nobody is not stored, and nobody looks                  *)
Stored1(u, row) ==
    IF u \in DOMAIN user /\ row # NoRow THEN [offline EXCEPT ![u] = Append(@, row)] ELSE offline

NextInsert(t, u) == IF job[t].to = {u} THEN [Done(t) EXCEPT !.to = {}] ELSE [job[t] EXCEPT !.to = @ \ {u}]

OfflineInsert(t) ==
    /\ Running(t, "insertOffline")
    /\ \E u \in job[t].to :
          /\ offline' = Stored1(u, RowOf(job[t].req.text))
          /\ Returns(t, NextInsert(t, u))
    /\ UNCHANGED <<user, friend, group, member, insertId>>

(* FriendModel::query *)
FriendQuery(t) ==
    /\ Running(t, "queryFriends")
    /\ Returns(t, [Done(t) EXCEPT !.ans.friends = {f \in friend : f[1] = Asker(t)}])
    /\ UNCHANGED tables

(* FriendModel::insert; the keys of the schema keep out what is there or names nobody *)
FriendInsert(t) ==
    /\ Running(t, "insertFriend")
    /\ friend' = friend \union {f \in {<<Asker(t), job[t].req.arg>>} : f[2] \in DOMAIN user}
    /\ Returns(t, Done(t))
    /\ UNCHANGED <<user, group, member, offline, insertId>>

(* GroupModel::addGroup, as "normal" or as "creator" *)
MemberInsert(t) ==
    /\ \/ Running(t, "addGroup") \/ Running(t, "addCreator")
    /\ member' = member \union {m \in {<<job[t].req.arg, Asker(t)>>} : m[1] \in DOMAIN group}
    /\ Returns(t, Done(t))
    /\ UNCHANGED <<user, friend, group, offline, insertId>>

(* GroupModel::queryGroups; its second statement, of the members, is left out *)
GroupQuery(t) ==
    /\ Running(t, "queryGroups")
    /\ Returns(t, [Done(t) EXCEPT !.ans.groups = {g \in DOMAIN group : <<g, Asker(t)>> \in member}])
    /\ UNCHANGED tables

(* GroupModel::queryGroupUsers, and the look at the connection table in groupChat:  *)
(* whom it has gets the message (at once: GroupChat has the order), the sessions of   *)
(* the others are looked for                                                     *)
GroupUsersQuery(t) ==
    /\ Running(t, "queryGroupUsers")
    /\ LET to   == {u \in UserId \ {Asker(t)} : <<job[t].req.arg, u>> \in member}
           here == {userConnMap[u] : u \in to} \ {None}
           away == {u \in to : userConnMap[u] = None}
       IN  /\ job' = [job EXCEPT ![t] = [Done(t) EXCEPT
                         !.to = away, !.ask = away,
                         !.todo = IF away = {} THEN <<>> ELSE <<"resolve", "insertOffline">>]]
           /\ answers' = [d \in Client |-> IF d \in here THEN Append(answers[d], Live(job[t].req.text))
                                           ELSE answers[d]]
    /\ PutBack(t)
    /\ UNCHANGED <<tables, userConnMap, session, loggedIn, requests>>

(* MySQL::update returns false: the name is taken, or spoils the statement         *)
InsertFails(t) ==
    /\ \/ /\ Running(t, "insertUser")
          /\ Returns(t, [Done(t) EXCEPT !.ans = [NoAnswer EXCEPT !.kind = "reg", !.errno = 1]])
       \/ /\ Running(t, "createGroup")
          /\ Returns(t, Done(t))
    /\ UNCHANGED tables

-----------------------------------------------------------------------------
(* Between the functions *)

Login(t, e) == [NoAnswer EXCEPT !.kind = "login", !.errno = e, !.id = Asker(t)]

(* login: id and password, then queryUserNode, then the state MySQL still has *)
Check(c) ==
    /\ Next1(c, "check")
    /\ LET errno == IF Asker(c) = 0 THEN 1 ELSE IF Asker(c) \in session THEN 2 ELSE 0
       IN  job' = [job EXCEPT ![c].ans = Login(c, errno),
                              ![c].todo = IF errno # 0 THEN <<>>
                                          ELSE IF job[c].state = "online"
                                               THEN <<"setOffline", "addConn", "bindUser">>
                                               ELSE <<"addConn", "bindUser">>]
    /\ UNCHANGED <<poolVars, tables, userConnMap, session, loggedIn, wire>>

(* addLocalConnection, over whatever connection the table had *)
AddConn(c) ==
    /\ Next1(c, "addConn")
    /\ userConnMap' = [userConnMap EXCEPT ![Asker(c)] = c]
    /\ job' = [job EXCEPT ![c].todo = Tail(@)]
    /\ UNCHANGED <<poolVars, tables, session, loggedIn, wire>>

(* bindUser: SET NX *)
BindUser(c) ==
    /\ Next1(c, "bindUser") /\ Asker(c) \notin session
    /\ session' = session \union {Asker(c)}
    /\ loggedIn' = [loggedIn EXCEPT ![c] = Asker(c)]
    /\ job' = [job EXCEPT ![c].todo = <<"setOnline", "queryOffline", "queryFriends", "queryGroups">>]
    /\ UNCHANGED <<poolVars, tables, userConnMap, wire>>

BindRefused(c) ==
    /\ Next1(c, "bindUser") /\ Asker(c) \in session
    /\ job' = [job EXCEPT ![c].todo = <<"removeConn">>]
    /\ UNCHANGED <<poolVars, tables, userConnMap, session, loggedIn, wire>>

(* removeLocalConnection(id), whosever the entry is by now, and errno 3 *)
LoginUndo(c) ==
    /\ Next1(c, "removeConn")
    /\ userConnMap' = [userConnMap EXCEPT ![Asker(c)] = None]
    /\ job' = [job EXCEPT ![c].ans = Login(c, 3), ![c].todo = <<>>]
    /\ UNCHANGED <<poolVars, tables, session, loggedIn, wire>>

(* resolveUserNode for one user after the other, in the order of their ids (of the    *)
(* key of groupuser): a session here, where the table has no connection, is stale      *)
First(S) == {u \in S : \A v \in S : u <= v}

Resolve(t) ==
    /\ Next1(t, "resolve")
    /\ \/ /\ job[t].ask = {}
          /\ job' = [job EXCEPT ![t].todo = Tail(@)]
       \/ \E u \in First(job[t].ask) :
             \/ u \in session    /\ job' = [job EXCEPT ![t].todo = <<"unbindUser">> \o @]
             \/ u \notin session /\ job' = [job EXCEPT ![t].ask = @ \ {u}]
    /\ UNCHANGED <<poolVars, tables, userConnMap, session, loggedIn, wire>>

(* unbindUser: DEL, whosever the session is by now *)
UnbindUser(t) ==
    /\ Next1(t, "unbindUser")
    /\ \E u \in First(job[t].ask) :
          /\ session' = session \ {u}
          /\ job' = [job EXCEPT ![t].ask = @ \ {u}, ![t].todo = Tail(@)]
    /\ UNCHANGED <<poolVars, tables, userConnMap, loggedIn, wire>>

(* The handler ends; conn->send of its answer, if it has one *)
Reply(c) ==
    /\ Busy(c) /\ Todo(c) = <<>> /\ pc[c] = "idle"
    /\ answers' = IF job[c].ans.kind \in {"reg", "login"}
                  THEN [answers EXCEPT ![c] = Append(@, job[c].ans)] ELSE answers
    /\ job' = [job EXCEPT ![c] = NoJob]
    /\ UNCHANGED <<poolVars, tables, userConnMap, session, loggedIn, requests>>

Statement(t) ==
    \/ UserInsert(t) \/ GroupInsert(t) \/ InsertReturns(t) \/ InsertFails(t)
    \/ UserQuery(t) \/ UpdateState(t) \/ OfflineQuery(t) \/ OfflineRemove(t)
    \/ OfflineInsert(t) \/ FriendQuery(t) \/ FriendInsert(t) \/ MemberInsert(t)
    \/ GroupQuery(t) \/ GroupUsersQuery(t)

ClientStep(c) ==
    \/ Begin(c) \/ BeginLeave(c) \/ BeginLeaveUnknown(c) \/ BeginChat(c)
    \/ Check(c) \/ AddConn(c) \/ BindUser(c) \/ BindRefused(c) \/ LoginUndo(c)
    \/ Resolve(c) \/ UnbindUser(c) \/ Reply(c)

(* What a thread does without being asked anew; a sleeper's wake-up is not its own *)
ThreadStep(t) ==
    \/ Borrow(t) \/ (pc[t] = "woken" /\ Rewoken(t)) \/ Statement(t)
    \/ t \in Client /\ ClientStep(t)

AccountsNext == \E t \in Thread : ThreadStep(t) \/ Rewoken(t)
===============================================================================
