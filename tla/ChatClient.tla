------------------------------ MODULE ChatClient ------------------------------
(***************************************************************************)
(* client/main.cpp: the thread that shows the menus and sends (main), the      *)
(* thread that receives (reader), and the semaphore and the globals between     *)
(* them, against the handlers of Accounts.  Connections deliver whole messages  *)
(* in order (ByteStream).                                                       *)
(***************************************************************************)
EXTENDS Accounts

CONSTANTS
    MaxAsk,    \* bound: commands the user at each client gives, beside logging out
    MaxChat,   \* bound: messages that are written
    Knows      \* bound: the ids of earlier runs a client's user logs in with, or 0 for a wrong one

ASSUME ClientAssumption ==
    /\ MaxAsk \in [Client -> Nat] /\ MaxChat \in Nat
    /\ Knows \in [Client -> SUBSET (0..Stored.users)]

VARIABLES
    main,      \* where the main thread is
    reader,    \* what the reader does next: take an answer, or sem_post
    sem,       \* rwSem
    isLoginSuccess,  \* g_isLoginSuccess
    currentUser,     \* g_currentUser
    friendList, groupList,  \* g_currentUserFriendList, g_currentUserGroupList
    asked,     \* commands given so far
    written,   \* messages written: to whom (0: a group), and the text
    read       \* texts shown

clientVars == <<main, reader, sem, isLoginSuccess, currentUser, friendList, groupList, asked>>
ghostVars  == <<written, read>>
vars == <<accVars, clientVars, ghostVars>>

TypeOK ==
    /\ AccountsTypeOK
    /\ main   \in [Client -> {"prompt", "waitLogin", "waitReg", "menu", "gone"}]
    /\ reader \in [Client -> {"recv", "post"}]
    /\ sem \in [Client -> 0..1]
    /\ isLoginSuccess \in [Client -> BOOLEAN]
    /\ currentUser \in [Client -> 0..MaxUser]
    /\ \A c \in Client : friendList[c] \subseteq friend /\ groupList[c] \subseteq GroupId

Init ==
    /\ AccountsInit
    /\ main   = [c \in Client |-> "prompt"]
    /\ reader = [c \in Client |-> "recv"]
    /\ sem    = [c \in Client |-> 0]
    /\ isLoginSuccess = [c \in Client |-> FALSE]
    /\ currentUser = [c \in Client |-> 0]
    /\ friendList  = [c \in Client |-> {}]
    /\ groupList   = [c \in Client |-> {}]
    /\ asked = [c \in Client |-> 0]
    /\ written = {} /\ read = {}

ServerUnchanged == UNCHANGED <<poolVars, tables, userConnMap, session, loggedIn, job>>

-----------------------------------------------------------------------------
(* The main thread *)

Ask(c) == asked[c] < MaxAsk[c] /\ asked' = [asked EXCEPT ![c] = @ + 1]

Give(c, op, id, arg, text) ==
    requests' = [requests EXCEPT ![c] =
                    Append(@, [op |-> op, id |-> id, arg |-> arg, text |-> text])]

GoTo(c, place) == main' = [main EXCEPT ![c] = place]

Pending(op, id) ==
    \E c \in Client :
        \E r \in {job[c].req} \union {requests[c][i] : i \in DOMAIN requests[c]} :
            r.op = op /\ r.id = id

(* Choice 1 *)
AskLogin(c) ==
    /\ main[c] = "prompt" /\ Ask(c)
    /\ \E id \in Knows[c] \union {u \in DOMAIN user : user[u].by = c} : Give(c, "login", id, 0, <<>>)
    /\ isLoginSuccess' = [isLoginSuccess EXCEPT ![c] = FALSE]
    /\ GoTo(c, "waitLogin")
    /\ UNCHANGED <<reader, sem, currentUser, friendList, groupList, answers, ghostVars>>
    /\ ServerUnchanged

(* Choice 2 *)
AskReg(c) ==
    /\ main[c] = "prompt" /\ Ask(c)
    /\ Len(user) + Cardinality({d \in Client : main[d] = "waitReg"}) < MaxUser
    /\ Give(c, "reg", 0, 0, <<>>)
    /\ GoTo(c, "waitReg")
    /\ UNCHANGED <<reader, sem, isLoginSuccess, currentUser, friendList, groupList, answers, ghostVars>>
    /\ ServerUnchanged

(* sem_wait returns *)
Wake(c) ==
    /\ main[c] \in {"waitLogin", "waitReg"} /\ sem[c] > 0
    /\ sem' = [sem EXCEPT ![c] = @ - 1]
    /\ GoTo(c, IF main[c] = "waitLogin" /\ isLoginSuccess[c] THEN "menu" ELSE "prompt")
    /\ UNCHANGED <<reader, isLoginSuccess, currentUser, friendList, groupList, asked, wire, ghostVars>>
    /\ ServerUnchanged

(* mainMenu: the commands that send a request and wait for nothing *)
Command(c, op, arg, text) ==
    /\ main[c] = "menu"
    /\ Give(c, op, currentUser[c], arg, text)
    /\ UNCHANGED <<reader, sem, isLoginSuccess, currentUser, friendList, groupList, answers, read>>
    /\ ServerUnchanged

AddFriend(c) ==
    /\ Ask(c)
    /\ \E f \in UserId \ {currentUser[c]} : Command(c, "addFriend", f, <<>>)
    /\ UNCHANGED <<main, written>>

CreateGroup(c) ==
    /\ Ask(c)
    /\ Len(group) < MaxGroup /\ \A u \in UserId : ~Pending("createGroup", u)
    /\ Command(c, "createGroup", 0, <<>>)
    /\ UNCHANGED <<main, written>>

AddGroup(c) ==
    /\ Ask(c)
    /\ \E g \in GroupId : Command(c, "addGroup", g, <<>>)
    /\ UNCHANGED <<main, written>>

Write(to, text) ==
    /\ Cardinality(written) < MaxChat
    /\ written' = written \union {<<to, text>>}

Chat(c) ==
    /\ Ask(c)
    /\ \E to \in UserId \ {currentUser[c]}, text \in Text :
          Command(c, "chat", to, text) /\ Write(to, text)
    /\ UNCHANGED main

GroupChat(c) ==
    /\ Ask(c)
    /\ \E g \in GroupId, text \in Text : Command(c, "groupChat", g, text) /\ Write(0, text)
    /\ UNCHANGED main

(* Slip: the menu is left although the request could not be sent *)
LogoutUnsent(c) ==
    /\ main[c] = "menu"
    /\ GoTo(c, "prompt")
    /\ UNCHANGED <<reader, sem, isLoginSuccess, currentUser, friendList, groupList, asked, wire, ghostVars>>
    /\ ServerUnchanged

Logout(c) == Command(c, "logout", 0, <<>>) /\ GoTo(c, "prompt") /\ UNCHANGED <<asked, written>>

(* Choice 3; in the menu, stoi throws at an id that is no number, and nobody      *)
(* catches it.  The server finds the connection closed.                          *)
Quit(c) ==
    /\ main[c] \in {"prompt", "menu"} /\ Ask(c)
    /\ Give(c, "close", 0, 0, <<>>)
    /\ GoTo(c, "gone")
    /\ UNCHANGED <<reader, sem, isLoginSuccess, currentUser, friendList, groupList, answers, ghostVars>>
    /\ ServerUnchanged

-----------------------------------------------------------------------------
(* The reader thread *)

Reading(c, kind) ==
    /\ main[c] # "gone" /\ reader[c] = "recv"
    /\ answers[c] # <<>> /\ Head(answers[c]).kind = kind
    /\ answers' = [answers EXCEPT ![c] = Tail(@)]
    /\ UNCHANGED requests /\ ServerUnchanged

ThenPost(c) == reader' = [reader EXCEPT ![c] = "post"]

ReadLive(c) ==
    /\ Reading(c, "live")
    /\ read' = read \union {Head(answers[c]).rows[1]}
    /\ UNCHANGED <<clientVars, written>>

ReadReg(c) ==
    /\ Reading(c, "reg")
    /\ ThenPost(c)
    /\ UNCHANGED <<main, sem, isLoginSuccess, currentUser, friendList, groupList, asked, ghostVars>>

(* Slip: only a login that went well is posted *)
ReadLoginRefusedSilently(c) ==
    /\ Reading(c, "login") /\ Head(answers[c]).errno # 0
    /\ isLoginSuccess' = [isLoginSuccess EXCEPT ![c] = FALSE]
    /\ UNCHANGED <<main, reader, sem, currentUser, friendList, groupList, asked, ghostVars>>

(* doLoginResponse, errno # 0 *)
ReadLoginRefused(c) ==
    /\ Reading(c, "login") /\ Head(answers[c]).errno # 0
    /\ isLoginSuccess' = [isLoginSuccess EXCEPT ![c] = FALSE]
    /\ ThenPost(c)
    /\ UNCHANGED <<main, sem, currentUser, friendList, groupList, asked, ghostVars>>

(* The offline messages are shown up to the first that json::parse throws at *)
Shown(rows) ==
    {Parse(rows[i]).text : i \in {j \in DOMAIN rows : \A k \in 1..j : Parse(rows[k]).ok}}
Throws(rows) == \E i \in DOMAIN rows : ~Parse(rows[i]).ok

(* Slip: the old list is not cleared *)
ListsKept(c, a) ==
    /\ friendList' = [friendList EXCEPT ![c] = @ \union a.friends]
    /\ groupList'  = [groupList EXCEPT ![c] = IF a.groups = {} THEN @ ELSE a.groups]

(* A list is replaced when the answer has the field: when it is not empty *)
Lists(c, a) ==
    /\ friendList' = [friendList EXCEPT ![c] = IF a.friends = {} THEN @ ELSE a.friends]
    /\ groupList'  = [groupList EXCEPT ![c] = IF a.groups = {} THEN @ ELSE a.groups]

(* doLoginResponse, errno 0; an exception ends it before the sem_post *)
ReadLogin(c) ==
    LET a == Head(answers[c])
    IN  /\ Reading(c, "login") /\ a.errno = 0
        /\ isLoginSuccess' = [isLoginSuccess EXCEPT ![c] = TRUE]
        /\ currentUser' = [currentUser EXCEPT ![c] = a.id]
        /\ Lists(c, a)
        /\ read' = read \union Shown(a.rows)
        /\ IF Throws(a.rows) THEN UNCHANGED reader ELSE ThenPost(c)
        /\ UNCHANGED <<main, sem, asked, written>>

Post(c) ==
    /\ main[c] # "gone" /\ reader[c] = "post"
    /\ sem' = [sem EXCEPT ![c] = @ + 1]
    /\ reader' = [reader EXCEPT ![c] = "recv"]
    /\ UNCHANGED <<main, isLoginSuccess, currentUser, friendList, groupList, asked, wire, ghostVars>>
    /\ ServerUnchanged

ReaderStep(c) == ReadLive(c) \/ ReadReg(c) \/ ReadLoginRefused(c) \/ ReadLogin(c) \/ Post(c)

UserStep(c) ==
    \/ AskLogin(c) \/ AskReg(c) \/ AddFriend(c) \/ CreateGroup(c) \/ AddGroup(c)
    \/ Chat(c) \/ GroupChat(c) \/ Logout(c) \/ Quit(c)

Next ==
    \/ AccountsNext /\ UNCHANGED <<clientVars, ghostVars>>
    \/ \E c \in Client : UserStep(c) \/ Wake(c) \/ ReaderStep(c)

Spec == Init /\ [][Next]_vars

(* The threads of the server and of the clients go on; users need not do anything *)
FairSpec ==
    /\ Spec
    /\ \A c \in Client :
          WF_vars(\/ ThreadStep(c) /\ UNCHANGED <<clientVars, ghostVars>>
                  \/ Wake(c) \/ ReaderStep(c))

-----------------------------------------------------------------------------
(* Properties *)

(* UserModel::insert and reg: the id a client is told to log in with is that of   *)
(* the row inserted for it, whoever registers at the same time.                  *)
AckedIdIsOwn ==
    \A c \in Client :
        \A a \in {job[c].ans} \union {answers[c][i] : i \in DOMAIN answers[c]} :
            a.kind = "reg" /\ a.errno = 0 => a.id \in DOMAIN user /\ user[a.id].by = c

(* createGroup: two statements on two borrowed connections, and the group is there   *)
(* for everybody in between: its founder is a member of it, or the handler is about    *)
(* to make it one.  (A server that ended in between leaves a group of the earlier       *)
(* kind, Stored, without one.)                                                      *)
Founding(c, g) ==
    \/ Next1(c, "createGroup") /\ job[c].got = "yes" /\ insertId[held[c]] = g
    \/ Next1(c, "addCreator") /\ job[c].req.arg = g

GroupFounded ==
    \A g \in DOMAIN group \ DOMAIN Stored.group :
        <<g, group[g]>> \in member \/ \E c \in Client : Founding(c, g) /\ Asker(c) = group[g]

(* A client and its connection, when nothing is under way between them *)
Settled(c) ==
    /\ requests[c] = <<>> /\ ~Busy(c) /\ answers[c] = <<>>
    /\ reader[c] = "recv" /\ sem[c] = 0

(* The semaphore and the flag between the client's two threads: what menu the user *)
(* is shown agrees with the server.  Nobody at the first prompt is logged in, who is    *)
(* in the menu is, as the user whose id goes into each of his requests, and no entry    *)
(* of the connection table brings a client the messages of another user.  (That his     *)
(* own entry is there yet is more than the code can promise: LoggedInIsFound.)          *)
ClientAgrees ==
    \A c \in Client :
        Settled(c) =>
            /\ main[c] \in {"prompt", "gone"} => loggedIn[c] = 0
            /\ main[c] = "menu" => loggedIn[c] # 0 /\ loggedIn[c] = currentUser[c]
            /\ \A u \in UserId : userConnMap[u] = c => loggedIn[c] = u

(* readTaskHandler posts rwSem after every answer, unless doLoginResponse throws: a  *)
(* user who logs in comes back to a menu, if there is a MySQL connection at all       *)
(* and as long as only plain texts are about.                                      *)
LoginSettles ==
    \A c \in Client :
        (made # {} /\ main[c] = "waitLogin")
            ~> (main[c] # "waitLogin" \/ \E w \in written : ~Plain(w[2]))

(* The places a message w of one user to another can be in: sent and not begun, in a    *)
(* handler's hands, in an answer that is being made or on its way (perhaps to a client    *)
(* that is gone), in its receiver's rows, shown.                                       *)
SentBy(c, w)  == \E i \in DOMAIN requests[c] :
                    requests[c][i].op = "chat" /\ requests[c][i].arg = w[1] /\ requests[c][i].text = w[2]
HeldBy(c, w)  == job[c].req.op = "chat" /\ job[c].req.text = w[2] /\ w[1] \in job[c].to
Unspoilt(rows, text) == \E i \in DOMAIN rows : Parse(rows[i]) = [ok |-> TRUE, text |-> text]
Tells(a, w) ==
    \/ a.kind = "live" /\ a.rows = <<w[2]>>
    \/ a.kind = "login" /\ a.id = w[1] /\ Unspoilt(a.rows, w[2])
ToldBy(c, w) == Tells(job[c].ans, w) \/ \E i \in DOMAIN answers[c] : Tells(answers[c][i], w)

Carries(w) ==
    \/ \E c \in Client : SentBy(c, w) \/ HeldBy(c, w) \/ ToldBy(c, w)
    \/ w[1] \in UserId /\ Unspoilt(offline[w[1]], w[2])
    \/ w[2] \in read

(* oneChat to login to doLoginResponse: a plain message to a registered user, one that    *)
(* the dump, the buffer, MySQL and the parser all leave alone, is shown as it was written   *)
(* or waits to be.  It vanishes in two ways only: login deletes more of its receiver's rows   *)
(* than it has read, or a row before it makes the client's parser throw.                    *)
PlainKept ==
    [][\A w \in written :
           /\ Plain(w[2]) /\ w[1] \in DOMAIN user /\ Carries(w) /\ ~Carries(w)'
           => \E c \in Client :
                 \/ OfflineRemove(c) /\ Asker(c) = w[1]
                 \/ ReadLogin(c) /\ Throws(Head(answers[c]).rows)]_vars

(* doLoginResponse: a friend list is replaced and never mixed, though the field is      *)
(* missing for a user who has no friends.                                          *)
ListsOfOneUser ==
    \A c \in Client : \A f, g \in friendList[c] : f[1] = g[1]

(* A row that says "online" of a user whom the connection table does not know, with   *)
(* no handler on its way to correct it: nobody will, before he logs in again.          *)
Correcting(c, u) ==
    /\ \E i \in DOMAIN Todo(c) : Todo(c)[i] = "setOffline"
    /\ u = Asker(c) \/ u \in job[c].to

Ghost(u) ==
    /\ u \in DOMAIN user /\ user[u].state = "online" /\ userConnMap[u] = None
    /\ \A c \in Client : ~Correcting(c, u)

(* login, logout and clientCloseException write the row with statements of their own,   *)
(* after they have changed the table.  In whatever order these reach MySQL, who takes   *)
(* a user from the table sees to his row.  Two steps only leave a ghost, and both want   *)
(* two logins of one user at a time: the undo of one that was refused, which erases the  *)
(* other's entry, and the "online" of one whose entry was erased before it wrote.        *)
GhostsOfDoubleLogins ==
    [][\A u \in UserId :
           ~Ghost(u) /\ Ghost(u)' =>
               \E c \in Client :
                   /\ Asker(c) = u
                   /\ LoginUndo(c) \/ (UpdateState(c) /\ Next1(c, "setOnline"))]_vars
===============================================================================
