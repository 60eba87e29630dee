---------------------------- MODULE ConnectionPool ----------------------------
(***************************************************************************)
(* server/db/connectionpool.cpp: the MySQL connections that all handler      *)
(* threads of a process share.  Every model function borrows one for the      *)
(* length of a call and none borrows a second one meanwhile; the deleter of    *)
(* the shared_ptr it holds puts it back.  One critical section of mutex_ is     *)
(* one step; cv_.wait gives the mutex up while the thread sleeps, and a thread   *)
(* that is woken competes for it with those that come anew.                      *)
(***************************************************************************)
EXTENDS Naturals, Sequences, FiniteSets

CONSTANTS
    Thread,    \* handler threads
    PoolSize,  \* maxSize_; it comes from the environment and may be 0
    None

Handle == 1..PoolSize    \* the MySQL objects, in the order of their creation

ASSUME PoolAssumption == PoolSize \in Nat /\ None \notin Handle /\ IsFiniteSet(Thread)

VARIABLES
    queue,   \* queue_
    made,    \* the connections that could be opened
    pc,      \* of each thread
    held     \* the connection it has borrowed

poolVars == <<queue, made, pc, held>>

PoolTypeOK ==
    /\ queue \in Seq(made) /\ Len(queue) <= PoolSize /\ made \subseteq Handle
    /\ pc   \in [Thread -> {"idle", "asleep", "woken", "borrowed"}]
    /\ held \in [Thread -> made \union {None}]

(* The constructor pushes the connections that open and leaves the others out; *)
(* which of them open makes no difference                                       *)
PoolInit ==
    /\ made \in {1..k : k \in 0..PoolSize}
    /\ queue = [i \in made |-> i]
    /\ pc   = [t \in Thread |-> "idle"]
    /\ held = [t \in Thread |-> None]

Goto(t, l) == pc' = [pc EXCEPT ![t] = l]

(* Slip: front without pop *)
TakePeek(t) ==
    /\ queue # <<>>
    /\ held' = [held EXCEPT ![t] = Head(queue)]
    /\ Goto(t, "borrowed")
    /\ UNCHANGED queue

(* The rest of getConnection, when the predicate of cv_.wait holds *)
Take(t) ==
    /\ queue # <<>>
    /\ held' = [held EXCEPT ![t] = Head(queue)] /\ queue' = Tail(queue)
    /\ Goto(t, "borrowed")

Sleep(t) ==
    /\ queue = <<>>
    /\ Goto(t, "asleep")
    /\ UNCHANGED <<queue, held>>

GetConnection(t) ==
    /\ pc[t] = "idle"
    /\ Take(t) \/ Sleep(t)
    /\ UNCHANGED made

(* A woken thread has the mutex again and looks at the queue once more *)
Recheck(t) ==
    /\ pc[t] = "woken"
    /\ Take(t) \/ Sleep(t)
    /\ UNCHANGED made

(* A condition variable may wake a thread for no reason *)
Spurious(t) ==
    /\ pc[t] = "asleep"
    /\ Goto(t, "woken")
    /\ UNCHANGED <<queue, made, held>>

Asleep == {t \in Thread : pc[t] = "asleep"}
Woken  == {t \in Thread : pc[t] = "woken"}

(* The thread t goes on; notify_one wakes a sleeper when there is one *)
Notify(t) ==
    \/ Asleep = {} /\ Goto(t, "idle")
    \/ \E s \in Asleep : pc' = [pc EXCEPT ![t] = "idle", ![s] = "woken"]

(* Slip: the deleter does not notify *)
PutSilently(t) ==
    /\ pc[t] = "borrowed"
    /\ queue' = Append(queue, held[t]) /\ held' = [held EXCEPT ![t] = None]
    /\ Goto(t, "idle")
    /\ UNCHANGED made

(* Slip: the function puts the connection back, and so does the deleter *)
PutTwice(t) ==
    /\ pc[t] = "borrowed"
    /\ queue' = queue \o <<held[t], held[t]>> /\ held' = [held EXCEPT ![t] = None]
    /\ Notify(t)
    /\ UNCHANGED made

(* The deleter *)
PutBack(t) ==
    /\ pc[t] = "borrowed"
    /\ queue' = Append(queue, held[t]) /\ held' = [held EXCEPT ![t] = None]
    /\ Notify(t)
    /\ UNCHANGED made

-----------------------------------------------------------------------------
(* getConnection and its deleter: a MySQL connection, whose C API allows one    *)
(* statement at a time, is with one thread only or waits once in the queue, and  *)
(* none is lost.                                                                *)
Exclusive ==
    \A h \in made :
        LET spots == {<<"queue", i>> : i \in {j \in DOMAIN queue : queue[j] = h}}
                     \union {<<"thread", t>> : t \in {s \in Thread : held[s] = h}}
        IN  Cardinality(spots) = 1

(* The cv_ of getConnection against notify_one: a thread sleeps while            *)
(* connections wait only if as many threads have been woken to take them, whoever  *)
(* else took one on the way.                                                     *)
NoLostWakeup == Asleep # {} => Len(queue) <= Cardinality(Woken)
=============================================================================
