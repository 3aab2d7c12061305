------------------------------ MODULE Messages ------------------------------
(***************************************************************************)
(* Direct messages of the user service: the tables direct_message_threads  *)
(* and direct_messages, MessageDal.Send and MarkThreadRead, and Broadcast, *)
(* which calls Send once per user.                                         *)
(*                                                                         *)
(* As in Team, a transaction is a sequence of statements under READ        *)
(* COMMITTED; its writes become visible at the commit, which is joined to  *)
(* its last UPDATE.  The row lock of a thread is also what a second INSERT *)
(* of the same pair_key waits for at the unique index.  Message ids come   *)
(* from a sequence, which a rollback does not give back.  Any statement    *)
(* may fail.  Contents and previews are left out.                          *)
(***************************************************************************)
EXTENDS Integers, FiniteSets

CONSTANTS
    MsgUsers,        \* user ids
    MsgProcs,        \* requests in progress
    NoMsg,         \* no request
    MaxMsgRequests,  \* bound: requests that arrive
    MaxMessages   \* bound: message ids drawn

ASSUME MessagesAssumption ==
    /\ MsgUsers \subseteq Nat \ {0}
    /\ IsFiniteSet(MsgUsers)
    /\ NoMsg \notin MsgProcs
    /\ MaxMsgRequests \in Nat
    /\ MaxMessages \in Nat

VARIABLES
    msgAlive,      \* users without deleted_at
    threads,    \* pairs with a thread
    unreadA,    \* direct_message_threads.unread_a
    unreadB,    \* direct_message_threads.unread_b
    last,       \* direct_message_threads.last_message_id
    messages,   \* direct_messages
    isRead,     \* ids of the messages with is_read
    lock,       \* the request that holds each thread's row lock
    nextId,     \* the sequence of direct_messages.id
    mrequests,   \* requests that have arrived
    mpc, mop,     \* the statement a request executes next, and its operation
    req,        \* its number
    user,       \* its user
    peer,      \* the other user of the thread
    mlisted,     \* the users a broadcast listed
    todo,       \* those it has yet to send to
    mid,        \* the id of the message it inserted
    marking     \* the messages it marks

store == <<threads, unreadA, unreadB, last, messages, isRead>>
process == <<mpc, mop, req, user, peer, mlisted, todo, mid, marking>>
msgVars == <<msgAlive, store, lock, nextId, mrequests, process>>

Pairs == {q \in MsgUsers \X MsgUsers : q[1] < q[2]}

\* The pair that A-B and B-A share.
messagePair(u, v) == IF u < v THEN <<u, v>> ELSE <<v, u>>

PairOf(p) == messagePair(user[p], peer[p])

MsgInit ==
    /\ msgAlive = MsgUsers
    /\ threads = {}
    /\ unreadA = [q \in Pairs |-> 0]
    /\ unreadB = [q \in Pairs |-> 0]
    /\ last = [q \in Pairs |-> 0]
    /\ messages = {}
    /\ isRead = {}
    /\ lock = [q \in Pairs |-> NoMsg]
    /\ nextId = 0
    /\ mrequests = 0
    /\ mpc = [p \in MsgProcs |-> "idle"]
    /\ mop = [p \in MsgProcs |-> "none"]
    /\ req = [p \in MsgProcs |-> 0]
    /\ user = [p \in MsgProcs |-> 0]
    /\ peer = [p \in MsgProcs |-> 0]
    /\ mlisted = [p \in MsgProcs |-> {}]
    /\ todo = [p \in MsgProcs |-> {}]
    /\ mid = [p \in MsgProcs |-> 0]
    /\ marking = [p \in MsgProcs |-> {}]

-----------------------------------------------------------------------------

MsgGoto(p, s) == mpc' = [mpc EXCEPT ![p] = s]

MsgLowest(S) == CHOOSE u \in S : \A v \in S : u <= v

Release(p) == lock' = [q \in Pairs |-> IF lock[q] = p THEN NoMsg ELSE lock[q]]

MsgClear(p) ==
    /\ MsgGoto(p, "idle")
    /\ mop' = [mop EXCEPT ![p] = "none"]
    /\ req' = [req EXCEPT ![p] = 0]
    /\ user' = [user EXCEPT ![p] = 0]
    /\ peer' = [peer EXCEPT ![p] = 0]
    /\ mlisted' = [mlisted EXCEPT ![p] = {}]
    /\ todo' = [todo EXCEPT ![p] = {}]
    /\ mid' = [mid EXCEPT ![p] = 0]
    /\ marking' = [marking EXCEPT ![p] = {}]

\* An error ends the request; a broadcast's earlier messages stay sent.
Abort(p) ==
    /\ Release(p)
    /\ MsgClear(p)
    /\ UNCHANGED <<msgAlive, store, nextId, mrequests>>

\* A statement or the connection fails.
Fail(p) == mpc[p] # "idle" /\ Abort(p)

\* A request to send v a message, to mark the thread with v read, or to send
\* the users in all a message.
MsgBegin(p, o, u, v, all) ==
    /\ mpc[p] = "idle"
    /\ mrequests < MaxMsgRequests
    /\ mrequests' = mrequests + 1
    /\ req' = [req EXCEPT ![p] = mrequests + 1]
    /\ mop' = [mop EXCEPT ![p] = o]
    /\ user' = [user EXCEPT ![p] = u]
    /\ peer' = [peer EXCEPT ![p] = v]
    /\ mlisted' = [mlisted EXCEPT ![p] = all]
    /\ todo' = [todo EXCEPT ![p] = all]
    /\ MsgGoto(p, CASE o = "send" -> "receiver" [] o = "read" -> "thread" [] OTHER -> "next")
    /\ UNCHANGED <<msgAlive, store, lock, nextId, mid, marking>>

Send(p, u, v) == u # v /\ MsgBegin(p, "send", u, v, {})
MarkRead(p, u, v) == u # v /\ MsgBegin(p, "read", u, v, {})

\* The sender must exist; the users are listed once.
Broadcast(p, u) == u \in msgAlive /\ MsgBegin(p, "broadcast", u, 0, msgAlive \ {u})

\* The loop of Broadcast, in the order of the ids.
NextReceiver(p) ==
    /\ mpc[p] = "next"
    /\ todo[p] # {}
    /\ peer' = [peer EXCEPT ![p] = MsgLowest(todo[p])]
    /\ todo' = [todo EXCEPT ![p] = todo[p] \ {MsgLowest(todo[p])}]
    /\ MsgGoto(p, "receiver")
    /\ UNCHANGED <<msgAlive, store, lock, nextId, mrequests, mop, req, user, mlisted, mid, marking>>

\* "sent to all"
BroadcastSent(p) ==
    /\ mpc[p] = "next"
    /\ todo[p] = {}
    /\ MsgGoto(p, "replied")
    /\ UNCHANGED <<msgAlive, store, lock, nextId, mrequests, mop, req, user, peer, mlisted, todo, mid, marking>>

Reply(p) ==
    /\ mpc[p] = "replied"
    /\ MsgClear(p)
    /\ UNCHANGED <<msgAlive, store, lock, nextId, mrequests>>

\* Mutant: a receiver who is gone is passed over.
MutPassesOver(p) ==
    IF mop[p] = "broadcast"
    THEN MsgGoto(p, "next") /\ UNCHANGED <<msgAlive, store, lock, nextId, mrequests, mop, req, user, peer, mlisted, todo, mid, marking>>
    ELSE Abort(p)

\* Send fails, and with it the broadcast.
NoReceiver(p) == Abort(p)

\* GetUserView, before the transaction.
CheckReceiver(p) ==
    /\ mpc[p] = "receiver"
    /\ IF peer[p] \in msgAlive
       THEN /\ MsgGoto(p, "thread")
            /\ UNCHANGED <<msgAlive, store, lock, nextId, mrequests, mop, req, user, peer, mlisted, todo, mid, marking>>
       ELSE NoReceiver(p)

\* Mutant: MarkThreadRead reads the thread without a lock.
MutReadUnlocked(o) == o # "read"

\* The operations that read the thread FOR UPDATE.
LocksThread(o) == o \in {"send", "broadcast", "read"}

\* SELECT the thread: MarkThreadRead has nothing to do without one, Send creates it.
FindThread(p) ==
    /\ mpc[p] = "thread"
    /\ LET q == PairOf(p)
       IN  IF q \in threads
           THEN /\ LocksThread(mop[p]) => lock[q] = NoMsg
                /\ lock' = IF LocksThread(mop[p]) THEN [lock EXCEPT ![q] = p] ELSE lock
                /\ MsgGoto(p, IF mop[p] = "read" THEN "mark" ELSE "insert")
           ELSE /\ MsgGoto(p, IF mop[p] = "read" THEN "replied" ELSE "create")
                /\ UNCHANGED lock
    /\ UNCHANGED <<msgAlive, store, nextId, mrequests, mop, req, user, peer, mlisted, todo, mid, marking>>

\* INSERT the thread; the unique index refuses a second one.
CreateThread(p) ==
    /\ mpc[p] = "create"
    /\ lock[PairOf(p)] = NoMsg
    /\ IF PairOf(p) \in threads
       THEN Abort(p)
       ELSE /\ lock' = [lock EXCEPT ![PairOf(p)] = p]
            /\ MsgGoto(p, "insert")
            /\ UNCHANGED <<msgAlive, store, nextId, mrequests, mop, req, user, peer, mlisted, todo, mid, marking>>

\* INSERT the message.
InsertMessage(p) ==
    /\ mpc[p] = "insert"
    /\ nextId < MaxMessages
    /\ nextId' = nextId + 1
    /\ mid' = [mid EXCEPT ![p] = nextId + 1]
    /\ MsgGoto(p, "update")
    /\ UNCHANGED <<msgAlive, store, lock, mrequests, mop, req, user, peer, mlisted, todo, marking>>

\* UPDATE the thread, and commit.
UpdateThread(p) ==
    /\ mpc[p] = "update"
    /\ LET q == PairOf(p)
           v == peer[p]
       IN  /\ lock[q] \in {NoMsg, p}
           /\ threads' = threads \cup {q}
           /\ messages' = messages \cup {[id |-> mid[p], thread |-> q, receiver |-> v, req |-> req[p]]}
           /\ last' = [last EXCEPT ![q] = mid[p]]
           /\ unreadA' = IF v = q[1] THEN [unreadA EXCEPT ![q] = @ + 1] ELSE unreadA
           /\ unreadB' = IF v = q[1] THEN unreadB ELSE [unreadB EXCEPT ![q] = @ + 1]
    /\ Release(p)
    /\ MsgGoto(p, IF mop[p] = "send" THEN "replied" ELSE "next")
    /\ mid' = [mid EXCEPT ![p] = 0]
    /\ UNCHANGED <<msgAlive, isRead, nextId, mrequests, mop, req, user, peer, mlisted, todo, marking>>

\* MarkThreadRead: UPDATE the unread messages to the user ...
MarkMessages(p) ==
    /\ mpc[p] = "mark"
    /\ marking' = [marking EXCEPT ![p] = {m.id : m \in {n \in messages :
                     n.thread = PairOf(p) /\ n.receiver = user[p]}} \ isRead]
    /\ MsgGoto(p, "reset")
    /\ UNCHANGED <<msgAlive, store, lock, nextId, mrequests, mop, req, user, peer, mlisted, todo, mid>>

\* The counter goes to zero, whatever it was.
ResetCounter(n) == 0

\* ... then the counter, and commit.
ResetUnread(p) ==
    /\ mpc[p] = "reset"
    /\ LET q == PairOf(p)
       IN  /\ lock[q] \in {NoMsg, p}
           /\ unreadA' = IF q[1] = user[p] THEN [unreadA EXCEPT ![q] = ResetCounter(@)] ELSE unreadA
           /\ unreadB' = IF q[1] = user[p] THEN unreadB ELSE [unreadB EXCEPT ![q] = ResetCounter(@)]
    /\ isRead' = isRead \cup marking[p]
    /\ Release(p)
    /\ MsgGoto(p, "replied")
    /\ UNCHANGED <<msgAlive, threads, last, messages, nextId, mrequests, mop, req, user, peer, mlisted, todo, mid, marking>>

\* ProfileDal.DeleteUser: messages and threads stay.
MsgDeleteUser(u) ==
    /\ u \in msgAlive
    /\ mrequests < MaxMsgRequests
    /\ mrequests' = mrequests + 1
    /\ msgAlive' = msgAlive \ {u}
    /\ UNCHANGED <<store, lock, nextId, process>>

-----------------------------------------------------------------------------

Step(p) ==
    \/ NextReceiver(p) \/ BroadcastSent(p) \/ Reply(p) \/ CheckReceiver(p) \/ FindThread(p)
    \/ CreateThread(p) \/ InsertMessage(p) \/ UpdateThread(p) \/ MarkMessages(p) \/ ResetUnread(p)

MsgNext ==
    \/ \E p \in MsgProcs :
          \/ Step(p)
          \/ Fail(p)
          \/ \E u \in MsgUsers : Broadcast(p, u)
          \/ \E u, v \in MsgUsers : Send(p, u, v) \/ MarkRead(p, u, v)
    \/ \E u \in MsgUsers : MsgDeleteUser(u)

MsgSpec == MsgInit /\ [][MsgNext]_msgVars

-----------------------------------------------------------------------------

\* Every row, lock and request has its type.
MsgTypeOK ==
    /\ msgAlive \subseteq MsgUsers
    /\ threads \subseteq Pairs
    /\ unreadA \in [Pairs -> Nat]
    /\ unreadB \in [Pairs -> Nat]
    /\ last \in [Pairs -> Nat]
    /\ messages \subseteq [id : Nat, thread : Pairs, receiver : MsgUsers, req : Nat]
    /\ isRead \subseteq Nat
    /\ lock \in [Pairs -> MsgProcs \cup {NoMsg}]
    /\ nextId \in Nat
    /\ mrequests \in Nat
    /\ mpc \in [MsgProcs -> {"idle", "next", "receiver", "thread", "create", "insert", "update",
                         "mark", "reset", "replied"}]
    /\ mop \in [MsgProcs -> {"none", "send", "broadcast", "read"}]
    /\ req \in [MsgProcs -> Nat]
    /\ user \in [MsgProcs -> MsgUsers \cup {0}]
    /\ peer \in [MsgProcs -> MsgUsers \cup {0}]
    /\ mlisted \in [MsgProcs -> SUBSET MsgUsers]
    /\ todo \in [MsgProcs -> SUBSET MsgUsers]
    /\ mid \in [MsgProcs -> Nat]
    /\ marking \in [MsgProcs -> SUBSET Nat]

UnreadTo(q, u) == {m \in messages : m.thread = q /\ m.receiver = u /\ m.id \notin isRead}

\* unread_a and unread_b are kept beside is_read, by Send and MarkThreadRead in
\* several statements: they always count exactly the unread messages to the user
\* with the lower and with the higher id.
UnreadMatches ==
    \A q \in Pairs :
        /\ unreadA[q] = Cardinality(UnreadTo(q, q[1]))
        /\ unreadB[q] = Cardinality(UnreadTo(q, q[2]))

\* Send stores last_message_id after it drew the id: whatever the order in which
\* senders of one thread commit, the thread shows its newest message.
LastIsNewest ==
    \A m \in messages : m.thread \in threads /\ m.id <= last[m.thread]

\* A Broadcast that replies "sent" has delivered exactly one message to each user
\* it listed, although Send fails for a user deleted meanwhile and for a thread
\* that somebody else creates at the same time.
BroadcastComplete ==
    \A p \in MsgProcs : mpc[p] = "replied" /\ mop[p] = "broadcast" =>
        \A u \in mlisted[p] : Cardinality({m \in messages : m.req = req[p] /\ m.receiver = u}) = 1

\* The columns a thread keeps beside its messages, unread_a, unread_b and
\* last_message_id, say what the messages say (dal/message.go:88-150, 285-327).
ThreadsAreTrue == UnreadMatches /\ LastIsNewest
=============================================================================
