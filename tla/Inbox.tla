-------------------------------- MODULE Inbox --------------------------------
(* What the reading requests of service/message.go answer from the tables of       *)
(* Messages: the list of conversations, the pages of one thread and the count of     *)
(* unread messages.  last_sent_at and created_at are ordered like the message ids.   *)
EXTENDS Messages, Sequences, SequencesExt, FiniteSetsExt

Smaller(m, n) == IF m < n THEN m ELSE n

\* normalizePage, and LIMIT and OFFSET.
normalizePage(page, size) ==
    [page |-> IF page <= 0 THEN 1 ELSE page, size |-> IF size <= 0 THEN 20 ELSE Smaller(size, 50)]
LimitOffset(rows, page, size) ==
    LET n == normalizePage(page, size)
    IN  SubSeq(rows, (n.page - 1) * n.size + 1, Smaller(n.page * n.size, Len(rows)))

\* userViewMap and GetUserView with deleted users; a user without a row is shown
\* as deleted (fallbackUserView).
UserView(u) == [id |-> u, deleted |-> u \notin msgAlive]

ThreadsOf(u) == {q \in threads : u \in {q[1], q[2]}}
ThreadUnread(q, u) == IF q[1] = u THEN unreadA[q] ELSE unreadB[q]
OtherOf(q, u) == IF q[1] = u THEN q[2] ELSE q[1]

ListConversations(u, page, size) ==
    LET rows == SetToSortSeq(ThreadsOf(u), LAMBDA q, r : last[q] > last[r])
        shown == LimitOffset(rows, page, size)
    IN  [total |-> Cardinality(ThreadsOf(u)),
         list |-> [k \in 1..Len(shown) |-> [thread |-> shown[k], other |-> UserView(OtherOf(shown[k], u)),
                                            unread |-> ThreadUnread(shown[k], u), last |-> last[shown[k]]]]]

\* The sums of unread_a over the threads with the user as a, and of unread_b.
UnreadCount(u) ==
    LET sum(S, f) == FoldSet(LAMBDA q, n : n + f[q], 0, S)
    IN  sum({q \in threads : q[1] = u}, unreadA) + sum({q \in threads : q[2] = u}, unreadB)

\* Conversations: the page and the count beside it.
Conversations(u, page, size) ==
    [rows |-> ListConversations(u, page, size).list, total |-> ListConversations(u, page, size).total,
     unread |-> UnreadCount(u)]

\* ListThreadMessages: the newest page first, each page in the order of the ids.
ListThreadMessages(u, v, page, size) ==
    LET rows == SetToSortSeq({m.id : m \in {n \in messages : n.thread = messagePair(u, v)}}, LAMBDA i, j : i > j)
    IN  [total |-> Len(rows), list |-> Reverse(LimitOffset(rows, page, size)), other |-> UserView(v)]

\* Thread: 0 and the user themselves are refused.
ThreadRefused(u, v) == v = 0 \/ v = u
Thread(u, v, page, size) ==
    IF ThreadRefused(u, v) THEN [total |-> 0, list |-> <<>>, other |-> UserView(v)] ELSE ListThreadMessages(u, v, page, size)

-----------------------------------------------------------------------------
\* The pages of a list, one after the other.
AllConversations(u, size) ==
    FlattenSeq([k \in 1..Cardinality(Pairs) |-> Conversations(u, k, size).rows])
AllMessages(u, v, size) ==
    FlattenSeq(Reverse([k \in 1..MaxMessages |-> Thread(u, v, k, size).list]))

\* The pages of Conversations, taken together, show every thread of the user once,
\* the newest first, and those counters add up to the count beside them, which is
\* the number of messages the user has not read, messages of deleted users included;
\* the pages of a thread put together are its messages in order, the same for both
\* users (service/message.go:171-235, dal/message.go:158-327).
InboxIsWhole ==
    \A u \in MsgUsers, size \in 1..2 :
        LET rows == AllConversations(u, size)
        IN  /\ ToSet(rows) = {[thread |-> q, other |-> UserView(OtherOf(q, u)), unread |-> ThreadUnread(q, u), last |-> last[q]] : q \in ThreadsOf(u)}
            /\ Len(rows) = Conversations(u, 1, size).total
            /\ \A k \in 1..(Len(rows) - 1) : rows[k].last > rows[k + 1].last
            /\ FoldSeq(LAMBDA r, n : n + r.unread, 0, rows) = UnreadCount(u)
            /\ UnreadCount(u) = Cardinality({m \in messages : m.receiver = u /\ m.id \notin isRead})
            /\ \A q \in ThreadsOf(u) :
                  LET all == AllMessages(u, OtherOf(q, u), size)
                  IN  /\ ToSet(all) = {m.id : m \in {n \in messages : n.thread = q}} /\ IsInjective(all)
                      /\ \A k \in 1..(Len(all) - 1) : all[k] < all[k + 1]
                      /\ all = AllMessages(OtherOf(q, u), u, size)
=============================================================================
