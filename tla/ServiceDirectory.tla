-------------------------- MODULE ServiceDirectory --------------------------
(* What the gateway's service watcher (app/gateway/client/servicewatch.go)     *)
(* promises the clients of a discovered service, whatever goroutines and locks *)
(* it uses: one published list of instances per service; a client that         *)
(* subscribes starts from that list; a delivery brings every open subscriber   *)
(* to it at once; a closed client is never touched again.                      *)
(* A list of instances is a number; 0 is the empty list.                       *)
EXTENDS Naturals

CONSTANTS Services, Clients, Lists
VARIABLES published,   \* service -> the list new subscribers are given
          view,        \* client  -> the list its picker chooses from
          subs,        \* service -> the clients on its delivery list
          closed       \* the clients that were closed

dirVars == <<published, view, subs, closed>>

DirInit ==
    /\ published = [s \in Services |-> 0]
    /\ view = [c \in Clients |-> 0]
    /\ subs = [s \in Services |-> {}]
    /\ closed = {}

Open(s) == subs[s] \ closed

\* A new list replaces the published one; an empty list never does.
Publish(s, l) ==
    /\ l # 0
    /\ published' = [published EXCEPT ![s] = l]
    /\ UNCHANGED <<view, subs, closed>>

\* Every open subscriber moves to the published list, in one step.
Deliver(s) ==
    /\ published[s] # 0
    /\ view' = [c \in Clients |-> IF c \in Open(s) THEN published[s] ELSE view[c]]
    /\ UNCHANGED <<published, subs, closed>>

\* A client subscribes and starts from the published list.
Subscribe(c, s) ==
    /\ \A t \in Services : c \notin subs[t]
    /\ c \notin closed
    /\ subs' = [subs EXCEPT ![s] = @ \cup {c}]
    /\ view' = [view EXCEPT ![c] = published[s]]
    /\ UNCHANGED <<published, closed>>

\* The first subscriber of a service also brings the first list (or none yet).
SubscribeFirst(c, s, l) ==
    /\ \A t \in Services : c \notin subs[t]
    /\ c \notin closed /\ published[s] = 0
    /\ published' = [published EXCEPT ![s] = l]
    /\ subs' = [subs EXCEPT ![s] = @ \cup {c}]
    /\ view' = [view EXCEPT ![c] = l]
    /\ UNCHANGED closed

\* A client is closed, and some time later its subscription is dropped.
Close(c) ==
    /\ closed' = closed \cup {c}
    /\ UNCHANGED <<published, view, subs>>

Forget(cs) ==
    /\ cs \subseteq closed
    /\ subs' = [s \in Services |-> subs[s] \ cs]
    /\ UNCHANGED <<published, view, closed>>

DirNext ==
    \/ \E s \in Services, l \in Lists : Publish(s, l)
    \/ \E s \in Services : Deliver(s)
    \/ \E c \in Clients, s \in Services : Subscribe(c, s)
    \/ \E c \in Clients, s \in Services, l \in Lists : SubscribeFirst(c, s, l)
    \/ \E c \in Clients : Close(c)
    \/ \E cs \in SUBSET Clients : Forget(cs)

DirSpec == DirInit /\ [][DirNext]_dirVars
=============================================================================
