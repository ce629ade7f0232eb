------------------------------- MODULE Poller -------------------------------
(* theme::epoll_dispatch (src/src/io/epoll.cpp): the callback map, and behind   *)
(* it the kernel's interest list and edge-triggered ready list (external).      *)
(* An item of the poller is the listening socket or an accepted connection.     *)
(* The operators constrain the variables of this module only.                   *)
EXTENDS Sockets, FiniteSets

CONSTANTS
    Listener,   \* the listening socket
    Nobody,     \* no client
    MaxEvents   \* std::size(m_events), 1024 in the code

ASSUME PollerAssumption ==
    /\ Listener \notin Conns
    /\ Nobody \notin Conns
    /\ MaxEvents \in Nat \ {0}

VARIABLES
    callbacks,  \* m_callbacks: the client the callback of a descriptor is bound to
    interest,   \* items EPOLL_CTL_ADDed and not EPOLL_CTL_DELeted
    ready,      \* items with an edge epoll_wait() has not reported
    batch,      \* items of m_events whose callback has not been called
    mask        \* events_mask of the items reported

pollVars == <<callbacks, interest, ready, batch, mask>>

Items == Conns \cup {Listener}

\* A client does not ask for e_write.
Events_bug == {"read", "hup"}

\* The events a client is polled for.
Events == {"read", "write", "hup"}

PollerTypeOK ==
    /\ callbacks \in [Fds -> Conns \cup {Nobody}]
    /\ interest \subseteq Items
    /\ ready \subseteq interest
    /\ batch \subseteq Items
    /\ mask \in [Items -> SUBSET Events]

\* After server::init_fds: only the listening socket is polled.
PollerInit ==
    /\ callbacks = [f \in Fds |-> Nobody]
    /\ interest = {Listener}
    /\ ready = {}
    /\ batch = {}
    /\ mask = [i \in Items |-> {}]

-----------------------------------------------------------------------------
\* The level of an item, in the events of poll_dispatch (an EPOLLHUP comes with
\* EPOLLIN and, once sending is over too, with EPOLLOUT).
Readiness(i) ==
    IF i = Listener
    THEN {e \in {"read"} : Backlog # {}}
    ELSE {e \in Events :
            \/ e = "read" /\ (rx[i] > 0 \/ HungUp(i))
            \/ e = "write" /\ (room[i] > 0 \/ shut[i] \/ link[i] \in {"reset", "pipe", "dead"})
            \/ e = "hup" /\ HungUp(i)}

\* An edge: something happened to the item.
Wake(i) ==
    /\ ready' = IF i \in interest THEN ready \cup {i} ELSE ready
    /\ UNCHANGED <<callbacks, interest, batch, mask>>

\* Items epoll_wait() returns: those of the ready list whose level is not empty,
\* at most MaxEvents of them; what it passes over without a level leaves the list.
Reported(S) ==
    LET found == {i \in ready : Readiness(i) # {}} IN
    /\ S \subseteq found
    /\ S = found \/ Cardinality(S) = MaxEvents
    /\ Cardinality(S) <= MaxEvents

epoll_wait(S) ==
    /\ batch = {}
    /\ ready # {} /\ Reported(S)
    /\ ready' = {i \in ready : Readiness(i) # {}} \ S
    /\ batch' = S
    /\ mask' = [i \in Items |-> IF i \in S THEN Readiness(i) ELSE {}]
    /\ UNCHANGED <<callbacks, interest>>

\* The loop of dispatch() takes the next event of the batch and calls its callback.
take(i) ==
    /\ i \in batch
    /\ batch' = batch \ {i}
    /\ UNCHANGED <<callbacks, interest, ready, mask>>

\* The hang-up branch of that loop, for the connection i: the descriptor is
\* deleted from the epoll before the callback, the map entry after it.
take_hup(i, f) ==
    /\ i \in batch /\ "hup" \in mask[i]
    /\ batch' = batch \ {i}
    /\ interest' = interest \ {i}
    /\ ready' = ready \ {i}
    /\ callbacks' = [callbacks EXCEPT ![f] = Nobody]
    /\ UNCHANGED mask

\* add_fd() of descriptor f for the connection c: the new item is ready at once
\* when it has a level.
add_fd(c, f) ==
    /\ callbacks[f] = Nobody
    /\ callbacks' = [callbacks EXCEPT ![f] = c]
    /\ interest' = interest \cup {c}
    /\ ready' = IF Readiness(c) # {} THEN ready \cup {c} ELSE ready
    /\ UNCHANGED <<batch, mask>>
=============================================================================
