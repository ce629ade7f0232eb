------------------------------- MODULE Lobby --------------------------------
(* The single thread of the daemon: server::run and server::accept_cb           *)
(* (src/src/daemon/server.cpp), the life of a theme::client and the pumps its   *)
(* callback runs (src/src/daemon/client_common.cpp), over the sockets of        *)
(* module Sockets and the dispatcher of module Poller.  A daemon step is one    *)
(* system call with the code up to the next one; remote programs act between    *)
(* any two of them.  A definition X_bug is a mutant of X: a slip X could have,   *)
(* kept to show that the properties notice it.                                  *)
EXTENDS Poller

CONSTANT SplitFields    \* may a segment end inside a field?

ASSUME LobbyAssumption == SplitFields \in BOOLEAN

VARIABLES
    clients,    \* server::m_clients
    polling,    \* the clients with the flag e_polling
    writes,     \* length of m_writes
    at,         \* where the thread is
    cur,        \* the client whose callback runs
    stalled     \* history: accept() failed since the listener last had an event

lobbyVars == <<clients, polling, writes, at, cur, stalled>>
vars == <<sockVars, pollVars, lobbyVars>>

\* "loop": dispatch() between two callbacks.  "accept", "write": in accept_cb, in
\* pump_write.  "read", "oversize", "handle": in pump_read, before a read(), on an
\* element count over the limit, in the handler's read().
\* Three places have no way out: "overrun" and "spin", resume_read repeating
\* itself without EAGAIN, and "sigpipe", the process killed by a write.
Places == {"loop", "accept", "write", "read", "oversize", "handle", "overrun", "spin", "sigpipe"}
Down == at \in {"overrun", "spin", "sigpipe"}

\* The thread's states and the registries have the values the code gives them.
TypeOK ==
    /\ SocketsTypeOK
    /\ PollerTypeOK
    /\ clients \subseteq Conns
    /\ polling \subseteq clients
    /\ writes \in [Conns -> Nat]
    /\ at \in Places
    /\ cur \in Conns \cup {Nobody}
    /\ stalled \in BOOLEAN

Init ==
    /\ SocketsInit
    /\ PollerInit
    /\ clients = {}
    /\ polling = {}
    /\ writes = [c \in Conns |-> 0]
    /\ at = "loop"
    /\ cur = Nobody
    /\ stalled = FALSE

-----------------------------------------------------------------------------
\* dispatch().

\* Back in the loop of dispatch(): the callback returned.
Return ==
    /\ at' = "loop"
    /\ cur' = Nobody

EpollWait ==
    /\ at = "loop"
    /\ \E S \in SUBSET Items : epoll_wait(S)
    /\ UNCHANGED <<sockVars, lobbyVars>>

\* The flag e_polling outlives the client.
erase_bug(cli) ==
    /\ clients' = clients \ {cli}
    /\ writes' = [writes EXCEPT ![cli] = 0]
    /\ UNCHANGED polling

erase(cli) ==
    /\ clients' = clients \ {cli}
    /\ writes' = [writes EXCEPT ![cli] = 0]
    /\ polling' = polling \ {cli}

\* handle_dispatch with e_hup: the handler deletes itself and the client is
\* erased, which closes its socket.
DispatchHup(i) ==
    /\ at = "loop"
    /\ \E cli \in Conns :
        /\ cli = callbacks[fd[i]]
        /\ take_hup(i, fd[i])
        /\ close(cli)
        /\ erase(cli)
    /\ UNCHANGED <<at, cur, stalled>>

FirstPump(i) == IF "write" \in mask[i] THEN "write" ELSE "read"

\* The hang-up is left for the handler's next failed call.
HandledFirst_bug(i) == mask[i] = {"hup"}

HandledFirst(i) == "hup" \in mask[i]

\* handle_dispatch without e_hup: pump_write first, then pump_read.
DispatchEvent(i) ==
    /\ at = "loop"
    /\ ~HandledFirst(i)
    /\ take(i)
    /\ cur' = callbacks[fd[i]]
    /\ at' = FirstPump(i)
    /\ UNCHANGED <<sockVars, clients, polling, writes, stalled>>

DispatchAccept ==
    /\ at = "loop"
    /\ take(Listener)
    /\ at' = "accept"
    /\ stalled' = FALSE
    /\ UNCHANGED <<sockVars, clients, polling, writes, cur>>

-----------------------------------------------------------------------------
\* accept_cb() and the constructor of client.

\* One accept() for one event.
NextAccept_bug == Return

NextAccept == at' = "accept" /\ cur' = Nobody

\* The client is in m_clients whether or not add_fd succeeds (registered).
Accept(c, f, registered) ==
    /\ at = "accept"
    /\ accept(c, f)
    /\ clients' = clients \cup {c}
    /\ \/ registered /\ add_fd(c, f) /\ polling' = polling \cup {c}
       \/ ~registered /\ UNCHANGED <<pollVars, polling>>
    /\ NextAccept
    /\ UNCHANGED <<writes, stalled>>

AcceptDone ==
    /\ at = "accept" /\ Backlog = {}
    /\ Return
    /\ UNCHANGED <<sockVars, pollVars, clients, polling, writes, stalled>>

\* accept() fails with EMFILE and leaves the loop as EAGAIN does.
AcceptFails ==
    /\ at = "accept" /\ Backlog # {} /\ FreeFds = {}
    /\ Return
    /\ stalled' = TRUE
    /\ UNCHANGED <<sockVars, pollVars, clients, polling, writes>>

-----------------------------------------------------------------------------
\* pump_write(): resume_write on the front of m_writes until one is left over.

\* handle_dispatch goes on to pump_read if e_read was reported.
EndPumpWrite(c) ==
    /\ at' = IF "read" \in mask[c] THEN "read" ELSE "loop"
    /\ cur' = IF "read" \in mask[c] THEN c ELSE Nobody

\* One message for one event.
NextWrite_bug(c) == EndPumpWrite(c)

NextWrite(c) == at' = "write" /\ cur' = c

PumpWriteNone(c) ==
    /\ at = "write" /\ cur = c /\ writes[c] = 0
    /\ EndPumpWrite(c)
    /\ UNCHANGED <<sockVars, pollVars, clients, polling, writes, stalled>>

PumpWriteSent(c) ==
    /\ at = "write" /\ cur = c /\ writes[c] > 0
    /\ write(c)
    /\ writes' = [writes EXCEPT ![c] = @ - 1]
    /\ NextWrite(c)
    /\ UNCHANGED <<pollVars, clients, polling, stalled>>

PumpWriteBlocked(c) ==
    /\ at = "write" /\ cur = c /\ writes[c] > 0
    /\ WriteBlocks(c)
    /\ EndPumpWrite(c)
    /\ UNCHANGED <<pollVars, clients, polling, writes, stalled>>

PumpWriteFailed(c) ==
    /\ at = "write" /\ cur = c /\ writes[c] > 0
    /\ FailAndShutdown(c) /\ Wake(c)
    /\ EndPumpWrite(c)
    /\ UNCHANGED <<clients, polling, writes, stalled>>

PumpWriteKilled(c) ==
    /\ at = "write" /\ cur = c /\ writes[c] > 0
    /\ WriteKills(c)
    /\ at' = "sigpipe"
    /\ UNCHANGED <<sockVars, pollVars, clients, polling, writes, cur, stalled>>

-----------------------------------------------------------------------------
\* pump_read(): resume_read until EAGAIN, an error, or a handler that refuses.

\* A segment is read: a message is complete, or more of it is wanted, or the
\* element count it brought is over the limit.
ReadSegment(c) ==
    /\ at = "read" /\ cur = c
    /\ read(c)
    /\ at' \in {"read", "oversize", "handle"} \cup (IF SplitFields THEN {"spin"} ELSE {})
    /\ UNCHANGED <<pollVars, clients, polling, writes, cur, stalled>>

ReadBlocked(c) ==
    /\ at = "read" /\ cur = c /\ ReadBlocks(c)
    /\ Return
    /\ UNCHANGED <<sockVars, pollVars, clients, polling, writes, stalled>>

ReadFailed(c) ==
    /\ at = "read" /\ cur = c /\ ReadFails(c)
    /\ FailAndShutdown(c) /\ Wake(c)
    /\ Return
    /\ UNCHANGED <<clients, polling, writes, stalled>>

\* read() = 0 is taken for a successful read of no bytes: the loop of
\* resume_read asks again, and is answered the same, for good.
ReadAtEof(c) ==
    /\ at = "read" /\ cur = c /\ ReadEof(c)
    /\ at' = "overrun"
    /\ UNCHANGED <<sockVars, pollVars, clients, polling, writes, cur, stalled>>

ReadOversize(c) ==
    /\ at = "oversize" /\ cur = c
    /\ shutdown(c) /\ Wake(c)
    /\ Return
    /\ UNCHANGED <<clients, polling, writes, stalled>>

-----------------------------------------------------------------------------
\* The handler's read(), and what pump_read does with its answer.

\* pump_read erases the client instead of shutting it down.
HandleRefused_bug(c) ==
    /\ at = "handle" /\ cur = c
    /\ close(c) /\ erase(c)
    /\ Return
    /\ UNCHANGED <<pollVars, stalled>>

\* The handler says no, or leaves no struct to read.
HandleRefused(c) ==
    /\ at = "handle" /\ cur = c
    /\ shutdown(c) /\ Wake(c)
    /\ Return
    /\ UNCHANGED <<clients, polling, writes, stalled>>

\* One message for one event.
NextRead_bug(c) == Return

NextRead(c) == at' = "read" /\ cur' = c

HandleSilent(c) ==
    /\ at = "handle" /\ cur = c
    /\ NextRead(c)
    /\ UNCHANGED <<sockVars, pollVars, clients, polling, writes, stalled>>

\* enqueue_write() behind messages that wait already.
ReplyQueued(c) ==
    /\ at = "handle" /\ cur = c /\ writes[c] > 0
    /\ writes' = [writes EXCEPT ![c] = @ + 1]
    /\ NextRead(c)
    /\ UNCHANGED <<sockVars, pollVars, clients, polling, stalled>>

\* enqueue_write() tries an immediate write when nothing waits.
ReplySent(c) ==
    /\ at = "handle" /\ cur = c /\ writes[c] = 0
    /\ write(c)
    /\ NextRead(c)
    /\ UNCHANGED <<pollVars, clients, polling, writes, stalled>>

\* A message that failed is dropped.
Keep_bug(c) == UNCHANGED writes

\* What is not written at once, for whatever reason, goes to m_writes.
Keep(c) == writes' = [writes EXCEPT ![c] = 1]

ReplyBlocked(c) ==
    /\ at = "handle" /\ cur = c /\ writes[c] = 0
    /\ WriteBlocks(c)
    /\ Keep(c)
    /\ NextRead(c)
    /\ UNCHANGED <<pollVars, clients, polling, stalled>>

ReplyFailed(c) ==
    /\ at = "handle" /\ cur = c /\ writes[c] = 0
    /\ FailAndShutdown(c) /\ Wake(c)
    /\ Keep(c)
    /\ NextRead(c)
    /\ UNCHANGED <<clients, polling, stalled>>

ReplyKilled(c) ==
    /\ at = "handle" /\ cur = c /\ writes[c] = 0
    /\ WriteKills(c)
    /\ at' = "sigpipe"
    /\ UNCHANGED <<sockVars, pollVars, clients, polling, writes, cur, stalled>>

-----------------------------------------------------------------------------
\* Remote programs: each event of theirs is an edge for the poller.

PeerConnects(c) == Connect(c) /\ Wake(Listener) /\ UNCHANGED lobbyVars
PeerSends(c) == Send(c) /\ Wake(c) /\ UNCHANGED lobbyVars
PeerFin(c) == Fin(c) /\ Wake(c) /\ UNCHANGED lobbyVars
PeerRst(c) == Rst(c) /\ Wake(c) /\ UNCHANGED lobbyVars

\* Room in the send buffer is an edge only after a write that found none.
PeerDrains(c) ==
    /\ Drain(c)
    /\ IF blocked[c] THEN Wake(c) ELSE UNCHANGED pollVars
    /\ UNCHANGED lobbyVars

-----------------------------------------------------------------------------
Dispatch == \/ EpollWait
            \/ DispatchAccept
            \/ \E i \in batch \cap Conns : DispatchHup(i) \/ DispatchEvent(i)

AcceptLoop == \/ \E c \in Conns, f \in Fds, registered \in BOOLEAN : Accept(c, f, registered)
              \/ AcceptDone
              \/ AcceptFails

PumpWrite(c) == \/ PumpWriteNone(c) \/ PumpWriteSent(c) \/ PumpWriteBlocked(c)
                \/ PumpWriteFailed(c) \/ PumpWriteKilled(c)

PumpRead(c) == \/ ReadSegment(c) \/ ReadBlocked(c) \/ ReadFailed(c)
               \/ ReadAtEof(c) \/ ReadOversize(c)

Handle(c) == \/ HandleRefused(c) \/ HandleSilent(c)
             \/ ReplyQueued(c) \/ ReplySent(c) \/ ReplyBlocked(c)
             \/ ReplyFailed(c) \/ ReplyKilled(c)

Daemon == \/ Dispatch
          \/ AcceptLoop
          \/ \E c \in Conns : PumpWrite(c) \/ PumpRead(c) \/ Handle(c)

Peer(c) == PeerConnects(c) \/ PeerSends(c) \/ PeerFin(c) \/ PeerRst(c) \/ PeerDrains(c)

Next == Daemon \/ \E c \in Conns : Peer(c)

Spec == Init /\ [][Next]_vars

\* The thread runs; the kernel's ready list is first in, first out, so no item
\* of it is passed over for good; a remote program that is connected goes on
\* reading what it is sent.
Fairness ==
    /\ WF_vars(Daemon)
    /\ \A i \in Items : SF_vars(EpollWait /\ i \in batch')
    /\ \A c \in Conns : WF_vars(PeerDrains(c))

FairSpec == Spec /\ Fairness

-----------------------------------------------------------------------------
\* Safety.

\* A connection the epoll knows is exactly a client with e_polling, its
\* descriptor's callback is its own, and every client owns an open descriptor of
\* its own.  (Three registries, updated in five places: add_fd, the constructor
\* of client, the hang-up branch of dispatch, handle_dispatch and ~socket.)
RegistriesAgree ==
    /\ interest = polling \cup {Listener}
    /\ \A c \in Conns : c \in clients <=> fd[c] # NoFd
    /\ \A c, d \in Conns : fd[c] = fd[d] /\ fd[c] # NoFd => c = d
    /\ \A f \in Fds, c \in Conns : callbacks[f] = c <=> c \in polling /\ fd[c] = f

\* No event that is still to be dispatched, and no callback that runs, refers to
\* a client that has been erased or to a descriptor that has been reused: the
\* pointers epoll_wait() returned stay valid while callbacks delete clients.
BatchEventsLive ==
    /\ \A c \in batch \cap Conns : c \in polling /\ callbacks[fd[c]] = c
    /\ cur # Nobody => cur \in polling

\* Where an event of c still to be handled can be.
EventAhead(c, e) == c \in ready \/ (c \in batch /\ e \in mask[c])

\* With edge-triggered polling, input nobody is going to read is never read:
\* whatever is in the receive queue of a polled client has an event ahead, or
\* pump_read is on its way to it.
NoLostRead ==
    \A c \in polling : rx[c] > 0 =>
        \/ EventAhead(c, "read")
        \/ cur = c /\ at = "write" /\ "read" \in mask[c]
        \/ cur = c /\ at \in {"read", "oversize", "handle", "overrun", "spin", "sigpipe"}

\* A hang-up, the peer's or the daemon's own shutdown(), is always reported
\* again: it is the only thing that frees a client.
NoLostHup == \A c \in polling : HungUp(c) => EventAhead(c, "hup")

\* Queued replies wait for room that will be an edge, or have an event ahead.
NoLostWrite ==
    \A c \in polling : writes[c] > 0 =>
        \/ blocked[c] /\ room[c] = 0
        \/ EventAhead(c, "write") \/ EventAhead(c, "hup")
        \/ cur = c /\ at \in {"write", "sigpipe"}

\* Connections in the listen queue have an accept() ahead, unless accept() failed.
NoLostAccept == Backlog # {} => Listener \in ready \cup batch \/ at = "accept" \/ stalled

\* The daemon may be killed by a write to a connection its peer closed and then
\* aborted, but never by one to a connection the daemon itself has shut down:
\* after an error the message stays in m_writes, so enqueue_write does not write
\* again, and the hang-up is dispatched before the next pump_write.
KilledOnlyByPeer == at = "sigpipe" => link[cur] = "pipe"

-----------------------------------------------------------------------------
\* Liveness.  The thread can be stopped for good in the three places of Down.

\* A polled client whose connection is over is erased.
HupReaped == \A c \in Conns : (c \in polling /\ HungUp(c)) ~> (c \notin polling \/ Down)

\* What a polled client has been sent is read, unless the connection ends.
RequestsRead == \A c \in Conns : (c \in polling /\ rx[c] > 0) ~> (rx[c] = 0 \/ Down)

\* Queued replies are written while the peer keeps reading.
WritesFlushed == \A c \in Conns : (c \in polling /\ writes[c] > 0) ~> (writes[c] = 0 \/ Down)

\* A connection in the listen queue is accepted, unless descriptors ran out.
BacklogAccepted == \A c \in Conns : c \in Backlog ~> (c \notin Backlog \/ stalled \/ Down)

\* client_base.cpp:303-305: the processing loop is left to "request more data",
\* which "ideally" ends in EAGAIN "and return to processing other clients": no
\* client keeps the thread.
ReturnsToOthers == \A c \in Conns : cur = c ~> cur # c
=============================================================================
